------------------------------ MODULE MCReplay ------------------------------
(* Replay on a small instance: two syscalls, two answers, three calls. *)
EXTENDS Replay
=============================================================================
