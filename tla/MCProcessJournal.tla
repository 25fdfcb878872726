-------------------------- MODULE MCProcessJournal --------------------------
(* ProcessJournal on a small instance.  Payloads are interchangeable: nothing
   looks inside one, and every property is a safety property. *)
EXTENDS ProcessJournal, TLC

PayloadSymmetry == Permutations(Payloads)
=============================================================================
