------------------------------- MODULE Quanta -------------------------------
(***************************************************************************)
(* What the worker pool promises whoever submits a quantum, with neither   *)
(* workers nor queue: a submission waits, runs once or is dropped because  *)
(* its context ended, and yields one result.  Pool.tla and Runtime.tla are *)
(* shown to implement it.                                                  *)
(***************************************************************************)
CONSTANT Submissions

VARIABLES life, done  \* a submission's stage, and whether its context has ended

Stages == {"none", "queued", "live", "ended"}

QuantaInit == /\ life = [s \in Submissions |-> "none"]
              /\ done = [s \in Submissions |-> FALSE]

Submits(s) == /\ life[s] = "none" /\ ~done[s]
              /\ life' = [life EXCEPT ![s] = "queued"]
              /\ UNCHANGED done

(* "A submission cancelled while it waited never starts." *)
Starts(s) == /\ life[s] = "queued" /\ ~done[s]
             /\ life' = [life EXCEPT ![s] = "live"]
             /\ UNCHANGED done

Drops(s) == /\ life[s] = "queued" /\ done[s]
            /\ life' = [life EXCEPT ![s] = "ended"]
            /\ UNCHANGED done

Finishes(s) == /\ life[s] = "live"
               /\ life' = [life EXCEPT ![s] = "ended"]
               /\ UNCHANGED done

(* Its submitter takes the result; the next submission has a context of its own. *)
Takes(s) == /\ life[s] = "ended"
            /\ life' = [life EXCEPT ![s] = "none"]
            /\ \E ended \in BOOLEAN : done' = [done EXCEPT ![s] = ended]

(* Contexts end, one or all, and do not come back. *)
Cancels == /\ done' \in [Submissions -> BOOLEAN]
           /\ \A s \in Submissions : done[s] => done'[s]
           /\ UNCHANGED life

(* The host restarts. *)
Resets == /\ life' = [s \in Submissions |-> "none"]
          /\ done' = [s \in Submissions |-> FALSE]

QuantaNext == \/ \E s \in Submissions : \/ Submits(s) \/ Starts(s) \/ Drops(s)
                                        \/ Finishes(s) \/ Takes(s)
              \/ Cancels \/ Resets

QuantaSpec == QuantaInit /\ [][QuantaNext]_<<life, done>>
=============================================================================
