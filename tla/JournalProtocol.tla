--------------------------- MODULE JournalProtocol ---------------------------
(***************************************************************************)
(* What a process's journal promises, whoever stores it (journaled.Journal *)
(* and the protocol comment of replay.Tape): a sequence of records that    *)
(* alternates intents and completions.  A record is appended at the tail.  *)
(* A fork cuts the journal back to a whole number of completed calls.      *)
(* Nothing else ever happens to it: a crash, a restart, a replay leave it  *)
(* as it is.                                                               *)
(*                                                                         *)
(* Replay.tla (the tape) and ProcessJournal.tla (the store) implement it.  *)
(***************************************************************************)
EXTENDS Naturals, Sequences

CONSTANTS
    Intents,      \* the intent records
    Completions   \* the completion records

VARIABLE journal

(* Journal positions start at 0 in the code; the record at position p is
   journal[p + 1]. *)
Even(n) == n % 2 = 0

Init == journal = << >>

(* An intent opens a call: only when no call is open. *)
Open == /\ Even(Len(journal))
        /\ \E r \in Intents : journal' = Append(journal, r)

(* A completion closes the call that is open. *)
Close == /\ ~Even(Len(journal))
         /\ \E r \in Completions : journal' = Append(journal, r)

(* A new revision keeps the calls completed before its fork offset. *)
Cut == \E k \in 0 .. Len(journal) :
          /\ Even(k)
          /\ journal' = SubSeq(journal, 1, k)

Next == Open \/ Close \/ Cut

Spec == Init /\ [][Next]_journal
=============================================================================
