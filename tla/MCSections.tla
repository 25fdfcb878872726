----------------------------- MODULE MCSections -----------------------------
(***************************************************************************)
(* The section scan over every journal a guest can leave: a guest makes    *)
(* any calls, its journal stops anywhere, and the runtime forks it at the  *)
(* offset the scan returns (processes.go Retry, recovery.go).              *)
(***************************************************************************)
EXTENDS Sections

CONSTANT MaxScanned   \* bound on the calls of a journal

VARIABLE journal

(* The names the scan tells apart: "work" stands for every other call. *)
ScanNames == {"begin", "commit", "work"}

WalkInit == journal = << >>

(* A call is journaled as an intent, *)
JournalIntent(name) == /\ Len(journal) % 2 = 0
                       /\ CompletedCalls(journal) < MaxScanned
                       /\ journal' = Append(journal, name)

(* and completed. *)
JournalCompletion == /\ Len(journal) % 2 = 1
                     /\ journal' = Append(journal, "result")

(* A resume or an abort forks at the open section. *)
ForkAtSection == /\ outermostOpenBegin(journal).open
                 /\ journal' = SubSeq(journal, 1, outermostOpenBegin(journal).forkOffset)

(* A restart forks at 0. *)
ForkAtStart == journal' = << >>

WalkNext == \/ \E name \in ScanNames : JournalIntent(name)
            \/ JournalCompletion
            \/ ForkAtSection
            \/ ForkAtStart

WalkSpec == WalkInit /\ [][WalkNext]_journal

-----------------------------------------------------------------------------
(* The one-pass scan of outermostOpenBegin agrees with the definition by
   matching: a section is open when some begin is unmatched, and the fork offset
   is one past the completion of the first unmatched begin, stray commits and an
   open last call notwithstanding. *)
ScanFindsOutermost == OutermostFound(journal)

(* A fork keeps the marker it forked at, and with it the section: the program is
   inside the same section again, so that a second abort forks at the same place,
   and the fork drops no call made before the section (recovery.go). *)
ForkStaysInSection ==
    [][ForkAtSection => StaysInSection(journal, journal')]_journal
=============================================================================
