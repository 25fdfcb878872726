---------------------------- MODULE RuntimeProofs ----------------------------
(***************************************************************************)
(* What Runtime.tla promises, for any number of processes, any calls and   *)
(* any bounds, and what Sections.tla computes, for every journal.          *)
(*                                                                         *)
(* The scan is a recursive function.  That it has the value its equation   *)
(* says, and every fact about it, is by induction over the naturals, which *)
(* the lemma Induction gives for a set of them: a set of naturals without  *)
(* a least member is empty.  The order a restart sorts the processes into  *)
(* exists by the same induction, over the size of the set.                 *)
(*                                                                         *)
(* The invariant follows the session's lock.  A live process holds the     *)
(* session and is its latest (Holder), which keeps every other process     *)
(* from being launched; a goroutine before its submit and after its record *)
(* has no quantum and no cancelled context (Local); the log may lag behind *)
(* a journal only for the latest process, once its goroutine is gone       *)
(* (JournalLogged).  These hold whatever the log does.  With a log that    *)
(* takes every event (Quiet), the log also has every state while the       *)
(* runtime is open (Current), and a parked process holds its session,      *)
(* unless a restart handed it to an interrupted process before it          *)
(* (Parked).                                                               *)
(*                                                                         *)
(* That the history stays frozen needs a second invariant (Succession):    *)
(* creation times never change, in memory or in the log, so that nobody    *)
(* whom a later process also follows by date and id is ever listed last.   *)
(***************************************************************************)
EXTENDS Runtime, MCSections, Integers, FiniteSetTheorems, WellFoundedInduction, TLAPS

-----------------------------------------------------------------------------
(* Induction. *)

LEMMA LessWellFounded ==
    \E R : IsWellFoundedOn(R, Nat) /\ \A x, y \in Nat : x < y => <<x, y>> \in R
<1> DEFINE R == OpToRel(<, Nat)
<1>1. IsWellFoundedOn(R, Nat)
  BY NatLessThanWellFounded
<1>2. \A x, y \in Nat : x < y => <<x, y>> \in R
  BY DEF OpToRel
<1> HIDE DEF R
<1> QED BY <1>1, <1>2, Zenon

(* Every set of naturals has a least element. *)
LEMMA LeastNumber ==
    ASSUME NEW T \in SUBSET Nat, T # {}
    PROVE  \E x \in T : \A y \in T : x <= y
<1>1. PICK R : IsWellFoundedOn(R, Nat) /\ \A x, y \in Nat : x < y => <<x, y>> \in R
  BY LessWellFounded
<1>2. IsWellFoundedOn(R, Nat) /\ T \subseteq Nat
  BY <1>1
<1>3. \E x \in T : \A y \in T : ~(<<y, x>> \in R)
  BY <1>2, WFMin, Zenon
<1>4. PICK x \in T : \A y \in T : ~(<<y, x>> \in R)
  BY <1>3
<1>5. \A y \in T : ~(y < x)
  BY <1>1, <1>4
<1> QED BY <1>5

(* Induction over the naturals, for a set of them. *)
LEMMA Induction ==
    ASSUME NEW T, 0 \in T, \A n \in Nat : n \in T => n + 1 \in T
    PROVE  Nat \subseteq T
<1> SUFFICES ASSUME Nat \ T # {} PROVE FALSE
  OBVIOUS
<1>1. PICK x \in Nat \ T : \A y \in Nat \ T : x <= y
  BY LeastNumber
<1>2. x # 0 /\ x - 1 \in Nat
  BY <1>1
<1>3. x - 1 \in T
  BY <1>1, <1>2
<1>4. (x - 1) + 1 \in T
  BY <1>2, <1>3
<1> QED BY <1>1, <1>2, <1>4

-----------------------------------------------------------------------------
Start == [depth |-> 0, forkOffset |-> 0]

Scans(j, m, g) == g = [n \in 0 .. m |-> IF n = 0 THEN Start
                                         ELSE ScanCall(CallAt(j, n), n, g[n - 1])]

(* The scan's equation has a solution, and so the scan satisfies it. *)
LEMMA ScanExists ==
    ASSUME NEW j, NEW m \in Nat
    PROVE  \E g : Scans(j, m, g)
<1> DEFINE T == {k \in Nat : \E g : Scans(j, k, g)}
<1>1. 0 \in T
  <2>1. Scans(j, 0, [n \in 0 .. 0 |-> Start])
    BY DEF Scans
  <2> QED BY <2>1
<1>2. ASSUME NEW k \in Nat, k \in T PROVE k + 1 \in T
  <2>1. PICK g : Scans(j, k, g)
    BY <1>2
  <2> DEFINE h == [n \in 0 .. k + 1 |->
                     IF n = k + 1 THEN ScanCall(CallAt(j, n), n, g[n - 1]) ELSE g[n]]
  <2>2. ASSUME NEW n \in 0 .. k + 1
        PROVE  h[n] = IF n = 0 THEN Start ELSE ScanCall(CallAt(j, n), n, h[n - 1])
    <3>1. CASE n = k + 1
      BY <3>1
    <3>2. CASE n \in 0 .. k
      <4>1. h[n] = g[n] /\ (n # 0 => h[n - 1] = g[n - 1])
        BY <3>2
      <4>2. g[n] = IF n = 0 THEN Start ELSE ScanCall(CallAt(j, n), n, g[n - 1])
        BY <2>1, <3>2 DEF Scans
      <4> QED BY <4>1, <4>2
    <3> QED BY <3>1, <3>2
  <2>3. Scans(j, k + 1, h)
    BY <2>2 DEF Scans
  <2> QED BY <2>3
<1> HIDE DEF T
<1>3. Nat \subseteq T
  BY <1>1, <1>2, Induction
<1> QED BY <1>3 DEF T

LEMMA ScanEquation ==
    ASSUME NEW j, CompletedCalls(j) \in Nat
    PROVE  Scans(j, CompletedCalls(j), Scan(j))
<1>1. \E g : Scans(j, CompletedCalls(j), g)
  BY ScanExists
<1>2. Scan(j) = CHOOSE g : Scans(j, CompletedCalls(j), g)
  BY DEF Scan, Scans, Start
<1> QED BY <1>1, <1>2

LEMMA JournalLength ==
    ASSUME NEW S, NEW j \in Seq(S)
    PROVE  /\ Len(j) \in Nat /\ CompletedCalls(j) \in Nat
           /\ Len(j) \in {2 * CompletedCalls(j), 2 * CompletedCalls(j) + 1}
BY DEF CompletedCalls

LEMMA ScanStep ==
    ASSUME NEW S, NEW j \in Seq(S)
    PROVE  /\ Scan(j)[0] = Start
           /\ \A n \in 1 .. CompletedCalls(j) :
                 Scan(j)[n] = ScanCall(CallAt(j, n), n, Scan(j)[n - 1])
<1> DEFINE C == CompletedCalls(j)
           g == Scan(j)
<1>1. C \in Nat
  BY JournalLength
<1>2. g = [n \in 0 .. C |-> IF n = 0 THEN Start ELSE ScanCall(CallAt(j, n), n, g[n - 1])]
  BY <1>1, ScanEquation DEF Scans
<1> HIDE DEF C, g
<1>3. \A n \in 0 .. C : g[n] = IF n = 0 THEN Start ELSE ScanCall(CallAt(j, n), n, g[n - 1])
  BY <1>2
<1>4. g[0] = Start /\ \A n \in 1 .. C : g[n] = ScanCall(CallAt(j, n), n, g[n - 1])
  BY <1>1, <1>3
<1> QED BY <1>4 DEF C, g

(* What one call does to where the scan stands. *)
Standing == [depth : Nat, forkOffset : Nat]

LEMMA ScanCallCases ==
    ASSUME NEW name, NEW n, NEW before \in Standing
    PROVE  /\ name = "begin" =>
                 ScanCall(name, n, before) =
                    [depth |-> before.depth + 1,
                     forkOffset |-> IF before.depth = 0 THEN 2 * n ELSE before.forkOffset]
           /\ (name = "commit" /\ before.depth > 0) =>
                 ScanCall(name, n, before) =
                    [depth |-> before.depth - 1, forkOffset |-> before.forkOffset]
           /\ (name # "begin" /\ ~(name = "commit" /\ before.depth > 0)) =>
                 ScanCall(name, n, before) = before
<1>1. ASSUME name = "begin"
      PROVE  ScanCall(name, n, before) =
                [depth |-> before.depth + 1,
                 forkOffset |-> IF before.depth = 0 THEN 2 * n ELSE before.forkOffset]
  BY <1>1 DEF ScanCall
<1>2. ASSUME name = "commit", before.depth > 0
      PROVE  ScanCall(name, n, before) =
                [depth |-> before.depth - 1, forkOffset |-> before.forkOffset]
  BY <1>2 DEF ScanCall, Standing
<1>3. ASSUME name # "begin", ~(name = "commit" /\ before.depth > 0)
      PROVE  ScanCall(name, n, before) = before
  BY <1>3 DEF ScanCall
<1> QED BY <1>1, <1>2, <1>3

(* The fork offset never lies beyond the calls scanned. *)
LEMMA ScanRange ==
    ASSUME NEW S, NEW j \in Seq(S)
    PROVE  \A n \in 0 .. CompletedCalls(j) :
              Scan(j)[n] \in Standing /\ Scan(j)[n].forkOffset <= 2 * n
<1> DEFINE C == CompletedCalls(j)
           g == Scan(j)
           T == {n \in Nat : n <= C => g[n] \in Standing /\ g[n].forkOffset <= 2 * n}
<1>1. C \in Nat
  BY JournalLength
<1>2. g[0] = Start /\ \A n \in 1 .. C : g[n] = ScanCall(CallAt(j, n), n, g[n - 1])
  BY ScanStep
<1> HIDE DEF C, g
<1>3. 0 \in T
  BY <1>2 DEF Start, Standing
<1>4. ASSUME NEW n \in Nat, n \in T PROVE n + 1 \in T
  <2> SUFFICES ASSUME n + 1 <= C
               PROVE  g[n + 1] \in Standing /\ g[n + 1].forkOffset <= 2 * (n + 1)
    OBVIOUS
  <2>1. g[n] \in Standing /\ g[n].forkOffset <= 2 * n
    BY <1>1, <1>4
  <2>2. g[n + 1] = ScanCall(CallAt(j, n + 1), n + 1, g[n])
    BY <1>1, <1>2
  <2> DEFINE b == g[n]
             name == CallAt(j, n + 1)
  <2>3. b \in Standing /\ b.forkOffset <= 2 * n /\ b.depth \in Nat /\ b.forkOffset \in Nat
    BY <2>1 DEF Standing
  <2> HIDE DEF b, name
  <2>4. CASE name = "begin"
    <3>1. ScanCall(name, n + 1, b) =
             [depth |-> b.depth + 1,
              forkOffset |-> IF b.depth = 0 THEN 2 * (n + 1) ELSE b.forkOffset]
      BY <2>3, <2>4, ScanCallCases
    <3> DEFINE fork == IF b.depth = 0 THEN 2 * (n + 1) ELSE b.forkOffset
    <3>2. b.depth + 1 \in Nat /\ fork \in Nat /\ fork <= 2 * (n + 1)
      BY <2>3
    <3>3. g[n + 1] = [depth |-> b.depth + 1, forkOffset |-> fork]
      BY <2>2, <3>1 DEF b, name
    <3> HIDE DEF fork
    <3> QED BY <3>2, <3>3 DEF Standing
  <2>5. CASE name = "commit" /\ b.depth > 0
    <3>1. ScanCall(name, n + 1, b) = [depth |-> b.depth - 1, forkOffset |-> b.forkOffset]
      BY <2>3, <2>5, ScanCallCases
    <3>2. b.depth - 1 \in Nat
      BY <2>3, <2>5
    <3>3. g[n + 1] = [depth |-> b.depth - 1, forkOffset |-> b.forkOffset]
      BY <2>2, <3>1 DEF b, name
    <3> QED BY <2>3, <3>2, <3>3 DEF Standing
  <2>6. CASE name # "begin" /\ ~(name = "commit" /\ b.depth > 0)
    <3>1. ScanCall(name, n + 1, b) = b
      BY <2>3, <2>6, ScanCallCases
    <3> QED BY <2>2, <2>3, <3>1 DEF b, name
  <2> QED BY <2>4, <2>5, <2>6
<1> HIDE DEF T
<1>5. Nat \subseteq T
  BY <1>3, <1>4, Induction
<1> QED BY <1>1, <1>5 DEF T, C, g

(* So the offset a fork is made at lies in the journal. *)
LEMMA ForkOffsetInside ==
    ASSUME NEW S, NEW j \in Seq(S)
    PROVE  outermostOpenBegin(j).forkOffset \in 0 .. Len(j)
<1>1. CompletedCalls(j) \in Nat /\ 2 * CompletedCalls(j) <= Len(j) /\ Len(j) \in Nat
  BY JournalLength
<1>2. /\ Scan(j)[CompletedCalls(j)] \in Standing
      /\ Scan(j)[CompletedCalls(j)].forkOffset <= 2 * CompletedCalls(j)
  BY <1>1, ScanRange
<1> QED BY <1>1, <1>2 DEF outermostOpenBegin, Standing

-----------------------------------------------------------------------------
(* Counting one call more. *)
LEMMA CountStep ==
    ASSUME NEW j, NEW name, NEW a \in Nat, NEW b \in Nat, a <= b + 1
    PROVE  /\ Count(j, name, a, b) \in Nat
           /\ Count(j, name, a, b + 1) =
                 Count(j, name, a, b) + (IF CallAt(j, b + 1) = name THEN 1 ELSE 0)
<1> DEFINE here == {n \in a .. b : CallAt(j, n) = name}
           more == {n \in a .. b + 1 : CallAt(j, n) = name}
<1>1. IsFiniteSet(a .. b)
  BY FS_Interval
<1>2. IsFiniteSet(here)
  BY <1>1, FS_Subset
<1>3. Cardinality(here) \in Nat
  BY <1>2, FS_CardinalityType
<1>4. CASE CallAt(j, b + 1) = name
  <2>1. more = here \cup {b + 1} /\ b + 1 \notin here
    BY <1>4
  <2> HIDE DEF here, more
  <2>2. Cardinality(more) = Cardinality(here) + 1
    BY <1>2, <2>1, FS_AddElement
  <2> QED BY <1>3, <1>4, <2>2 DEF Count, here, more
<1>5. CASE CallAt(j, b + 1) # name
  <2>1. more = here
    BY <1>5
  <2>2. Cardinality(more) = Cardinality(here)
    BY <2>1
  <2> HIDE DEF here, more
  <2> QED BY <1>3, <1>5, <2>2 DEF Count, here, more
<1> QED BY <1>4, <1>5

LEMMA CountNone ==
    ASSUME NEW j, NEW name, NEW b \in Nat
    PROVE  Count(j, name, b + 1, b) = 0
<1>1. {n \in b + 1 .. b : CallAt(j, n) = name} = {}
  OBVIOUS
<1> QED BY <1>1, FS_EmptySet DEF Count

Depth(j, n)  == Scan(j)[n].depth
Offset(j, n) == Scan(j)[n].forkOffset

(* The scan, field by field. *)
LEMMA ScanFields ==
    ASSUME NEW S, NEW j \in Seq(S)
    PROVE  /\ Depth(j, 0) = 0
           /\ \A n \in 0 .. CompletedCalls(j) : Depth(j, n) \in Nat /\ Offset(j, n) \in Nat
           /\ \A n \in Nat : n + 1 <= CompletedCalls(j) =>
                 LET name == CallAt(j, n + 1)
                 IN  /\ name = "begin" =>
                           /\ Depth(j, n + 1) = Depth(j, n) + 1
                           /\ Offset(j, n + 1) = IF Depth(j, n) = 0 THEN 2 * (n + 1)
                                                 ELSE Offset(j, n)
                     /\ name = "commit" /\ Depth(j, n) > 0 =>
                           /\ Depth(j, n + 1) = Depth(j, n) - 1
                           /\ Offset(j, n + 1) = Offset(j, n)
                     /\ name # "begin" /\ ~(name = "commit" /\ Depth(j, n) > 0) =>
                           /\ Depth(j, n + 1) = Depth(j, n)
                           /\ Offset(j, n + 1) = Offset(j, n)
<1> DEFINE C == CompletedCalls(j)
           g == Scan(j)
<1>1. C \in Nat
  BY JournalLength
<1>2. g[0] = Start /\ \A n \in 1 .. C : g[n] = ScanCall(CallAt(j, n), n, g[n - 1])
  BY ScanStep
<1>3. \A n \in 0 .. C : g[n] \in Standing
  BY ScanRange
<1>4. \A n \in 0 .. C : g[n].depth \in Nat /\ g[n].forkOffset \in Nat
  BY <1>3 DEF Standing
<1>5. g[0].depth = 0
  BY <1>2 DEF Start
<1>6. ASSUME NEW n \in Nat, n + 1 <= C
      PROVE  /\ CallAt(j, n + 1) = "begin" =>
                    /\ g[n + 1].depth = g[n].depth + 1
                    /\ g[n + 1].forkOffset = IF g[n].depth = 0 THEN 2 * (n + 1)
                                             ELSE g[n].forkOffset
             /\ CallAt(j, n + 1) = "commit" /\ g[n].depth > 0 =>
                    /\ g[n + 1].depth = g[n].depth - 1
                    /\ g[n + 1].forkOffset = g[n].forkOffset
             /\ CallAt(j, n + 1) # "begin" /\ ~(CallAt(j, n + 1) = "commit" /\ g[n].depth > 0) =>
                    g[n + 1] = g[n]
  <2> DEFINE b == g[n]
             name == CallAt(j, n + 1)
  <2>1. b \in Standing /\ g[n + 1] = ScanCall(name, n + 1, b)
    BY <1>1, <1>2, <1>3, <1>6
  <2> HIDE DEF b, name, g, C
  <2>2. CASE name = "begin"
    <3>1. g[n + 1] = [depth |-> b.depth + 1,
                      forkOffset |-> IF b.depth = 0 THEN 2 * (n + 1) ELSE b.forkOffset]
      BY <2>1, <2>2, ScanCallCases
    <3> QED BY <2>2, <3>1 DEF b, name
  <2>3. CASE name = "commit" /\ b.depth > 0
    <3>1. g[n + 1] = [depth |-> b.depth - 1, forkOffset |-> b.forkOffset]
      BY <2>1, <2>3, ScanCallCases
    <3> QED BY <2>3, <3>1 DEF b, name
  <2>4. CASE name # "begin" /\ ~(name = "commit" /\ b.depth > 0)
    <3>1. g[n + 1] = b
      BY <2>1, <2>4, ScanCallCases
    <3> QED BY <2>4, <3>1 DEF b, name
  <2> QED BY <2>2, <2>3, <2>4
<1> QED BY <1>4, <1>5, <1>6 DEF Depth, Offset

(* The scan's depth is never below what the calls from a on leave open. *)
LEMMA DepthCovers ==
    ASSUME NEW S, NEW j \in Seq(S)
    PROVE  \A n \in 0 .. CompletedCalls(j) : \A a \in 1 .. n + 1 :
              Depth(j, n) + Count(j, "commit", a, n) >= Count(j, "begin", a, n)
<1> DEFINE C == CompletedCalls(j)
           B(a, n) == Count(j, "begin", a, n)
           K(a, n) == Count(j, "commit", a, n)
           T == {n \in Nat : n <= C => \A a \in 1 .. n + 1 : Depth(j, n) + K(a, n) >= B(a, n)}
<1>1. C \in Nat
  BY JournalLength
<1>2. \A n \in 0 .. C : Depth(j, n) \in Nat
  BY ScanFields
<1>3. ASSUME NEW n \in Nat, n <= C, NEW a \in 1 .. n + 1, a = n + 1
      PROVE  Depth(j, n) + K(a, n) >= B(a, n)
  <2>1. K(a, n) = 0 /\ B(a, n) = 0
    BY <1>3, CountNone
  <2> QED BY <1>1, <1>2, <1>3, <2>1
<1>4. 0 \in T
  BY <1>3
<1>5. ASSUME NEW n \in Nat, n \in T PROVE n + 1 \in T
  <2> SUFFICES ASSUME n + 1 <= C, NEW a \in 1 .. n + 1
               PROVE  Depth(j, n + 1) + K(a, n + 1) >= B(a, n + 1)
    BY <1>3
  <2>1. Depth(j, n) + K(a, n) >= B(a, n)
    BY <1>1, <1>5
  <2>2. /\ B(a, n) \in Nat /\ K(a, n) \in Nat
        /\ B(a, n + 1) = B(a, n) + (IF CallAt(j, n + 1) = "begin" THEN 1 ELSE 0)
        /\ K(a, n + 1) = K(a, n) + (IF CallAt(j, n + 1) = "commit" THEN 1 ELSE 0)
    BY CountStep
  <2>3. Depth(j, n) \in Nat /\ Depth(j, n + 1) \in Nat
    BY <1>1, <1>2
  <2>4. /\ CallAt(j, n + 1) = "begin" => Depth(j, n + 1) = Depth(j, n) + 1
        /\ CallAt(j, n + 1) = "commit" /\ Depth(j, n) > 0 => Depth(j, n + 1) = Depth(j, n) - 1
        /\ CallAt(j, n + 1) # "begin" /\ ~(CallAt(j, n + 1) = "commit" /\ Depth(j, n) > 0) =>
              Depth(j, n + 1) = Depth(j, n)
    BY ScanFields
  <2> HIDE DEF B, K
  <2> QED BY <2>1, <2>2, <2>3, <2>4
<1> HIDE DEF T
<1>6. Nat \subseteq T
  BY <1>4, <1>5, Induction
<1> QED BY <1>1, <1>6 DEF T

(* While the depth is positive, f is the begin it counts from: nothing was open
   before it, and something has been since. *)
OpenSince(j, n, f) ==
    /\ f \in 1 .. n /\ CallAt(j, f) = "begin"
    /\ Depth(j, f - 1) = 0
    /\ \A m \in f .. n :
          /\ Depth(j, m) > 0 /\ Offset(j, m) = 2 * f
          /\ Depth(j, m) + Count(j, "commit", f, m) = Count(j, "begin", f, m)

LEMMA DepthIsSince ==
    ASSUME NEW S, NEW j \in Seq(S), NEW n \in 0 .. CompletedCalls(j), Depth(j, n) > 0
    PROVE  \E f \in 1 .. n : OpenSince(j, n, f)
<1> DEFINE C == CompletedCalls(j)
           T == {k \in Nat : k <= C => (Depth(j, k) > 0 => \E f \in 1 .. k : OpenSince(j, k, f))}
<1>1. C \in Nat
  BY JournalLength
<1>2. \A k \in 0 .. C : Depth(j, k) \in Nat /\ Offset(j, k) \in Nat
  BY ScanFields
<1>3. 0 \in T
  BY ScanFields
<1>4. ASSUME NEW k \in Nat, k \in T PROVE k + 1 \in T
  <2> SUFFICES ASSUME k + 1 <= C, Depth(j, k + 1) > 0
               PROVE  \E f \in 1 .. k + 1 : OpenSince(j, k + 1, f)
    OBVIOUS
  <2>1. /\ CallAt(j, k + 1) = "begin" =>
              /\ Depth(j, k + 1) = Depth(j, k) + 1
              /\ Offset(j, k + 1) = IF Depth(j, k) = 0 THEN 2 * (k + 1) ELSE Offset(j, k)
        /\ CallAt(j, k + 1) = "commit" /\ Depth(j, k) > 0 =>
              Depth(j, k + 1) = Depth(j, k) - 1 /\ Offset(j, k + 1) = Offset(j, k)
        /\ CallAt(j, k + 1) # "begin" /\ ~(CallAt(j, k + 1) = "commit" /\ Depth(j, k) > 0) =>
              Depth(j, k + 1) = Depth(j, k) /\ Offset(j, k + 1) = Offset(j, k)
    BY ScanFields
  <2>2. Depth(j, k) \in Nat /\ Depth(j, k + 1) \in Nat
    BY <1>1, <1>2
  <2>3. CASE Depth(j, k) = 0
    <3>1. CallAt(j, k + 1) = "begin" /\ Depth(j, k + 1) = 1 /\ Offset(j, k + 1) = 2 * (k + 1)
      BY <2>1, <2>2, <2>3
    <3>2. Count(j, "commit", k + 1, k) = 0 /\ Count(j, "begin", k + 1, k) = 0
      BY CountNone
    <3>3. Count(j, "commit", k + 1, k + 1) = 0 /\ Count(j, "begin", k + 1, k + 1) = 1
      <4> DEFINE a == k + 1
      <4>1. a \in Nat /\ a <= k + 1
        OBVIOUS
      <4> HIDE DEF a
      <4>2. /\ Count(j, "commit", a, k + 1) =
                  Count(j, "commit", a, k) + (IF CallAt(j, k + 1) = "commit" THEN 1 ELSE 0)
            /\ Count(j, "begin", a, k + 1) =
                  Count(j, "begin", a, k) + (IF CallAt(j, k + 1) = "begin" THEN 1 ELSE 0)
        BY <4>1, CountStep
      <4> QED BY <3>1, <3>2, <4>2 DEF a
    <3>4. OpenSince(j, k + 1, k + 1)
      BY <2>3, <3>1, <3>3 DEF OpenSince
    <3> QED BY <3>4
  <2>4. CASE Depth(j, k) > 0
    <3>1. PICK f \in 1 .. k : OpenSince(j, k, f)
      BY <1>1, <1>4, <2>4
    <3>2. Offset(j, k + 1) = 2 * f
      <4>1. Offset(j, k) = 2 * f
        BY <3>1 DEF OpenSince
      <4> QED BY <2>1, <2>2, <2>4, <4>1
    <3>3. Depth(j, k + 1) + Count(j, "commit", f, k + 1) = Count(j, "begin", f, k + 1)
      <4>1. Depth(j, k) + Count(j, "commit", f, k) = Count(j, "begin", f, k)
        BY <3>1 DEF OpenSince
      <4>2. /\ Count(j, "begin", f, k) \in Nat /\ Count(j, "commit", f, k) \in Nat
            /\ Count(j, "begin", f, k + 1) =
                  Count(j, "begin", f, k) + (IF CallAt(j, k + 1) = "begin" THEN 1 ELSE 0)
            /\ Count(j, "commit", f, k + 1) =
                  Count(j, "commit", f, k) + (IF CallAt(j, k + 1) = "commit" THEN 1 ELSE 0)
        <5>1. f \in Nat /\ f <= k + 1
          OBVIOUS
        <5> QED BY <5>1, CountStep
      <4> QED BY <2>1, <2>2, <2>4, <4>1, <4>2
    <3>4. OpenSince(j, k + 1, f)
      <4>1. \A m \in f .. k + 1 : m \in f .. k \/ m = k + 1
        OBVIOUS
      <4> QED BY <3>1, <3>2, <3>3, <4>1 DEF OpenSince
    <3> QED BY <3>4
  <2> QED BY <2>2, <2>3, <2>4
<1> HIDE DEF T
<1>5. Nat \subseteq T
  BY <1>3, <1>4, Induction
<1> QED BY <1>1, <1>5 DEF T

(* For every journal, the one-pass scan agrees with the definition by matching. *)
LEMMA ScanFinds == ASSUME NEW S, NEW j \in Seq(S) PROVE OutermostFound(j)
<1> DEFINE C == CompletedCalls(j)
           found == outermostOpenBegin(j)
<1>1. C \in Nat
  BY JournalLength
<1>2. Depth(j, C) \in Nat /\ (found.open <=> Depth(j, C) > 0) /\ found.forkOffset = Offset(j, C)
  <2>1. Depth(j, C) \in Nat
    BY <1>1, ScanFields
  <2>2. found = [forkOffset |-> Offset(j, C), open |-> Depth(j, C) > 0]
    BY DEF outermostOpenBegin, Depth, Offset
  <2>3. found.open <=> Depth(j, C) > 0
    <3>1. found.open = (Depth(j, C) > 0)
      BY <2>2
    <3> QED BY <3>1, Zenon
  <2>4. found.forkOffset = Offset(j, C)
    BY <2>2
  <2> QED BY <2>1, <2>3, <2>4
<1>3. ASSUME NEW n \in OpenBegins(j), NEW m \in n .. C PROVE Depth(j, m) > 0
  <2>1. n \in 1 .. C /\ Count(j, "begin", n, m) > Count(j, "commit", n, m)
    BY <1>3 DEF OpenBegins
  <2>2. m \in 0 .. C /\ n \in 1 .. m + 1 /\ m \in Nat /\ n \in Nat /\ n <= m + 1
    BY <1>1, <1>3, <2>1
  <2>3. Depth(j, m) + Count(j, "commit", n, m) >= Count(j, "begin", n, m)
    BY <2>2, DepthCovers
  <2>4. Depth(j, m) \in Nat
    BY <2>2, ScanFields
  <2>5. Count(j, "commit", n, m) \in Nat /\ Count(j, "begin", n, m) \in Nat
    BY <2>2, CountStep
  <2> QED BY <2>1, <2>3, <2>4, <2>5
<1>4. CASE Depth(j, C) = 0
  <2>1. OpenBegins(j) = {}
    <3> SUFFICES ASSUME NEW n \in OpenBegins(j) PROVE FALSE
      OBVIOUS
    <3>1. C \in n .. C
      BY <1>1 DEF OpenBegins
    <3> QED BY <1>3, <1>4, <3>1
  <2> QED BY <1>2, <1>4, <2>1 DEF OutermostFound
<1>5. CASE Depth(j, C) > 0
  <2>1. PICK f \in 1 .. C : OpenSince(j, C, f)
    BY <1>1, <1>5, DepthIsSince
  <2>2. ASSUME NEW m \in f .. C PROVE Count(j, "begin", f, m) > Count(j, "commit", f, m)
    <3>1. Depth(j, m) > 0 /\ Depth(j, m) + Count(j, "commit", f, m) = Count(j, "begin", f, m)
      BY <2>1, <2>2 DEF OpenSince
    <3>2. m \in 0 .. C /\ m \in Nat /\ f \in Nat /\ f <= m + 1
      BY <1>1, <2>2
    <3>3. Count(j, "commit", f, m) \in Nat /\ Count(j, "begin", f, m) \in Nat
      BY <3>2, CountStep
    <3>4. Depth(j, m) \in Nat
      BY <3>2, ScanFields
    <3> QED BY <3>1, <3>3, <3>4
  <2>3. f \in OpenBegins(j)
    BY <2>1, <2>2 DEF OpenSince, OpenBegins
  <2>4. ASSUME NEW n \in OpenBegins(j) PROVE f <= n
    <3> SUFFICES ASSUME n < f PROVE FALSE
      BY <1>1, <2>1 DEF OpenBegins
    <3>1. f - 1 \in n .. C
      BY <1>1, <2>1 DEF OpenBegins
    <3>2. Depth(j, f - 1) > 0
      BY <1>3, <3>1
    <3> QED BY <2>1, <3>2 DEF OpenSince
  <2>5. Offset(j, C) = 2 * f
    BY <1>1, <2>1 DEF OpenSince
  <2> QED BY <1>2, <1>5, <2>3, <2>4, <2>5 DEF OutermostFound
<1> QED BY <1>2, <1>4, <1>5

(* A journal cut inside its completed calls scans the same up to the cut. *)
LEMMA ScanPrefix ==
    ASSUME NEW S, NEW j \in Seq(S), NEW f \in 0 .. CompletedCalls(j)
    PROVE  LET k == SubSeq(j, 1, 2 * f)
           IN  /\ k \in Seq(S) /\ Len(k) = 2 * f /\ CompletedCalls(k) = f
               /\ \A n \in 1 .. f : CallAt(k, n) = CallAt(j, n)
               /\ Scan(k)[f] = Scan(j)[f]
<1> DEFINE C == CompletedCalls(j)
           k == SubSeq(j, 1, 2 * f)
           T == {n \in Nat : n <= f => Scan(k)[n] = Scan(j)[n]}
<1>1. C \in Nat /\ Len(j) \in Nat /\ 2 * C <= Len(j)
  BY JournalLength
<1>2. k \in Seq(S) /\ Len(k) = 2 * f /\ \A i \in 1 .. 2 * f : k[i] = j[i]
  BY <1>1
<1>3. CompletedCalls(k) = f
  BY <1>1, <1>2 DEF CompletedCalls
<1>4. \A n \in 1 .. f : CallAt(k, n) = CallAt(j, n)
  BY <1>1, <1>2 DEF CallAt
<1> HIDE DEF k
<1>5. 0 \in T
  BY <1>2, ScanStep
<1>6. ASSUME NEW n \in Nat, n \in T PROVE n + 1 \in T
  <2> SUFFICES ASSUME n + 1 <= f PROVE Scan(k)[n + 1] = Scan(j)[n + 1]
    OBVIOUS
  <2>1. n + 1 \in 1 .. f /\ n + 1 \in 1 .. C /\ (n + 1) - 1 = n
    BY <1>1
  <2>2. Scan(k)[n] = Scan(j)[n]
    BY <1>1, <1>6, <2>1
  <2>3. Scan(k)[n + 1] = ScanCall(CallAt(k, n + 1), n + 1, Scan(k)[(n + 1) - 1])
    BY <1>2, <1>3, <2>1, ScanStep
  <2>4. Scan(j)[n + 1] = ScanCall(CallAt(j, n + 1), n + 1, Scan(j)[(n + 1) - 1])
    BY <2>1, ScanStep
  <2>5. CallAt(k, n + 1) = CallAt(j, n + 1)
    BY <1>4, <2>1
  <2> QED BY <2>1, <2>2, <2>3, <2>4, <2>5
<1> HIDE DEF T
<1>7. Nat \subseteq T
  BY <1>5, <1>6, Induction
<1>8. Scan(k)[f] = Scan(j)[f]
  BY <1>1, <1>7 DEF T
<1> QED BY <1>2, <1>3, <1>4, <1>8 DEF k

(* A fork at the section a journal is inside leaves it inside that section, right
   after its begin. *)
LEMMA ForkStays ==
    ASSUME NEW S, NEW j \in Seq(S), outermostOpenBegin(j).open
    PROVE  StaysInSection(j, SubSeq(j, 1, outermostOpenBegin(j).forkOffset))
<1> DEFINE C == CompletedCalls(j)
<1>1. C \in Nat
  BY JournalLength
<1>2. Depth(j, C) > 0 /\ outermostOpenBegin(j) = [forkOffset |-> Offset(j, C), open |-> TRUE]
  BY DEF outermostOpenBegin, Depth, Offset
<1>3. PICK f \in 1 .. C : OpenSince(j, C, f)
  BY <1>1, <1>2, DepthIsSince
<1>4. /\ Offset(j, C) = 2 * f /\ Offset(j, f) = 2 * f /\ Depth(j, f) > 0
      /\ CallAt(j, f) = "begin" /\ f \in 0 .. C /\ f \in 1 .. f
  BY <1>1, <1>3 DEF OpenSince
<1> DEFINE k == SubSeq(j, 1, 2 * f)
<1>5. /\ Len(k) = 2 * f /\ CompletedCalls(k) = f
      /\ CallAt(k, f) = CallAt(j, f) /\ Scan(k)[f] = Scan(j)[f]
  BY <1>4, ScanPrefix
<1> HIDE DEF k
<1>6. outermostOpenBegin(k) = [forkOffset |-> 2 * f, open |-> TRUE]
  BY <1>4, <1>5 DEF outermostOpenBegin, Depth, Offset
<1>7. StaysInSection(j, k)
  BY <1>2, <1>4, <1>5, <1>6 DEF StaysInSection
<1> QED BY <1>2, <1>4, <1>7 DEF k

-----------------------------------------------------------------------------
(* The same along every history of one guest's journal, the walk of MCSections. *)

(* The walk's journal is a sequence of names and results. *)
WalkType == journal \in Seq(ScanNames \cup {"result"})

LEMMA WalkTyped == WalkSpec => []WalkType
<1> DEFINE S == ScanNames \cup {"result"}
<1>1. WalkInit => WalkType
  BY DEF WalkInit, WalkType
<1>2. WalkType /\ [WalkNext]_journal => WalkType'
  <2> SUFFICES ASSUME journal \in Seq(S), [WalkNext]_journal PROVE journal' \in Seq(S)
    BY DEF WalkType
  <2> HIDE DEF S
  <2>1. ASSUME NEW name \in ScanNames, JournalIntent(name) PROVE journal' \in Seq(S)
    BY <2>1 DEF JournalIntent, S
  <2>2. CASE JournalCompletion
    BY <2>2 DEF JournalCompletion, S
  <2>3. CASE ForkAtSection
    <3>1. /\ outermostOpenBegin(journal).open
          /\ journal' = SubSeq(journal, 1, outermostOpenBegin(journal).forkOffset)
      BY <2>3 DEF ForkAtSection
    <3>2. \E n \in OpenBegins(journal) : outermostOpenBegin(journal).forkOffset = 2 * n
      BY <3>1, ScanFinds DEF OutermostFound
    <3>3. /\ outermostOpenBegin(journal).forkOffset \in Nat
          /\ outermostOpenBegin(journal).forkOffset <= Len(journal)
      BY <3>2, JournalLength DEF OpenBegins, CompletedCalls
    <3> QED BY <3>1, <3>3
  <2>4. CASE ForkAtStart
    BY <2>4 DEF ForkAtStart
  <2> QED BY <2>1, <2>2, <2>3, <2>4 DEF WalkNext
<1> QED BY <1>1, <1>2, PTL DEF WalkSpec

(* Whatever a guest calls, wherever its journal stops and however often it was
   forked, outermostOpenBegin finds the outermost open section. *)
THEOREM ScanAlwaysFinds == WalkSpec => []ScanFindsOutermost
<1>1. WalkType => ScanFindsOutermost
  BY ScanFinds DEF WalkType, ScanFindsOutermost
<1> QED BY <1>1, WalkTyped, PTL

(* Every fork at an open section leaves the guest inside the same section, right
   after its begin, and drops no call made before it. *)
THEOREM ForksAlwaysStay == WalkSpec => ForkStaysInSection
<1>1. WalkType /\ [WalkNext]_journal
        => [ForkAtSection => StaysInSection(journal, journal')]_journal
  <2> SUFFICES ASSUME WalkType, ForkAtSection
               PROVE  StaysInSection(journal, journal')
    OBVIOUS
  <2>1. /\ outermostOpenBegin(journal).open
        /\ journal' = SubSeq(journal, 1, outermostOpenBegin(journal).forkOffset)
    BY DEF ForkAtSection
  <2> QED BY <2>1, ForkStays DEF WalkType
<1> QED BY <1>1, WalkTyped, PTL DEF WalkSpec, ForkStaysInSection

-----------------------------------------------------------------------------
(* Finite sets under a strict total order, given as a set of pairs. *)

TotalOn(R, S) == /\ \A x, y \in S : <<x, y>> \in R => <<y, x>> \notin R
                 /\ \A x, y \in S : x # y => <<x, y>> \in R \/ <<y, x>> \in R
                 /\ \A x, y, z \in S : <<x, y>> \in R /\ <<y, z>> \in R => <<x, z>> \in R

(* A nonempty one has a first member, *)
LEMMA Earliest ==
    ASSUME NEW S, IsFiniteSet(S), S # {}, NEW R, TotalOn(R, S)
    PROVE  \E m \in S : \A x \in S \ {m} : <<m, x>> \in R
<1> DEFINE First(U) == \E m \in U : \A x \in U \ {m} : <<m, x>> \in R
           T == {n \in Nat : \A U \in SUBSET S : Cardinality(U) = n + 1 => First(U)}
<1>1. \A U \in SUBSET S : IsFiniteSet(U) /\ Cardinality(U) \in Nat
  BY FS_Subset, FS_CardinalityType
<1>2. 0 \in T
  <2> SUFFICES ASSUME NEW U \in SUBSET S, Cardinality(U) = 1 PROVE First(U)
    OBVIOUS
  <2>1. \E x : U = {x}
    BY <1>1, FS_Singleton
  <2> QED BY <2>1
<1>3. ASSUME NEW n \in Nat, n \in T PROVE n + 1 \in T
  <2> SUFFICES ASSUME NEW U \in SUBSET S, Cardinality(U) = n + 2 PROVE First(U)
    OBVIOUS
  <2>1. U # {}
    BY FS_EmptySet
  <2>2. PICK x \in U : TRUE
    BY <2>1
  <2>3. Cardinality(U \ {x}) = n + 1 /\ U \ {x} \in SUBSET S
    BY <1>1, <2>2, FS_RemoveElement
  <2>4. PICK m \in U \ {x} : \A y \in (U \ {x}) \ {m} : <<m, y>> \in R
    BY <1>3, <2>3
  <2>5. CASE <<m, x>> \in R
    BY <2>4, <2>5
  <2>6. CASE <<x, m>> \in R
    <3>1. ASSUME NEW y \in U \ {x} PROVE <<x, y>> \in R
      BY <2>2, <2>4, <2>6 DEF TotalOn
    <3> QED BY <2>2, <3>1
  <2>7. <<m, x>> \in R \/ <<x, m>> \in R
    BY <2>2, <2>4 DEF TotalOn
  <2> QED BY <2>5, <2>6, <2>7
<1>4. Nat \subseteq T
  <2> HIDE DEF T
  <2> QED BY <1>2, <1>3, Induction
<1>5. Cardinality(S) # 0
  BY FS_EmptySet
<1>6. Cardinality(S) - 1 \in T
  BY <1>1, <1>4, <1>5
<1>7. Cardinality(S) = (Cardinality(S) - 1) + 1
  BY <1>1
<1> QED BY <1>6, <1>7

Sorted(s, R) == \A i, j \in DOMAIN s : i < j => <<s[i], s[j]>> \in R

(* and can be listed in order. *)
LEMMA SortedExists ==
    ASSUME NEW S, IsFiniteSet(S), NEW R, TotalOn(R, S)
    PROVE  \E s \in [1 .. Cardinality(S) -> S] : Sorted(s, R)
<1> DEFINE T == {n \in Nat : \A U \in SUBSET S :
                                Cardinality(U) = n => \E s \in [1 .. n -> U] : Sorted(s, R)}
<1>1. \A U \in SUBSET S : IsFiniteSet(U) /\ Cardinality(U) \in Nat
  BY FS_Subset, FS_CardinalityType
<1>2. 0 \in T
  <2> SUFFICES ASSUME NEW U \in SUBSET S, Cardinality(U) = 0
               PROVE  \E s \in [1 .. 0 -> U] : Sorted(s, R)
    OBVIOUS
  <2>1. << >> \in [1 .. 0 -> U] /\ Sorted(<< >>, R)
    BY DEF Sorted
  <2> QED BY <2>1
<1>3. ASSUME NEW n \in Nat, n \in T PROVE n + 1 \in T
  <2> SUFFICES ASSUME NEW U \in SUBSET S, Cardinality(U) = n + 1
               PROVE  \E s \in [1 .. n + 1 -> U] : Sorted(s, R)
    OBVIOUS
  <2>1. U # {}
    BY FS_EmptySet
  <2>2. TotalOn(R, U)
    BY DEF TotalOn
  <2>3. IsFiniteSet(U)
    BY <1>1
  <2>4. PICK m \in U : \A x \in U \ {m} : <<m, x>> \in R
    BY <2>1, <2>2, <2>3, Earliest
  <2>5. Cardinality(U \ {m}) = n /\ U \ {m} \in SUBSET S
    <3>1. Cardinality(U \ {m}) = Cardinality(U) - 1
      BY <2>3, FS_RemoveElement
    <3>2. (n + 1) - 1 = n
      OBVIOUS
    <3> QED BY <3>1, <3>2
  <2>6. PICK s \in [1 .. n -> U \ {m}] : Sorted(s, R)
    BY <1>3, <2>5
  <2> DEFINE t == [i \in 1 .. n + 1 |-> IF i = 1 THEN m ELSE s[i - 1]]
  <2>7. t \in [1 .. n + 1 -> U]
    BY <2>4, <2>6
  <2>8. ASSUME NEW i \in 1 .. n + 1, NEW j \in 1 .. n + 1, i < j PROVE <<t[i], t[j]>> \in R
    <3>1. t[j] = s[j - 1] /\ j - 1 \in 1 .. n /\ s[j - 1] \in U \ {m}
      BY <2>6, <2>8
    <3>2. CASE i = 1
      BY <2>4, <3>1, <3>2
    <3>3. CASE i # 1
      <4>1. t[i] = s[i - 1] /\ i - 1 \in 1 .. n /\ i - 1 < j - 1
        BY <2>8, <3>3
      <4> QED BY <2>6, <3>1, <4>1 DEF Sorted
    <3> QED BY <3>2, <3>3
  <2> HIDE DEF t
  <2>9. Sorted(t, R)
    BY <2>7, <2>8 DEF Sorted
  <2> QED BY <2>7, <2>9
<1>4. Nat \subseteq T
  <2> HIDE DEF T
  <2> QED BY <1>2, <1>3, Induction
<1> QED BY <1>1, <1>4

(* A sorted sequence as long as the set is large holds every member of it. *)
LEMMA SortedCovers ==
    ASSUME NEW S, IsFiniteSet(S), NEW R, TotalOn(R, S),
           NEW s \in [1 .. Cardinality(S) -> S], Sorted(s, R)
    PROVE  \A x \in S : \E i \in 1 .. Cardinality(S) : s[i] = x
<1> DEFINE D == 1 .. Cardinality(S)
<1>1. Cardinality(S) \in Nat
  BY FS_CardinalityType
<1>2. \A i, j \in D : i # j => s[i] # s[j]
  <2> SUFFICES ASSUME NEW i \in D, NEW j \in D, i < j PROVE s[i] # s[j]
    BY <1>1
  <2>1. <<s[i], s[j]>> \in R /\ s[i] \in S /\ s[j] \in S
    BY DEF Sorted
  <2> QED BY <2>1 DEF TotalOn
<1>3. s \in Injection(D, S)
  BY <1>2 DEF Injection, IsInjective
<1>4. Cardinality(D) = Cardinality(S)
  BY <1>1, FS_Interval
<1>5. s \in Surjection(D, S)
  BY <1>3, <1>4, FS_Injection
<1> QED BY <1>5 DEF Surjection

(* Fold's order is such an order on what the log holds. *)
Earlier == {pair \in OnDisk \X OnDisk : RestoredBefore(pair[1], pair[2])}

LEMMA EarlierTotal ==
    ASSUME TypeOK
    PROVE  TotalOn(Earlier, OnDisk) /\ \A p, q \in OnDisk : <<p, q>> \in Earlier <=> RestoredBefore(p, q)
<1>1. \A p \in OnDisk : p \in Procs /\ disk[p].createdAt \in Nat
  BY DEF OnDisk, TypeOK
<1>2. \A p, q \in OnDisk : <<p, q>> \in Earlier <=> RestoredBefore(p, q)
  BY DEF Earlier
<1>3. \A p, q \in OnDisk : RestoredBefore(p, q) => ~RestoredBefore(q, p)
  BY <1>1, IdAssumption DEF RestoredBefore
<1>4. \A p, q \in OnDisk : p # q => RestoredBefore(p, q) \/ RestoredBefore(q, p)
  BY <1>1, IdAssumption DEF RestoredBefore
<1>5. \A p, q, r \in OnDisk : RestoredBefore(p, q) /\ RestoredBefore(q, r) => RestoredBefore(p, r)
  BY <1>1, IdAssumption DEF RestoredBefore
<1> QED BY <1>2, <1>3, <1>4, <1>5, Zenon DEF TotalOn

(* So the restored order lists every process of the log, *)
LEMMA RestoredOrderSorts ==
    ASSUME TypeOK, IsFiniteSet(OnDisk)
    PROVE  /\ RestoredOrder \in Seq(Procs)
           /\ \A q \in OnDisk : \E i \in 1 .. Len(RestoredOrder) : RestoredOrder[i] = q
           /\ \A i, j \in 1 .. Len(RestoredOrder) :
                 i < j => RestoredBefore(RestoredOrder[i], RestoredOrder[j])
<1> DEFINE n == Cardinality(OnDisk)
           Good(s) == \A i, j \in DOMAIN s : i < j => RestoredBefore(s[i], s[j])
<1>1. n \in Nat
  BY FS_CardinalityType
<1>2. TotalOn(Earlier, OnDisk) /\ \A p, q \in OnDisk : <<p, q>> \in Earlier <=> RestoredBefore(p, q)
  BY EarlierTotal
<1>3. ASSUME NEW s \in [1 .. n -> OnDisk] PROVE Good(s) <=> Sorted(s, Earlier)
  BY <1>2, <1>3 DEF Sorted
<1>4. \E s \in [1 .. n -> OnDisk] : Sorted(s, Earlier)
  BY <1>2, SortedExists
<1>5. \E s \in [1 .. n -> OnDisk] : Good(s)
  BY <1>3, <1>4
<1>6. RestoredOrder \in [1 .. n -> OnDisk] /\ Good(RestoredOrder)
  BY <1>5, Zenon DEF RestoredOrder
<1>7. OnDisk \subseteq Procs
  BY DEF OnDisk
<1>8. RestoredOrder \in Seq(Procs) /\ Len(RestoredOrder) = n
  BY <1>1, <1>6, <1>7
<1>9. Sorted(RestoredOrder, Earlier)
  BY <1>3, <1>6
<1>10. \A q \in OnDisk : \E i \in 1 .. n : RestoredOrder[i] = q
  BY <1>2, <1>6, <1>9, SortedCovers
<1> QED BY <1>6, <1>8, <1>10

(* and the restored foreground process is the earliest one that holds the session. *)
Holders == {p \in OnDisk : disk[p].status \in ActiveStatuses}

LEMMA RestoredActiveFirst ==
    ASSUME TypeOK, IsFiniteSet(OnDisk)
    PROVE  /\ RestoredActive \in Procs \cup {None}
           /\ Holders # {} => /\ RestoredActive \in Holders
                              /\ \A q \in Holders \ {RestoredActive} : RestoredBefore(RestoredActive, q)
<1>1. TotalOn(Earlier, OnDisk) /\ \A p, q \in OnDisk : <<p, q>> \in Earlier <=> RestoredBefore(p, q)
  BY EarlierTotal
<1>2. Holders \subseteq OnDisk /\ Holders \subseteq Procs
  BY DEF Holders, OnDisk
<1>3. IsFiniteSet(Holders) /\ TotalOn(Earlier, Holders)
  BY <1>1, <1>2, FS_Subset DEF TotalOn
<1>4. Holders # {} => \E m \in Holders : \A q \in Holders \ {m} : RestoredBefore(m, q)
  <2> SUFFICES ASSUME Holders # {}
               PROVE  \E m \in Holders : \A q \in Holders \ {m} : RestoredBefore(m, q)
    OBVIOUS
  <2>1. \E m \in Holders : \A q \in Holders \ {m} : <<m, q>> \in Earlier
    BY <1>3, Earliest
  <2> QED BY <1>1, <1>2, <2>1
<1>5. RestoredActive = IF Holders = {} THEN None
                       ELSE CHOOSE p \in Holders : \A q \in Holders \ {p} : RestoredBefore(p, q)
  BY DEF RestoredActive, Holders
<1>6. CASE Holders = {}
  BY <1>5, <1>6
<1>7. CASE Holders # {}
  <2>1. RestoredActive = CHOOSE p \in Holders : \A q \in Holders \ {p} : RestoredBefore(p, q)
    BY <1>5, <1>7
  <2>2. RestoredActive \in Holders /\ \A q \in Holders \ {RestoredActive} : RestoredBefore(RestoredActive, q)
    BY <1>4, <1>7, <2>1, Zenon
  <2> QED BY <1>2, <2>2
<1> QED BY <1>6, <1>7

-----------------------------------------------------------------------------
(* The inductive invariant. *)

(* Before its quantum is submitted and after its outcome is recorded, a goroutine
   has no quantum. *)
AtRest == {"none", "start", "halted", "submit", "refused"}

Local(p) ==
    /\ exec[p] # "overlap"
    /\ exec[p] # "none" => IsLive(p)
    /\ proc[p].stop => exec[p] = "wait"
    /\ creating[p] # None => ~Exists(p)
    /\ exec[p] \in AtRest <=> quantum[p] = "none"
    /\ exec[p] \in AtRest => ~cancelled[p]
    /\ disk[p].status = "absent" <=> ~Exists(p)
    /\ ~Exists(p) => abortRuns[p] = 0
    /\ abortRuns[p] <= disk[p].abortRetries
    /\ disk[p].abortRetries <= proc[p].abortRetries

Holder(p) == IsLive(p) => active = p /\ Latest = p

JournalLogged(p) ==
    \/ disk[p].journal = proc[p].journal
    \/ p = Latest /\ exec[p] = "none" /\ (closed \/ IsLive(p))

Current(p) == /\ disk[p].status = proc[p].status
              /\ ~closed => disk[p] = Stored(proc[p])
              /\ ~closed /\ IsLive(p) => exec[p] # "none"

Parked(p) ==
    proc[p].status = "waiting" =>
        /\ \/ active = p
           \/ active \in Procs /\ proc[active].status = "interrupted" /\ active # Latest
        /\ \A q \in Procs \ {p} : proc[q].status # "waiting"

Common == \A p \in Procs : Local(p) /\ Holder(p) /\ JournalLogged(p)
Quiet  == \A p \in Procs : Current(p) /\ Parked(p)
Inv    == TypeOK /\ IsFiniteSet(OnDisk) /\ Common /\ (~LogMayFail => Quiet)

-----------------------------------------------------------------------------
(* Types. *)

ProcState == [status : Statuses, journal : Journals, abortRetries : 0 .. MaxAborts,
              lastFailureLength : 0 .. 2 * MaxCalls, stopRequested : BOOLEAN,
              stop : BOOLEAN, createdAt : 0 .. MaxClock]

DiskState == [status : Statuses, journal : Journals, abortRetries : 0 .. MaxAborts,
              createdAt : 0 .. MaxClock]

ExecStages == {"none", "start", "halted", "submit", "refused", "submitted", "wait",
               "record", "overlap"}

Marks == GuestCalls \cup Outcomes

(* Journals under the operations on them. *)
LEMMA JournalBounds ==
    ASSUME NEW j \in Journals
    PROVE  j \in Seq(Marks) /\ Len(j) \in 0 .. 2 * MaxCalls
<1>1. PICK n \in 0 .. 2 * MaxCalls : j \in [1 .. n -> Marks]
  BY DEF Journals, Marks
<1> QED BY <1>1, CallsAssumption

LEMMA JournalIs ==
    ASSUME NEW j \in Seq(Marks), Len(j) <= 2 * MaxCalls
    PROVE  j \in Journals
<1>1. Len(j) \in 0 .. 2 * MaxCalls /\ j \in [1 .. Len(j) -> Marks]
  BY CallsAssumption
<1> QED BY <1>1 DEF Journals, Marks

LEMMA JournalEmpty == << >> \in Journals
<1>1. << >> \in Seq(Marks) /\ Len(<< >>) <= 2 * MaxCalls
  BY CallsAssumption
<1> QED BY <1>1, JournalIs

LEMMA JournalAppends ==
    ASSUME NEW j \in Journals, NEW x \in Marks, Len(j) < 2 * MaxCalls
    PROVE  Append(j, x) \in Journals
<1>1. j \in Seq(Marks) /\ Len(j) \in Nat
  BY JournalBounds
<1>2. Append(j, x) \in Seq(Marks) /\ Len(Append(j, x)) = Len(j) + 1
  BY <1>1
<1>3. Len(Append(j, x)) <= 2 * MaxCalls
  BY <1>1, <1>2, CallsAssumption
<1> QED BY <1>2, <1>3, JournalIs

LEMMA JournalForks ==
    ASSUME NEW j \in Journals, NEW k \in 0 .. Len(j)
    PROVE  SubSeq(j, 1, k) \in Journals
<1>1. j \in Seq(Marks) /\ Len(j) \in 0 .. 2 * MaxCalls
  BY JournalBounds
<1>2. SubSeq(j, 1, k) \in Seq(Marks) /\ Len(SubSeq(j, 1, k)) = k
  BY <1>1
<1>3. k <= 2 * MaxCalls
  BY <1>1, CallsAssumption
<1> QED BY <1>2, <1>3, JournalIs

LEMMA AbsentTyped == Absent \in ProcState
<1>1. 0 \in 0 .. MaxAborts /\ 0 \in 0 .. MaxClock /\ 0 \in 0 .. 2 * MaxCalls
  BY CallsAssumption, BoundsAssumption
<1> QED BY <1>1, JournalEmpty DEF Absent, ProcState, Statuses

LEMMA StoredTyped ==
    ASSUME NEW state \in ProcState
    PROVE  Stored(state) \in DiskState
BY DEF ProcState, DiskState, Stored

(* What an update of a process keeps. *)
Follows(state, before) == /\ state \in ProcState
                          /\ state.status = before.status
                          /\ state.createdAt = before.createdAt
                          /\ state.stop = before.stop
                          /\ before.abortRetries <= state.abortRetries

LEMMA ForkTyped ==
    ASSUME NEW state \in ProcState, NEW k \in 0 .. Len(state.journal)
    PROVE  /\ Follows(ForkJournalLocked(state, k), state)
           /\ ForkJournalLocked(state, k).abortRetries = state.abortRetries
<1>1. state.journal \in Journals /\ 0 \in 0 .. 2 * MaxCalls /\ state.abortRetries \in Nat
  BY CallsAssumption DEF ProcState
<1> DEFINE cut == SubSeq(state.journal, 1, k)
           fork == [state EXCEPT !.journal = cut, !.lastFailureLength = 0]
<1>2. cut \in Journals
  BY <1>1, JournalForks
<1>3. ForkJournalLocked(state, k) = fork
  BY DEF ForkJournalLocked
<1> HIDE DEF cut
<1>4. fork \in ProcState
  BY <1>1, <1>2 DEF ProcState
<1>5. /\ fork.status = state.status /\ fork.createdAt = state.createdAt
      /\ fork.stop = state.stop /\ fork.abortRetries = state.abortRetries
  BY DEF ProcState
<1> QED BY <1>1, <1>3, <1>4, <1>5 DEF Follows

LEMMA OffsetTyped ==
    ASSUME NEW state \in ProcState
    PROVE  /\ 0 \in 0 .. Len(state.journal)
           /\ outermostOpenBegin(state.journal).forkOffset \in 0 .. Len(state.journal)
<1>1. state.journal \in Seq(Marks) /\ Len(state.journal) \in Nat
  BY JournalBounds DEF ProcState
<1> QED BY <1>1, ForkOffsetInside

LEMMA ProcTyped ==
    ASSUME TypeOK, NEW p \in Procs
    PROVE  proc[p] \in ProcState /\ disk[p] \in DiskState
BY DEF TypeOK, ProcState, DiskState

LEMMA RetryStateTyped ==
    ASSUME TypeOK, NEW p \in Procs, NEW mode \in {"resume", "restart"}
    PROVE  Follows(RetryState(p, mode), proc[p])
<1> DEFINE before == proc[p]
           k == outermostOpenBegin(before.journal).forkOffset
<1>1. before \in ProcState
  BY ProcTyped
<1>2. 0 \in 0 .. Len(before.journal) /\ k \in 0 .. Len(before.journal)
  BY <1>1, OffsetTyped
<1>3. Follows(before, before)
  BY <1>1 DEF Follows, ProcState
<1>4. Follows(ForkJournalLocked(before, 0), before)
  BY <1>1, <1>2, ForkTyped
<1>5. Follows(ForkJournalLocked(before, k), before)
  BY <1>1, <1>2, ForkTyped
<1>6. RetryState(p, mode) \in {before, ForkJournalLocked(before, 0), ForkJournalLocked(before, k)}
  BY DEF RetryState
<1> QED BY <1>3, <1>4, <1>5, <1>6

LEMMA AbortedStateTyped ==
    ASSUME TypeOK, NEW p \in Procs, proc[p].abortRetries < MaxAborts
    PROVE  /\ Follows(AbortedState(p), proc[p])
           /\ AbortedState(p).abortRetries = proc[p].abortRetries + 1
<1> DEFINE state == [proc[p] EXCEPT !.abortRetries = @ + 1]
           k == outermostOpenBegin(proc[p].journal).forkOffset
<1>1. proc[p] \in ProcState
  BY ProcTyped
<1>2. proc[p].abortRetries \in Nat /\ proc[p].abortRetries + 1 \in 0 .. MaxAborts
  BY <1>1, BoundsAssumption DEF ProcState
<1>3. /\ state \in ProcState /\ state.status = proc[p].status /\ state.journal = proc[p].journal
      /\ state.createdAt = proc[p].createdAt /\ state.stop = proc[p].stop
      /\ state.abortRetries = proc[p].abortRetries + 1
  BY <1>1, <1>2 DEF ProcState
<1>4. k \in 0 .. Len(state.journal)
  BY <1>1, <1>3, OffsetTyped
<1> HIDE DEF state, k
<1>5. /\ Follows(ForkJournalLocked(state, k), state)
      /\ ForkJournalLocked(state, k).abortRetries = state.abortRetries
  BY <1>3, <1>4, ForkTyped
<1>6. AbortedState(p) = ForkJournalLocked(state, k)
  BY DEF AbortedState, state, k
<1> QED BY <1>2, <1>3, <1>5, <1>6 DEF Follows

LEMMA RedrivenTyped ==
    ASSUME TypeOK, NEW p \in Procs
    PROVE  /\ Follows(RedrivenState(p), proc[p])
           /\ RedrivenState(p).journal = proc[p].journal
           /\ RedrivenState(p).abortRetries = proc[p].abortRetries
<1>1. proc[p] \in ProcState
  BY ProcTyped
<1>2. Len(proc[p].journal) \in 0 .. 2 * MaxCalls /\ proc[p].abortRetries \in Nat
  BY <1>1, JournalBounds DEF ProcState
<1> QED BY <1>1, <1>2 DEF RedrivenState, Follows, ProcState

LEMMA RequeuedTyped ==
    ASSUME NEW state \in ProcState
    PROVE  /\ Requeued(state) \in ProcState
           /\ Requeued(state).status = "queued"
           /\ Requeued(state).journal = state.journal
           /\ Requeued(state).abortRetries = state.abortRetries
           /\ Requeued(state).stop = state.stop
BY DEF Requeued, ProcState, Statuses, Live

-----------------------------------------------------------------------------
(* The kinds of steps. *)

(* A step that touches one process. *)
Others(p) == \A q \in Procs \ {p} :
    /\ proc'[q] = proc[q] /\ disk'[q] = disk[q] /\ exec'[q] = exec[q]
    /\ quantum'[q] = quantum[q] /\ cancelled'[q] = cancelled[q]
    /\ creating'[q] = creating[q] /\ abortRuns'[q] = abortRuns[q]

Touches(p) == /\ TypeOK' /\ closed' = closed /\ Others(p)
              /\ Local(p)' /\ JournalLogged(p)'
              /\ ~LogMayFail => Current(p)'

(* The log holds finitely many processes. *)
LEMMA OnDiskStaysFinite ==
    ASSUME IsFiniteSet(OnDisk), NEW p \in Procs, \A q \in Procs \ {p} : disk'[q] = disk[q]
    PROVE  IsFiniteSet(OnDisk')
<1>1. OnDisk' \in SUBSET (OnDisk \cup {p})
  BY DEF OnDisk
<1>2. IsFiniteSet(OnDisk \cup {p})
  BY FS_AddElement
<1> QED BY <1>1, <1>2, FS_Subset

(* The other processes keep what the invariant says of each of them. *)
LEMMA TouchInv ==
    ASSUME Inv, NEW p \in Procs, Touches(p),
           \A q \in Procs : Holder(q)',
           ~LogMayFail => \A q \in Procs : Parked(q)',
           order' = order \/ \A q \in Procs \ {p} : disk[q].journal = proc[q].journal
    PROVE  Inv'
<1>1. ASSUME NEW q \in Procs \ {p} PROVE Local(q)'
  BY DEF Inv, Common, Local, Touches, Others, Exists, IsLive
<1>2. ASSUME NEW q \in Procs \ {p} PROVE JournalLogged(q)'
  <2>1. /\ proc'[q] = proc[q] /\ disk'[q] = disk[q] /\ exec'[q] = exec[q] /\ closed' = closed
    BY DEF Touches, Others
  <2>2. CASE disk[q].journal = proc[q].journal
    BY <2>1, <2>2 DEF JournalLogged
  <2>3. CASE order' = order /\ disk[q].journal # proc[q].journal
    BY <2>1, <2>3 DEF Inv, Common, JournalLogged, Latest, IsLive
  <2> QED BY <2>2, <2>3
<1>3. ASSUME ~LogMayFail, NEW q \in Procs \ {p} PROVE Current(q)'
  BY <1>3 DEF Inv, Quiet, Current, Touches, Others, IsLive, Stored
<1>4. Common'
  BY <1>1, <1>2 DEF Common, Touches
<1>5. ~LogMayFail => Quiet'
  BY <1>3 DEF Quiet, Touches
<1>6. IsFiniteSet(OnDisk')
  BY OnDiskStaysFinite DEF Inv, Touches, Others
<1> QED BY <1>4, <1>5, <1>6 DEF Inv, Touches

(* A live process stays live. *)
LEMMA LiveInv ==
    ASSUME Inv, NEW p \in Procs, Touches(p), IsLive(p), IsLive(p)',
           order' = order, active' = active
    PROVE  Inv'
<1>1. active = p /\ Latest = p /\ Latest' = Latest
  BY DEF Inv, Common, Holder, Latest
<1>2. \A q \in Procs \ {p} : proc'[q] = proc[q]
  BY DEF Touches, Others
<1>3. ASSUME NEW q \in Procs PROVE Holder(q)'
  BY <1>1, <1>2 DEF Inv, Common, Holder, IsLive
<1>4. ASSUME ~LogMayFail, NEW q \in Procs PROVE Parked(q)'
  <2>1. proc[p].status # "waiting" /\ proc[p].status # "interrupted" /\ proc'[p].status # "waiting"
    BY DEF IsLive, Live
  <2>2. \A r \in Procs : proc[r].status # "waiting"
    BY <1>1, <1>4, <2>1 DEF Inv, Quiet, Parked
  <2> QED BY <1>2, <2>1, <2>2 DEF Parked
<1> QED BY <1>3, <1>4, TouchInv

(* The state a process had is kept in log and memory, or only prepared over. *)
LEMMA RefusedInv ==
    ASSUME Inv, NEW p \in Procs, Touches(p), proc'[p].status = proc[p].status,
           order' = order, active' = active
    PROVE  Inv'
<1>1. Latest' = Latest /\ \A q \in Procs : proc'[q].status = proc[q].status
  BY DEF Touches, Others, Latest
<1>2. ASSUME NEW q \in Procs PROVE Holder(q)'
  BY <1>1 DEF Inv, Common, Holder, IsLive
<1>3. ASSUME ~LogMayFail, NEW q \in Procs PROVE Parked(q)'
  BY <1>1, <1>3 DEF Inv, Quiet, Parked
<1> QED BY <1>2, <1>3, TouchInv

(* A process comes to rest. *)
LEMMA RestInv ==
    ASSUME Inv, NEW p \in Procs, Touches(p), order' = order,
           NEW status \in Terminal \cup {"waiting"}, proc'[p].status = status,
           IsLive(p) \/ (proc[p].status = "waiting" /\ status # "waiting"),
           active' = IF status # "waiting" /\ active = p THEN None ELSE active
    PROVE  Inv'
<1>1. Latest' = Latest /\ \A q \in Procs \ {p} : proc'[q] = proc[q]
  BY DEF Touches, Others, Latest
<1>2. ~IsLive(p)' /\ (IsLive(p) => active = p)
  BY DEF IsLive, Live, Terminal, Inv, Common, Holder
<1>3. ASSUME NEW q \in Procs PROVE Holder(q)'
  BY <1>1, <1>2 DEF Inv, Common, Holder, IsLive
<1>4. ASSUME ~LogMayFail, NEW q \in Procs PROVE Parked(q)'
  <2>1. \A r \in Procs : Parked(r)
    BY <1>4 DEF Inv, Quiet
  <2>2. CASE IsLive(p)
    <3>1. \A r \in Procs : proc[r].status # "waiting"
      BY <1>2, <2>1, <2>2 DEF Parked, IsLive, Live
    <3>2. active = p
      BY <1>2, <2>2
    <3> QED BY <1>1, <3>1, <3>2 DEF Parked
  <2>3. CASE proc[p].status = "waiting" /\ status # "waiting"
    <3>1. \A r \in Procs : proc'[r].status # "waiting"
      BY <1>1, <2>1, <2>3 DEF Parked
    <3> QED BY <3>1 DEF Parked
  <2> QED BY <2>2, <2>3
<1> QED BY <1>3, <1>4, TouchInv

(* A process is launched again, or for the first time. *)
LEMMA LaunchInv ==
    ASSUME Inv, NEW p \in Procs, Touches(p), IsLive(p)', active' = p, Latest' = p,
           active = None \/ (active = p /\ Latest = p),
           order' = order \/ (active = None /\ ~closed)
    PROVE  Inv'
<1>1. \A q \in Procs \ {p} : proc'[q] = proc[q]
  BY DEF Touches, Others
<1>2. \A q \in Procs \ {p} : ~IsLive(q)
  BY ProcsAssumption DEF Inv, Common, Holder
<1>3. ASSUME NEW q \in Procs PROVE Holder(q)'
  BY <1>1, <1>2 DEF Holder, IsLive
<1>4. ASSUME ~LogMayFail, NEW q \in Procs PROVE Parked(q)'
  <2>1. \A r \in Procs \ {p} : proc[r].status # "waiting"
    BY <1>4, ProcsAssumption DEF Inv, Quiet, Parked
  <2>2. proc'[p].status # "waiting"
    BY DEF IsLive, Live
  <2> QED BY <1>1, <2>1, <2>2 DEF Parked
<1>5. order' = order \/ \A q \in Procs \ {p} : disk[q].journal = proc[q].journal
  BY <1>2 DEF Inv, Common, JournalLogged
<1> QED BY <1>3, <1>4, <1>5, TouchInv

(* The processes, the session and the log stay as they are. *)
LEMMA StillInv ==
    ASSUME Inv, TypeOK', UNCHANGED <<proc, order, active, disk>>, closed => closed',
           \A p \in Procs : Local(p)' /\ (exec'[p] = "none" <=> exec[p] = "none")
    PROVE  Inv'
<1>1. OnDisk' = OnDisk /\ Latest' = Latest
  BY DEF OnDisk, Latest
<1>2. ASSUME NEW p \in Procs PROVE Holder(p)' /\ JournalLogged(p)'
  BY <1>1 DEF Inv, Common, Holder, JournalLogged, IsLive
<1>3. ASSUME ~LogMayFail, NEW p \in Procs PROVE Current(p)' /\ Parked(p)'
  BY <1>1, <1>3 DEF Inv, Quiet, Current, Parked, IsLive, Stored
<1> QED BY <1>1, <1>2, <1>3 DEF Inv, Common, Quiet

(* An append, when the log may fail. *)
LEMMA LoggedOrNot ==
    ASSUME NEW logged \in LogOutcomes
    PROVE  logged = TRUE \/ (LogMayFail /\ logged = FALSE)
<1>1. CASE LogMayFail
  BY <1>1 DEF LogOutcomes
<1>2. CASE ~LogMayFail
  BY <1>2 DEF LogOutcomes
<1> QED BY <1>1, <1>2

(* What is known of a process that exists. *)
LEMMA ExistsWhenActive ==
    ASSUME Inv, NEW p \in Procs, proc[p].status # "absent"
    PROVE  /\ Exists(p) /\ creating[p] = None /\ disk[p].status # "absent"
           /\ abortRuns[p] \in Nat /\ disk[p].abortRetries \in Nat /\ proc[p].abortRetries \in Nat
           /\ abortRuns[p] <= disk[p].abortRetries /\ disk[p].abortRetries <= proc[p].abortRetries
<1>1. proc[p] \in ProcState /\ disk[p] \in DiskState /\ abortRuns[p] \in Nat
  BY ProcTyped DEF Inv, TypeOK
<1>2. disk[p].abortRetries \in Nat /\ proc[p].abortRetries \in Nat
  BY <1>1, BoundsAssumption DEF ProcState, DiskState
<1> QED BY <1>1, <1>2 DEF Inv, Common, Local, Exists

(* finishLocked, with or without its event. *)
LEMMA FinishInv ==
    ASSUME Inv, NEW p \in Procs, NEW before \in ProcState,
           before.journal = proc[p].journal, before.abortRetries = proc[p].abortRetries,
           NEW status \in Terminal \cup {"waiting"},
           IsLive(p) \/ (proc[p].status = "waiting" /\ status # "waiting"),
           IsLive(p) => exec[p] # "none",
           FinishLocked(p, before, status),
           exec' = [exec EXCEPT ![p] = "none"],
           quantum' = [quantum EXCEPT ![p] = "none"],
           cancelled' = [cancelled EXCEPT ![p] = FALSE],
           UNCHANGED <<order, closed, rootDone, waking, creating, clock, ghosts>>
    PROVE  Inv'
<1> DEFINE state == [before EXCEPT !.status = status, !.stop = FALSE]
<1>1. /\ state \in ProcState /\ state.status = status /\ state.stop = FALSE
      /\ state.journal = proc[p].journal /\ state.abortRetries = proc[p].abortRetries
  BY DEF ProcState, Statuses
<1>2. PICK logged \in LogOutcomes : AppendProcess(p, state, logged)
  BY DEF FinishLocked
<1>3. /\ proc' = [proc EXCEPT ![p] = state]
      /\ active' = IF status # "waiting" /\ active = p THEN None ELSE active
  BY DEF FinishLocked
<1>4. Stored(state) \in DiskState /\ Stored(state) = [status |-> status, journal |-> state.journal,
            abortRetries |-> state.abortRetries, createdAt |-> state.createdAt]
  BY <1>1, StoredTyped DEF Stored
<1> HIDE DEF state
<1>5. disk' = [disk EXCEPT ![p] = Stored(state)] \/ (LogMayFail /\ disk' = disk)
  <2>1. CASE logged = TRUE
    BY <1>2, <2>1 DEF AppendProcess
  <2>2. CASE LogMayFail /\ logged = FALSE
    BY <1>2, <2>2 DEF AppendProcess
  <2> QED BY <2>1, <2>2, LoggedOrNot
<1>6. TypeOK'
  <2>1. proc \in [Procs -> ProcState] /\ disk \in [Procs -> DiskState]
    BY DEF Inv, TypeOK, ProcState, DiskState
  <2>2. proc' \in [Procs -> ProcState]
    BY <1>1, <1>3, <2>1
  <2>3. disk' \in [Procs -> DiskState]
    BY <1>4, <1>5, <2>1
  <2>4. active' \in Procs \cup {None}
    BY <1>3 DEF Inv, TypeOK
  <2>5. exec' \in [Procs -> ExecStages]
    BY DEF Inv, TypeOK, ExecStages
  <2>6. quantum' \in [Procs -> Ends \cup {"none", "queued", "live"}] /\ cancelled' \in [Procs -> BOOLEAN]
    BY DEF Inv, TypeOK
  <2> QED BY <2>2, <2>3, <2>4, <2>5, <2>6 DEF Inv, TypeOK, ProcState, DiskState, ExecStages, ghosts
<1>7. proc[p].status # "absent" /\ status # "absent" /\ status \notin Live
  BY DEF IsLive, Live, Terminal
<1>8. /\ creating[p] = None /\ disk[p].status # "absent"
      /\ abortRuns[p] \in Nat /\ disk[p].abortRetries \in Nat /\ proc[p].abortRetries \in Nat
      /\ abortRuns[p] <= disk[p].abortRetries /\ disk[p].abortRetries <= proc[p].abortRetries
  BY <1>7, ExistsWhenActive
<1>9. /\ proc'[p] = state /\ exec'[p] = "none" /\ quantum'[p] = "none" /\ cancelled'[p] = FALSE
      /\ creating'[p] = None /\ abortRuns'[p] = abortRuns[p] /\ Latest' = Latest
      /\ disk'[p] = Stored(state) \/ (LogMayFail /\ disk'[p] = disk[p])
  BY <1>3, <1>5, <1>8 DEF Inv, TypeOK, Latest, ghosts
<1>10. Others(p)
  BY <1>3, <1>5 DEF Others, Inv, TypeOK, ghosts
<1>11. Local(p)'
  BY <1>1, <1>4, <1>7, <1>8, <1>9 DEF Local, AtRest, Exists, IsLive
<1>12. JournalLogged(p)'
  <2>1. disk[p].journal = proc[p].journal \/ (p = Latest /\ closed)
    BY <1>7 DEF Inv, Common, JournalLogged, IsLive, Live
  <2> QED BY <1>1, <1>4, <1>9, <2>1 DEF JournalLogged
<1>13. ~LogMayFail => Current(p)'
  BY <1>1, <1>4, <1>7, <1>9 DEF Current, IsLive, Live
<1>14. Touches(p)
  BY <1>6, <1>10, <1>11, <1>12, <1>13 DEF Touches
<1> QED BY <1>1, <1>3, <1>9, <1>14, RestInv

(* relaunchLocked, with or without its event. *)
LEMMA RelaunchInv ==
    ASSUME Inv, NEW p \in Procs, Exists(p), NEW state \in ProcState,
           proc[p].abortRetries <= state.abortRetries, state.stop = proc[p].stop,
           exec[p] \in {"none", "record"}, Latest = p, active \in {None, p},
           RelaunchLocked(p, state),
           waking' \in [Procs -> BOOLEAN],
           quantum' = [quantum EXCEPT ![p] = "none"],
           cancelled' = [cancelled EXCEPT ![p] = FALSE],
           UNCHANGED <<order, closed, rootDone, creating, clock, birth>>,
           abortRuns' \in [Procs -> Nat],
           \A q \in Procs \ {p} : abortRuns'[q] = abortRuns[q],
           \/ abortRuns'[p] = abortRuns[p]
           \/ /\ exec'[p] # "none" /\ proc[p].abortRetries < state.abortRetries
              /\ abortRuns'[p] = abortRuns[p] + 1
    PROVE  Inv'
<1> DEFINE next == Requeued(state)
<1>1. /\ next \in ProcState /\ next.status = "queued"
      /\ next.journal = state.journal /\ next.abortRetries = state.abortRetries
      /\ next.stop = proc[p].stop /\ state.abortRetries \in Nat
  BY RequeuedTyped, BoundsAssumption DEF ProcState
<1>2. PICK logged \in LogOutcomes :
            /\ AppendProcess(p, next, logged)
            /\ exec' = [exec EXCEPT ![p] = IF logged THEN LaunchedExec(p) ELSE "none"]
  BY DEF RelaunchLocked
<1>3. ~closed /\ proc' = [proc EXCEPT ![p] = next] /\ active' = p
  BY DEF RelaunchLocked
<1>4. Stored(next) \in DiskState /\ Stored(next) = [status |-> next.status, journal |-> next.journal,
            abortRetries |-> next.abortRetries, createdAt |-> next.createdAt]
  BY <1>1, StoredTyped DEF Stored
<1> HIDE DEF next
<1>5. LaunchedExec(p) = "start"
  BY DEF LaunchedExec
<1>6. \/ disk' = [disk EXCEPT ![p] = Stored(next)] /\ exec' = [exec EXCEPT ![p] = "start"]
      \/ LogMayFail /\ disk' = disk /\ exec' = [exec EXCEPT ![p] = "none"]
  <2>1. CASE logged = TRUE
    BY <1>2, <1>5, <2>1 DEF AppendProcess
  <2>2. CASE LogMayFail /\ logged = FALSE
    BY <1>2, <1>5, <2>2 DEF AppendProcess
  <2> QED BY <2>1, <2>2, LoggedOrNot
<1>7. TypeOK'
  <2>1. proc \in [Procs -> ProcState] /\ disk \in [Procs -> DiskState]
    BY DEF Inv, TypeOK, ProcState, DiskState
  <2>2. proc' \in [Procs -> ProcState]
    BY <1>1, <1>3, <2>1
  <2>3. disk' \in [Procs -> DiskState]
    BY <1>4, <1>6, <2>1
  <2>4. active' \in Procs \cup {None}
    BY <1>3
  <2>5. exec' \in [Procs -> ExecStages]
    BY <1>6 DEF Inv, TypeOK, ExecStages
  <2>6. quantum' \in [Procs -> Ends \cup {"none", "queued", "live"}] /\ cancelled' \in [Procs -> BOOLEAN]
    BY DEF Inv, TypeOK
  <2> QED BY <2>2, <2>3, <2>4, <2>5, <2>6 DEF Inv, TypeOK, ProcState, DiskState, ExecStages
<1>8. /\ creating[p] = None /\ disk[p].status # "absent"
      /\ abortRuns[p] \in Nat /\ disk[p].abortRetries \in Nat /\ proc[p].abortRetries \in Nat
      /\ abortRuns[p] <= disk[p].abortRetries /\ disk[p].abortRetries <= proc[p].abortRetries
  BY ExistsWhenActive DEF Exists
<1>9. /\ proc'[p] = next /\ quantum'[p] = "none" /\ cancelled'[p] = FALSE
      /\ creating'[p] = None /\ Latest' = Latest
      /\ \/ disk'[p] = Stored(next) /\ exec'[p] = "start"
         \/ LogMayFail /\ disk'[p] = disk[p] /\ exec'[p] = "none"
  BY <1>3, <1>6, <1>8 DEF Inv, TypeOK, Latest
<1>10. Others(p)
  BY <1>3, <1>6 DEF Others, Inv, TypeOK
<1>11. IsLive(p)'
  BY <1>1, <1>9 DEF IsLive, Live
<1>12. Local(p)'
  <2>1. abortRuns'[p] <= disk'[p].abortRetries /\ disk'[p].abortRetries <= proc'[p].abortRetries
    BY <1>1, <1>4, <1>8, <1>9
  <2>2. ~proc[p].stop
    BY DEF Inv, Common, Local
  <2> QED BY <1>1, <1>4, <1>8, <1>9, <1>11, <2>1, <2>2 DEF Local, AtRest, Exists
<1>13. JournalLogged(p)'
  BY <1>1, <1>4, <1>9, <1>11 DEF JournalLogged
<1>14. ~LogMayFail => Current(p)'
  BY <1>1, <1>4, <1>9, <1>11 DEF Current
<1>15. Touches(p)
  BY <1>7, <1>10, <1>12, <1>13, <1>14 DEF Touches
<1> QED BY <1>3, <1>9, <1>11, <1>15, LaunchInv

(* relaunchLocked on a closed runtime. *)
LEMMA RelaunchRefusedInv ==
    ASSUME Inv, NEW p \in Procs, Exists(p), NEW state, Follows(state, proc[p]), Latest = p,
           exec[p] # "wait", RelaunchRefused(p, state),
           waking' \in [Procs -> BOOLEAN],
           quantum' = [quantum EXCEPT ![p] = "none"],
           cancelled' = [cancelled EXCEPT ![p] = FALSE],
           UNCHANGED <<order, closed, rootDone, creating, clock, ghosts>>
    PROVE  Inv'
<1>1. /\ state \in ProcState /\ state.status = proc[p].status /\ ~state.stop
      /\ proc[p].abortRetries <= state.abortRetries /\ state.abortRetries \in Nat
  BY BoundsAssumption DEF Follows, ProcState, Inv, Common, Local
<1>2. /\ closed /\ proc' = [proc EXCEPT ![p] = state]
      /\ exec' = [exec EXCEPT ![p] = "none"] /\ active' = active /\ disk' = disk
  BY DEF RelaunchRefused
<1>3. TypeOK'
  BY <1>1, <1>2 DEF Inv, TypeOK, ProcState, ghosts
<1>4. /\ creating[p] = None /\ disk[p].status # "absent"
      /\ abortRuns[p] \in Nat /\ disk[p].abortRetries \in Nat /\ proc[p].abortRetries \in Nat
      /\ abortRuns[p] <= disk[p].abortRetries /\ disk[p].abortRetries <= proc[p].abortRetries
  BY ExistsWhenActive DEF Exists
<1>5. /\ proc'[p] = state /\ exec'[p] = "none" /\ quantum'[p] = "none" /\ cancelled'[p] = FALSE
      /\ creating'[p] = None /\ abortRuns'[p] = abortRuns[p] /\ Latest' = Latest
      /\ disk'[p] = disk[p] /\ closed' = closed
  BY <1>2, <1>4 DEF Inv, TypeOK, Latest, ghosts
<1>6. Others(p)
  BY <1>2 DEF Others, Inv, TypeOK, ghosts
<1>7. Local(p)'
  BY <1>1, <1>4, <1>5 DEF Local, AtRest, Exists
<1>8. JournalLogged(p)'
  BY <1>2, <1>5 DEF JournalLogged
<1>9. ~LogMayFail => Current(p)'
  BY <1>1, <1>2, <1>5 DEF Current, Inv, Quiet
<1>10. Touches(p)
  BY <1>3, <1>5, <1>6, <1>7, <1>8, <1>9 DEF Touches
<1> QED BY <1>1, <1>2, <1>5, <1>10, RefusedInv

-----------------------------------------------------------------------------
(* The steps that leave processes, session and log alone. *)

LEMMA CreateReadsClockInv ==
    ASSUME Inv, NEW p \in Procs, CreateReadsClock(p)
    PROVE  Inv'
<1>1. TypeOK' /\ UNCHANGED <<proc, order, active, closed, exec, disk, quantum, cancelled, abortRuns>>
  BY DEF Inv, TypeOK, CreateReadsClock, memory, pool, ghosts
<1>2. ASSUME NEW q \in Procs PROVE Local(q)'
  BY <1>1 DEF Inv, Common, TypeOK, Local, Exists, IsLive, CreateReadsClock
<1> QED BY <1>1, <1>2, StillInv

LEMMA WakeFindsInv ==
    ASSUME Inv, NEW p \in Procs, WakeFinds(p)
    PROVE  Inv'
<1>1. TypeOK' /\ UNCHANGED <<proc, order, active, closed, exec, disk, quantum, cancelled, creating, abortRuns>>
  BY DEF Inv, TypeOK, WakeFinds, memory, pool, ghosts
<1>2. ASSUME NEW q \in Procs PROVE Local(q)'
  BY <1>1 DEF Inv, Common, Local, Exists, IsLive
<1> QED BY <1>1, <1>2, StillInv

LEMMA ExecStartInv ==
    ASSUME Inv, NEW p \in Procs, ExecStart(p)
    PROVE  Inv'
<1>1. TypeOK' /\ UNCHANGED <<proc, order, active, closed, disk, quantum, cancelled, creating, abortRuns>>
  BY DEF Inv, TypeOK, ExecStart, memory, pool, ghosts
<1>2. \E e \in {"halted", "submit"} : exec[p] = "start" /\ exec' = [exec EXCEPT ![p] = e]
  BY DEF ExecStart
<1>3. ASSUME NEW q \in Procs PROVE Local(q)' /\ (exec'[q] = "none" <=> exec[q] = "none")
  BY <1>1, <1>2 DEF Inv, Common, TypeOK, Local, Exists, IsLive, AtRest
<1> QED BY <1>1, <1>3, StillInv

LEMMA ExecSubmitInv ==
    ASSUME Inv, NEW p \in Procs, ExecSubmit(p)
    PROVE  Inv'
<1>1. TypeOK' /\ UNCHANGED <<proc, order, active, closed, disk, cancelled, creating, abortRuns>>
  BY DEF Inv, TypeOK, ExecSubmit, memory, ghosts
<1>2. /\ exec[p] = "submit"
      /\ \/ quantum' = [quantum EXCEPT ![p] = "queued"] /\ exec' = [exec EXCEPT ![p] = "submitted"]
         \/ quantum' = quantum /\ exec' = [exec EXCEPT ![p] = "refused"]
  BY DEF ExecSubmit
<1>3. ASSUME NEW q \in Procs PROVE Local(q)' /\ (exec'[q] = "none" <=> exec[q] = "none")
  <2>1. Local(q) /\ exec \in [Procs -> ExecStages] /\ quantum \in [Procs -> Ends \cup {"none", "queued", "live"}]
    BY DEF Inv, Common, TypeOK, ExecStages
  <2>2. CASE q = p
    BY <1>1, <1>2, <2>1, <2>2 DEF Local, Exists, IsLive, AtRest
  <2>3. CASE q # p
    BY <1>1, <1>2, <2>1, <2>3 DEF Local, Exists, IsLive
  <2> QED BY <2>2, <2>3
<1> QED BY <1>1, <1>3, StillInv

LEMMA QuantumStepInv ==
    ASSUME Inv, NEW p \in Procs,
           QuantumStarts(p) \/ \E end \in Ends : QuantumEnds(p, end)
    PROVE  Inv'
<1>1. \E x \in Ends \cup {"live"} : quantum[p] \in {"queued", "live"} /\ quantum' = [quantum EXCEPT ![p] = x]
  BY DEF QuantumStarts, QuantumEnds, Ends
<1>2. UNCHANGED <<memory, exec, cancelled, rootDone, waking, creating, clock, disk, ghosts>>
  BY DEF QuantumStarts, QuantumEnds
<1>3. TypeOK' /\ UNCHANGED <<proc, order, active, closed, exec, disk, cancelled, creating, abortRuns>>
  <2>1. quantum' \in [Procs -> Ends \cup {"none", "queued", "live"}]
    <3>1. quantum \in [Procs -> Ends \cup {"none", "queued", "live"}]
      BY DEF Inv, TypeOK
    <3> QED BY <1>1, <3>1
  <2>2. UNCHANGED <<proc, order, active, closed, exec, disk, cancelled, rootDone, waking,
                    creating, clock, birth, abortRuns>>
    BY <1>2 DEF memory, ghosts
  <2>3. TypeOK'
    BY <2>1, <2>2 DEF Inv, TypeOK
  <2> QED BY <2>2, <2>3
<1>4. ASSUME NEW q \in Procs PROVE Local(q)'
  BY <1>1, <1>3 DEF Inv, Common, TypeOK, Local, Exists, IsLive, Ends
<1> QED BY <1>3, <1>4, StillInv

LEMMA CloseInv ==
    ASSUME Inv, CloseMarks \/ CloseCancels
    PROVE  Inv'
<1>1. /\ TypeOK' /\ (closed => closed')
      /\ UNCHANGED <<proc, order, active, exec, disk, quantum, cancelled, creating, abortRuns>>
  BY DEF Inv, TypeOK, CloseMarks, CloseCancels, memory, pool, ghosts
<1>2. ASSUME NEW q \in Procs PROVE Local(q)'
  BY <1>1 DEF Inv, Common, Local, Exists, IsLive
<1> QED BY <1>1, <1>2, StillInv

LEMMA TickInv ==
    ASSUME Inv, Tick
    PROVE  Inv'
<1>1. clock' \in 0 .. MaxClock
  BY BoundsAssumption DEF Inv, TypeOK, Tick
<1>2. TypeOK' /\ UNCHANGED <<proc, order, active, closed, exec, disk, quantum, cancelled, creating, abortRuns>>
  BY <1>1 DEF Inv, TypeOK, Tick, memory, pool, ghosts
<1>3. ASSUME NEW q \in Procs PROVE Local(q)'
  BY <1>2 DEF Inv, Common, Local, Exists, IsLive
<1> QED BY <1>2, <1>3, StillInv

-----------------------------------------------------------------------------
(* The steps of a live process that stays live. *)

(* What a goroutine and a quantum say of their process. *)
LEMMA Running ==
    ASSUME Inv, NEW p \in Procs, exec[p] # "none"
    PROVE  IsLive(p) /\ Exists(p) /\ disk[p].journal = proc[p].journal
BY DEF Inv, Common, Local, JournalLogged, IsLive, Exists, Live

LEMMA Submitted ==
    ASSUME Inv, NEW p \in Procs, quantum[p] # "none"
    PROVE  exec[p] # "none" /\ exec[p] \notin AtRest
BY DEF Inv, Common, Local, AtRest

(* The process takes a new state, which the log may get too. *)
LEMMA SetLiveInv ==
    ASSUME Inv, NEW p \in Procs, NEW state \in ProcState,
           IsLive(p), state.status \in Live, state.journal = proc[p].journal,
           state.abortRetries = proc[p].abortRetries, state.createdAt = proc[p].createdAt,
           proc' = [proc EXCEPT ![p] = state],
           \/ \E logged \in LogOutcomes : AppendProcess(p, state, logged)
           \/ state.status = proc[p].status /\ disk' = disk,
           exec' \in [Procs -> ExecStages], cancelled' \in [Procs -> BOOLEAN],
           \A q \in Procs \ {p} : exec'[q] = exec[q] /\ cancelled'[q] = cancelled[q],
           exec'[p] # "overlap", exec'[p] = "none" <=> exec[p] = "none",
           state.stop => exec'[p] = "wait",
           exec'[p] \in AtRest <=> exec[p] \in AtRest, exec'[p] \in AtRest => ~cancelled'[p],
           UNCHANGED <<order, active, closed, quantum, rootDone, waking, creating, clock, ghosts>>
    PROVE  Inv'
<1>1. Stored(state) \in DiskState /\ Stored(state) = [status |-> state.status, journal |-> state.journal,
            abortRetries |-> state.abortRetries, createdAt |-> state.createdAt]
  BY StoredTyped DEF Stored
<1>2. \/ disk' = [disk EXCEPT ![p] = Stored(state)]
      \/ disk' = disk /\ (LogMayFail \/ state.status = proc[p].status)
  <2>1. ASSUME NEW logged \in LogOutcomes, AppendProcess(p, state, logged)
        PROVE  disk' = [disk EXCEPT ![p] = Stored(state)] \/ (disk' = disk /\ LogMayFail)
    <3>1. CASE logged = TRUE
      BY <2>1, <3>1 DEF AppendProcess
    <3>2. CASE LogMayFail /\ logged = FALSE
      BY <2>1, <3>2 DEF AppendProcess
    <3> QED BY <3>1, <3>2, LoggedOrNot
  <2> QED BY <2>1
<1>3. TypeOK'
  <2>1. proc \in [Procs -> ProcState] /\ disk \in [Procs -> DiskState]
    BY DEF Inv, TypeOK, ProcState, DiskState
  <2>2. proc' \in [Procs -> ProcState]
    BY <2>1
  <2>3. disk' \in [Procs -> DiskState]
    BY <1>1, <1>2, <2>1
  <2> QED BY <2>2, <2>3 DEF Inv, TypeOK, ProcState, DiskState, ExecStages, ghosts
<1>4. proc[p].status # "absent" /\ state.status # "absent"
  BY DEF IsLive, Live
<1>5. /\ creating[p] = None /\ disk[p].status # "absent"
      /\ abortRuns[p] \in Nat /\ disk[p].abortRetries \in Nat /\ proc[p].abortRetries \in Nat
      /\ abortRuns[p] <= disk[p].abortRetries /\ disk[p].abortRetries <= proc[p].abortRetries
  BY <1>4, ExistsWhenActive
<1>6. /\ proc'[p] = state /\ quantum'[p] = quantum[p]
      /\ creating'[p] = None /\ abortRuns'[p] = abortRuns[p] /\ Latest' = Latest
      /\ \/ disk'[p] = Stored(state)
         \/ disk'[p] = disk[p] /\ (LogMayFail \/ state.status = proc[p].status)
  BY <1>2, <1>5 DEF Inv, TypeOK, Latest, ghosts
<1>7. Others(p)
  BY <1>2 DEF Others, Inv, TypeOK, ghosts
<1>8. Local(p) /\ JournalLogged(p) /\ IsLive(p)'
  BY <1>6 DEF Inv, Common, IsLive
<1>9. Local(p)'
  BY <1>1, <1>4, <1>5, <1>6, <1>8 DEF Local, Exists
<1>10. JournalLogged(p)'
  BY <1>1, <1>6, <1>8 DEF JournalLogged
<1>11. ASSUME ~LogMayFail PROVE Current(p)'
  <2>1. Current(p)
    BY <1>11 DEF Inv, Quiet
  <2>2. /\ disk'[p].status = state.status /\ (~closed => disk'[p] = Stored(state))
    BY <1>1, <1>6, <1>11, <2>1 DEF Current, Stored
  <2> QED BY <1>6, <1>8, <2>1, <2>2 DEF Current
<1>12. Touches(p)
  BY <1>3, <1>7, <1>9, <1>10, <1>11 DEF Touches
<1> QED BY <1>8, <1>12, LiveInv

LEMMA StopRunningInv ==
    ASSUME Inv, NEW p \in Procs, StopRunning(p)
    PROVE  Inv'
<1> DEFINE state == [proc[p] EXCEPT !.status = "stopping", !.stopRequested = TRUE]
<1>1. proc[p] \in ProcState /\ IsLive(p)
  BY ProcTyped DEF Inv, StopRunning, IsLive, Live
<1>2. /\ state \in ProcState /\ state.status \in Live /\ state.journal = proc[p].journal
      /\ state.abortRetries = proc[p].abortRetries /\ state.createdAt = proc[p].createdAt
  BY <1>1 DEF ProcState, Statuses, Live
<1>3. /\ proc' = [proc EXCEPT ![p] = state]
      /\ \E logged \in LogOutcomes : AppendProcess(p, state, logged)
  BY DEF StopRunning
<1>4. cancelled' = [cancelled EXCEPT ![p] = @ \/ proc[p].stop]
  BY DEF StopRunning
<1>5. UNCHANGED <<order, active, closed, exec, quantum, rootDone, waking, creating, clock, ghosts>>
  BY DEF StopRunning
<1>6. exec \in [Procs -> ExecStages] /\ cancelled' \in [Procs -> BOOLEAN]
  BY <1>1, <1>4 DEF Inv, TypeOK, ExecStages, ProcState
<1>7. /\ Local(p) /\ state.stop = proc[p].stop /\ cancelled'[p] = (cancelled[p] \/ proc[p].stop)
      /\ \A q \in Procs \ {p} : cancelled'[q] = cancelled[q]
  BY <1>1, <1>4 DEF Inv, Common, TypeOK, ProcState
<1> HIDE DEF state
<1>8. exec[p] \in AtRest => ~cancelled'[p]
  BY <1>7 DEF Local, AtRest
<1>9. exec[p] # "overlap" /\ (state.stop => exec[p] = "wait")
  BY <1>7 DEF Local
<1> QED BY <1>1, <1>2, <1>3, <1>5, <1>6, <1>7, <1>8, <1>9, SetLiveInv

LEMMA ExecRunningInv ==
    ASSUME Inv, NEW p \in Procs, ExecRunning(p)
    PROVE  Inv'
<1> DEFINE state == [proc[p] EXCEPT !.status = "running", !.stop = TRUE]
<1>1. proc[p] \in ProcState /\ exec[p] = "submitted" /\ IsLive(p)
  BY ProcTyped, Running DEF Inv, ExecRunning
<1>2. /\ state \in ProcState /\ state.status \in Live /\ state.journal = proc[p].journal
      /\ state.abortRetries = proc[p].abortRetries /\ state.createdAt = proc[p].createdAt
  BY <1>1 DEF ProcState, Statuses, Live
<1>3. /\ proc' = [proc EXCEPT ![p] = state]
      /\ \E logged \in LogOutcomes : AppendProcess(p, state, logged)
  BY DEF ExecRunning
<1>4. /\ cancelled' = [cancelled EXCEPT ![p] = @ \/ proc[p].stopRequested]
      /\ exec' = [exec EXCEPT ![p] = "wait"]
  BY DEF ExecRunning
<1>5. UNCHANGED <<order, active, closed, quantum, rootDone, waking, creating, clock, ghosts>>
  BY DEF ExecRunning
<1>6. exec' \in [Procs -> ExecStages] /\ cancelled' \in [Procs -> BOOLEAN]
  BY <1>1, <1>4 DEF Inv, TypeOK, ExecStages, ProcState
<1>7. exec'[p] = "wait" /\ \A q \in Procs \ {p} : exec'[q] = exec[q] /\ cancelled'[q] = cancelled[q]
  BY <1>4 DEF Inv, TypeOK
<1> HIDE DEF state
<1> QED BY <1>1, <1>2, <1>3, <1>5, <1>6, <1>7, SetLiveInv DEF AtRest

LEMMA ExecReceivesInv ==
    ASSUME Inv, NEW p \in Procs, ExecReceives(p)
    PROVE  Inv'
<1> DEFINE state == [proc[p] EXCEPT !.stop = FALSE]
<1>1. proc[p] \in ProcState /\ exec[p] = "wait" /\ IsLive(p)
  BY ProcTyped, Running DEF Inv, ExecReceives
<1>2. /\ state \in ProcState /\ state.status = proc[p].status /\ state.journal = proc[p].journal
      /\ state.abortRetries = proc[p].abortRetries /\ state.createdAt = proc[p].createdAt
      /\ state.stop = FALSE
  BY <1>1 DEF ProcState
<1>3. proc' = [proc EXCEPT ![p] = state] /\ exec' = [exec EXCEPT ![p] = "record"]
  BY DEF ExecReceives
<1>4. UNCHANGED <<order, active, closed, quantum, cancelled, rootDone, waking, creating, clock, disk, ghosts>>
  BY DEF ExecReceives, pool
<1>5. exec' \in [Procs -> ExecStages] /\ cancelled' \in [Procs -> BOOLEAN]
  BY <1>3, <1>4 DEF Inv, TypeOK, ExecStages
<1>6. exec'[p] = "record" /\ \A q \in Procs \ {p} : exec'[q] = exec[q]
  BY <1>3 DEF Inv, TypeOK
<1>7. state.status \in Live
  BY <1>1, <1>2 DEF IsLive
<1> HIDE DEF state
<1> QED BY <1>1, <1>2, <1>3, <1>4, <1>5, <1>6, <1>7, SetLiveInv DEF AtRest

(* A record of the journal reaches memory and log. *)
LEMMA JournalRecordInv ==
    ASSUME Inv, NEW p \in Procs, NEW x \in Marks, quantum[p] = "live",
           Len(proc[p].journal) < 2 * MaxCalls, JournalRecord(p, x)
    PROVE  Inv'
<1> DEFINE j == Append(proc[p].journal, x)
<1>1. proc[p] \in ProcState /\ disk[p] \in DiskState
  BY ProcTyped DEF Inv
<1>2. exec[p] # "none" /\ IsLive(p) /\ disk[p].journal = proc[p].journal
  BY Submitted, Running
<1>3. j \in Journals
  BY <1>1, JournalAppends DEF ProcState
<1>4. /\ proc' = [proc EXCEPT ![p].journal = Append(@, x)]
      /\ disk' = [disk EXCEPT ![p].journal = Append(@, x)]
      /\ UNCHANGED <<order, active, closed, exec, quantum, cancelled, rootDone, waking, creating,
                     clock, birth, abortRuns>>
  BY DEF JournalRecord, pool, ghosts
<1>5. /\ proc' = [proc EXCEPT ![p] = [@ EXCEPT !.journal = j]]
      /\ disk' = [disk EXCEPT ![p] = [@ EXCEPT !.journal = j]]
  BY <1>2, <1>4
<1> HIDE DEF j
<1>6. proc \in [Procs -> ProcState] /\ disk \in [Procs -> DiskState]
  BY DEF Inv, TypeOK, ProcState, DiskState
<1>7. /\ proc'[p] = [proc[p] EXCEPT !.journal = j] /\ disk'[p] = [disk[p] EXCEPT !.journal = j]
      /\ \A q \in Procs \ {p} : proc'[q] = proc[q] /\ disk'[q] = disk[q]
  BY <1>5, <1>6
<1>8. TypeOK'
  <2>1. proc' \in [Procs -> ProcState]
    BY <1>1, <1>3, <1>5, <1>6 DEF ProcState
  <2>2. disk' \in [Procs -> DiskState]
    BY <1>1, <1>3, <1>5, <1>6 DEF DiskState
  <2> QED BY <1>4, <2>1, <2>2 DEF Inv, TypeOK, ProcState, DiskState
<1>9. Others(p)
  BY <1>4, <1>7 DEF Others
<1>10. /\ proc'[p].status = proc[p].status /\ proc'[p].stop = proc[p].stop
       /\ proc'[p].abortRetries = proc[p].abortRetries /\ proc'[p].journal = j
       /\ disk'[p].status = disk[p].status /\ disk'[p].abortRetries = disk[p].abortRetries
       /\ disk'[p].journal = j
  BY <1>1, <1>7 DEF ProcState, DiskState
<1>11. Local(p)'
  BY <1>4, <1>10 DEF Inv, Common, Local, Exists, IsLive
<1>12. JournalLogged(p)' /\ IsLive(p)'
  BY <1>2, <1>10 DEF JournalLogged, IsLive
<1>13. ASSUME ~LogMayFail PROVE Current(p)'
  <2>1. Current(p)
    BY <1>13 DEF Inv, Quiet
  <2>2. ASSUME disk[p] = Stored(proc[p]) PROVE disk'[p] = Stored(proc'[p])
    BY <1>1, <1>7, <2>2 DEF Stored, ProcState, DiskState
  <2>3. closed' = closed /\ exec' = exec
    BY <1>4
  <2> QED BY <1>2, <1>10, <2>1, <2>2, <2>3 DEF Current, Stored
<1>14. Touches(p)
  BY <1>4, <1>8, <1>9, <1>11, <1>12, <1>13 DEF Touches
<1> QED BY <1>2, <1>4, <1>12, <1>14, LiveInv

LEMMA GuestInv ==
    ASSUME Inv, NEW p \in Procs,
           \/ \E name \in GuestCalls : GuestCalling(p, name)
           \/ \E outcome \in Outcomes : GuestAnswered(p, outcome)
    PROVE  Inv'
<1> DEFINE n == Len(proc[p].journal)
<1>1. proc[p].journal \in Journals
  BY ProcTyped DEF Inv, ProcState
<1>2. n \in 0 .. 2 * MaxCalls
  BY <1>1, JournalBounds
<1>3. ASSUME NEW name \in GuestCalls, GuestCalling(p, name) PROVE Inv'
  <2>1. n < 2 * MaxCalls
    <3>1. /\ CompletedCalls(proc[p].journal) \in Nat
          /\ n \in {2 * CompletedCalls(proc[p].journal), 2 * CompletedCalls(proc[p].journal) + 1}
      BY <1>1, JournalBounds, JournalLength
    <3>2. CompletedCalls(proc[p].journal) < MaxCalls
      BY <1>3 DEF GuestCalling
    <3> HIDE DEF n
    <3> QED BY <3>1, <3>2, CallsAssumption
  <2> QED BY <1>3, <2>1, JournalRecordInv DEF GuestCalling, Marks
<1>4. ASSUME NEW outcome \in Outcomes, GuestAnswered(p, outcome) PROVE Inv'
  <2>1. n < 2 * MaxCalls
    <3>1. n % 2 = 1
      BY <1>4 DEF GuestAnswered, JournalOpen
    <3> HIDE DEF n
    <3>2. \A m \in Nat : (2 * m) % 2 = 0
      OBVIOUS
    <3>3. n # 2 * MaxCalls
      BY <3>1, <3>2, CallsAssumption
    <3> QED BY <1>2, <3>3, CallsAssumption
  <2> QED BY <1>4, <2>1, JournalRecordInv DEF GuestAnswered, Marks
<1> QED BY <1>3, <1>4

-----------------------------------------------------------------------------
(* The steps that end a run or launch one. *)

(* A goroutine without a quantum has nothing to clear. *)
LEMMA NothingToClear ==
    ASSUME Inv, NEW p \in Procs, exec[p] \in AtRest
    PROVE  quantum = [quantum EXCEPT ![p] = "none"] /\ cancelled = [cancelled EXCEPT ![p] = FALSE]
<1>1. quantum[p] = "none" /\ cancelled[p] = FALSE
  BY DEF Inv, TypeOK, Common, Local
<1> QED BY <1>1 DEF Inv, TypeOK

LEMMA StopParkedInv ==
    ASSUME Inv, NEW p \in Procs, StopParked(p)
    PROVE  Inv'
<1>1. /\ proc[p].status = "waiting" /\ FinishLocked(p, proc[p], "stopped")
      /\ UNCHANGED <<order, closed, exec, quantum, cancelled, rootDone, waking, creating, clock, ghosts>>
  BY DEF StopParked, pool
<1>2. exec[p] = "none" /\ ~IsLive(p) /\ proc[p] \in ProcState
  BY <1>1, ProcTyped DEF Inv, Common, Local, IsLive, Live
<1>3. exec' = [exec EXCEPT ![p] = "none"]
  BY <1>1, <1>2 DEF Inv, TypeOK
<1>4. quantum' = [quantum EXCEPT ![p] = "none"] /\ cancelled' = [cancelled EXCEPT ![p] = FALSE]
  BY <1>1, <1>2, NothingToClear DEF AtRest
<1> QED BY <1>1, <1>2, <1>3, <1>4, FinishInv DEF Terminal

LEMMA ExecEndsInv ==
    ASSUME Inv, NEW p \in Procs, ExecHalted(p) \/ ExecRefused(p)
    PROVE  Inv'
<1>1. \E status \in {"stopped", "interrupted"} :
         /\ exec[p] \in {"halted", "refused"} /\ FinishLocked(p, proc[p], status)
         /\ exec' = [exec EXCEPT ![p] = "none"]
         /\ UNCHANGED <<order, closed, quantum, cancelled, rootDone, waking, creating, clock, ghosts>>
  BY DEF ExecHalted, ExecRefused, pool
<1>2. exec[p] # "none" /\ IsLive(p) /\ proc[p] \in ProcState
  BY <1>1, ProcTyped, Running DEF Inv
<1>3. quantum' = [quantum EXCEPT ![p] = "none"] /\ cancelled' = [cancelled EXCEPT ![p] = FALSE]
  BY <1>1, NothingToClear DEF AtRest
<1> QED BY <1>1, <1>2, <1>3, FinishInv DEF Terminal

(* Retry and wake, once checkRetryLocked has let them through. *)
LEMMA RetryLockedInv ==
    ASSUME Inv, NEW p \in Procs, NEW mode \in {"resume", "restart"},
           CheckRetryLocked(p, mode), RetryLocked(p, mode), waking' \in [Procs -> BOOLEAN],
           UNCHANGED <<order, closed, pool, creating, clock, ghosts>>
    PROVE  Inv'
<1> DEFINE state == RetryState(p, mode)
<1>1. Follows(state, proc[p]) /\ state \in ProcState
  BY RetryStateTyped DEF Inv, Follows
<1>2. Exists(p) /\ ~IsLive(p) /\ Latest = p /\ active \in {None, p}
  BY DEF CheckRetryLocked, RetryableStatus, Exists, IsLive, Live
<1>3. exec[p] = "none"
  BY <1>2 DEF Inv, Common, Local
<1>4. quantum' = [quantum EXCEPT ![p] = "none"] /\ cancelled' = [cancelled EXCEPT ![p] = FALSE]
  BY <1>3, NothingToClear DEF AtRest, pool
<1>5. /\ UNCHANGED <<order, closed, rootDone, creating, clock, birth, abortRuns, ghosts>>
      /\ abortRuns' \in [Procs -> Nat]
  BY DEF pool, ghosts, Inv, TypeOK
<1>6. /\ proc[p].abortRetries <= state.abortRetries /\ state.stop = proc[p].stop
  BY <1>1 DEF Follows
<1> HIDE DEF state
<1>7. CASE RelaunchLocked(p, state)
  BY <1>1, <1>2, <1>3, <1>4, <1>5, <1>6, <1>7, RelaunchInv
<1>8. CASE RelaunchRefused(p, state)
  BY <1>1, <1>2, <1>3, <1>4, <1>5, <1>8, RelaunchRefusedInv
<1> QED BY <1>7, <1>8 DEF RetryLocked, state

LEMMA RetryInv ==
    ASSUME Inv, NEW p \in Procs, NEW mode \in {"resume", "restart"}, Retry(p, mode)
    PROVE  Inv'
<1>1. waking' \in [Procs -> BOOLEAN]
  BY DEF Retry, Inv, TypeOK
<1> QED BY <1>1, RetryLockedInv DEF Retry

LEMMA WakeRetriesInv ==
    ASSUME Inv, NEW p \in Procs, WakeRetries(p)
    PROVE  Inv'
<1>1. waking' \in [Procs -> BOOLEAN] /\ UNCHANGED <<order, closed, pool, creating, clock, ghosts>>
  BY DEF WakeRetries, Inv, TypeOK
<1>2. CASE CheckRetryLocked(p, "resume") /\ RetryLocked(p, "resume")
  BY <1>1, <1>2, RetryLockedInv
<1>3. CASE UNCHANGED <<proc, active, exec, disk>>
  <2>1. TypeOK' /\ UNCHANGED <<quantum, cancelled, abortRuns>>
    BY <1>1, <1>3 DEF Inv, TypeOK, pool, ghosts
  <2>2. ASSUME NEW q \in Procs PROVE Local(q)'
    BY <1>1, <1>3, <2>1 DEF Inv, Common, Local, Exists, IsLive
  <2> QED BY <1>1, <1>3, <2>1, <2>2, StillInv
<1> QED BY <1>2, <1>3 DEF WakeRetries

LEMMA CreateProcessInv ==
    ASSUME Inv, NEW p \in Procs, CreateProcess(p)
    PROVE  Inv'
<1>1. /\ creating[p] # None /\ creating' = [creating EXCEPT ![p] = None]
      /\ UNCHANGED <<closed, quantum, cancelled, rootDone, waking, clock, abortRuns>>
  BY DEF CreateProcess, pool
<1>2. /\ ~Exists(p) /\ ~IsLive(p) /\ exec[p] = "none" /\ abortRuns[p] = 0 /\ disk[p].status = "absent"
  BY <1>1 DEF Inv, Common, Local, Exists, IsLive, Live
<1>3. CASE UNCHANGED <<proc, order, active, exec, disk, birth>>
  <2>1. TypeOK'
    BY <1>1, <1>3 DEF Inv, TypeOK
  <2>2. ASSUME NEW q \in Procs PROVE Local(q)'
    BY <1>1, <1>3 DEF Inv, TypeOK, Common, Local, Exists, IsLive
  <2> QED BY <1>1, <1>3, <2>1, <2>2, StillInv
<1> DEFINE state == [Absent EXCEPT !.status = "queued", !.createdAt = creating[p]]
<1>4. CASE /\ CreateAllowed
           /\ proc' = [proc EXCEPT ![p] = state] /\ AppendProcess(p, state, TRUE)
           /\ order' = Append(order, p) /\ birth' = Append(birth, p) /\ active' = p
           /\ exec' = [exec EXCEPT ![p] = LaunchedExec(p)]
  <2>1. creating[p] \in 0 .. MaxClock
    BY <1>1 DEF Inv, TypeOK
  <2>2. /\ state \in ProcState /\ state.status = "queued" /\ state.journal = << >>
        /\ state.abortRetries = 0 /\ state.stop = FALSE
    BY <2>1, AbsentTyped DEF Absent, ProcState, Statuses, Live
  <2>3. Stored(state) \in DiskState /\ Stored(state) = [status |-> state.status, journal |-> state.journal,
            abortRetries |-> state.abortRetries, createdAt |-> state.createdAt]
    BY <2>2, StoredTyped DEF Stored
  <2> HIDE DEF state
  <2>4. disk' = [disk EXCEPT ![p] = Stored(state)] /\ exec' = [exec EXCEPT ![p] = "start"]
    BY <1>2, <1>4 DEF AppendProcess, LaunchedExec
  <2>5. TypeOK'
    <3>1. proc \in [Procs -> ProcState] /\ disk \in [Procs -> DiskState]
      BY DEF Inv, TypeOK, ProcState, DiskState
    <3>2. proc' \in [Procs -> ProcState]
      BY <1>4, <2>2, <3>1
    <3>3. disk' \in [Procs -> DiskState]
      BY <2>3, <2>4, <3>1
    <3>4. exec' \in [Procs -> ExecStages] /\ order' \in Seq(Procs) /\ birth' \in Seq(Procs)
      BY <1>4, <2>4 DEF Inv, TypeOK, ExecStages
    <3> QED BY <1>1, <1>4, <3>2, <3>3, <3>4 DEF Inv, TypeOK, ProcState, DiskState, ExecStages
  <2>6. /\ proc'[p] = state /\ disk'[p] = Stored(state) /\ exec'[p] = "start"
        /\ quantum'[p] = quantum[p] /\ cancelled'[p] = cancelled[p]
        /\ creating'[p] = None /\ abortRuns'[p] = 0 /\ closed' = closed
    BY <1>1, <1>2, <1>4, <2>4 DEF Inv, TypeOK
  <2>7. Latest' = p
    BY <1>4 DEF Inv, TypeOK, Latest
  <2>8. Others(p)
    BY <1>1, <1>4, <2>4 DEF Others, Inv, TypeOK
  <2>9. IsLive(p)'
    BY <2>2, <2>6 DEF IsLive, Live
  <2>10. Local(p)'
    BY <1>2, <2>2, <2>3, <2>6, <2>9 DEF Inv, Common, Local, AtRest, Exists
  <2>11. JournalLogged(p)' /\ Current(p)'
    BY <2>2, <2>3, <2>6 DEF JournalLogged, Current
  <2>12. Touches(p)
    BY <2>5, <2>6, <2>8, <2>10, <2>11 DEF Touches
  <2> QED BY <1>4, <2>7, <2>9, <2>12, LaunchInv DEF CreateAllowed
<1> QED BY <1>3, <1>4 DEF CreateProcess

-----------------------------------------------------------------------------
(* recordOutcome *)

LEMMA RecordsFinishInv ==
    ASSUME Inv, NEW p \in Procs, NEW before \in ProcState,
           before.journal = proc[p].journal, before.abortRetries = proc[p].abortRetries,
           NEW status \in Terminal \cup {"waiting"},
           Recording(p), RecordsFinish(p, before, status)
    PROVE  Inv'
<1>1. exec[p] # "none" /\ IsLive(p)
  BY Running DEF Recording
<1>2. /\ FinishLocked(p, before, status) /\ exec' = [exec EXCEPT ![p] = "none"]
      /\ quantum' = [quantum EXCEPT ![p] = "none"] /\ cancelled' = [cancelled EXCEPT ![p] = FALSE]
      /\ UNCHANGED <<order, closed, rootDone, waking, creating, clock, ghosts>>
  BY DEF Recording, RecordsFinish, ghosts
<1> QED BY <1>1, <1>2, FinishInv

LEMMA RecordAbortInv ==
    ASSUME Inv, NEW p \in Procs, RecordAbort(p)
    PROVE  Inv'
<1>1. Recording(p)
  BY DEF RecordAbort
<1>2. /\ exec[p] = "record" /\ quantum' = [quantum EXCEPT ![p] = "none"]
      /\ cancelled' = [cancelled EXCEPT ![p] = FALSE]
      /\ UNCHANGED <<order, closed, rootDone, waking, creating, clock, birth>>
      /\ waking' \in [Procs -> BOOLEAN]
  BY <1>1 DEF Recording, Inv, TypeOK
<1>3. Exists(p) /\ Latest = p /\ active = p /\ proc[p] \in ProcState
  BY <1>2, Running, ProcTyped DEF Inv, Common, Holder
<1>4. CASE ~AbortRetries(p) /\ RecordsFinish(p, proc[p], "failed")
  BY <1>1, <1>3, <1>4, RecordsFinishInv DEF Terminal
<1> DEFINE state == AbortedState(p)
<1>5. ASSUME AbortRetries(p)
      PROVE  /\ Follows(state, proc[p]) /\ state \in ProcState /\ state.stop = proc[p].stop
             /\ proc[p].abortRetries < state.abortRetries /\ proc[p].abortRetries <= state.abortRetries
  <2>1. proc[p].abortRetries \in Nat
    BY <1>3, BoundsAssumption DEF ProcState
  <2> QED BY <1>5, <2>1, AbortedStateTyped DEF Inv, AbortRetries, Follows
<1>6. CASE /\ AbortRetries(p) /\ RelaunchLocked(p, state)
           /\ abortRuns' = IF exec'[p] = "none" THEN abortRuns ELSE [abortRuns EXCEPT ![p] = @ + 1]
  <2> HIDE DEF state
  <2>1. /\ abortRuns' \in [Procs -> Nat] /\ \A q \in Procs \ {p} : abortRuns'[q] = abortRuns[q]
        /\ abortRuns'[p] = abortRuns[p] \/ (exec'[p] # "none" /\ abortRuns'[p] = abortRuns[p] + 1)
    <3>1. abortRuns \in [Procs -> Nat]
      BY DEF Inv, TypeOK
    <3>2. CASE exec'[p] = "none"
      BY <1>6, <3>1, <3>2
    <3>3. CASE exec'[p] # "none"
      BY <1>6, <3>1, <3>3
    <3> QED BY <3>2, <3>3
  <2> QED BY <1>2, <1>3, <1>5, <1>6, <2>1, RelaunchInv
<1>7. CASE AbortRetries(p) /\ RelaunchRefused(p, state) /\ UNCHANGED abortRuns
  <2> HIDE DEF state
  <2>1. UNCHANGED <<order, closed, rootDone, creating, clock, ghosts>>
    BY <1>2, <1>7 DEF ghosts
  <2> QED BY <1>2, <1>3, <1>5, <1>7, <2>1, RelaunchRefusedInv
<1> QED BY <1>4, <1>6, <1>7 DEF RecordAbort

LEMMA RecordFailureInv ==
    ASSUME Inv, NEW p \in Procs, RecordFailure(p)
    PROVE  Inv'
<1>1. Recording(p)
  BY DEF RecordFailure
<1>2. /\ exec[p] = "record" /\ quantum' = [quantum EXCEPT ![p] = "none"]
      /\ cancelled' = [cancelled EXCEPT ![p] = FALSE]
      /\ UNCHANGED <<order, closed, rootDone, waking, creating, clock, birth>>
      /\ waking' \in [Procs -> BOOLEAN]
  BY <1>1 DEF Recording, Inv, TypeOK
<1>3. Exists(p) /\ Latest = p /\ active = p /\ proc[p] \in ProcState
  BY <1>2, Running, ProcTyped DEF Inv, Common, Holder
<1> DEFINE state == RedrivenState(p)
<1>4. /\ state \in ProcState /\ state.stop = proc[p].stop /\ state.journal = proc[p].journal
      /\ state.abortRetries = proc[p].abortRetries /\ proc[p].abortRetries <= state.abortRetries
  BY RedrivenTyped DEF Inv, Follows
<1> HIDE DEF state
<1>5. CASE RecordsFinish(p, proc[p], "failed")
  BY <1>1, <1>3, <1>5, RecordsFinishInv DEF Terminal
<1>6. CASE RecordsFinish(p, Requeued(state), "failed")
  BY <1>1, <1>4, <1>6, RequeuedTyped, RecordsFinishInv DEF Terminal
<1>7. CASE /\ ~closed /\ proc' = [proc EXCEPT ![p] = Requeued(state)] /\ active' = p
           /\ AppendProcess(p, Requeued(state), TRUE)
           /\ exec' = [exec EXCEPT ![p] = LaunchedExec(p)] /\ UNCHANGED abortRuns
  <2>1. TRUE \in LogOutcomes
    BY DEF LogOutcomes
  <2>2. RelaunchLocked(p, state)
    BY <1>7, <2>1 DEF RelaunchLocked
  <2>3. abortRuns' \in [Procs -> Nat] /\ \A q \in Procs : abortRuns'[q] = abortRuns[q]
    BY <1>7 DEF Inv, TypeOK
  <2> QED BY <1>2, <1>3, <1>4, <2>2, <2>3, RelaunchInv
<1> QED BY <1>5, <1>6, <1>7 DEF RecordFailure, Redrives, state

LEMMA RecordRestInv ==
    ASSUME Inv, NEW p \in Procs, RecordAnswer(p) \/ RecordYield(p) \/ RecordStop(p)
    PROVE  Inv'
<1>1. Recording(p) /\ \E status \in Terminal \cup {"waiting"} : RecordsFinish(p, proc[p], status)
  BY DEF RecordAnswer, RecordYield, RecordStop, StoppedStatus, Terminal
<1>2. proc[p] \in ProcState
  BY ProcTyped DEF Inv
<1> QED BY <1>1, <1>2, RecordsFinishInv

-----------------------------------------------------------------------------
(* The restart. *)

LEMMA RestartInv ==
    ASSUME Inv, Restart
    PROVE  Inv'
<1>1. /\ proc' = [p \in Procs |-> Restored(disk[p])]
      /\ order' = RestoredOrder /\ active' = RestoredActive /\ closed' = FALSE
      /\ exec' = [p \in Procs |-> "none"] /\ quantum' = [p \in Procs |-> "none"]
      /\ cancelled' = [p \in Procs |-> FALSE] /\ rootDone' = FALSE
      /\ waking' = [p \in Procs |-> FALSE] /\ creating' = [p \in Procs |-> None]
      /\ disk' = [p \in Procs |-> Stored(Restored(disk[p]))]
      /\ UNCHANGED <<clock, birth, abortRuns>>
  BY DEF Restart, ghosts
<1>2. RestoredOrder \in Seq(Procs) /\ RestoredActive \in Procs \cup {None}
  BY RestoredOrderSorts, RestoredActiveFirst DEF Inv
<1>3. ASSUME NEW p \in Procs
      PROVE  /\ Restored(disk[p]) \in ProcState /\ Stored(Restored(disk[p])) \in DiskState
             /\ proc'[p] = Restored(disk[p]) /\ disk'[p] = Stored(proc'[p])
             /\ proc'[p].status = RestoredStatus(disk[p].status) /\ disk'[p].status = proc'[p].status
             /\ proc'[p].journal = disk[p].journal /\ disk'[p].journal = proc'[p].journal
             /\ proc'[p].abortRetries = disk[p].abortRetries
             /\ disk'[p].abortRetries = disk[p].abortRetries
             /\ proc'[p].stop = FALSE
  <2>1. disk[p] \in DiskState
    BY ProcTyped DEF Inv
  <2>2. RestoredStatus(disk[p].status) \in Statuses
    BY <2>1 DEF RestoredStatus, DiskState, Statuses, Terminal
  <2>3. /\ Restored(disk[p]) \in ProcState /\ Restored(disk[p]).status = RestoredStatus(disk[p].status)
        /\ Restored(disk[p]).journal = disk[p].journal
        /\ Restored(disk[p]).abortRetries = disk[p].abortRetries /\ Restored(disk[p]).stop = FALSE
    BY <2>1, <2>2, AbsentTyped DEF Restored, Absent, ProcState, DiskState
  <2>4. Stored(Restored(disk[p])) \in DiskState
    BY <2>3, StoredTyped
  <2>5. proc'[p] = Restored(disk[p]) /\ disk'[p] = Stored(proc'[p])
    BY <1>1
  <2> QED BY <2>3, <2>4, <2>5 DEF Stored
<1>4. TypeOK'
  <2>1. proc' \in [Procs -> ProcState] /\ disk' \in [Procs -> DiskState]
    BY <1>1, <1>3
  <2> QED BY <1>1, <1>2, <2>1 DEF Inv, TypeOK, ProcState, DiskState
<1>5. OnDisk' = OnDisk
  BY <1>3 DEF OnDisk, RestoredStatus, Live
<1>6. ASSUME NEW p \in Procs PROVE ~IsLive(p)'
  BY <1>3 DEF IsLive, RestoredStatus, Live
<1>7. ASSUME NEW p \in Procs PROVE Local(p)'
  <2>1. /\ Local(p) /\ disk[p] \in DiskState
    BY ProcTyped DEF Inv, Common
  <2>2. exec'[p] = "none" /\ quantum'[p] = "none" /\ cancelled'[p] = FALSE /\ creating'[p] = None
    BY <1>1
  <2>3. disk[p].status = "absent" <=> proc'[p].status = "absent"
    BY <1>3 DEF RestoredStatus, Live
  <2>4. disk'[p].abortRetries <= proc'[p].abortRetries /\ abortRuns'[p] <= disk'[p].abortRetries
    <3>1. disk[p].abortRetries \in Nat
      BY <2>1, BoundsAssumption DEF DiskState
    <3>2. abortRuns'[p] = abortRuns[p] /\ abortRuns[p] <= disk[p].abortRetries
      BY <1>1, <2>1 DEF Local
    <3>3. proc'[p].abortRetries = disk[p].abortRetries /\ disk'[p].abortRetries = disk[p].abortRetries
      BY <1>3
    <3> QED BY <3>1, <3>2, <3>3
  <2> QED BY <1>1, <1>3, <2>1, <2>2, <2>3, <2>4 DEF Local, AtRest, Exists
<1>8. ASSUME NEW p \in Procs PROVE Holder(p)' /\ JournalLogged(p)'
  BY <1>3, <1>6 DEF Holder, JournalLogged
<1>9. ASSUME NEW p \in Procs PROVE Current(p)'
  BY <1>3, <1>6 DEF Current
<1>10. ASSUME ~LogMayFail, NEW p \in Procs PROVE Parked(p)'
  <2> SUFFICES ASSUME proc'[p].status = "waiting"
               PROVE  /\ \/ active' = p
                         \/ /\ active' \in Procs /\ proc'[active'].status = "interrupted"
                            /\ active' # Latest'
                      /\ \A q \in Procs \ {p} : proc'[q].status # "waiting"
    BY DEF Parked
  <2>1. \A q \in Procs : proc'[q].status = "waiting" => proc[q].status = "waiting"
    BY <1>3, <1>10 DEF RestoredStatus, Inv, Quiet, Current
  <2>2. \A q \in Procs \ {p} : proc[q].status # "waiting"
    BY <1>10, <2>1 DEF Inv, Quiet, Parked
  <2>3. \A q \in Procs \ {p} : proc'[q].status # "waiting"
    BY <2>1, <2>2
  <2>4. disk[p].status = "waiting" /\ p \in Holders
    BY <1>3 DEF RestoredStatus, Holders, OnDisk, ActiveStatuses
  <2> DEFINE a == RestoredActive
  <2>5. /\ a \in Holders /\ \A q \in Holders \ {a} : RestoredBefore(a, q)
    BY <2>4, RestoredActiveFirst DEF Inv
  <2> HIDE DEF a
  <2>6. active' = a
    BY <1>1 DEF a
  <2>7. CASE a = p
    BY <2>3, <2>6, <2>7
  <2>8. CASE a # p
    <3>1. RestoredBefore(a, p) /\ a \in OnDisk /\ p \in OnDisk /\ a \in Procs
      BY <2>4, <2>5, <2>8 DEF Holders, OnDisk
    <3>2. disk[a].status # "waiting"
      BY <1>10, <2>2, <2>8, <3>1 DEF Inv, Quiet, Current
    <3>3. proc'[a].status = "interrupted"
      BY <1>3, <2>5, <3>1, <3>2 DEF Holders, ActiveStatuses, RestoredStatus
    <3>4. Latest' # a
      <4> DEFINE s == RestoredOrder
      <4>1. s \in Seq(Procs)
        BY RestoredOrderSorts DEF Inv
      <4>2. PICK i \in 1 .. Len(s) : s[i] = p
        BY <3>1, RestoredOrderSorts DEF Inv
      <4>3. \A m, n \in 1 .. Len(s) : m < n => RestoredBefore(s[m], s[n])
        BY RestoredOrderSorts DEF Inv
      <4>4. ~RestoredBefore(p, a)
        BY <3>1, EarlierTotal DEF Inv, TotalOn
      <4>5. Latest' = s[Len(s)]
        BY <1>1 DEF Latest
      <4> HIDE DEF s
      <4>6. Len(s) \in Nat
        BY <4>1
      <4>7. i = Len(s) \/ (i < Len(s) /\ Len(s) \in 1 .. Len(s))
        BY <4>2, <4>6
      <4> QED BY <2>8, <4>2, <4>3, <4>4, <4>5, <4>7
    <3> QED BY <2>3, <2>6, <3>1, <3>3, <3>4
  <2> QED BY <2>7, <2>8
<1> QED BY <1>4, <1>5, <1>7, <1>8, <1>9, <1>10 DEF Inv, Common, Quiet

-----------------------------------------------------------------------------
(* The invariant holds initially and every step keeps it. *)
LEMMA InitInv == Init => Inv
<1> SUFFICES ASSUME Init PROVE Inv
  OBVIOUS
<1>1. Absent \in ProcState /\ Stored(Absent) \in DiskState
  BY AbsentTyped, StoredTyped
<1>2. TypeOK
  <2>1. proc \in [Procs -> ProcState] /\ disk \in [Procs -> DiskState]
    BY <1>1 DEF Init
  <2>2. clock \in 0 .. MaxClock
    BY BoundsAssumption DEF Init
  <2>3. order \in Seq(Procs) /\ birth \in Seq(Procs) /\ active \in Procs \cup {None}
    BY DEF Init
  <2>4. /\ exec \in [Procs -> ExecStages] /\ quantum \in [Procs -> Ends \cup {"none", "queued", "live"}]
        /\ cancelled \in [Procs -> BOOLEAN] /\ waking \in [Procs -> BOOLEAN]
        /\ creating \in [Procs -> (0 .. MaxClock) \cup {None}] /\ abortRuns \in [Procs -> Nat]
    BY DEF Init, ExecStages
  <2>5. closed \in BOOLEAN /\ rootDone \in BOOLEAN
    BY DEF Init
  <2> QED BY <2>1, <2>2, <2>3, <2>4, <2>5 DEF TypeOK, ProcState, DiskState, ExecStages
<1>3. OnDisk = {}
  BY DEF Init, OnDisk, Stored, Absent
<1>4. IsFiniteSet(OnDisk)
  BY <1>3, FS_EmptySet
<1>5. ASSUME NEW p \in Procs
      PROVE  Local(p) /\ Holder(p) /\ JournalLogged(p) /\ Current(p) /\ Parked(p)
  <2>1. /\ proc[p] = Absent /\ disk[p] = Stored(Absent) /\ exec[p] = "none" /\ quantum[p] = "none"
        /\ cancelled[p] = FALSE /\ creating[p] = None /\ abortRuns[p] = 0
    BY DEF Init
  <2>2. Local(p)
    BY <2>1 DEF Local, AtRest, Exists, IsLive, Stored, Absent
  <2>3. Holder(p) /\ JournalLogged(p) /\ Current(p) /\ Parked(p)
    BY <2>1 DEF Holder, JournalLogged, Current, Parked, IsLive, Live, Stored, Absent
  <2> QED BY <2>2, <2>3
<1> QED BY <1>2, <1>4, <1>5 DEF Inv, Common, Quiet

LEMMA StutterInv ==
    ASSUME Inv, UNCHANGED vars
    PROVE  Inv'
<1>1. /\ TypeOK' /\ closed' = closed
      /\ UNCHANGED <<proc, order, active, exec, disk, quantum, cancelled, creating, abortRuns>>
  BY DEF Inv, TypeOK, vars
<1>2. ASSUME NEW q \in Procs PROVE Local(q)'
  BY <1>1 DEF Inv, Common, Local, Exists, IsLive
<1> QED BY <1>1, <1>2, StillInv

LEMMA NextInv == Inv /\ [Next]_vars => Inv'
<1> SUFFICES ASSUME Inv, [Next]_vars PROVE Inv'
  OBVIOUS
<1>1. ASSUME NEW p \in Procs, API(p) PROVE Inv'
  BY <1>1, CreateReadsClockInv, CreateProcessInv, StopRunningInv, StopParkedInv, RetryInv,
     WakeFindsInv, WakeRetriesInv DEF API
<1>2. ASSUME NEW p \in Procs, Execute(p) PROVE Inv'
  BY <1>2, ExecStartInv, ExecEndsInv, ExecSubmitInv, ExecRunningInv, ExecReceivesInv,
     RecordAbortInv, RecordFailureInv, RecordRestInv DEF Execute, RecordOutcome
<1>3. ASSUME NEW p \in Procs, Quantum(p) PROVE Inv'
  BY <1>3, QuantumStepInv, GuestInv DEF Quantum
<1> QED BY <1>1, <1>2, <1>3, CloseInv, RestartInv, TickInv, StutterInv DEF Next

LEMMA InvHolds == Spec => []Inv
<1> QED BY InitInv, NextInv, PTL DEF Spec

-----------------------------------------------------------------------------
(* The theorems. *)

(* The runtime's state, its goroutines and the log keep their types: in
   particular the order and the holder a restart chooses exist. *)
THEOREM TypeCorrect == Spec => []TypeOK
<1>1. Inv => TypeOK
  BY DEF Inv
<1> QED BY <1>1, InvHolds, PTL

(* A process never has two execute goroutines, and has one only while it is live,
   also when appends to the log fail (executor.go launchLocked, execute). *)
THEOREM AlwaysOneQuantum == Spec => []OneQuantum
<1>1. Inv => OneQuantum
  BY DEF Inv, Common, Local, OneQuantum
<1> QED BY <1>1, InvHolds, PTL

(* An abort launches a process's section again at most maxAbortRetries times in
   its life, over any crashes, retries and failed appends: what is launched was
   logged first (recovery.go retryAbortedSection). *)
THEOREM BudgetAlwaysHolds == Spec => []AbortBudgetHolds
<1>1. Inv => AbortBudgetHolds
  <2> SUFFICES ASSUME Inv, NEW p \in Procs PROVE abortRuns[p] <= MaxAborts
    BY DEF AbortBudgetHolds
  <2>1. disk[p].abortRetries \in 0 .. MaxAborts /\ abortRuns[p] \in Nat
    BY DEF Inv, TypeOK
  <2>2. abortRuns[p] <= disk[p].abortRetries
    BY DEF Inv, Common, Local
  <2> QED BY <2>1, <2>2, BoundsAssumption
<1> QED BY <1>1, InvHolds, PTL

(* While the log takes events, a live process of an open runtime has a goroutine
   to run it.  A failed append really strands one: relaunchLocked leaves it
   queued and returns. *)
THEOREM NeverStranded == Spec => [](~LogMayFail => NobodyStranded)
<1>1. Inv => (~LogMayFail => NobodyStranded)
  BY DEF Inv, Quiet, Current, NobodyStranded
<1> QED BY <1>1, InvHolds, PTL

(* While the log takes events, it holds every process's state and journal until
   the runtime closes: every critical section appends what it changed. *)
THEOREM LogAlwaysCurrent == Spec => [](~LogMayFail => LogIsCurrent)
<1>1. Inv => (~LogMayFail => LogIsCurrent)
  BY DEF Inv, Quiet, Current, LogIsCurrent
<1> QED BY <1>1, InvHolds, PTL

(* While the log takes events, whoever runs holds the session alone: no other
   process of it runs or waits (processes.go CreateProcess, checkRetryLocked;
   events.go Fold's foreground process). *)
THEOREM OneProcessAlwaysRuns == Spec => [](~LogMayFail => OneProcessRuns)
<1>1. Inv => (~LogMayFail => OneProcessRuns)
  <2> SUFFICES ASSUME Inv, ~LogMayFail, NEW p \in Procs, IsLive(p), NEW q \in Procs \ {p}
               PROVE  active = p /\ ~IsLive(q) /\ proc[q].status # "waiting"
    BY DEF Inv, Common, Holder, OneProcessRuns
  <2>1. active = p /\ Holder(q) /\ Parked(q)
    BY DEF Inv, Common, Holder, Quiet
  <2>2. proc[p].status # "interrupted"
    BY DEF IsLive, Live
  <2> QED BY <2>1, <2>2 DEF Holder, Parked
<1> QED BY <1>1, InvHolds, PTL

-----------------------------------------------------------------------------
(* A process listed before another has come to rest. *)
LEMMA EarlierRests ==
    ASSUME Inv, NEW p \in Procs, p # Latest
    PROVE  /\ ~IsLive(p) /\ exec[p] = "none" /\ quantum[p] = "none"
           /\ disk[p].journal = proc[p].journal
BY DEF Inv, Common, Local, Holder, JournalLogged, AtRest

(* What an operation on a process does to the table. *)
LEMMA ActsOnOne ==
    ASSUME TypeOK, NEW p \in Procs, API(p) \/ Execute(p) \/ Quantum(p)
    PROVE  proc' = proc \/ \E state : proc' = [proc EXCEPT ![p] = state]
<1>1. ASSUME API(p) PROVE proc' = proc \/ \E state : proc' = [proc EXCEPT ![p] = state]
  BY <1>1 DEF API, CreateReadsClock, CreateProcess, StopRunning, StopParked, FinishLocked, Retry,
     RetryLocked, RelaunchLocked, RelaunchRefused, WakeFinds, WakeRetries, memory
<1>2. ASSUME Execute(p) PROVE proc' = proc \/ \E state : proc' = [proc EXCEPT ![p] = state]
  BY <1>2 DEF Execute, ExecStart, ExecHalted, ExecSubmit, ExecRefused, ExecRunning, ExecReceives,
     RecordOutcome, RecordAbort, RecordAnswer, RecordFailure, RecordYield, RecordStop,
     RecordsFinish, FinishLocked, RelaunchLocked, RelaunchRefused, memory
<1>3. ASSUME Quantum(p) PROVE proc' = proc \/ \E state : proc' = [proc EXCEPT ![p] = state]
  BY <1>3 DEF Quantum, QuantumStarts, GuestCalling, GuestAnswered, JournalRecord, QuantumEnds, memory
<1> QED BY <1>1, <1>2, <1>3

(* No step launches or forks a process listed before another. *)
LEMMA FrozenStep ==
    ASSUME Inv, [Next]_vars, NEW p \in Procs, Exists(p), p # Latest
    PROVE  proc'[p].status \notin Live /\ proc'[p].journal = proc[p].journal
<1>1. /\ ~IsLive(p) /\ exec[p] = "none" /\ quantum[p] = "none"
      /\ disk[p].journal = proc[p].journal /\ creating[p] = None
  BY EarlierRests, ExistsWhenActive DEF Exists
<1>2. CASE proc' = proc
  BY <1>1, <1>2 DEF IsLive
<1>3. ASSUME NEW q \in Procs, API(q) \/ Execute(q) \/ Quantum(q), q # p
      PROVE  proc'[p] = proc[p]
  BY <1>3, ActsOnOne DEF Inv, TypeOK
<1>4. CASE API(p)
  <2>1. CASE StopParked(p)
    <3>1. proc' = [proc EXCEPT ![p] = [proc[p] EXCEPT !.status = "stopped", !.stop = FALSE]]
      BY <2>1 DEF StopParked, FinishLocked
    <3>2. proc[p] \in ProcState /\ proc \in [Procs -> ProcState]
      BY ProcTyped DEF Inv, TypeOK, ProcState
    <3> QED BY <3>1, <3>2 DEF ProcState, Live
  <2>2. CASE CreateReadsClock(p) \/ CreateProcess(p) \/ WakeFinds(p)
    BY <1>1, <1>2, <2>2 DEF CreateReadsClock, CreateProcess, WakeFinds, memory
  <2>3. CASE WakeRetries(p) \/ \E mode \in {"resume", "restart"} : Retry(p, mode)
    BY <1>2, <2>3 DEF WakeRetries, Retry, CheckRetryLocked
  <2>4. ~StopRunning(p)
    BY <1>1 DEF StopRunning, IsLive, Live
  <2> QED BY <1>4, <2>1, <2>2, <2>3, <2>4 DEF API
<1>5. ~Execute(p)
  BY <1>1 DEF Execute, ExecStart, ExecHalted, ExecSubmit, ExecRefused, ExecRunning, ExecReceives,
     RecordOutcome, RecordAbort, RecordAnswer, RecordFailure, RecordYield, RecordStop, Recording
<1>6. ~Quantum(p)
  BY <1>1 DEF Quantum, QuantumStarts, GuestCalling, GuestAnswered, QuantumEnds
<1>7. CASE Restart
  <2>1. proc'[p] = Restored(disk[p]) /\ disk[p] \in DiskState
    BY <1>7, ProcTyped DEF Restart, Inv
  <2>2. Restored(disk[p]).status \notin Live /\ Restored(disk[p]).journal = disk[p].journal
    BY DEF Restored, Absent, RestoredStatus, Live
  <2> QED BY <1>1, <2>1, <2>2
<1>8. CASE CloseMarks \/ CloseCancels \/ Tick \/ UNCHANGED vars
  BY <1>2, <1>8 DEF CloseMarks, CloseCancels, Tick, memory, vars
<1>9. ASSUME NEW q \in Procs, API(q) \/ Execute(q) \/ Quantum(q)
      PROVE  proc'[p].status \notin Live /\ proc'[p].journal = proc[p].journal
  <2>1. CASE q = p
    BY <1>4, <1>5, <1>6, <1>9, <2>1
  <2>2. CASE q # p
    BY <1>1, <1>3, <1>9, <2>2 DEF IsLive
  <2> QED BY <2>1, <2>2
<1> QED BY <1>7, <1>8, <1>9 DEF Next

-----------------------------------------------------------------------------
(* Which process is listed last.  A process's creation time is fixed, in memory
   and in the log, so who follows whom for good is too, and nobody so followed is
   ever the latest: a creation appends, and a restart sorts. *)

Succession ==
    /\ \A p \in Procs : Exists(p) => disk[p].createdAt = proc[p].createdAt
    /\ \A i \in DOMAIN birth : Exists(birth[i])
    /\ \A p \in Procs : FollowedForGood(p) => p # Latest

(* What a step keeps of the processes there are. *)
Kept == \A q \in Procs :
    Exists(q) => /\ proc'[q].status # "absent"
                 /\ proc'[q].createdAt = proc[q].createdAt
                 /\ disk'[q].createdAt = disk[q].createdAt

LEMMA StoredDate == \A state : Stored(state).createdAt = state.createdAt
BY DEF Stored

(* A new state of one process, logged or not. *)
LEMMA StateKeeps ==
    ASSUME Inv, Succession, NEW p \in Procs, Exists(p),
           NEW state, state.status # "absent", state.createdAt = proc[p].createdAt,
           proc' = [proc EXCEPT ![p] = state],
           disk' = disk \/ disk' = [disk EXCEPT ![p] = Stored(state)]
    PROVE  Kept
<1>1. proc \in [Procs -> ProcState] /\ disk \in [Procs -> DiskState]
  BY DEF Inv, TypeOK, ProcState, DiskState
<1>2. proc'[p] = state /\ (disk'[p] = disk[p] \/ disk'[p] = Stored(state))
  BY <1>1
<1>3. \A q \in Procs \ {p} : proc'[q] = proc[q] /\ disk'[q] = disk[q]
  BY <1>1
<1>4. disk'[p].createdAt = disk[p].createdAt
  BY <1>2, StoredDate DEF Succession
<1> QED BY <1>2, <1>3, <1>4 DEF Kept, Exists

LEMMA AppendsOrNot ==
    ASSUME NEW p, NEW state, NEW logged, AppendProcess(p, state, logged)
    PROVE  disk' = disk \/ disk' = [disk EXCEPT ![p] = Stored(state)]
BY DEF AppendProcess

LEMMA FinishKeeps ==
    ASSUME Inv, Succession, NEW p \in Procs, Exists(p), NEW before \in ProcState,
           before.createdAt = proc[p].createdAt, NEW status \in Terminal \cup {"waiting"},
           FinishLocked(p, before, status)
    PROVE  Kept
<1> DEFINE state == [before EXCEPT !.status = status, !.stop = FALSE]
<1>1. state.status = status /\ state.createdAt = proc[p].createdAt
  BY DEF ProcState
<1>2. status # "absent"
  BY DEF Terminal
<1>3. PICK logged \in LogOutcomes : AppendProcess(p, state, logged)
  BY DEF FinishLocked
<1>4. proc' = [proc EXCEPT ![p] = state]
  BY DEF FinishLocked
<1> HIDE DEF state
<1>5. disk' = disk \/ disk' = [disk EXCEPT ![p] = Stored(state)]
  BY <1>3, AppendsOrNot
<1> QED BY <1>1, <1>2, <1>4, <1>5, StateKeeps

LEMMA RequeuedDate ==
    ASSUME NEW state \in ProcState
    PROVE  Requeued(state).status = "queued" /\ Requeued(state).createdAt = state.createdAt
BY DEF Requeued, ProcState

LEMMA RelaunchKeeps ==
    ASSUME Inv, Succession, NEW p \in Procs, Exists(p), NEW state, Follows(state, proc[p]),
           RelaunchLocked(p, state) \/ RelaunchRefused(p, state)
    PROVE  Kept
<1>1. state \in ProcState /\ state.createdAt = proc[p].createdAt /\ state.status # "absent"
  BY DEF Follows, Exists
<1>2. CASE RelaunchRefused(p, state)
  BY <1>1, <1>2, StateKeeps DEF RelaunchRefused
<1>3. CASE RelaunchLocked(p, state)
  <2> DEFINE next == Requeued(state)
  <2>1. next.status # "absent" /\ next.createdAt = proc[p].createdAt
    BY <1>1, RequeuedDate
  <2>2. PICK logged \in LogOutcomes : AppendProcess(p, next, logged)
    BY <1>3 DEF RelaunchLocked
  <2>3. proc' = [proc EXCEPT ![p] = next]
    BY <1>3 DEF RelaunchLocked
  <2> HIDE DEF next
  <2>4. disk' = disk \/ disk' = [disk EXCEPT ![p] = Stored(next)]
    BY <2>2, AppendsOrNot
  <2> QED BY <2>1, <2>3, <2>4, StateKeeps
<1> QED BY <1>2, <1>3

LEMMA NothingChanges == ASSUME UNCHANGED <<proc, disk>> PROVE Kept
BY DEF Kept, Exists

(* The steps of one process that exists. *)
LEMMA APIKeeps ==
    ASSUME Inv, Succession, NEW p \in Procs, API(p), ~CreateProcess(p)
    PROVE  Kept /\ UNCHANGED <<order, birth>>
<1>1. proc[p] \in ProcState
  BY ProcTyped DEF Inv
<1>2. UNCHANGED <<order, birth>>
  BY DEF API, CreateReadsClock, StopRunning, StopParked, Retry, WakeFinds, WakeRetries, memory,
         ghosts
<1>3. CASE CreateReadsClock(p) \/ WakeFinds(p)
  BY <1>2, <1>3, NothingChanges DEF CreateReadsClock, WakeFinds, memory
<1>4. CASE StopRunning(p)
  <2> DEFINE state == [proc[p] EXCEPT !.status = "stopping", !.stopRequested = TRUE]
  <2>1. Exists(p) /\ state.status # "absent" /\ state.createdAt = proc[p].createdAt
    BY <1>1, <1>4 DEF StopRunning, Exists, ProcState
  <2>2. PICK logged \in LogOutcomes : AppendProcess(p, state, logged)
    BY <1>4 DEF StopRunning
  <2>3. proc' = [proc EXCEPT ![p] = state]
    BY <1>4 DEF StopRunning
  <2> HIDE DEF state
  <2>4. disk' = disk \/ disk' = [disk EXCEPT ![p] = Stored(state)]
    BY <2>2, AppendsOrNot
  <2> QED BY <1>2, <2>1, <2>3, <2>4, StateKeeps
<1>5. CASE StopParked(p)
  <2>1. Exists(p) /\ FinishLocked(p, proc[p], "stopped") /\ "stopped" \in Terminal
    BY <1>5 DEF StopParked, Exists, Terminal
  <2> QED BY <1>1, <1>2, <2>1, FinishKeeps
<1>6. ASSUME NEW mode \in {"resume", "restart"}, Exists(p), RetryLocked(p, mode) PROVE Kept
  <2>1. Follows(RetryState(p, mode), proc[p])
    BY RetryStateTyped DEF Inv
  <2> QED BY <1>6, <2>1, RelaunchKeeps DEF RetryLocked
<1>7. CASE \E mode \in {"resume", "restart"} : Retry(p, mode)
  BY <1>2, <1>6, <1>7 DEF Retry
<1>8. CASE WakeRetries(p)
  <2>1. CASE CheckRetryLocked(p, "resume") /\ RetryLocked(p, "resume")
    BY <1>2, <1>6, <2>1 DEF CheckRetryLocked, RetryableStatus, Exists
  <2>2. CASE UNCHANGED <<proc, active, exec, disk>>
    BY <1>2, <2>2, NothingChanges
  <2> QED BY <1>8, <2>1, <2>2 DEF WakeRetries
<1> QED BY <1>2, <1>3, <1>4, <1>5, <1>7, <1>8 DEF API

LEMMA ExecuteKeeps ==
    ASSUME Inv, Succession, NEW p \in Procs, Execute(p)
    PROVE  Kept /\ UNCHANGED <<order, birth>>
<1>1. proc[p] \in ProcState /\ proc \in [Procs -> ProcState]
  BY ProcTyped DEF Inv, TypeOK, ProcState
<1>2. UNCHANGED <<order, birth>>
  BY DEF Execute, ExecStart, ExecHalted, ExecSubmit, ExecRefused, ExecRunning, ExecReceives,
         RecordOutcome, RecordAbort, RecordAnswer, RecordFailure, RecordYield, RecordStop,
         Recording, memory, ghosts
<1>3. Exists(p)
  <2>1. exec[p] # "none"
    BY DEF Execute, ExecStart, ExecHalted, ExecSubmit, ExecRefused, ExecRunning, ExecReceives,
           RecordOutcome, RecordAbort, RecordAnswer, RecordFailure, RecordYield, RecordStop,
           Recording
  <2> QED BY <2>1 DEF Inv, Common, Local, IsLive, Live, Exists
<1>4. ASSUME NEW before \in ProcState, before.createdAt = proc[p].createdAt,
             NEW status \in Terminal \cup {"waiting"}, FinishLocked(p, before, status)
      PROVE  Kept
  BY <1>3, <1>4, FinishKeeps
<1>5. CASE ExecStart(p) \/ ExecSubmit(p)
  BY <1>2, <1>5, NothingChanges DEF ExecStart, ExecSubmit, memory
<1>6. CASE ExecHalted(p) \/ ExecRefused(p)
  <2>1. \E status \in Terminal : FinishLocked(p, proc[p], status)
    BY <1>6 DEF ExecHalted, ExecRefused, Terminal
  <2> QED BY <1>1, <1>2, <1>4, <2>1
<1>7. CASE ExecRunning(p)
  <2> DEFINE state == [proc[p] EXCEPT !.status = "running", !.stop = TRUE]
  <2>1. state.status # "absent" /\ state.createdAt = proc[p].createdAt
    BY <1>1 DEF ProcState
  <2>2. PICK logged \in LogOutcomes : AppendProcess(p, state, logged)
    BY <1>7 DEF ExecRunning
  <2>3. proc' = [proc EXCEPT ![p] = state]
    BY <1>7 DEF ExecRunning
  <2> HIDE DEF state
  <2>4. disk' = disk \/ disk' = [disk EXCEPT ![p] = Stored(state)]
    BY <2>2, AppendsOrNot
  <2> QED BY <1>2, <1>3, <2>1, <2>3, <2>4, StateKeeps
<1>8. CASE ExecReceives(p)
  <2> DEFINE state == [proc[p] EXCEPT !.stop = FALSE]
  <2>1. state.status = proc[p].status /\ state.createdAt = proc[p].createdAt
    BY <1>1 DEF ProcState
  <2>2. proc' = [proc EXCEPT ![p] = state] /\ disk' = disk
    BY <1>8 DEF ExecReceives
  <2> HIDE DEF state
  <2> QED BY <1>2, <1>3, <2>1, <2>2, StateKeeps DEF Exists
<1>9. CASE RecordAbort(p)
  <2>1. CASE AbortRetries(p) /\ (RelaunchLocked(p, AbortedState(p)) \/ RelaunchRefused(p, AbortedState(p)))
    <3>1. Follows(AbortedState(p), proc[p])
      BY <2>1, AbortedStateTyped DEF AbortRetries, Inv
    <3> QED BY <1>2, <1>3, <2>1, <3>1, RelaunchKeeps
  <2>2. CASE RecordsFinish(p, proc[p], "failed")
    BY <1>1, <1>2, <1>4, <2>2 DEF RecordsFinish, Terminal
  <2> QED BY <1>9, <2>1, <2>2 DEF RecordAbort
<1>10. CASE RecordFailure(p)
  <2>1. Follows(RedrivenState(p), proc[p])
    BY RedrivenTyped DEF Inv
  <2>2. RedrivenState(p) \in ProcState /\ RedrivenState(p).createdAt = proc[p].createdAt
    BY <2>1 DEF Follows
  <2>3. /\ Requeued(RedrivenState(p)) \in ProcState
        /\ Requeued(RedrivenState(p)).status = "queued"
        /\ Requeued(RedrivenState(p)).createdAt = proc[p].createdAt
    BY <2>2, RequeuedTyped, RequeuedDate
  <2>4. CASE /\ proc' = [proc EXCEPT ![p] = Requeued(RedrivenState(p))]
             /\ AppendProcess(p, Requeued(RedrivenState(p)), TRUE)
    <3>1. disk' = disk \/ disk' = [disk EXCEPT ![p] = Stored(Requeued(RedrivenState(p)))]
      BY <2>4, AppendsOrNot
    <3> QED BY <1>2, <1>3, <2>3, <2>4, <3>1, StateKeeps
  <2>5. CASE RecordsFinish(p, Requeued(RedrivenState(p)), "failed")
    BY <1>2, <1>4, <2>3, <2>5 DEF RecordsFinish, Terminal
  <2>6. CASE RecordsFinish(p, proc[p], "failed")
    BY <1>1, <1>2, <1>4, <2>6 DEF RecordsFinish, Terminal
  <2> QED BY <1>10, <2>4, <2>5, <2>6 DEF RecordFailure
<1>11. CASE RecordAnswer(p) \/ RecordYield(p) \/ RecordStop(p)
  <2>1. \E status \in Terminal \cup {"waiting"} : FinishLocked(p, proc[p], status)
    BY <1>11 DEF RecordAnswer, RecordYield, RecordStop, RecordsFinish, StoppedStatus, Terminal
  <2> QED BY <1>1, <1>2, <1>4, <2>1
<1> QED BY <1>5, <1>6, <1>7, <1>8, <1>9, <1>10, <1>11 DEF Execute, RecordOutcome

LEMMA QuantumKeeps ==
    ASSUME Inv, Succession, NEW p \in Procs, Quantum(p)
    PROVE  Kept /\ UNCHANGED <<order, birth>>
<1>1. CASE UNCHANGED <<proc, disk, order, birth>>
  BY <1>1, NothingChanges
<1>2. ASSUME NEW x, JournalRecord(p, x) PROVE Kept /\ UNCHANGED <<order, birth>>
  <2>1. /\ proc \in [Procs -> ProcState] /\ disk \in [Procs -> DiskState]
    BY DEF Inv, TypeOK, ProcState, DiskState
  <2>2. /\ proc' = [proc EXCEPT ![p] = [proc[p] EXCEPT !.journal = Append(proc[p].journal, x)]]
        /\ disk' = [disk EXCEPT ![p] = [disk[p] EXCEPT !.journal = Append(disk[p].journal, x)]]
        /\ UNCHANGED <<order, birth>>
    BY <1>2 DEF JournalRecord, ghosts
  <2>3. \A q \in Procs : /\ proc'[q].status = proc[q].status
                         /\ proc'[q].createdAt = proc[q].createdAt
                         /\ disk'[q].createdAt = disk[q].createdAt
    BY <2>1, <2>2 DEF ProcState, DiskState
  <2> QED BY <2>2, <2>3 DEF Kept, Exists
<1> QED BY <1>1, <1>2 DEF Quantum, QuantumStarts, GuestCalling, GuestAnswered, QuantumEnds, memory,
                          ghosts

(* Who follows whom stays so. *)
LEMMA KeptSucceeds ==
    ASSUME Inv, Succession, Kept, UNCHANGED <<order, birth>>,
           \A p \in Procs : Exists(p)' => Exists(p)
    PROVE  Succession'
<1>1. birth \in Seq(Procs) /\ Latest' = Latest
  BY DEF Inv, TypeOK, Latest
<1>2. ASSUME NEW p \in Procs, Exists(p)' PROVE disk'[p].createdAt = proc'[p].createdAt
  BY <1>2 DEF Kept, Succession
<1>3. ASSUME NEW i \in DOMAIN birth' PROVE proc'[birth'[i]].status # "absent"
  BY <1>1 DEF Kept, Succession, Exists
<1>4. ASSUME NEW p \in Procs, FollowedForGood(p)' PROVE FollowedForGood(p)
  <2>1. PICK i, j \in DOMAIN birth : i < j /\ birth[i] = p /\ RestoredBefore(p, birth[j])'
    BY <1>4 DEF FollowedForGood
  <2>2. Exists(p) /\ Exists(birth[j]) /\ birth[j] \in Procs
    BY <1>1, <2>1 DEF Succession
  <2>3. /\ disk'[p].createdAt = disk[p].createdAt
        /\ disk'[birth[j]].createdAt = disk[birth[j]].createdAt
    BY <2>2 DEF Kept
  <2>4. RestoredBefore(p, birth[j])
    BY <2>1, <2>3 DEF RestoredBefore
  <2> QED BY <2>1, <2>4 DEF FollowedForGood
<1> QED BY <1>1, <1>2, <1>3, <1>4 DEF Succession, Exists

(* A new process is listed last, and no other is it. *)
LEMMA CreateSucceeds ==
    ASSUME Inv, Succession, NEW p \in Procs, CreateProcess(p)
    PROVE  Succession'
<1>1. CASE UNCHANGED <<proc, order, active, exec, disk, birth>>
  BY <1>1, NothingChanges, KeptSucceeds DEF Exists
<1>2. CASE ~UNCHANGED <<proc, order, active, exec, disk, birth>>
  <2> DEFINE state == [Absent EXCEPT !.status = "queued", !.createdAt = creating[p]]
  <2>1. /\ creating[p] # None /\ proc' = [proc EXCEPT ![p] = state]
        /\ disk' = [disk EXCEPT ![p] = Stored(state)]
        /\ order' = Append(order, p) /\ birth' = Append(birth, p)
    BY <1>2 DEF CreateProcess, AppendProcess
  <2>2. state.status = "queued" /\ Stored(state).createdAt = state.createdAt
    BY StoredDate DEF Absent
  <2> HIDE DEF state
  <2>3. /\ ~Exists(p) /\ order \in Seq(Procs) /\ birth \in Seq(Procs)
        /\ proc \in [Procs -> ProcState] /\ disk \in [Procs -> DiskState]
    BY <2>1 DEF Inv, Common, Local, TypeOK, ProcState, DiskState
  <2>4. Latest' = p
    BY <2>1, <2>3 DEF Latest
  <2>5. /\ proc'[p] = state /\ disk'[p] = Stored(state)
        /\ \A q \in Procs \ {p} : proc'[q] = proc[q] /\ disk'[q] = disk[q]
    BY <2>1, <2>3
  <2>6. ASSUME NEW q \in Procs, Exists(q)' PROVE disk'[q].createdAt = proc'[q].createdAt
    BY <2>2, <2>5, <2>6 DEF Succession, Exists
  <2>7. /\ DOMAIN birth' = 1 .. Len(birth) + 1 /\ Len(birth) \in Nat /\ DOMAIN birth = 1 .. Len(birth)
        /\ birth'[Len(birth) + 1] = p /\ \A i \in 1 .. Len(birth) : birth'[i] = birth[i]
    BY <2>1, <2>3
  <2>8. ASSUME NEW i \in DOMAIN birth' PROVE proc'[birth'[i]].status # "absent"
    <3>1. CASE i = Len(birth) + 1
      BY <2>2, <2>5, <2>7, <3>1 DEF Exists
    <3>2. CASE i \in 1 .. Len(birth)
      <4>1. birth'[i] = birth[i] /\ Exists(birth[i]) /\ birth[i] \in Procs
        BY <2>3, <2>7, <3>2 DEF Succession
      <4> QED BY <2>3, <2>5, <4>1 DEF Exists
    <3> QED BY <2>7, <2>8, <3>1, <3>2
  <2>9. ASSUME NEW q \in Procs, FollowedForGood(q)' PROVE q # Latest'
    <3>1. PICK i, j \in DOMAIN birth' : i < j /\ birth'[i] = q
      BY <2>9 DEF FollowedForGood
    <3>2. i \in 1 .. Len(birth)
      BY <2>7, <3>1
    <3>3. Exists(q)
      BY <2>7, <3>1, <3>2 DEF Succession
    <3> QED BY <2>3, <2>4, <3>3
  <2> QED BY <2>6, <2>8, <2>9 DEF Succession, Exists
<1> QED BY <1>1, <1>2

(* A restart sorts by the dates of the log, and lists nobody so followed last. *)
LEMMA RestartSucceeds ==
    ASSUME Inv, Succession, Restart
    PROVE  Succession'
<1> DEFINE s == RestoredOrder
<1>1. /\ order' = s /\ birth' = birth
      /\ \A p \in Procs : proc'[p] = Restored(disk[p]) /\ disk'[p] = Stored(Restored(disk[p]))
  BY DEF Restart, ghosts
<1>2. ASSUME NEW p \in Procs
      PROVE  /\ proc'[p].createdAt = disk[p].createdAt /\ disk'[p].createdAt = disk[p].createdAt
             /\ proc'[p].status = "absent" <=> ~Exists(p)
  <2>1. disk[p] \in DiskState /\ Local(p)
    BY ProcTyped DEF Inv, Common
  <2>2. /\ Restored(disk[p]).createdAt = disk[p].createdAt
        /\ Restored(disk[p]).status = RestoredStatus(disk[p].status)
    BY DEF Restored, Absent
  <2>3. RestoredStatus(disk[p].status) = "absent" <=> disk[p].status = "absent"
    BY DEF RestoredStatus, Live
  <2> QED BY <1>1, <2>1, <2>2, <2>3, StoredDate DEF Local
<1>3. birth \in Seq(Procs)
  BY DEF Inv, TypeOK
<1>4. ASSUME NEW i \in DOMAIN birth' PROVE proc'[birth'[i]].status # "absent"
  BY <1>1, <1>2, <1>3 DEF Succession, Exists
<1>5. ASSUME NEW p \in Procs, FollowedForGood(p)' PROVE p # Latest'
  <2>1. PICK i, j \in DOMAIN birth : i < j /\ birth[i] = p /\ RestoredBefore(p, birth[j])'
    BY <1>1, <1>5 DEF FollowedForGood
  <2> DEFINE q == birth[j]
  <2>2. Exists(p) /\ Exists(q) /\ q \in Procs
    BY <1>3, <2>1 DEF Succession
  <2>3. p \in OnDisk /\ q \in OnDisk
    BY <2>2 DEF Inv, Common, Local, OnDisk
  <2> HIDE DEF q
  <2>4. RestoredBefore(p, q)
    <3>1. birth'[j] = q /\ RestoredBefore(p, birth[j])'
      BY <1>1, <2>1 DEF q
    <3>2. \/ disk'[p].createdAt < disk'[q].createdAt
          \/ disk'[p].createdAt = disk'[q].createdAt /\ IdBefore(p, q)
      BY <3>1 DEF RestoredBefore
    <3>3. disk'[p].createdAt = disk[p].createdAt /\ disk'[q].createdAt = disk[q].createdAt
      BY <1>2, <2>2
    <3> QED BY <3>2, <3>3 DEF RestoredBefore
  <2>5. ~RestoredBefore(q, p) /\ p # q
    BY <2>3, <2>4, EarlierTotal DEF Inv, TotalOn
  <2>6. s \in Seq(Procs) /\ \A m, n \in 1 .. Len(s) : m < n => RestoredBefore(s[m], s[n])
    BY RestoredOrderSorts DEF Inv
  <2>7. PICK k \in 1 .. Len(s) : s[k] = q
    BY <2>3, RestoredOrderSorts DEF Inv
  <2>8. Latest' = s[Len(s)]
    BY <1>1 DEF Latest
  <2> HIDE DEF s
  <2>9. k = Len(s) \/ (k < Len(s) /\ Len(s) \in 1 .. Len(s))
    BY <2>6, <2>7
  <2> QED BY <2>5, <2>6, <2>7, <2>8, <2>9
<1> QED BY <1>2, <1>4, <1>5 DEF Succession, Exists

(* No step but a creation brings a process into being. *)
LEMMA NobodyAppears ==
    ASSUME Inv, NEW p \in Procs, API(p) \/ Execute(p) \/ Quantum(p), ~CreateProcess(p),
           NEW q \in Procs, ~Exists(q)
    PROVE  proc'[q] = proc[q]
<1>1. CASE q # p
  BY <1>1, ActsOnOne DEF Inv, TypeOK
<1>2. CASE q = p
  <2>1. exec[p] = "none" /\ quantum[p] = "none" /\ proc[p].status = "absent"
    BY <1>2 DEF Inv, Common, Local, IsLive, Live, Exists, AtRest
  <2>2. ~Execute(p)
    BY <2>1 DEF Execute, ExecStart, ExecHalted, ExecSubmit, ExecRefused, ExecRunning, ExecReceives,
       RecordOutcome, RecordAbort, RecordAnswer, RecordFailure, RecordYield, RecordStop, Recording
  <2>3. ~Quantum(p)
    BY <2>1 DEF Quantum, QuantumStarts, GuestCalling, GuestAnswered, QuantumEnds
  <2>4. API(p) => proc' = proc
    BY <2>1 DEF API, CreateReadsClock, StopRunning, StopParked, Retry, Exists, WakeFinds, WakeRetries,
       CheckRetryLocked, RetryableStatus, memory
  <2> QED BY <2>2, <2>3, <2>4
<1> QED BY <1>1, <1>2

LEMMA SuccessionStep ==
    ASSUME Inv, Succession, [Next]_vars
    PROVE  Succession'
<1>1. ASSUME NEW p \in Procs, API(p) \/ Execute(p) \/ Quantum(p), ~CreateProcess(p)
      PROVE  Succession'
  <2>1. Kept /\ UNCHANGED <<order, birth>>
    BY <1>1, APIKeeps, ExecuteKeeps, QuantumKeeps
  <2>2. \A q \in Procs : Exists(q)' => Exists(q)
    BY <1>1, NobodyAppears DEF Exists
  <2> QED BY <2>1, <2>2, KeptSucceeds
<1>2. CASE CloseMarks \/ CloseCancels \/ Tick \/ UNCHANGED vars
  <2>1. UNCHANGED <<proc, disk, order, birth>>
    BY <1>2 DEF CloseMarks, CloseCancels, Tick, memory, ghosts, vars
  <2> QED BY <2>1, NothingChanges, KeptSucceeds DEF Exists
<1> QED BY <1>1, <1>2, CreateSucceeds, RestartSucceeds DEF Next

LEMMA SuccessionHolds == Spec => []Succession
<1>1. Init => Succession
  BY DEF Init, Succession, FollowedForGood, Exists, Absent
<1> QED BY <1>1, SuccessionStep, InvHolds, PTL DEF Spec

(* Whatever the log does, a process that another one follows, by creation and by
   the dates and ids a restart sorts by, never runs again and keeps its journal,
   over any restarts (processes.go checkRetryLocked). *)
THEOREM HistoryStaysFrozen == Spec => HistoryFrozen
<1> DEFINE A == \A p \in Procs :
                    FollowedForGood(p) => /\ proc'[p].status \notin Live
                                          /\ proc'[p].journal = proc[p].journal
<1>1. ASSUME Inv, Succession, [Next]_vars PROVE [A]_vars
  <2>1. ASSUME NEW p \in Procs, FollowedForGood(p) PROVE Exists(p) /\ p # Latest
    BY <2>1, <1>1 DEF FollowedForGood, Succession
  <2> QED BY <1>1, <2>1, FrozenStep
<1>2. Spec => [][A]_vars
  BY <1>1, InvHolds, SuccessionHolds, PTL DEF Spec
<1> QED BY <1>2 DEF HistoryFrozen

-----------------------------------------------------------------------------
(* The quanta of the session's processes. *)

QuantumDone == [p \in Procs |-> ContextDone(p)]

QuantaStep == PoolPromise!QuantaNext \/ (QuantumLife' = QuantumLife /\ QuantumDone' = QuantumDone)

LEMMA PromiseInit == Init => PoolPromise!QuantaInit
BY DEF Init, PoolPromise!QuantaInit, QuantumLife, ContextDone, Ends

LEMMA PoolTyped ==
    ASSUME Inv
    PROVE  /\ quantum \in [Procs -> Ends \cup {"none", "queued", "live"}]
           /\ cancelled \in [Procs -> BOOLEAN] /\ rootDone \in BOOLEAN
BY DEF Inv, TypeOK

(* The pool is left alone; *)
LEMMA PoolIdles == ASSUME UNCHANGED pool PROVE QuantaStep
BY DEF pool, QuantaStep, QuantumLife, QuantumDone, ContextDone

(* contexts end, and none comes back; *)
LEMMA PoolCancels ==
    ASSUME Inv, quantum' = quantum, cancelled' \in [Procs -> BOOLEAN], rootDone' \in BOOLEAN,
           \A p \in Procs : cancelled[p] => cancelled'[p], rootDone => rootDone'
    PROVE  QuantaStep
<1>1. PoolPromise!Cancels
  BY DEF PoolPromise!Cancels, QuantumLife, ContextDone
<1> QED BY <1>1 DEF QuantaStep, PoolPromise!QuantaNext

(* a result is recorded. *)
LEMMA PoolTakes ==
    ASSUME Inv, NEW p \in Procs, Recording(p), quantum[p] \in Ends
    PROVE  QuantaStep
<1>1. /\ quantum' = [quantum EXCEPT ![p] = "none"] /\ cancelled' = [cancelled EXCEPT ![p] = FALSE]
      /\ rootDone' = rootDone
  BY DEF Recording
<1>2. PoolPromise!Takes(p)
  BY <1>1, PoolTyped DEF PoolPromise!Takes, QuantumLife, ContextDone, Ends
<1> QED BY <1>2 DEF QuantaStep, PoolPromise!QuantaNext

LEMMA SubmitMaps ==
    ASSUME Inv, NEW p \in Procs, ExecSubmit(p)
    PROVE  QuantaStep
<1>1. CASE rootDone
  BY <1>1, PoolIdles DEF ExecSubmit, pool
<1>2. CASE ~rootDone
  <2>1. quantum[p] = "none" /\ ~cancelled[p]
    BY DEF ExecSubmit, Inv, Common, Local, AtRest
  <2>2. quantum' = [quantum EXCEPT ![p] = "queued"] /\ cancelled' = cancelled /\ rootDone' = rootDone
    BY <1>2 DEF ExecSubmit
  <2>3. PoolPromise!Submits(p)
    BY <1>2, <2>1, <2>2, PoolTyped DEF PoolPromise!Submits, QuantumLife, ContextDone, Ends
  <2> QED BY <2>3 DEF QuantaStep, PoolPromise!QuantaNext
<1> QED BY <1>1, <1>2

LEMMA StartMaps ==
    ASSUME Inv, NEW p \in Procs, QuantumStarts(p)
    PROVE  QuantaStep
<1>1. /\ quantum[p] = "queued" /\ cancelled' = cancelled /\ rootDone' = rootDone
      /\ quantum' = [quantum EXCEPT ![p] = IF ContextDone(p) THEN "stopped" ELSE "live"]
  BY DEF QuantumStarts
<1>2. CASE ContextDone(p)
  <2>1. PoolPromise!Drops(p)
    BY <1>1, <1>2, PoolTyped DEF PoolPromise!Drops, QuantumLife, ContextDone, Ends
  <2> QED BY <2>1 DEF QuantaStep, PoolPromise!QuantaNext
<1>3. CASE ~ContextDone(p)
  <2>1. PoolPromise!Starts(p)
    BY <1>1, <1>3, PoolTyped DEF PoolPromise!Starts, QuantumLife, ContextDone, Ends
  <2> QED BY <2>1 DEF QuantaStep, PoolPromise!QuantaNext
<1> QED BY <1>2, <1>3

LEMMA EndMaps ==
    ASSUME Inv, NEW p \in Procs, NEW end \in Ends, QuantumEnds(p, end)
    PROVE  QuantaStep
<1>1. /\ quantum[p] = "live" /\ cancelled' = cancelled /\ rootDone' = rootDone
      /\ quantum' = [quantum EXCEPT ![p] = end]
  BY DEF QuantumEnds
<1>2. PoolPromise!Finishes(p)
  BY <1>1, PoolTyped DEF PoolPromise!Finishes, QuantumLife, ContextDone, Ends
<1> QED BY <1>2 DEF QuantaStep, PoolPromise!QuantaNext

LEMMA RestartMaps == ASSUME Restart PROVE QuantaStep
<1>1. PoolPromise!Resets
  BY DEF Restart, PoolPromise!Resets, QuantumLife, ContextDone, Ends
<1> QED BY <1>1 DEF QuantaStep, PoolPromise!QuantaNext

LEMMA APIMaps ==
    ASSUME Inv, NEW p \in Procs, API(p)
    PROVE  QuantaStep
<1>1. CASE StopRunning(p)
  <2>1. proc[p].stop \in BOOLEAN
    BY DEF Inv, TypeOK
  <2>2. /\ cancelled' = [cancelled EXCEPT ![p] = @ \/ proc[p].stop]
        /\ quantum' = quantum /\ rootDone' = rootDone
    BY <1>1 DEF StopRunning
  <2>3. cancelled' \in [Procs -> BOOLEAN] /\ \A q \in Procs : cancelled[q] => cancelled'[q]
    BY <2>1, <2>2, PoolTyped
  <2> QED BY <2>2, <2>3, PoolTyped, PoolCancels
<1>2. CASE UNCHANGED pool
  BY <1>2, PoolIdles
<1>3. StopRunning(p) \/ UNCHANGED pool
  BY DEF API, CreateReadsClock, CreateProcess, StopParked, Retry, WakeFinds, WakeRetries
<1> QED BY <1>1, <1>2, <1>3

LEMMA ExecuteMaps ==
    ASSUME Inv, NEW p \in Procs, Execute(p)
    PROVE  QuantaStep
<1>1. CASE ExecRunning(p)
  <2>1. proc[p].stopRequested \in BOOLEAN
    BY DEF Inv, TypeOK
  <2>2. /\ cancelled' = [cancelled EXCEPT ![p] = @ \/ proc[p].stopRequested]
        /\ quantum' = quantum /\ rootDone' = rootDone
    BY <1>1 DEF ExecRunning
  <2>3. cancelled' \in [Procs -> BOOLEAN] /\ \A q \in Procs : cancelled[q] => cancelled'[q]
    BY <2>1, <2>2, PoolTyped
  <2> QED BY <2>2, <2>3, PoolTyped, PoolCancels
<1>2. CASE RecordOutcome(p)
  <2>1. Recording(p) /\ quantum[p] \in Ends
    BY <1>2 DEF RecordOutcome, RecordAbort, RecordAnswer, RecordFailure, RecordYield, RecordStop, Ends
  <2> QED BY <2>1, PoolTakes
<1>3. CASE ExecStart(p) \/ ExecHalted(p) \/ ExecRefused(p) \/ ExecReceives(p)
  BY <1>3, PoolIdles DEF ExecStart, ExecHalted, ExecRefused, ExecReceives
<1> QED BY <1>1, <1>2, <1>3, SubmitMaps DEF Execute

LEMMA QuantumMaps ==
    ASSUME Inv, NEW p \in Procs, Quantum(p)
    PROVE  QuantaStep
<1>1. CASE \E x \in GuestCalls \cup Outcomes : JournalRecord(p, x)
  BY <1>1, PoolIdles DEF JournalRecord
<1> QED BY <1>1, StartMaps, EndMaps DEF Quantum, GuestCalling, GuestAnswered

LEMMA CloseMaps ==
    ASSUME Inv, CloseMarks \/ CloseCancels \/ Tick \/ UNCHANGED vars
    PROVE  QuantaStep
<1>1. CASE CloseCancels
  BY <1>1, PoolTyped, PoolCancels DEF CloseCancels
<1>2. CASE CloseMarks \/ Tick \/ UNCHANGED vars
  BY <1>2, PoolIdles DEF CloseMarks, Tick, vars, pool
<1> QED BY <1>1, <1>2

(* Every step of the runtime is a step of the abstract quanta of Quanta.tla, or
   leaves them as they are: a context is fresh at every submit, no quantum starts
   once its process was stopped, and each result is recorded once. *)
THEOREM RuntimeImplementsQuanta == Spec => QuantaAsPromised
<1>1. Inv /\ [Next]_vars => [PoolPromise!QuantaNext]_<<QuantumLife, QuantumDone>>
  <2> SUFFICES ASSUME Inv, [Next]_vars PROVE QuantaStep
    BY DEF QuantaStep
  <2> QED BY APIMaps, ExecuteMaps, QuantumMaps, CloseMaps, RestartMaps DEF Next
<1> QED BY <1>1, PromiseInit, InvHolds, PTL
        DEF Spec, QuantaAsPromised, PoolPromise!QuantaSpec, QuantumDone
=============================================================================
