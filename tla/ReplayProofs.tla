---------------------------- MODULE ReplayProofs ----------------------------
(***************************************************************************)
(* The replay layer's laws, proved for every set of syscalls and results   *)
(* and any number of calls.                                                *)
(***************************************************************************)
EXTENDS Replay, TLAPS

(* The tape's cursor is two records past every call it answered, and one more
   while a dispatch owns the open intent, which is then the journal's last. *)
CursorInv == /\ cursor <= Len(journal)
             /\ pending => cursor = Len(journal)
             /\ cursor = 2 * Len(observed) + (IF pending THEN 1 ELSE 0)

(* What the steps of a dispatch may count on. *)
DispatchInv ==
    /\ pc = "down" => observed = << >> /\ ~pending
    /\ pc = "begin" => call \in Syscalls /\ cursor = Len(journal)
    /\ pc \in {"execute", "commit"} =>
          /\ pending
          /\ call \in Syscalls
          /\ journal[Len(journal)] = Intent(call)
    /\ pc = "commit" => result \in Results

(* Whatever any quantum was given is still in the journal. *)
SeenInv == \A i \in 1 .. Len(seen) :
              /\ 2 * i <= Len(journal)
              /\ journal[2 * i] = Completion(seen[i])

(* The inductive invariant. *)
Inv == /\ TypeOK
       /\ JournalVerifies
       /\ CursorInv
       /\ DispatchInv
       /\ JournalBeforeObserve
       /\ SeenInv

-----------------------------------------------------------------------------
(* A record that sits at an even index of a verified journal is a completion,
   and is determined by its payload. *)
LEMMA EvenIsCompletion ==
    ASSUME TypeOK, JournalVerifies, NEW i \in 1 .. Len(journal), i % 2 = 0
    PROVE  /\ journal[i].payload \in Results
           /\ journal[i] = Completion(journal[i].payload)
<1>1. journal[i].kind = "completion"
  BY SMT DEF TypeOK, JournalVerifies, Verify
<1>2. journal[i] \in Intents \cup Completions
  BY DEF TypeOK
<1>3. journal[i] \in Completions
  BY <1>1, <1>2 DEF Intents, Completions
<1> QED
  BY <1>3 DEF Completions, Completion

(* The invariant holds when a process is created. *)
LEMMA InitInv == Init => Inv
<1> SUFFICES ASSUME Init PROVE Inv
  OBVIOUS
<1> USE DEF Init
<1>1. TypeOK
  <2>1. << >> \in Seq(Intents \cup Completions) /\ << >> \in Seq(Results)
    OBVIOUS
  <2>2. pc \in {"down", "guest", "begin", "execute", "commit", "yielded", "failed"}
    OBVIOUS
  <2>3. pending \in BOOLEAN /\ cursor \in Nat
    OBVIOUS
  <2> QED
    BY <2>1, <2>2, <2>3, Zenon DEF TypeOK
<1>2. JournalVerifies
  BY DEF JournalVerifies, Verify
<1>3. CursorInv
  BY DEF CursorInv
<1>4. DispatchInv
  BY DEF DispatchInv
<1>5. JournalBeforeObserve /\ SeenInv
  BY DEF JournalBeforeObserve, SeenInv
<1> QED
  BY <1>1, <1>2, <1>3, <1>4, <1>5 DEF Inv

(* A step that leaves the journal and what the guests observed alone keeps the
   laws that speak of nothing else. *)
LEMMA JournalUntouched ==
    ASSUME Inv, UNCHANGED <<journal, observed, seen>>
    PROVE  JournalVerifies' /\ JournalBeforeObserve' /\ SeenInv'
  BY DEF Inv, JournalVerifies, Verify, JournalBeforeObserve, SeenInv

(* A step of the dispatch that touches neither the journal nor the tape. *)
LEMMA DispatchStep ==
    ASSUME Inv, UNCHANGED <<journal, tape, observed, seen>>,
           pc' \in {"guest", "begin", "execute", "commit", "yielded", "failed"},
           call' \in Syscalls \cup {NoCall},
           result' \in Results \cup {NoResult},
           DispatchInv'
    PROVE  Inv'
<1>1. TypeOK'
  BY DEF Inv, TypeOK, tape
<1>2. CursorInv'
  BY DEF Inv, CursorInv, tape
<1> QED
  BY <1>1, <1>2, JournalUntouched DEF Inv

(* The quantum goes away, wherever it stood. *)
LEMMA DropQuantumInv == ASSUME Inv, DropQuantum PROVE Inv'
<1> USE DEF DropQuantum
<1>1. TypeOK'
  <2>1. << >> \in Seq(Results)
    OBVIOUS
  <2> QED
    BY <2>1 DEF Inv, TypeOK
<1>2. CursorInv'
  BY DEF Inv, TypeOK, CursorInv
<1>3. DispatchInv'
  BY DEF DispatchInv
<1>4. JournalVerifies' /\ SeenInv'
  BY DEF Inv, JournalVerifies, Verify, SeenInv
<1>5. JournalBeforeObserve'
  BY DEF JournalBeforeObserve
<1> QED
  BY <1>1, <1>2, <1>3, <1>4, <1>5 DEF Inv

(* What Observe keeps: the result joins observed at the call whose completion
   the journal holds, and seen with it. *)
LEMMA ObserveInv ==
    ASSUME Inv, NEW r \in Results, Observe(r),
           Len(journal') \in Nat,
           Len(journal) <= Len(journal'),
           \A i \in 1 .. Len(journal) : journal'[i] = journal[i],
           2 * (Len(observed) + 1) <= Len(journal'),
           journal'[2 * (Len(observed) + 1)] = Completion(r)
    PROVE  /\ observed' \in Seq(Results) /\ seen' \in Seq(Results)
           /\ Len(observed') = Len(observed) + 1
           /\ JournalBeforeObserve' /\ SeenInv'
<1> DEFINE n == Len(observed)
<1>1. observed \in Seq(Results) /\ seen \in Seq(Results) /\ n \in Nat /\ Len(seen) \in Nat
      /\ Len(journal) \in Nat
  BY DEF Inv, TypeOK
<1>2. observed' = Append(observed, r)
  BY DEF Observe
<1>3. /\ observed' \in Seq(Results)
      /\ Len(observed') = n + 1
      /\ \A i \in 1 .. n : observed'[i] = observed[i]
      /\ observed'[n + 1] = r
  BY <1>1, <1>2
<1>4. JournalBeforeObserve'
  <2> SUFFICES ASSUME NEW i \in 1 .. Len(observed')
               PROVE  2 * i <= Len(journal') /\ journal'[2 * i] = Completion(observed'[i])
    BY DEF JournalBeforeObserve, Completion
  <2>1. CASE i = n + 1
    BY <2>1, <1>3
  <2>2. CASE i \in 1 .. n
    BY <2>2, <1>1, <1>3 DEF Inv, JournalBeforeObserve
  <2> QED
    BY <2>1, <2>2, <1>1, <1>3
<1>5. CASE n >= Len(seen)
  <2>1. seen' = observed'
    BY <1>5, <1>2 DEF Observe
  <2> QED
    BY <2>1, <1>3, <1>4 DEF JournalBeforeObserve, SeenInv
<1>6. CASE ~(n >= Len(seen))
  <2>1. seen' = seen
    BY <1>6 DEF Observe
  <2>2. SeenInv'
    BY <2>1, <1>1 DEF Inv, SeenInv
  <2> QED
    BY <2>1, <2>2, <1>1, <1>3, <1>4
<1> QED
  BY <1>5, <1>6

(* Appending the intent of a fresh call. *)
LEMMA BeginInv == ASSUME Inv, Begin PROVE Inv'
<1> DEFINE len == Len(journal)
<1>1. /\ call \in Syscalls /\ cursor = len /\ ~pending /\ len = 2 * Len(observed)
      /\ journal \in Seq(Intents \cup Completions) /\ len \in Nat
      /\ Len(observed) \in Nat
  BY DEF Begin, BeginAllowed, Inv, TypeOK, CursorInv, DispatchInv
<1>2. Intent(call) \in Intents \cup Completions
  BY <1>1 DEF Intent, Intents
<1>3. /\ journal' = Append(journal, Intent(call))
      /\ cursor' = cursor + 1 /\ pending' = TRUE /\ pc' = "execute"
      /\ call' = call /\ result' = result /\ observed' = observed /\ seen' = seen
  BY DEF Begin
<1>4. /\ journal' \in Seq(Intents \cup Completions)
      /\ Len(journal') = len + 1
      /\ \A i \in 1 .. len : journal'[i] = journal[i]
      /\ journal'[len + 1] = Intent(call)
  BY <1>1, <1>2, <1>3
<1>5. TypeOK'
  BY <1>1, <1>3, <1>4 DEF Inv, TypeOK
<1>6. JournalVerifies'
  <2>1. journal'[len + 1].kind = "intent" /\ (len + 1) % 2 = 1
    BY <1>1, <1>4 DEF Intent
  <2>2. ASSUME NEW i \in 1 .. len
        PROVE  journal'[i].kind = IF i % 2 = 1 THEN "intent" ELSE "completion"
    BY <1>4 DEF Inv, JournalVerifies, Verify
  <2> QED
    BY <1>1, <1>4, <2>1, <2>2 DEF JournalVerifies, Verify
<1>7. CursorInv'
  BY <1>1, <1>3, <1>4 DEF CursorInv
<1>8. DispatchInv'
  BY <1>1, <1>3, <1>4 DEF DispatchInv, Intent
<1>9. JournalBeforeObserve' /\ SeenInv'
  BY <1>1, <1>3, <1>4 DEF Inv, TypeOK, JournalBeforeObserve, SeenInv
<1> QED
  BY <1>5, <1>6, <1>7, <1>8, <1>9 DEF Inv

(* Appending the completion of the open call, and answering the guest. *)
LEMMA CommitInv == ASSUME Inv, Commit PROVE Inv'
<1> DEFINE len == Len(journal)
<1>1. /\ result \in Results /\ cursor = len /\ pending /\ len = 2 * Len(observed) + 1
      /\ journal \in Seq(Intents \cup Completions) /\ len \in Nat
      /\ Len(observed) \in Nat
  BY DEF Commit, Inv, TypeOK, CursorInv, DispatchInv
<1>2. Completion(result) \in Intents \cup Completions
  BY <1>1 DEF Completion, Completions
<1>3. /\ journal' = Append(journal, Completion(result))
      /\ cursor' = cursor + 1 /\ pending' = FALSE /\ pc' = "guest"
      /\ call' = NoCall /\ result' = NoResult /\ Observe(result)
  BY DEF Commit
<1>4. /\ journal' \in Seq(Intents \cup Completions)
      /\ Len(journal') = len + 1
      /\ \A i \in 1 .. len : journal'[i] = journal[i]
      /\ journal'[len + 1] = Completion(result)
  BY <1>1, <1>2, <1>3
<1>5. /\ observed' \in Seq(Results) /\ seen' \in Seq(Results)
      /\ Len(observed') = Len(observed) + 1
      /\ JournalBeforeObserve' /\ SeenInv'
  <2>1. /\ Len(journal') \in Nat /\ len <= Len(journal')
        /\ 2 * (Len(observed) + 1) <= Len(journal')
        /\ journal'[2 * (Len(observed) + 1)] = Completion(result)
    BY <1>1, <1>4
  <2> QED
    BY <1>1, <1>3, <1>4, <2>1, ObserveInv
<1>6. TypeOK'
  <2>1. cursor' \in Nat
    BY <1>1, <1>3
  <2> QED
    BY <1>3, <1>4, <1>5, <2>1 DEF TypeOK
<1>7. JournalVerifies'
  <2>1. journal'[len + 1].kind = "completion" /\ (len + 1) % 2 = 0
    BY <1>1, <1>4 DEF Completion
  <2>3. journal'[len + 1].kind = IF (len + 1) % 2 = 1 THEN "intent" ELSE "completion"
    BY <2>1
  <2>2. ASSUME NEW i \in 1 .. len
        PROVE  journal'[i].kind = IF i % 2 = 1 THEN "intent" ELSE "completion"
    BY <1>4 DEF Inv, JournalVerifies, Verify
  <2>4. ASSUME NEW i \in 1 .. Len(journal')
        PROVE  i \in 1 .. len \/ i = len + 1
    BY <1>1, <1>4
  <2> QED
    BY <2>2, <2>3, <2>4 DEF JournalVerifies, Verify
<1>8. CursorInv'
  BY <1>1, <1>3, <1>4, <1>5 DEF CursorInv
<1>9. DispatchInv'
  BY <1>3 DEF DispatchInv
<1> QED
  BY <1>5, <1>6, <1>7, <1>8, <1>9 DEF Inv

(* Serving a recorded call. *)
LEMMA ServeInv == ASSUME Inv, NEW s \in Syscalls, Serve(s) PROVE Inv'
<1>1. /\ Len(journal) \in Nat /\ cursor \in Nat /\ Len(observed) \in Nat
      /\ cursor <= Len(journal) /\ (pending => cursor = Len(journal))
      /\ cursor = 2 * Len(observed) + (IF pending THEN 1 ELSE 0)
      /\ pending \in BOOLEAN
  BY DEF Inv, TypeOK, CursorInv
<1>2. cursor + 1 < Len(journal)
  <2>1. ~(cursor >= Len(journal))
    BY DEF Serve, NextOutcome
  <2>2. ~(cursor + 1 = Len(journal))
    BY <2>1, <1>1 DEF Serve, NextOutcome
  <2> QED
    BY <2>1, <2>2, <1>1
<1>3. ~pending /\ cursor = 2 * Len(observed)
  BY <1>1, <1>2
<1> DEFINE r == journal[cursor + 2].payload
<1>4. r \in Results /\ journal[cursor + 2] = Completion(r)
  <2>1. cursor + 2 \in 1 .. Len(journal) /\ (cursor + 2) % 2 = 0
    BY <1>1, <1>2, <1>3
  <2> QED
    BY <2>1, EvenIsCompletion DEF Inv
<1>5. /\ Observe(r) /\ cursor' = cursor + 2 /\ pc' = "guest" /\ journal' = journal
      /\ pending' = pending /\ call' = call /\ result' = result
  BY DEF Serve, RecordedResult
<1> HIDE DEF r
<1>6. /\ observed' \in Seq(Results) /\ seen' \in Seq(Results)
      /\ Len(observed') = Len(observed) + 1
      /\ JournalBeforeObserve' /\ SeenInv'
  <2>1. 2 * (Len(observed) + 1) = cursor + 2
    BY <1>1, <1>3
  <2> QED
    BY <1>1, <1>2, <1>4, <1>5, <2>1, ObserveInv
<1>7. TypeOK'
  <2>1. cursor' \in Nat
    BY <1>1, <1>5
  <2> QED
    BY <1>5, <1>6, <2>1 DEF Inv, TypeOK
<1>8. JournalVerifies'
  BY <1>5 DEF Inv, JournalVerifies, Verify
<1>9. CursorInv'
  BY <1>1, <1>2, <1>3, <1>5, <1>6 DEF CursorInv
<1>10. DispatchInv'
  BY <1>5 DEF DispatchInv
<1> QED
  BY <1>6, <1>7, <1>8, <1>9, <1>10 DEF Inv

(* Driving the open intent at the tail again. *)
LEMMA DriveAgainInv == ASSUME Inv, NEW s \in Syscalls, DriveAgain(s) PROVE Inv'
<1>1. /\ Len(journal) \in Nat /\ cursor \in Nat /\ Len(observed) \in Nat
      /\ (pending => cursor = Len(journal))
      /\ cursor = 2 * Len(observed) + (IF pending THEN 1 ELSE 0)
      /\ pending \in BOOLEAN /\ journal \in Seq(Intents \cup Completions)
  BY DEF Inv, TypeOK, CursorInv
<1>2. cursor + 1 = Len(journal) /\ journal[cursor + 1].payload = s
  <2>1. ~(cursor >= Len(journal))
    BY <1>1 DEF DriveAgain, NextOutcome
  <2> QED
    BY <2>1, <1>1 DEF DriveAgain, NextOutcome
<1>3. ~pending /\ cursor = 2 * Len(observed)
  BY <1>1, <1>2
<1>4. journal[Len(journal)] = Intent(s)
  <2>1. Len(journal) \in 1 .. Len(journal) /\ Len(journal) % 2 = 1
    BY <1>1, <1>2, <1>3
  <2>2. journal[Len(journal)].kind = "intent"
    BY <2>1 DEF Inv, JournalVerifies, Verify
  <2>3. journal[Len(journal)] \in Intents \cup Completions
    BY <2>1, <1>1
  <2>4. journal[Len(journal)] \in Intents
    BY <2>2, <2>3 DEF Intents, Completions
  <2> QED
    BY <2>4, <1>2 DEF Intents, Intent
<1>5. /\ cursor' = cursor + 1 /\ pending' = TRUE /\ call' = s /\ pc' = "execute"
      /\ journal' = journal /\ result' = result /\ observed' = observed /\ seen' = seen
  BY DEF DriveAgain
<1>6. TypeOK'
  <2>1. cursor' \in Nat
    BY <1>1, <1>5
  <2> QED
    BY <1>5, <2>1 DEF Inv, TypeOK
<1>7. CursorInv'
  BY <1>1, <1>2, <1>3, <1>5 DEF CursorInv
<1>8. DispatchInv'
  BY <1>4, <1>5 DEF DispatchInv, Intent
<1> QED
  BY <1>5, <1>6, <1>7, <1>8, JournalUntouched DEF Inv

(* Cutting the journal back between two quanta. *)
LEMMA ForkInv == ASSUME Inv, NEW k \in ForkOffsets, Fork(k) PROVE Inv'
<1>1. /\ journal \in Seq(Intents \cup Completions) /\ Len(journal) \in Nat
      /\ seen \in Seq(Results) /\ Len(seen) \in Nat
      /\ k \in 0 .. Len(journal) /\ k % 2 = 0
  BY DEF Inv, TypeOK, ForkOffsets
<1>2. /\ journal' = SubSeq(journal, 1, k)
      /\ cursor' = cursor /\ pending' = pending /\ pc' = pc /\ pc = "down"
      /\ call' = call /\ result' = result /\ observed' = observed
  BY DEF Fork, tape
<1>3. /\ journal' \in Seq(Intents \cup Completions)
      /\ Len(journal') = k
      /\ \A i \in 1 .. k : journal'[i] = journal[i]
  BY <1>1, <1>2
<1>4. observed = << >> /\ ~pending /\ cursor = 0
  BY <1>2 DEF Inv, TypeOK, DispatchInv, CursorInv
<1>5. seen' \in Seq(Results) /\ SeenInv'
  <2>1. CASE 2 * Len(seen) > k
    <3>1. k \div 2 \in 0 .. Len(seen) /\ 2 * (k \div 2) = k
      BY <1>1, <2>1
    <3>2. seen' = SubSeq(seen, 1, k \div 2)
      BY <2>1 DEF Fork
    <3>3. /\ seen' \in Seq(Results)
          /\ Len(seen') = k \div 2
          /\ \A i \in 1 .. (k \div 2) : seen'[i] = seen[i]
      BY <3>1, <3>2, <1>1
    <3>4. ASSUME NEW i \in 1 .. Len(seen')
          PROVE  2 * i <= Len(journal') /\ journal'[2 * i] = Completion(seen'[i])
      <4>1. i \in 1 .. Len(seen) /\ 2 * i \in 1 .. k /\ seen'[i] = seen[i]
        BY <3>1, <3>3, <1>1
      <4>2. journal[2 * i] = Completion(seen[i])
        BY <4>1 DEF Inv, SeenInv
      <4>3. journal'[2 * i] = journal[2 * i] /\ 2 * i <= Len(journal')
        BY <4>1, <1>1, <1>3
      <4> QED
        BY <4>1, <4>2, <4>3
    <3>5. SeenInv'
      BY <3>4 DEF SeenInv
    <3> QED
      BY <3>3, <3>5
  <2>2. CASE ~(2 * Len(seen) > k)
    <3>1. seen' = seen
      BY <2>2 DEF Fork
    <3>2. ASSUME NEW i \in 1 .. Len(seen')
          PROVE  2 * i <= Len(journal') /\ journal'[2 * i] = Completion(seen'[i])
      <4>1. i \in 1 .. Len(seen) /\ 2 * i \in 1 .. k /\ seen'[i] = seen[i]
        BY <2>2, <3>1, <1>1
      <4>2. journal[2 * i] = Completion(seen[i])
        BY <4>1 DEF Inv, SeenInv
      <4>3. journal'[2 * i] = journal[2 * i] /\ 2 * i <= Len(journal')
        BY <4>1, <1>1, <1>3
      <4> QED
        BY <4>1, <4>2, <4>3
    <3>3. SeenInv'
      BY <3>2 DEF SeenInv
    <3> QED
      BY <3>1, <3>3, <1>1
  <2> QED
    BY <2>1, <2>2
<1>6. TypeOK'
  BY <1>2, <1>3, <1>5 DEF Inv, TypeOK
<1>7. JournalVerifies'
  <2>1. ASSUME NEW i \in 1 .. Len(journal')
        PROVE  journal'[i].kind = IF i % 2 = 1 THEN "intent" ELSE "completion"
    <3>1. i \in 1 .. Len(journal) /\ journal'[i] = journal[i]
      BY <1>1, <1>3
    <3>2. journal[i].kind = IF i % 2 = 1 THEN "intent" ELSE "completion"
      BY <3>1 DEF Inv, JournalVerifies, Verify
    <3> QED
      BY <3>1, <3>2
  <2> QED
    BY <2>1 DEF JournalVerifies, Verify
<1>8. CursorInv' /\ DispatchInv' /\ JournalBeforeObserve'
  BY <1>1, <1>2, <1>3, <1>4 DEF CursorInv, DispatchInv, JournalBeforeObserve
<1> QED
  BY <1>5, <1>6, <1>7, <1>8 DEF Inv

(* Starting a quantum over the journal. *)
LEMMA StartQuantumInv == ASSUME Inv, StartQuantum PROVE Inv'
<1>1. /\ cursor' = 0 /\ pending' = FALSE /\ observed' = << >> /\ pc' = "guest"
      /\ journal' = journal /\ call' = call /\ result' = result /\ seen' = seen
  BY DEF StartQuantum
<1>2. << >> \in Seq(Results)
  OBVIOUS
<1>3. TypeOK'
  BY <1>1, <1>2 DEF Inv, TypeOK
<1>4. CursorInv' /\ DispatchInv'
  BY <1>1 DEF Inv, TypeOK, CursorInv, DispatchInv
<1>5. JournalVerifies' /\ JournalBeforeObserve' /\ SeenInv'
  BY <1>1 DEF Inv, JournalVerifies, Verify, JournalBeforeObserve, SeenInv
<1> QED
  BY <1>3, <1>4, <1>5 DEF Inv

(* Every step of the replay layer preserves the invariant. *)
LEMMA NextInv == Inv /\ [Next]_vars => Inv'
<1> SUFFICES ASSUME Inv, [Next]_vars PROVE Inv'
  OBVIOUS
<1>1. CASE StartQuantum
  BY <1>1, StartQuantumInv
<1>2. ASSUME NEW s \in Syscalls, Serve(s) PROVE Inv'
  BY <1>2, ServeInv
<1>3. ASSUME NEW s \in Syscalls, Diverge(s) PROVE Inv'
  <2>1. DispatchInv'
    BY <1>3 DEF Diverge, DispatchInv
  <2> QED
    BY <1>3, <2>1, DispatchStep DEF Diverge, Inv, TypeOK
<1>4. ASSUME NEW s \in Syscalls, DriveAgain(s) PROVE Inv'
  BY <1>4, DriveAgainInv
<1>5. ASSUME NEW s \in Syscalls, Fresh(s) PROVE Inv'
  <2>1. cursor = Len(journal)
    <3>1. /\ Len(journal) \in Nat /\ cursor \in Nat /\ cursor <= Len(journal)
      BY DEF Inv, TypeOK, CursorInv
    <3>2. cursor >= Len(journal)
      BY <3>1, <1>5 DEF Fresh, NextOutcome
    <3> QED
      BY <3>1, <3>2
  <2>2. DispatchInv'
    BY <1>5, <2>1 DEF Fresh, DispatchInv, tape
  <2> QED
    BY <1>5, <2>2, DispatchStep DEF Fresh, Inv, TypeOK
<1>6. CASE Begin
  BY <1>6, BeginInv
<1>7. CASE BeginFails
  <2>1. DispatchInv'
    BY <1>7 DEF BeginFails, DispatchInv
  <2> QED
    BY <1>7, <2>1, DispatchStep DEF BeginFails, Inv, TypeOK
<1>8. ASSUME NEW r \in Results, Execute(r) PROVE Inv'
  <2>1. DispatchInv'
    BY <1>8 DEF Execute, Inv, DispatchInv, tape, Intent
  <2> QED
    BY <1>8, <2>1, DispatchStep DEF Execute, Inv, TypeOK
<1>9. CASE ExecuteYields
  <2>1. DispatchInv'
    BY <1>9 DEF ExecuteYields, DispatchInv
  <2> QED
    BY <1>9, <2>1, DispatchStep DEF ExecuteYields, Inv, TypeOK
<1>10. CASE ExecuteFails
  <2>1. DispatchInv'
    BY <1>10 DEF ExecuteFails, DispatchInv
  <2> QED
    BY <1>10, <2>1, DispatchStep DEF ExecuteFails, Inv, TypeOK
<1>11. CASE Commit
  BY <1>11, CommitInv
<1>12. CASE CommitFails
  <2>1. DispatchInv'
    BY <1>12 DEF CommitFails, DispatchInv
  <2> QED
    BY <1>12, <2>1, DispatchStep DEF CommitFails, Inv, TypeOK
<1>13. CASE EndQuantum \/ Crash
  BY <1>13, DropQuantumInv DEF EndQuantum, Crash
<1>14. ASSUME NEW k \in ForkOffsets, Fork(k) PROVE Inv'
  BY <1>14, ForkInv
<1>15. CASE UNCHANGED vars
  BY <1>15 DEF vars, Inv, TypeOK, JournalVerifies, Verify, CursorInv, DispatchInv,
               JournalBeforeObserve, SeenInv
<1> QED
  BY <1>1, <1>2, <1>3, <1>4, <1>5, <1>6, <1>7, <1>8, <1>9, <1>10, <1>11, <1>12,
     <1>13, <1>14, <1>15 DEF Next

(* The inductive invariant holds in every reachable state. *)
THEOREM InvHolds == Spec => []Inv
  BY InitInv, NextInv, PTL DEF Spec

(* Type correctness of the tape and of the dispatch in flight. *)
THEOREM TypeCorrect == Spec => []TypeOK
<1>1. Inv => TypeOK
  BY DEF Inv
<1> QED
  BY <1>1, InvHolds, PTL

(* The integrity check of chain.go never refuses a journal the tape wrote. *)
THEOREM JournalAlwaysVerifies == Spec => []JournalVerifies
<1>1. Inv => JournalVerifies
  BY DEF Inv
<1> QED
  BY <1>1, InvHolds, PTL

(* Journal-before-execute: a call runs only under its own open intent. *)
THEOREM JournalBeforeExecuteHolds == Spec => []JournalBeforeExecute
<1>1. Inv => JournalBeforeExecute
  <2> SUFFICES ASSUME Inv, pc \in {"execute", "commit"}
               PROVE  /\ Len(journal) % 2 = 1
                      /\ journal[Len(journal)] = Intent(call)
                      /\ cursor = Len(journal)
    BY DEF JournalBeforeExecute
  <2>1. pending /\ journal[Len(journal)] = Intent(call)
    BY DEF Inv, DispatchInv
  <2>2. cursor = Len(journal) /\ cursor = 2 * Len(observed) + 1 /\ Len(observed) \in Nat
    BY <2>1 DEF Inv, TypeOK, CursorInv
  <2> QED
    BY <2>1, <2>2
<1> QED
  BY <1>1, InvHolds, PTL

(* Journal-before-observe: whatever the guest holds, the journal holds. *)
THEOREM JournalBeforeObserveHolds == Spec => []JournalBeforeObserve
<1>1. Inv => JournalBeforeObserve
  BY DEF Inv
<1> QED
  BY <1>1, InvHolds, PTL

(* A guest that runs again sees the results it saw the first time, across
   crashes, failed appends, yields and forks. *)
THEOREM ReplayAgreesHolds == Spec => []ReplayAgrees
<1>1. Inv => ReplayAgrees
  <2> SUFFICES ASSUME Inv, NEW i \in 1 .. Len(observed), i <= Len(seen)
               PROVE  observed[i] = seen[i]
    BY DEF ReplayAgrees
  <2>1. i \in 1 .. Len(seen)
    BY DEF Inv, TypeOK
  <2>2. Completion(observed[i]) = Completion(seen[i])
    BY <2>1 DEF Inv, JournalBeforeObserve, SeenInv
  <2> QED
    BY <2>2 DEF Completion
<1> QED
  BY <1>1, InvHolds, PTL

(* The replay layer drives the journal by the abstract protocol: it opens a call
   when none is open, closes the one that is, and otherwise only forks. *)
THEOREM ReplayImplementsProtocol == Spec => JournalProtocolHolds
<1>1. Init => Protocol!Init
  BY DEF Init, Protocol!Init
<1>2. Inv /\ [Next]_vars => [Protocol!Next]_journal
  <2> SUFFICES ASSUME Inv, [Next]_vars, journal' # journal
               PROVE  Protocol!Next
    OBVIOUS
  <2> USE DEF Protocol!Even
  <2>1. CASE Begin
    <3>0. /\ call \in Syscalls /\ Len(observed) \in Nat
          /\ Len(journal) = 2 * Len(observed)
      BY <2>1 DEF Begin, BeginAllowed, Inv, TypeOK, CursorInv, DispatchInv
    <3>1. call \in Syscalls /\ Len(journal) % 2 = 0
      BY <3>0
    <3>2. Intent(call) \in Intents
      BY <3>1 DEF Intent, Intents
    <3> QED
      BY <2>1, <3>1, <3>2 DEF Begin, Protocol!Next, Protocol!Open
  <2>2. CASE Commit
    <3>0. /\ result \in Results /\ Len(observed) \in Nat
          /\ Len(journal) = 2 * Len(observed) + 1
      BY <2>2 DEF Commit, Inv, TypeOK, CursorInv, DispatchInv
    <3>1. result \in Results /\ Len(journal) % 2 = 1
      BY <3>0
    <3>2. Completion(result) \in Completions
      BY <3>1 DEF Completion, Completions
    <3> QED
      BY <2>2, <3>1, <3>2 DEF Commit, Protocol!Next, Protocol!Close
  <2>3. ASSUME NEW k \in ForkOffsets, Fork(k) PROVE Protocol!Next
    BY <2>3 DEF Fork, ForkOffsets, Protocol!Next, Protocol!Cut
  <2> QED
    BY <2>1, <2>2, <2>3 DEF Next, vars, StartQuantum, Serve, Diverge, DriveAgain, Fresh,
       BeginFails, Execute, ExecuteYields, ExecuteFails, CommitFails, EndQuantum, Crash,
       DropQuantum
<1> QED
  BY <1>1, <1>2, InvHolds, PTL DEF Spec, JournalProtocolHolds, Protocol!Spec
=============================================================================
