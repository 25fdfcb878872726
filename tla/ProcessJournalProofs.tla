------------------------ MODULE ProcessJournalProofs ------------------------
(***************************************************************************)
(* The stored journal's laws, proved for every set of payloads and every   *)
(* bound on lengths and revisions.                                         *)
(***************************************************************************)
EXTENDS ProcessJournal, SequenceTheorems, TLAPS

(* n is one past the last record revision rev wrote, or its fork offset. *)
IsLength(n, h, rev, off) ==
    /\ n \in Nat
    /\ off <= n
    /\ \A i \in 1 .. Len(h) : h[i].revision = rev => h[i].position + 1 <= n
    /\ n = off \/ \E i \in 1 .. Len(h) : h[i].revision = rev /\ h[i].position + 1 = n

(* The view of the last recorded revision is complete: at every position some
   record is the best one. *)
Covered == \A p \in 0 .. DurableLength - 1 :
              \E i \in 1 .. Len(stream) : Best(stream, p, stored.revision, i)

(* getAt has one answer wherever a view shows anything. *)
BestExists == \A p, r \in Nat :
                 Written(stream, p, r) # {} =>
                     \E i \in 1 .. Len(stream) : Best(stream, p, r, i)

(* Every record is of the kind its position says, and of a revision whose state
   was recorded before: no revision writes before it is in the log. *)
RecordsInv == \A i \in 1 .. Len(stream) :
                 /\ stream[i].kind = KindAt(stream[i].position)
                 /\ stream[i].revision <= stored.revision

(* The journal in memory against the one in the stream: the same while no fork
   is unrecorded, else a prefix of it that nobody writes to. *)
MemoryInv ==
    /\ history = stream
    /\ launched => revision = stored.revision
    /\ forkOffset % 2 = 0 /\ stored.forkOffset % 2 = 0
    /\ stored.revision <= revision
    /\ revision = stored.revision =>
          forkOffset = stored.forkOffset /\ length = DurableLength
    /\ stored.revision < revision =>
          length = forkOffset /\ length <= DurableLength

(* The inductive invariant. *)
Inv == /\ TypeOK
       /\ IsLength(DurableLength, stream, stored.revision, stored.forkOffset)
       /\ Covered
       /\ BestExists
       /\ RecordsInv
       /\ MemoryInv

-----------------------------------------------------------------------------
(* Facts about the operators of processHistory. *)

(* The fields of a record of a history. *)
LEMMA RecordFields ==
    ASSUME NEW h \in Seq(Record), NEW i \in 1 .. Len(h)
    PROVE  /\ h[i] \in Record /\ h[i].position \in Nat /\ h[i].revision \in Nat
           /\ h[i].kind \in Kinds /\ h[i].payload \in Payloads
<1>1. h[i] \in Record
  OBVIOUS
<1> QED
  BY <1>1 DEF Record

(* There is only one such n, and lengthOf finds it. *)
LEMMA LengthIs ==
    ASSUME NEW h \in Seq(Record), NEW rev \in Nat, NEW off \in Nat, NEW n,
           IsLength(n, h, rev, off)
    PROVE  lengthOf(h, rev, off) = n
<1> DEFINE S == Ends(h, rev, off)
<1>1. n \in S /\ \A m \in S : m <= n
  BY DEF IsLength, Ends
<1>2. S \subseteq Nat
  BY RecordFields DEF Ends
<1>3. ASSUME NEW x \in S, \A m \in S : m <= x PROVE x = n
  BY <1>1, <1>2, <1>3
<1> QED
  BY <1>1, <1>3 DEF lengthOf

(* getAt returns the best record when there is one. *)
LEMMA getAtIs ==
    ASSUME NEW h \in Seq(Record), NEW p \in Nat, NEW r \in Nat,
           NEW i \in 1 .. Len(h), Best(h, p, r, i)
    PROVE  getAt(h, p, r) = h[i] /\ h[i].position = p /\ h[i].revision <= r
<1>1. ASSUME NEW j \in 1 .. Len(h), Best(h, p, r, j) PROVE j = i
  <2>1. h[i].revision \in Nat /\ h[j].revision \in Nat
    BY RecordFields
  <2>2. i \in Written(h, p, r) /\ j \in Written(h, p, r)
    BY <1>1 DEF Best
  <2>3. h[i].revision = h[j].revision
    BY <1>1, <2>1, <2>2 DEF Best
  <2> QED
    BY <1>1, <2>2, <2>3, <2>1 DEF Best
<1>2. (CHOOSE j \in 1 .. Len(h) : Best(h, p, r, j)) = i
  BY <1>1
<1> QED
  BY <1>2 DEF getAt, Best, Written

(* A record appended at another position, or above maxRev, is not shown. *)
LEMMA WrittenKept ==
    ASSUME NEW h \in Seq(Record), NEW rec \in Record, NEW p \in Nat, NEW r \in Nat,
           rec.position # p \/ r < rec.revision
    PROVE  Written(Append(h, rec), p, r) = Written(h, p, r)
<1> DEFINE g == Append(h, rec)
<1>1. /\ Len(g) = Len(h) + 1 /\ Len(h) \in Nat
      /\ \A j \in 1 .. Len(h) : g[j] = h[j]
      /\ g[Len(h) + 1] = rec
  OBVIOUS
<1> HIDE DEF g
<1>2. rec.revision \in Nat
  BY DEF Record
<1>3. ASSUME NEW j \in Written(g, p, r) PROVE j \in Written(h, p, r)
  <2>1. j \in 1 .. Len(g) /\ g[j].position = p /\ g[j].revision <= r
    BY DEF Written
  <2>2. j # Len(h) + 1
    BY <2>1, <1>1, <1>2
  <2> QED
    BY <2>1, <2>2, <1>1 DEF Written
<1>4. ASSUME NEW j \in Written(h, p, r) PROVE j \in Written(g, p, r)
  BY <1>1 DEF Written
<1>5. Written(g, p, r) = Written(h, p, r)
  BY <1>3, <1>4
<1> QED
  BY <1>5 DEF g

(* So it hides nothing that was shown. *)
LEMMA BestKept ==
    ASSUME NEW h \in Seq(Record), NEW rec \in Record, NEW p \in Nat, NEW r \in Nat,
           rec.position # p \/ r < rec.revision,
           NEW i \in 1 .. Len(h), Best(h, p, r, i)
    PROVE  /\ i \in 1 .. Len(Append(h, rec))
           /\ Best(Append(h, rec), p, r, i)
           /\ Append(h, rec)[i] = h[i]
<1> DEFINE g == Append(h, rec)
<1>1. /\ Len(g) = Len(h) + 1 /\ Len(h) \in Nat
      /\ \A j \in 1 .. Len(h) : g[j] = h[j]
  OBVIOUS
<1>2. Written(g, p, r) = Written(h, p, r)
  BY WrittenKept
<1> HIDE DEF g
<1>3. i \in Written(h, p, r)
  BY DEF Best
<1>4. ASSUME NEW j \in Written(h, p, r) PROVE g[j] = h[j]
  BY <1>1 DEF Written
<1>5. Best(g, p, r, i)
  BY <1>2, <1>3, <1>4 DEF Best
<1> QED
  BY <1>1, <1>5 DEF g

(* A record whose revision no other record at its position reaches is the best
   one there once it is appended. *)
LEMMA BestNew ==
    ASSUME NEW h \in Seq(Record), NEW rec \in Record, NEW r \in Nat, rec.revision <= r,
           \A i \in 1 .. Len(h) : h[i].revision <= rec.revision,
           \A i \in 1 .. Len(h) : h[i].revision = rec.revision => h[i].position # rec.position
    PROVE  /\ Len(h) + 1 \in 1 .. Len(Append(h, rec))
           /\ Best(Append(h, rec), rec.position, r, Len(h) + 1)
           /\ Append(h, rec)[Len(h) + 1] = rec
<1> DEFINE g == Append(h, rec)
           n == Len(h) + 1
<1>1. /\ g \in Seq(Record) /\ Len(g) = n /\ Len(h) \in Nat
      /\ \A j \in 1 .. Len(h) : g[j] = h[j]
      /\ g[n] = rec
  OBVIOUS
<1>2. rec.revision \in Nat /\ \A i \in 1 .. Len(h) : h[i].revision \in Nat
  <2>1. rec.revision \in Nat
    BY DEF Record
  <2> QED
    BY <2>1, RecordFields
<1> HIDE DEF g
<1>3. n \in Written(g, rec.position, r)
  BY <1>1, <1>2 DEF Written
<1>4. ASSUME NEW j \in Written(g, rec.position, r)
      PROVE  g[j].revision < g[n].revision \/ (g[j].revision = g[n].revision /\ n <= j)
  <2>1. j \in 1 .. n /\ g[j].position = rec.position
    BY <1>1 DEF Written
  <2>2. CASE j = n
    BY <2>2, <1>1
  <2>3. CASE j \in 1 .. Len(h)
    BY <2>1, <2>3, <1>1, <1>2
  <2> QED
    BY <2>1, <2>2, <2>3, <1>1
<1>5. Best(g, rec.position, r, n)
  BY <1>3, <1>4 DEF Best
<1> QED
  BY <1>1, <1>5 DEF g

(* A view at a higher revision shows the same records while nothing was written
   above the lower one: what makes a fork share its prefix. *)
LEMMA BestAtHigher ==
    ASSUME NEW h \in Seq(Record), NEW p \in Nat, NEW r \in Nat, NEW q \in Nat, r <= q,
           \A i \in 1 .. Len(h) : h[i].revision <= r,
           NEW i \in 1 .. Len(h), Best(h, p, r, i)
    PROVE  Best(h, p, q, i)
<1>1. \A j \in 1 .. Len(h) : h[j].revision \in Nat
  BY RecordFields
<1>2. Written(h, p, q) = Written(h, p, r)
  BY <1>1 DEF Written
<1> QED
  BY <1>2 DEF Best
-----------------------------------------------------------------------------
(* The invariant holds when the process is created. *)
LEMMA InitInv == Init => Inv
<1> SUFFICES ASSUME Init PROVE Inv
  OBVIOUS
<1>1. /\ stream = << >> /\ history = << >> /\ stored = [revision |-> 1, forkOffset |-> 0]
      /\ revision = 1 /\ forkOffset = 0 /\ length = 0 /\ launched = TRUE
      /\ stored.revision = 1 /\ stored.forkOffset = 0
  BY DEF Init
<1>2. << >> \in Seq(Record) /\ Len(<< >>) = 0
  OBVIOUS
<1>3. TypeOK
  BY <1>1, <1>2 DEF TypeOK, Stored
<1>4. IsLength(0, stream, stored.revision, stored.forkOffset)
  BY <1>1, <1>2 DEF IsLength
<1>5. DurableLength = 0
  BY <1>1, <1>2, <1>4, LengthIs DEF DurableLength
<1>6. Covered /\ RecordsInv
  BY <1>1, <1>2, <1>5 DEF Covered, RecordsInv
<1>7. BestExists
  BY <1>1, <1>2 DEF BestExists, Written
<1>8. MemoryInv
  BY <1>1, <1>5 DEF MemoryInv
<1> QED
  BY <1>3, <1>4, <1>5, <1>6, <1>7, <1>8 DEF Inv

(* What every step that leaves the stream and the recorded state alone keeps. *)
LEMMA DurableUntouched ==
    ASSUME Inv, UNCHANGED durable
    PROVE  /\ DurableLength' = DurableLength
           /\ IsLength(DurableLength, stream, stored.revision, stored.forkOffset)'
           /\ Covered' /\ BestExists' /\ RecordsInv'
<1>1. stream' = stream /\ stored' = stored
  BY DEF durable
<1>2. DurableLength' = DurableLength
  BY <1>1 DEF DurableLength
<1> QED
  BY <1>1, <1>2 DEF Inv, IsLength, Covered, BestExists, RecordsInv

(* An append by the running quantum. *)
LEMMA AppendInv ==
    ASSUME Inv, NEW x \in Payloads, AppendRecord(x)
    PROVE  Inv' /\ DurableLength' = DurableLength + 1
<1> DEFINE rec == Stamped(x)
           rev == stored.revision
           off == stored.forkOffset
<1>1. /\ stream \in Seq(Record) /\ rev \in Nat /\ off \in Nat /\ length \in Nat
      /\ launched /\ history = stream /\ revision = rev /\ length = DurableLength
      /\ forkOffset = off
  BY DEF Inv, TypeOK, Stored, MemoryInv, AppendRecord
<1>2. rec \in Record /\ rec.position = length /\ rec.revision = rev /\ rec.kind = KindAt(length)
  <2>1. KindAt(length) \in Kinds
    BY DEF KindAt, Kinds
  <2> QED
    BY <1>1, <2>1 DEF Stamped, Record
<1>3. /\ stream' = Append(stream, rec) /\ history' = stream' /\ length' = length + 1
      /\ revision' = revision /\ forkOffset' = forkOffset /\ launched' = launched
      /\ stored' = stored
  BY <1>1 DEF AppendRecord
<1> HIDE DEF rec
<1>4. /\ stream' \in Seq(Record) /\ Len(stream') = Len(stream) + 1 /\ Len(stream) \in Nat
      /\ \A i \in 1 .. Len(stream) : stream'[i] = stream[i]
      /\ stream'[Len(stream) + 1] = rec
  BY <1>1, <1>2, <1>3
<1>5. \A i \in 1 .. Len(stream) :
         /\ stream[i].revision \in Nat /\ stream[i].position \in Nat
         /\ stream[i].revision <= rev
         /\ stream[i].revision = rev => stream[i].position + 1 <= length
         /\ stream[i].kind = KindAt(stream[i].position)
  BY <1>1, RecordFields DEF Inv, IsLength, RecordsInv
<1>6. off <= length
  BY <1>1 DEF Inv, IsLength
<1>7. IsLength(length + 1, stream', rev, off)
  <2>1. ASSUME NEW i \in 1 .. Len(stream'), stream'[i].revision = rev
        PROVE  stream'[i].position + 1 <= length + 1
    <3>1. CASE i = Len(stream) + 1
      BY <3>1, <1>1, <1>2, <1>4
    <3>2. CASE i \in 1 .. Len(stream)
      BY <2>1, <3>2, <1>1, <1>4, <1>5
    <3> QED
      BY <3>1, <3>2, <1>4
  <2>2. /\ Len(stream) + 1 \in 1 .. Len(stream')
        /\ stream'[Len(stream) + 1].revision = rev
        /\ stream'[Len(stream) + 1].position + 1 = length + 1
    BY <1>1, <1>2, <1>4
  <2> QED
    BY <2>1, <2>2, <1>1, <1>6 DEF IsLength
<1>8. DurableLength' = length + 1
  BY <1>1, <1>3, <1>4, <1>7, LengthIs DEF DurableLength
<1>9. /\ Len(stream) + 1 \in 1 .. Len(stream')
      /\ \A r \in Nat : rev <= r => Best(stream', length, r, Len(stream) + 1)
  BY <1>1, <1>2, <1>3, <1>4, <1>5, BestNew
<1>10. TypeOK'
  BY <1>1, <1>3, <1>4 DEF Inv, TypeOK
<1>11. Covered'
  <2> SUFFICES ASSUME NEW p \in 0 .. length
               PROVE  \E i \in 1 .. Len(stream') : Best(stream', p, rev, i)
    BY <1>1, <1>3, <1>8 DEF Covered
  <2>1. CASE p = length
    BY <2>1, <1>1, <1>9
  <2>2. CASE p # length
    <3>1. PICK i \in 1 .. Len(stream) : Best(stream, p, rev, i)
      BY <2>2, <1>1 DEF Inv, Covered
    <3> QED
      BY <2>2, <3>1, <1>1, <1>2, <1>3, BestKept
  <2> QED
    BY <2>1, <2>2
<1>12. BestExists'
  <2> SUFFICES ASSUME NEW p \in Nat, NEW r \in Nat, Written(stream', p, r) # {}
               PROVE  \E i \in 1 .. Len(stream') : Best(stream', p, r, i)
    BY DEF BestExists
  <2>1. CASE p = length /\ rev <= r
    BY <2>1, <1>9
  <2>2. CASE ~(p = length /\ rev <= r)
    <3>0. rec.position # p \/ r < rec.revision
      BY <2>2, <1>1, <1>2
    <3>1. Written(stream, p, r) # {}
      BY <3>0, <1>1, <1>2, <1>3, WrittenKept
    <3>2. PICK i \in 1 .. Len(stream) : Best(stream, p, r, i)
      BY <3>1 DEF Inv, BestExists
    <3> QED
      BY <3>0, <3>2, <1>1, <1>2, <1>3, BestKept
  <2> QED
    BY <2>1, <2>2
<1>13. RecordsInv'
  <2> SUFFICES ASSUME NEW i \in 1 .. Len(stream')
               PROVE  /\ stream'[i].kind = KindAt(stream'[i].position)
                      /\ stream'[i].revision <= rev
    BY <1>3 DEF RecordsInv, KindAt
  <2>1. CASE i = Len(stream) + 1
    BY <2>1, <1>1, <1>2, <1>4
  <2>2. CASE i \in 1 .. Len(stream)
    BY <2>2, <1>4, <1>5
  <2> QED
    BY <2>1, <2>2, <1>4
<1>14. MemoryInv'
  <2>1. forkOffset % 2 = 0 /\ stored.forkOffset % 2 = 0
    BY DEF Inv, MemoryInv
  <2> QED
    BY <2>1, <1>1, <1>3, <1>8 DEF MemoryInv
<1> QED
  BY <1>1, <1>3, <1>7, <1>8, <1>10, <1>11, <1>12, <1>13, <1>14 DEF Inv

(* Recording a fork: a higher revision that wrote nothing yet. *)
LEMMA RecordFork ==
    ASSUME Inv, NEW q \in Nat, stored.revision < q, NEW k \in 0 .. DurableLength,
           stream' = stream, stored' = [revision |-> q, forkOffset |-> k]
    PROVE  /\ DurableLength' = k
           /\ IsLength(DurableLength, stream, stored.revision, stored.forkOffset)'
           /\ Covered' /\ BestExists' /\ RecordsInv'
<1>1. /\ stream \in Seq(Record) /\ stored.revision \in Nat /\ DurableLength \in Nat
      /\ k \in Nat /\ stored'.revision = q /\ stored'.forkOffset = k
  BY DEF Inv, TypeOK, Stored, IsLength
<1>2. \A i \in 1 .. Len(stream) : stream[i].revision \in Nat /\ stream[i].revision <= stored.revision
  BY <1>1, RecordFields DEF Inv, RecordsInv
<1>3. IsLength(k, stream, q, k)
  BY <1>1, <1>2 DEF IsLength
<1>4. DurableLength' = k
  BY <1>1, <1>3, LengthIs DEF DurableLength
<1>5. Covered'
  <2> SUFFICES ASSUME NEW p \in 0 .. k - 1
               PROVE  \E i \in 1 .. Len(stream) : Best(stream, p, q, i)
    BY <1>1, <1>4 DEF Covered
  <2>1. PICK i \in 1 .. Len(stream) : Best(stream, p, stored.revision, i)
    BY <1>1 DEF Inv, Covered
  <2>2. p \in Nat /\ stored.revision <= q
    BY <1>1
  <2>3. \A j \in 1 .. Len(stream) : stream[j].revision <= stored.revision
    BY <1>2
  <2>4. Best(stream, p, q, i)
    BY <2>1, <2>2, <2>3, <1>1, BestAtHigher
  <2> QED
    BY <2>4
<1>6. BestExists'
  BY DEF Inv, BestExists
<1>7. RecordsInv'
  <2> SUFFICES ASSUME NEW i \in 1 .. Len(stream)
               PROVE  stream[i].kind = KindAt(stream[i].position) /\ stream[i].revision <= q
    BY <1>1 DEF RecordsInv, KindAt
  <2> QED
    BY <1>1, <1>2 DEF Inv, RecordsInv
<1> QED
  BY <1>1, <1>3, <1>4, <1>5, <1>6, <1>7

(* Every step of the stored journal preserves the invariant. *)
LEMMA NextInv == Inv /\ [Next]_vars => Inv'
<1> SUFFICES ASSUME Inv, [Next]_vars PROVE Inv'
  OBVIOUS
<1>0. /\ revision \in Nat /\ forkOffset \in Nat /\ length \in Nat /\ launched \in BOOLEAN
      /\ history \in Seq(Record) /\ stream \in Seq(Record) /\ stored \in Stored
      /\ stored.revision \in Nat /\ stored.forkOffset \in Nat /\ DurableLength \in Nat
  BY DEF Inv, TypeOK, Stored, IsLength
<1>1. ASSUME NEW x \in Payloads, AppendRecord(x) PROVE Inv'
  BY <1>1, AppendInv
<1>2. CASE EndQuantum
  <2>1. TypeOK' /\ MemoryInv'
    BY <1>2, <1>0, DurableUntouched DEF EndQuantum, Inv, TypeOK, MemoryInv, durable
  <2> QED
    BY <1>2, <2>1, DurableUntouched DEF EndQuantum, Inv
<1>3. CASE Relaunch
  <2>1. revision = stored.revision
    BY <1>3 DEF Relaunch, ForkRecorded, CurrentState
  <2>2. TypeOK' /\ MemoryInv'
    BY <1>3, <1>0, <2>1, DurableUntouched DEF Relaunch, Inv, TypeOK, MemoryInv, durable
  <2> QED
    BY <1>3, <2>2, DurableUntouched DEF Relaunch, Inv
<1>4. ASSUME NEW k \in ForkOffsets, ForkAndLaunch(k) PROVE Inv'
  <2>1. /\ revision = stored.revision /\ length = DurableLength
        /\ k \in 0 .. DurableLength /\ k % 2 = 0
    BY <1>4 DEF ForkAndLaunch, ForkRecorded, CurrentState, ForkOffsets, Inv, MemoryInv
  <2>2. /\ revision' = revision + 1 /\ forkOffset' = k /\ length' = k /\ launched' = TRUE
        /\ history' = history /\ stream' = stream
        /\ stored' = [revision |-> revision + 1, forkOffset |-> k]
    BY <1>4 DEF ForkAndLaunch, ForkJournal
  <2>3. stored' \in Stored /\ stored'.revision = revision + 1 /\ stored'.forkOffset = k
    BY <1>0, <2>1, <2>2 DEF Stored
  <2>4. /\ DurableLength' = k /\ Covered' /\ BestExists' /\ RecordsInv'
        /\ IsLength(DurableLength, stream, stored.revision, stored.forkOffset)'
    <3>1. revision + 1 \in Nat /\ stored.revision < revision + 1
      BY <1>0, <2>1
    <3> QED
      BY <3>1, <2>1, <2>2, RecordFork
  <2>5. TypeOK' /\ MemoryInv'
    BY <1>0, <2>1, <2>2, <2>3, <2>4 DEF Inv, TypeOK, MemoryInv
  <2> QED
    BY <2>4, <2>5 DEF Inv
<1>5. ASSUME NEW k \in ForkOffsets, ForkOnly(k) PROVE Inv'
  <2>1. length <= DurableLength
    BY <1>0 DEF Inv, MemoryInv
  <2>2. TypeOK' /\ MemoryInv'
    BY <1>5, <1>0, <2>1, DurableUntouched
       DEF ForkOnly, ForkJournal, ForkOffsets, Inv, TypeOK, MemoryInv, durable
  <2> QED
    BY <1>5, <2>2, DurableUntouched DEF ForkOnly, ForkJournal, durable, Inv
<1>6. CASE RecordState
  <2>1. stored.revision < revision /\ length = forkOffset /\ length <= DurableLength
    BY <1>6, <1>0 DEF RecordState, ForkRecorded, CurrentState, Inv, MemoryInv, Stored
  <2>2. /\ stored' = [revision |-> revision, forkOffset |-> forkOffset] /\ stream' = stream
        /\ revision' = revision /\ forkOffset' = forkOffset /\ length' = length
        /\ history' = history /\ launched' = launched
    BY <1>6 DEF RecordState, CurrentState, memory
  <2>3. stored' \in Stored /\ stored'.revision = revision /\ stored'.forkOffset = forkOffset
    BY <1>0, <2>2 DEF Stored
  <2>4. /\ DurableLength' = forkOffset /\ Covered' /\ BestExists' /\ RecordsInv'
        /\ IsLength(DurableLength, stream, stored.revision, stored.forkOffset)'
    <3>1. forkOffset \in 0 .. DurableLength
      BY <1>0, <2>1
    <3> QED
      BY <1>0, <3>1, <2>1, <2>2, RecordFork
  <2>5. TypeOK' /\ MemoryInv'
    BY <1>0, <2>1, <2>2, <2>3, <2>4 DEF Inv, TypeOK, MemoryInv
  <2> QED
    BY <2>4, <2>5 DEF Inv
<1>7. CASE Restart
  <2>1. /\ history' = stream /\ stream' = stream /\ stored' = stored /\ launched' = FALSE
        /\ revision' = stored.revision /\ forkOffset' = stored.forkOffset
        /\ length' = DurableLength
    BY <1>7 DEF Restart, durable, DurableLength
  <2>2. DurableLength' = DurableLength
    BY <2>1, DurableUntouched DEF durable
  <2>3. TypeOK'
    BY <1>0, <2>1 DEF TypeOK
  <2>4. MemoryInv'
    <3>1. /\ stored'.revision = stored.revision /\ stored'.forkOffset = stored.forkOffset
          /\ stored.forkOffset % 2 = 0
      BY <2>1 DEF Inv, MemoryInv
    <3> QED
      BY <1>0, <2>1, <2>2, <3>1 DEF MemoryInv
  <2> QED
    BY <2>1, <2>3, <2>4, DurableUntouched DEF durable, Inv
<1>8. CASE UNCHANGED vars
  <2>1. TypeOK' /\ MemoryInv'
    BY <1>8, <1>0, DurableUntouched DEF vars, durable, Inv, TypeOK, MemoryInv
  <2> QED
    BY <1>8, <2>1, DurableUntouched DEF vars, durable, Inv
<1> QED
  BY <1>1, <1>2, <1>3, <1>4, <1>5, <1>6, <1>7, <1>8 DEF Next

(* The inductive invariant holds in every reachable state. *)
THEOREM InvHolds == Spec => []Inv
  BY InitInv, NextInv, PTL DEF Spec

(* Type correctness of the journal in memory and of the stream. *)
THEOREM TypeCorrect == Spec => []TypeOK
<1>1. Inv => TypeOK
  BY DEF Inv
<1> QED
  BY <1>1, InvHolds, PTL

(* In memory as in the stream, every position below the length has its record. *)
LEMMA ViewShown ==
    ASSUME Inv, NEW p \in 0 .. length - 1
    PROVE  \E i \in 1 .. Len(stream) :
              /\ Best(stream, p, stored.revision, i)
              /\ Best(stream, p, revision, i)
<1>1. /\ stream \in Seq(Record) /\ stored.revision \in Nat /\ revision \in Nat
      /\ length \in Nat /\ DurableLength \in Nat
      /\ length <= DurableLength /\ stored.revision <= revision
  BY DEF Inv, TypeOK, Stored, IsLength, MemoryInv
<1>2. PICK i \in 1 .. Len(stream) : Best(stream, p, stored.revision, i)
  BY <1>1 DEF Inv, Covered
<1>3. \A j \in 1 .. Len(stream) : stream[j].revision <= stored.revision
  BY DEF Inv, RecordsInv
<1> QED
  BY <1>1, <1>2, <1>3, BestAtHigher

(* A Load below Length always finds a record, of the kind Verify expects there,
   whatever was forked, refused or restored before. *)
THEOREM LoadAlwaysFinds == Spec => []LoadFindsRecord
<1>1. Inv => LoadFindsRecord
  <2> SUFFICES ASSUME Inv, NEW p \in 0 .. length - 1
               PROVE  /\ Written(history, p, revision) # {}
                      /\ Load(p).position = p
                      /\ Load(p).kind = KindAt(p)
    BY DEF LoadFindsRecord
  <2>1. history = stream /\ stream \in Seq(Record) /\ revision \in Nat /\ p \in Nat
    BY DEF Inv, MemoryInv, TypeOK
  <2>2. PICK i \in 1 .. Len(stream) : Best(stream, p, revision, i)
    BY ViewShown
  <2>3. Load(p) = stream[i] /\ stream[i].position = p
    BY <2>1, <2>2, getAtIs DEF Load
  <2> QED
    BY <2>1, <2>2, <2>3 DEF Best, Inv, RecordsInv
<1> QED
  BY <1>1, InvHolds, PTL

(* A crash restores exactly the journal the running quantum reads. *)
THEOREM CrashRestoresView == Spec => []RunningViewIsDurable
<1>1. Inv => RunningViewIsDurable
  BY DEF Inv, MemoryInv, RunningViewIsDurable, Load, DurableRecord
<1> QED
  BY <1>1, InvHolds, PTL

(* The view of an abandoned revision never changes. *)
THEOREM AbandonedStaysFrozen == Spec => AbandonedFrozen
<1> DEFINE A == \A r \in 1 .. stored.revision - 1, p \in 0 .. MaxLength :
                   Written(stream, p, r) # {} =>
                       getAt(stream', p, r) = getAt(stream, p, r)
<1>1. Inv /\ [Next]_vars => [A]_vars
  <2> SUFFICES ASSUME Inv, Next,
                      NEW r \in 1 .. stored.revision - 1, NEW p \in 0 .. MaxLength,
                      Written(stream, p, r) # {}
               PROVE  getAt(stream', p, r) = getAt(stream, p, r)
    OBVIOUS
  <2>0. /\ stream \in Seq(Record) /\ stored.revision \in Nat /\ p \in Nat /\ r \in Nat
        /\ length \in Nat
    BY MaxLengthAssumption DEF Inv, TypeOK, Stored
  <2>1. ASSUME NEW x \in Payloads, AppendRecord(x)
        PROVE  getAt(stream', p, r) = getAt(stream, p, r)
    <3>1. PICK i \in 1 .. Len(stream) : Best(stream, p, r, i)
      BY <2>0 DEF Inv, BestExists
    <3>2. revision = stored.revision /\ stream' = Append(stream, Stamped(x))
      BY <2>1 DEF AppendRecord, Inv, MemoryInv
    <3>3. Stamped(x) \in Record /\ r < Stamped(x).revision
      BY <2>0, <3>2 DEF Stamped, Record, KindAt, Kinds
    <3>5. stream' \in Seq(Record)
      BY <2>0, <3>2, <3>3
    <3>4. /\ i \in 1 .. Len(stream')
          /\ Best(stream', p, r, i) /\ stream'[i] = stream[i]
      BY <2>0, <3>1, <3>2, <3>3, BestKept
    <3> QED
      BY <2>0, <3>1, <3>4, <3>5, getAtIs
  <2>2. CASE stream' = stream
    BY <2>2
  <2> QED
    BY <2>1, <2>2 DEF Next, EndQuantum, Relaunch, ForkAndLaunch, ForkOnly, ForkJournal,
       RecordState, Restart, durable
<1> QED
  BY <1>1, InvHolds, PTL DEF Spec, AbandonedFrozen

-----------------------------------------------------------------------------
(* What pairing records by revision rests on, on top of Inv. *)

(* A revision writes a position at most once. *)
WrittenOnce == \A i, j \in 1 .. Len(stream) :
                  /\ stream[i].position = stream[j].position
                  /\ stream[i].revision = stream[j].revision
                  => i = j

(* Everything from the fork offset on was written by the revision itself. *)
OwnTail == \A p \in stored.forkOffset .. DurableLength - 1 :
              \E i \in 1 .. Len(stream) :
                 stream[i].position = p /\ stream[i].revision = stored.revision

(* The view shows a call's intent and completion from one revision. *)
Paired == \A p \in Nat :
             (p % 2 = 0 /\ p + 1 < DurableLength) =>
                \E i, j \in 1 .. Len(stream) :
                   /\ Best(stream, p, stored.revision, i)
                   /\ Best(stream, p + 1, stored.revision, j)
                   /\ stream[i].revision = stream[j].revision

CallsInv == WrittenOnce /\ OwnTail /\ Paired

(* An append: a completion joins the intent the same revision wrote, because a
   fork offset is even. *)
LEMMA AppendCalls ==
    ASSUME Inv, CallsInv, NEW x \in Payloads, AppendRecord(x)
    PROVE  CallsInv'
<1> DEFINE rec == Stamped(x)
           rev == stored.revision
           off == stored.forkOffset
           n   == Len(stream) + 1
<1>1. /\ stream \in Seq(Record) /\ rev \in Nat /\ off \in Nat /\ length \in Nat
      /\ revision = rev /\ length = DurableLength /\ off % 2 = 0 /\ off <= length
      /\ stream' = Append(stream, rec) /\ stored' = stored
  BY DEF Inv, TypeOK, Stored, MemoryInv, AppendRecord, IsLength
<1>2. rec \in Record /\ rec.position = length /\ rec.revision = rev
  <2>1. KindAt(length) \in Kinds
    BY DEF KindAt, Kinds
  <2> QED
    BY <1>1, <2>1 DEF Stamped, Record
<1>3. DurableLength' = length + 1
  BY <1>1, AppendInv
<1> HIDE DEF rec
<1>4. /\ Len(stream') = n /\ Len(stream) \in Nat
      /\ \A i \in 1 .. Len(stream) : stream'[i] = stream[i]
      /\ stream'[n] = rec
  BY <1>1, <1>2
<1>5. \A i \in 1 .. Len(stream) :
         /\ stream[i].revision \in Nat /\ stream[i].position \in Nat
         /\ stream[i].revision <= rev
         /\ stream[i].revision = rev => stream[i].position # length
  BY <1>1, RecordFields DEF Inv, IsLength, RecordsInv
<1>6. WrittenOnce'
  <2> SUFFICES ASSUME NEW i \in 1 .. n, NEW j \in 1 .. n,
                      stream'[i].position = stream'[j].position,
                      stream'[i].revision = stream'[j].revision
               PROVE  i = j
    BY <1>4 DEF WrittenOnce
  <2>1. CASE i \in 1 .. Len(stream) /\ j \in 1 .. Len(stream)
    BY <2>1, <1>4 DEF CallsInv, WrittenOnce
  <2>2. CASE i = n /\ j \in 1 .. Len(stream)
    BY <2>2, <1>2, <1>4, <1>5
  <2>3. CASE j = n /\ i \in 1 .. Len(stream)
    BY <2>3, <1>2, <1>4, <1>5
  <2> QED
    BY <2>1, <2>2, <2>3, <1>4
<1>7. OwnTail'
  <2> SUFFICES ASSUME NEW p \in off .. length
               PROVE  \E i \in 1 .. n : stream'[i].position = p /\ stream'[i].revision = rev
    BY <1>1, <1>3, <1>4 DEF OwnTail
  <2>1. CASE p = length
    BY <2>1, <1>2, <1>4
  <2>2. CASE p # length
    <3>1. PICK i \in 1 .. Len(stream) : stream[i].position = p /\ stream[i].revision = rev
      BY <2>2, <1>1 DEF CallsInv, OwnTail
    <3> QED
      BY <3>1, <1>4
  <2> QED
    BY <2>1, <2>2
<1>8. Paired'
  <2> SUFFICES ASSUME NEW p \in Nat, p % 2 = 0, p + 1 < length + 1
               PROVE  \E i, j \in 1 .. Len(stream') :
                         /\ Best(stream', p, rev, i)
                         /\ Best(stream', p + 1, rev, j)
                         /\ stream'[i].revision = stream'[j].revision
    BY <1>1, <1>3 DEF Paired
  <2>0. p + 1 \in Nat /\ p # length
    BY <1>1
  <2>1. CASE p + 1 < length
    <3>1. PICK i \in 1 .. Len(stream), j \in 1 .. Len(stream) :
             /\ Best(stream, p, rev, i) /\ Best(stream, p + 1, rev, j)
             /\ stream[i].revision = stream[j].revision
      BY <2>1, <1>1 DEF CallsInv, Paired
    <3>0. rec.position # p /\ rec.position # p + 1
      BY <2>0, <2>1, <1>1, <1>2
    <3>2. /\ i \in 1 .. Len(stream') /\ Best(stream', p, rev, i) /\ stream'[i] = stream[i]
      BY <3>0, <3>1, <1>1, <1>2, BestKept
    <3>3. /\ j \in 1 .. Len(stream') /\ Best(stream', p + 1, rev, j) /\ stream'[j] = stream[j]
      BY <2>0, <3>0, <3>1, <1>1, <1>2, BestKept
    <3> QED
      BY <3>1, <3>2, <3>3
  <2>2. CASE p + 1 = length
    <3>1. p \in off .. DurableLength - 1
      BY <2>2, <1>1
    <3>2. PICK i \in 1 .. Len(stream) : stream[i].position = p /\ stream[i].revision = rev
      BY <3>1 DEF CallsInv, OwnTail
    <3>3. Best(stream, p, rev, i)
      <4>1. i \in Written(stream, p, rev)
        BY <3>2, <1>1 DEF Written
      <4>2. ASSUME NEW j \in Written(stream, p, rev)
            PROVE  stream[j].revision < rev \/ (stream[j].revision = rev /\ i <= j)
        <5>1. j \in 1 .. Len(stream) /\ stream[j].position = p
          BY DEF Written
        <5>2. stream[j].revision = rev => i = j
          BY <5>1, <3>2 DEF CallsInv, WrittenOnce
        <5> QED
          BY <5>1, <5>2, <1>1, <1>5, <1>4
      <4> QED
        BY <4>1, <4>2, <3>2 DEF Best
    <3>4. /\ i \in 1 .. Len(stream') /\ Best(stream', p, rev, i) /\ stream'[i] = stream[i]
      BY <2>0, <3>3, <1>1, <1>2, BestKept
    <3>5. /\ n \in 1 .. Len(stream') /\ Best(stream', p + 1, rev, n)
          /\ stream'[n].revision = rev
      <4>1. rev <= rev /\ rec.position = p + 1
        BY <2>2, <1>1, <1>2
      <4>2. /\ \A m \in 1 .. Len(stream) : stream[m].revision <= rec.revision
            /\ \A m \in 1 .. Len(stream) : stream[m].revision = rec.revision
                                             => stream[m].position # rec.position
        BY <1>2, <1>5
      <4> QED
        BY <4>1, <4>2, <1>1, <1>2, BestNew
    <3> QED
      BY <3>2, <3>4, <3>5
  <2> QED
    BY <2>1, <2>2, <1>1
<1> QED
  BY <1>6, <1>7, <1>8 DEF CallsInv

(* A recorded fork cuts between calls and owns nothing yet. *)
LEMMA ForkCalls ==
    ASSUME Inv, CallsInv, NEW q \in Nat, stored.revision < q, NEW k \in 0 .. DurableLength,
           stream' = stream, stored' = [revision |-> q, forkOffset |-> k]
    PROVE  CallsInv'
<1>1. /\ stream \in Seq(Record) /\ stored.revision \in Nat /\ DurableLength \in Nat
      /\ k \in Nat /\ stored'.revision = q /\ stored'.forkOffset = k /\ stored.revision <= q
  BY DEF Inv, TypeOK, Stored, IsLength
<1>2. DurableLength' = k
  BY RecordFork
<1>3. WrittenOnce'
  BY DEF CallsInv, WrittenOnce
<1>4. OwnTail'
  BY <1>1, <1>2 DEF OwnTail
<1>5. Paired'
  <2> SUFFICES ASSUME NEW p \in Nat, p % 2 = 0, p + 1 < k
               PROVE  \E i, j \in 1 .. Len(stream) :
                         /\ Best(stream, p, q, i) /\ Best(stream, p + 1, q, j)
                         /\ stream[i].revision = stream[j].revision
    BY <1>1, <1>2 DEF Paired
  <2>0. p + 1 < DurableLength
    BY <1>1
  <2>1. PICK i \in 1 .. Len(stream), j \in 1 .. Len(stream) :
           /\ Best(stream, p, stored.revision, i) /\ Best(stream, p + 1, stored.revision, j)
           /\ stream[i].revision = stream[j].revision
    BY <2>0 DEF CallsInv, Paired
  <2>2. \A m \in 1 .. Len(stream) : stream[m].revision <= stored.revision
    BY DEF Inv, RecordsInv
  <2>3. Best(stream, p, q, i)
    BY <1>1, <2>1, <2>2, BestAtHigher
  <2>4. p + 1 \in Nat
    OBVIOUS
  <2>5. Best(stream, p + 1, q, j)
    BY <1>1, <2>1, <2>2, <2>4, BestAtHigher
  <2> QED
    BY <2>1, <2>3, <2>5
<1> QED
  BY <1>3, <1>4, <1>5 DEF CallsInv

(* Calls stay whole along every behaviour. *)
LEMMA CallsHold == Spec => []CallsInv
<1>1. Init => CallsInv
  <2> SUFFICES ASSUME Init PROVE CallsInv
    OBVIOUS
  <2>1. stream = << >> /\ Len(stream) = 0 /\ stored.revision = 1 /\ stored.forkOffset = 0
    BY DEF Init
  <2>2. IsLength(0, stream, stored.revision, stored.forkOffset) /\ stream \in Seq(Record)
    BY <2>1 DEF IsLength
  <2>3. DurableLength = 0
    BY <2>1, <2>2, LengthIs DEF DurableLength
  <2> QED
    BY <2>1, <2>3 DEF CallsInv, WrittenOnce, OwnTail, Paired
<1>2. Inv /\ CallsInv /\ [Next]_vars => CallsInv'
  <2> SUFFICES ASSUME Inv, CallsInv, [Next]_vars PROVE CallsInv'
    OBVIOUS
  <2>0. /\ revision \in Nat /\ forkOffset \in Nat /\ stored \in Stored
        /\ stored.revision \in Nat /\ DurableLength \in Nat
    BY DEF Inv, TypeOK, Stored, IsLength
  <2>1. ASSUME NEW x \in Payloads, AppendRecord(x) PROVE CallsInv'
    BY <2>1, AppendCalls
  <2>2. ASSUME NEW k \in ForkOffsets, ForkAndLaunch(k) PROVE CallsInv'
    <3>1. /\ k \in 0 .. DurableLength /\ revision = stored.revision /\ stream' = stream
          /\ stored' = [revision |-> revision + 1, forkOffset |-> k]
      BY <2>2 DEF ForkAndLaunch, ForkJournal, ForkRecorded, CurrentState, ForkOffsets, Inv, MemoryInv
    <3>2. revision + 1 \in Nat /\ stored.revision < revision + 1
      BY <2>0, <3>1
    <3> QED
      BY <3>1, <3>2, ForkCalls
  <2>3. CASE RecordState
    <3>1. stored.revision < revision /\ forkOffset \in 0 .. DurableLength
      BY <2>3, <2>0 DEF RecordState, ForkRecorded, CurrentState, Inv, MemoryInv, Stored
    <3>2. stream' = stream /\ stored' = [revision |-> revision, forkOffset |-> forkOffset]
      BY <2>3 DEF RecordState, CurrentState
    <3> QED
      BY <2>0, <3>1, <3>2, ForkCalls
  <2>4. CASE UNCHANGED durable
    <3>1. stream' = stream /\ stored' = stored /\ DurableLength' = DurableLength
      BY <2>4 DEF durable, DurableLength
    <3> QED
      BY <3>1 DEF CallsInv, WrittenOnce, OwnTail, Paired
  <2> QED
    BY <2>1, <2>2, <2>3, <2>4 DEF Next, vars, durable, EndQuantum, Relaunch, ForkOnly,
       ForkJournal, Restart
<1> QED
  BY <1>1, <1>2, InvHolds, PTL DEF Spec

(* Every completed call of the current view is listed by entries, with the one
   outcome the guest was given: pairing by revision finds exactly its record. *)
THEOREM EntriesAlwaysShowView == Spec => []EntriesShowView
<1>1. Inv /\ CallsInv => EntriesShowView
  <2> SUFFICES ASSUME Inv, CallsInv, NEW p \in 0 .. length - 1, p % 2 = 0, p + 1 < length
               PROVE  [position |-> p, revision |-> Load(p).revision,
                       syscall  |-> Load(p).payload,
                       outcome  |-> {Load(p + 1).payload}] \in entries(history)
    BY DEF EntriesShowView
  <2>1. /\ stream \in Seq(Record) /\ stored.revision \in Nat /\ revision \in Nat
        /\ history = stream /\ length \in Nat /\ DurableLength \in Nat
        /\ length <= DurableLength /\ stored.revision <= revision
        /\ p \in Nat /\ p + 1 \in Nat
    BY DEF Inv, TypeOK, Stored, IsLength, MemoryInv
  <2>2. PICK i \in 1 .. Len(stream), j \in 1 .. Len(stream) :
           /\ Best(stream, p, stored.revision, i) /\ Best(stream, p + 1, stored.revision, j)
           /\ stream[i].revision = stream[j].revision
    BY <2>1 DEF CallsInv, Paired
  <2>3. \A m \in 1 .. Len(stream) : stream[m].revision <= stored.revision
    BY DEF Inv, RecordsInv
  <2>4. Best(stream, p, revision, i) /\ Best(stream, p + 1, revision, j)
    BY <2>1, <2>2, <2>3, BestAtHigher
  <2>5. /\ Load(p) = stream[i] /\ stream[i].position = p
        /\ Load(p + 1) = stream[j] /\ stream[j].position = p + 1
    BY <2>1, <2>4, getAtIs DEF Load
  <2>6. stream[i].kind = "intent"
    BY <2>5 DEF Inv, RecordsInv, KindAt
  <2> DEFINE Own == {m \in 1 .. Len(stream) :
                        stream[m].position = stream[i].position + 1
                        /\ stream[m].revision = stream[i].revision}
  <2>7. Own = {j}
    BY <2>2, <2>5 DEF CallsInv, WrittenOnce
  <2>8. {stream[m].payload : m \in Own} = {stream[j].payload}
    BY <2>7
  <2>9. [position |-> stream[i].position, revision |-> stream[i].revision,
         syscall  |-> stream[i].payload,
         outcome  |-> {stream[m].payload : m \in Own}] \in entries(stream)
    BY <2>6 DEF entries
  <2> QED
    BY <2>1, <2>5, <2>8, <2>9
<1> QED
  BY <1>1, InvHolds, CallsHold, PTL

-----------------------------------------------------------------------------
(* The abstract journal's records. *)
AbsRecord == [kind : Kinds, payload : Payloads]

(* The abstract journal is a sequence as long as the durable one, and its
   element at p + 1 is the best record at p. *)
JournalShown ==
    /\ DurableJournal \in Seq(AbsRecord)
    /\ Len(DurableJournal) = DurableLength
    /\ DurableLength \in Nat
    /\ \A p \in 0 .. DurableLength - 1, i \in 1 .. Len(stream) :
          Best(stream, p, stored.revision, i) =>
              DurableJournal[p + 1] = [kind |-> stream[i].kind, payload |-> stream[i].payload]

LEMMA DurableJournalIs == Inv => JournalShown
<1> SUFFICES ASSUME Inv PROVE JournalShown
  OBVIOUS
<1>1. DurableLength \in Nat /\ stream \in Seq(Record) /\ stored.revision \in Nat
  BY DEF Inv, IsLength, TypeOK, Stored
<1>2. ASSUME NEW p \in 0 .. DurableLength - 1, NEW i \in 1 .. Len(stream),
             Best(stream, p, stored.revision, i)
      PROVE  DurableJournal[p + 1] = [kind |-> stream[i].kind, payload |-> stream[i].payload]
  <2>1. p \in Nat /\ p + 1 \in 1 .. DurableLength /\ (p + 1) - 1 = p
    BY <1>1
  <2>2. DurableRecord(p) = stream[i]
    BY <2>1, <1>1, <1>2, getAtIs DEF DurableRecord
  <2> QED
    BY <2>1, <2>2 DEF DurableJournal
<1>3. ASSUME NEW n \in 1 .. DurableLength
      PROVE  [kind |-> DurableRecord(n - 1).kind, payload |-> DurableRecord(n - 1).payload] \in AbsRecord
  <2>1. n - 1 \in 0 .. DurableLength - 1 /\ n - 1 \in Nat
    BY <1>1
  <2>2. PICK i \in 1 .. Len(stream) : Best(stream, n - 1, stored.revision, i)
    BY <2>1 DEF Inv, Covered
  <2>3. DurableRecord(n - 1) = stream[i]
    BY <2>1, <2>2, <1>1, getAtIs DEF DurableRecord
  <2> QED
    BY <2>3, <1>1, RecordFields DEF AbsRecord
<1>4. DurableJournal \in [1 .. DurableLength -> AbsRecord]
  BY <1>3 DEF DurableJournal
<1>5. DurableJournal \in Seq(AbsRecord) /\ Len(DurableJournal) = DurableLength
  BY <1>1, <1>4
<1> QED
  BY <1>1, <1>2, <1>5 DEF JournalShown

LEMMA DurableJournalIsNext == Inv' => JournalShown'
  BY DurableJournalIs, PTL

(* An append extends the durable journal by the record written. *)
LEMMA AppendExtends ==
    ASSUME Inv, NEW x \in Payloads, AppendRecord(x)
    PROVE  DurableJournal' = Append(DurableJournal, [kind |-> KindAt(length), payload |-> x])
<1> DEFINE e == [kind |-> KindAt(length), payload |-> x]
           g == Append(DurableJournal, e)
           D == DurableLength
<1>1. /\ stream \in Seq(Record) /\ stored.revision \in Nat /\ length \in Nat /\ length = D
      /\ revision = stored.revision /\ stored' = stored
      /\ stream' = Append(stream, Stamped(x))
  BY DEF Inv, TypeOK, Stored, MemoryInv, AppendRecord
<1>2. /\ Stamped(x) \in Record /\ Stamped(x).position = length
      /\ Stamped(x).revision = stored.revision
      /\ Stamped(x).kind = KindAt(length) /\ Stamped(x).payload = x
  <2>1. KindAt(length) \in Kinds
    BY DEF KindAt, Kinds
  <2> QED
    BY <1>1, <2>1 DEF Stamped, Record
<1>3. Inv' /\ DurableLength' = D + 1
  BY AppendInv
<1>4. /\ DurableJournal \in Seq(AbsRecord) /\ Len(DurableJournal) = D /\ D \in Nat
      /\ DurableJournal' \in Seq(AbsRecord) /\ Len(DurableJournal') = D + 1
  BY <1>3, DurableJournalIs, DurableJournalIsNext DEF JournalShown
<1>5. e \in AbsRecord
  BY DEF AbsRecord, KindAt, Kinds
<1>6. /\ g \in Seq(AbsRecord) /\ Len(g) = D + 1 /\ g[D + 1] = e
      /\ \A n \in 1 .. D : g[n] = DurableJournal[n]
  BY <1>4, <1>5
<1> HIDE DEF g
<1>7. ASSUME NEW n \in 1 .. D + 1 PROVE DurableJournal'[n] = g[n]
  <2>1. CASE n = D + 1
    <3>0. /\ \A i \in 1 .. Len(stream) : stream[i].revision <= stored.revision
          /\ \A i \in 1 .. Len(stream) : stream[i].revision = stored.revision
                                            => stream[i].position # length
      BY <1>1, RecordFields DEF Inv, RecordsInv, IsLength
    <3>1. /\ Len(stream) + 1 \in 1 .. Len(stream')
          /\ Best(stream', length, stored.revision, Len(stream) + 1)
          /\ stream'[Len(stream) + 1] = Stamped(x)
      BY <3>0, <1>1, <1>2, BestNew
    <3>2. length \in 0 .. DurableLength' - 1
      BY <1>1, <1>3, <1>4
    <3>3. DurableJournal'[length + 1] = [kind |-> Stamped(x).kind, payload |-> Stamped(x).payload]
      BY <1>1, <1>3, <3>1, <3>2, DurableJournalIsNext DEF JournalShown
    <3> QED
      BY <2>1, <3>3, <1>1, <1>2, <1>6
  <2>2. CASE n # D + 1
    <3>1. n - 1 \in 0 .. D - 1 /\ n - 1 \in Nat /\ n - 1 # length
          /\ n - 1 \in 0 .. DurableLength' - 1 /\ n \in 1 .. D /\ (n - 1) + 1 = n
      BY <2>2, <1>1, <1>3, <1>4
    <3>2. PICK i \in 1 .. Len(stream) : Best(stream, n - 1, stored.revision, i)
      BY <3>1 DEF Inv, Covered
    <3>3. /\ i \in 1 .. Len(stream') /\ Best(stream', n - 1, stored.revision, i)
          /\ stream'[i] = stream[i]
      BY <3>1, <3>2, <1>1, <1>2, BestKept
    <3>4. DurableJournal[n] = [kind |-> stream[i].kind, payload |-> stream[i].payload]
      BY <3>1, <3>2, DurableJournalIs DEF JournalShown
    <3>5. DurableJournal'[n] = [kind |-> stream'[i].kind, payload |-> stream'[i].payload]
      BY <3>1, <3>3, <1>1, <1>3, DurableJournalIsNext DEF JournalShown
    <3> QED
      BY <3>1, <3>3, <3>4, <3>5, <1>6
  <2> QED
    BY <2>1, <2>2
<1>8. DurableJournal' = g
  BY <1>4, <1>6, <1>7, SeqEqual
<1> QED
  BY <1>8 DEF g

(* A recorded fork cuts the durable journal back to its offset. *)
LEMMA ForkCuts ==
    ASSUME Inv, Inv', NEW q \in Nat, stored.revision < q, NEW k \in 0 .. DurableLength,
           stream' = stream, stored' = [revision |-> q, forkOffset |-> k]
    PROVE  DurableJournal' = SubSeq(DurableJournal, 1, k)
<1> DEFINE g == SubSeq(DurableJournal, 1, k)
           D == DurableLength
<1>1. /\ DurableJournal \in Seq(AbsRecord) /\ Len(DurableJournal) = D /\ D \in Nat
      /\ DurableJournal' \in Seq(AbsRecord) /\ Len(DurableJournal') = k
      /\ stream \in Seq(Record) /\ stored.revision \in Nat /\ stored'.revision = q
      /\ DurableLength' = k
  BY RecordFork, DurableJournalIs, DurableJournalIsNext DEF JournalShown, Inv, TypeOK, Stored
<1>2. g \in Seq(AbsRecord) /\ Len(g) = k /\ \A n \in 1 .. k : g[n] = DurableJournal[n]
  BY <1>1
<1> HIDE DEF g
<1>3. ASSUME NEW n \in 1 .. k PROVE DurableJournal'[n] = g[n]
  <2>1. /\ n - 1 \in 0 .. D - 1 /\ n - 1 \in Nat /\ n - 1 \in 0 .. DurableLength' - 1
        /\ (n - 1) + 1 = n
    BY <1>1
  <2>2. PICK i \in 1 .. Len(stream) : Best(stream, n - 1, stored.revision, i)
    BY <2>1 DEF Inv, Covered
  <2>3. \A j \in 1 .. Len(stream) : stream[j].revision <= stored.revision
    BY DEF Inv, RecordsInv
  <2>4. Best(stream, n - 1, q, i)
    <3>1. stored.revision <= q
      BY <1>1
    <3> QED
      BY <1>1, <2>1, <2>2, <2>3, <3>1, BestAtHigher
  <2>5. DurableJournal[n] = [kind |-> stream[i].kind, payload |-> stream[i].payload]
    BY <2>1, <2>2, DurableJournalIs DEF JournalShown
  <2>6. DurableJournal'[n] = [kind |-> stream[i].kind, payload |-> stream[i].payload]
    <3>1. \A p \in 0 .. DurableLength' - 1, j \in 1 .. Len(stream') :
             Best(stream', p, stored'.revision, j) =>
                 DurableJournal'[p + 1] = [kind |-> stream'[j].kind, payload |-> stream'[j].payload]
      BY DurableJournalIsNext DEF JournalShown
    <3>2. Best(stream', n - 1, stored'.revision, i) /\ i \in 1 .. Len(stream')
      BY <1>1, <2>4
    <3>3. DurableJournal'[(n - 1) + 1] = [kind |-> stream'[i].kind, payload |-> stream'[i].payload]
      BY <2>1, <3>1, <3>2
    <3> QED
      BY <2>1, <3>3
  <2> QED
    BY <2>5, <2>6, <1>2
<1>4. DurableJournal' = g
  BY <1>1, <1>2, <1>3, SeqEqual
<1> QED
  BY <1>4 DEF g

(* The store implements the abstract journal: an append opens or closes a call,
   a recorded fork cuts back to whole calls, and a crash with its restore, an
   unrecorded fork, a relaunch change nothing that survives. *)
THEOREM StoreImplementsProtocol == Spec => StoreKeepsProtocol
<1>1. Init => Protocol!Init
  <2> SUFFICES ASSUME Init PROVE DurableJournal = << >>
    BY DEF Protocol!Init
  <2>1. Inv
    BY InitInv
  <2>2. IsLength(0, stream, stored.revision, stored.forkOffset) /\ stored.revision \in Nat
        /\ stored.forkOffset \in Nat /\ stream \in Seq(Record)
    BY <2>1 DEF Init, IsLength, Inv, TypeOK, Stored
  <2>3. DurableLength = 0
    BY <2>2, LengthIs DEF DurableLength
  <2>4. DurableJournal \in Seq(AbsRecord) /\ Len(DurableJournal) = 0
    BY <2>1, <2>3, DurableJournalIs DEF JournalShown
  <2> QED
    BY <2>4
<1>2. Inv /\ Inv' /\ [Next]_vars => [Protocol!Next]_DurableJournal
  <2> SUFFICES ASSUME Inv, Inv', [Next]_vars
               PROVE  Protocol!Next \/ DurableJournal' = DurableJournal
    OBVIOUS
  <2> USE DEF Protocol!Even
  <2>0. /\ Len(DurableJournal) = DurableLength /\ DurableLength \in Nat /\ length \in Nat
        /\ stored.revision \in Nat /\ revision \in Nat
        /\ DurableJournal \in Seq(AbsRecord)
    BY DurableJournalIs DEF JournalShown, Inv, TypeOK, Stored
  <2>1. ASSUME NEW x \in Payloads, AppendRecord(x) PROVE Protocol!Next
    <3> DEFINE e == [kind |-> KindAt(length), payload |-> x]
    <3>1. DurableJournal' = Append(DurableJournal, e) /\ length = Len(DurableJournal)
      BY <2>0, <2>1, AppendExtends DEF AppendRecord, Inv, MemoryInv
    <3>2. CASE length % 2 = 0
      <4>1. e \in [kind : {"intent"}, payload : Payloads]
        BY <3>2 DEF KindAt
      <4> QED
        BY <3>1, <3>2, <4>1 DEF Protocol!Next, Protocol!Open
    <3>3. CASE length % 2 # 0
      <4>1. e \in [kind : {"completion"}, payload : Payloads]
        BY <3>3 DEF KindAt
      <4> QED
        BY <3>1, <3>3, <4>1 DEF Protocol!Next, Protocol!Close
    <3> QED
      BY <3>2, <3>3
  <2>2. ASSUME NEW k \in ForkOffsets, ForkAndLaunch(k) PROVE Protocol!Next
    <3>1. /\ k \in 0 .. DurableLength /\ k % 2 = 0 /\ revision = stored.revision
          /\ stream' = stream /\ stored' = [revision |-> revision + 1, forkOffset |-> k]
      BY <2>2 DEF ForkAndLaunch, ForkJournal, ForkRecorded, CurrentState, ForkOffsets, Inv, MemoryInv
    <3>2. revision + 1 \in Nat /\ stored.revision < revision + 1
      BY <2>0, <3>1
    <3>3. DurableJournal' = SubSeq(DurableJournal, 1, k)
      BY <3>1, <3>2, ForkCuts
    <3> QED
      BY <2>0, <3>1, <3>3 DEF Protocol!Next, Protocol!Cut
  <2>3. CASE RecordState
    <3>1. /\ stored.revision < revision /\ forkOffset \in 0 .. DurableLength
          /\ forkOffset % 2 = 0
      BY <2>3, <2>0 DEF RecordState, ForkRecorded, CurrentState, Inv, MemoryInv, TypeOK, Stored
    <3>2. stream' = stream /\ stored' = [revision |-> revision, forkOffset |-> forkOffset]
      BY <2>3 DEF RecordState, CurrentState
    <3>3. DurableJournal' = SubSeq(DurableJournal, 1, forkOffset)
      BY <2>0, <3>1, <3>2, ForkCuts
    <3> QED
      BY <2>0, <3>1, <3>3 DEF Protocol!Next, Protocol!Cut
  <2>4. CASE UNCHANGED durable
    BY <2>4 DEF durable, DurableJournal, DurableLength, DurableRecord
  <2> QED
    BY <2>1, <2>2, <2>3, <2>4 DEF Next, vars, durable, EndQuantum, Relaunch, ForkOnly,
       ForkJournal, Restart
<1> QED
  BY <1>1, <1>2, InvHolds, PTL DEF Spec, StoreKeepsProtocol, Protocol!Spec
=============================================================================
