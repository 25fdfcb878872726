--------------------------- MODULE SessionsProofs ---------------------------
(***************************************************************************)
(* What Sessions.tla promises, for any number of sessions, names, programs *)
(* and boots.                                                              *)
(*                                                                         *)
(* The names need two facts beside HandlesUnique: the log agrees with      *)
(* memory while there is one (the check for a free name reads memory, the  *)
(* next boot reads the log), and a recorded name has no space around it,   *)
(* so that names that read the same are equal.  BoundForLife needs that    *)
(* the digest travels unchanged through memory and log, and that a process *)
(* in memory is one the log has, or a new process could take its place.    *)
(***************************************************************************)
EXTENDS Sessions, TLAPS

Trimmed == \A s \in SessionIds : disk[s].name # Absent => disk[s].name.padded = FALSE

DigestKept ==
    \A s \in SessionIds :
        /\ process[s] # Absent => origin[s] \in Versions /\ process[s].digest = Digest(origin[s])
        /\ disk[s].process # Absent
               => origin[s] \in Versions /\ disk[s].process.digest = Digest(origin[s])

SameProcesses ==
    /\ boot = "down" => \A s \in SessionIds : /\ sessions[s] = Absent
                                               /\ process[s] = Absent
    /\ boot # "down" => \A s \in SessionIds : process[s] = Absent <=> disk[s].process = Absent
    /\ \A s \in SessionIds : flight[s] # "none" => boot # "down" /\ process[s] # Absent
    /\ \A s \in SessionIds : disk[s].process = Absent => ranUnder[s] = {}

LogHandlesUnique ==
    \A s, t \in SessionIds :
        (s # t /\ Recorded(s) /\ Recorded(t) /\ disk[s].name.text # Blank)
            => disk[s].name.text # disk[t].name.text

NamesInv == Trimmed /\ LogHandlesUnique /\ NameSurvives
ProcsInv == SameProcesses /\ DigestKept /\ StreamHasSession /\ BoundForLife
Inv      == TypeOK /\ NamesInv /\ ProcsInv

-----------------------------------------------------------------------------
(* What the operators give. *)

LEMMA DigestDetermines ==
    ASSUME NEW v \in Versions, NEW w \in Versions, Digest(v) = Digest(w)
    PROVE  v = w
BY DEF Digest, Versions

LEMMA LoadedTyped ==
    ASSUME TypeOK, NEW data \in Loaded
    PROVE  data.id \in ProgramIds /\ data.version \in Versions /\ Digest(data.version) \in Nat \X Nat
<1>1. PICK i \in DOMAIN registry : data = registry[i]
  BY DEF Loaded
<1>2. registry # << >>
  BY <1>1
<1>3. registry \in Configs
  BY <1>2 DEF TypeOK
<1>4. data.id \in ProgramIds /\ data.version \in Versions
  BY <1>1, <1>3, ConfigsAssumption
<1> QED BY <1>4 DEF Versions, Digest

(* bound gives a process only the version it was created from. *)
LEMMA BoundIsOrigin ==
    ASSUME TypeOK, DigestKept, NEW s \in SessionIds, process[s] # Absent
    PROVE  {data.version : data \in bound(process[s].program, process[s].digest)} \subseteq {origin[s]}
<1> SUFFICES ASSUME NEW data \in bound(process[s].program, process[s].digest)
             PROVE  data.version = origin[s]
  OBVIOUS
<1>1. data \in Loaded /\ Digest(data.version) = process[s].digest
  BY DEF bound
<1>2. origin[s] \in Versions /\ process[s].digest = Digest(origin[s])
  BY DEF DigestKept
<1> QED BY <1>1, <1>2, LoadedTyped, DigestDetermines

LEMMA TrimTyped ==
    ASSUME NEW given \in Spellings
    PROVE  TrimSpace(given) \in Spellings /\ TrimSpace(given).padded = FALSE /\ TrimSpace(given) # Absent
BY AbsentAssumption DEF TrimSpace, Spellings

LEMMA StatusTyped ==
    ASSUME NEW p \in Processes, NEW status \in Live \cup Outcomes
    PROVE  /\ [p EXCEPT !.status = status] \in Processes
           /\ [p EXCEPT !.status = status] # Absent
           /\ [p EXCEPT !.status = status].digest = p.digest
BY AbsentAssumption DEF Processes

-----------------------------------------------------------------------------
LEMMA InitInv == Init => Inv
BY DEF Init, Inv, TypeOK, NamesInv, ProcsInv, Trimmed, LogHandlesUnique, NameSurvives,
       SameProcesses, DigestKept, StreamHasSession, BoundForLife, EmptyStream, Recorded, Versions

-----------------------------------------------------------------------------
(* The steps that name a session, and those that record a process. *)

LEMMA AppendSessionTyped ==
    ASSUME TypeOK, NEW s \in SessionIds, NEW name \in Spellings, NEW logged \in BOOLEAN,
           AppendSession(s, name, logged)
    PROVE  /\ disk' \in [SessionIds -> [name : Spellings \cup {Absent}, process : Processes \cup {Absent}]]
           /\ \A t \in SessionIds : /\ disk'[t].process = disk[t].process
                                    /\ disk'[t].name = IF t = s /\ logged THEN name ELSE disk[t].name
<1>1. CASE logged
  <2>1. disk' = [disk EXCEPT ![s].name = name]
    BY <1>1 DEF AppendSession
  <2> QED BY <2>1, <1>1 DEF TypeOK
<1>2. CASE ~logged
  BY <1>2 DEF AppendSession, TypeOK
<1> QED BY <1>1, <1>2

LEMMA AppendProcessTyped ==
    ASSUME TypeOK, NEW s \in SessionIds, NEW state \in Processes, NEW logged \in BOOLEAN,
           AppendProcess(s, state, logged)
    PROVE  /\ disk' \in [SessionIds -> [name : Spellings \cup {Absent}, process : Processes \cup {Absent}]]
           /\ \A t \in SessionIds : /\ disk'[t].name = disk[t].name
                                    /\ disk'[t].process = IF t = s /\ logged THEN state ELSE disk[t].process
<1>1. CASE logged
  <2>1. disk' = [disk EXCEPT ![s].process = state]
    BY <1>1 DEF AppendProcess
  <2> QED BY <2>1, <1>1 DEF TypeOK
<1>2. CASE ~logged
  BY <1>2 DEF AppendProcess, TypeOK
<1> QED BY <1>1, <1>2

(* A name that is free in memory is free in the log. *)
LEMMA NamingKeepsNames ==
    ASSUME Inv, NEW s \in SessionIds, NEW given \in Spellings, NEW logged \in BOOLEAN, NEW except,
           boot = "up", boot' = boot,
           except = s \/ except = Absent,
           NameFree(TrimSpace(given), except),
           except = Absent => sessions[s] = Absent,
           AppendSession(s, TrimSpace(given), logged),
           sessions' = IF logged THEN [sessions EXCEPT ![s] = TrimSpace(given)] ELSE sessions
    PROVE  NamesInv' /\ sessions' \in [SessionIds -> Spellings \cup {Absent}]
<1> DEFINE name == TrimSpace(given)
<1>1. name \in Spellings /\ name.padded = FALSE /\ name # Absent
  BY TrimTyped
<1>2. \A t \in SessionIds : disk'[t].name = IF t = s /\ logged THEN name ELSE disk[t].name
  BY <1>1, AppendSessionTyped DEF Inv
<1>3. \A t \in SessionIds : sessions'[t] = IF t = s /\ logged THEN name ELSE sessions[t]
  BY DEF Inv, TypeOK
<1>4. \A t \in SessionIds : sessions[t] = disk[t].name
  BY DEF Inv, NamesInv, NameSurvives
<1>5. Trimmed'
  BY <1>1, <1>2 DEF Inv, NamesInv, Trimmed
<1>6. NameSurvives'
  BY <1>2, <1>3, <1>4 DEF NameSurvives
<1>7. ASSUME NEW t \in SessionIds, t # s, Recorded(t), name.text # Blank
      PROVE  disk[t].name.text # name.text
  <2>1. t # except
    <3>1. CASE except = s
      BY <3>1, <1>7
    <3>2. CASE except = Absent
      BY <3>2, AbsentAssumption
    <3> QED BY <3>1, <3>2
  <2>2. sessions[t] # name
    BY <2>1, <1>7 DEF NameFree
  <2>3. disk[t].name \in Spellings /\ disk[t].name.padded = FALSE
    BY <1>7 DEF Inv, TypeOK, NamesInv, Trimmed, Recorded
  <2> QED BY <2>2, <2>3, <1>1, <1>4 DEF Spellings
<1>8. LogHandlesUnique'
  <2> SUFFICES ASSUME NEW t \in SessionIds, NEW u \in SessionIds, t # u,
                      disk'[t].name # Absent, disk'[u].name # Absent, disk'[t].name.text # Blank
               PROVE  disk'[t].name.text # disk'[u].name.text
    BY DEF LogHandlesUnique, Recorded
  <2>1. CASE t = s /\ logged
    BY <2>1, <1>2, <1>7 DEF Recorded
  <2>2. CASE u = s /\ logged
    BY <2>2, <1>2, <1>7 DEF Recorded
  <2>3. CASE ~logged \/ (t # s /\ u # s)
    BY <2>3, <1>2 DEF Inv, NamesInv, LogHandlesUnique, Recorded
  <2> QED BY <2>1, <2>2, <2>3
<1> QED BY <1>1, <1>5, <1>6, <1>8 DEF NamesInv, Inv, TypeOK

-----------------------------------------------------------------------------
(* A step of the session's process: what it appends and keeps in memory. *)
LEMMA ProcessStepKeepsNames ==
    ASSUME Inv, NEW s \in SessionIds, NEW state \in Processes, NEW logged \in BOOLEAN,
           AppendProcess(s, state, logged),
           boot' = boot, sessions' = sessions
    PROVE  NamesInv'
<1>1. \A t \in SessionIds : disk'[t].name = disk[t].name
  BY AppendProcessTyped DEF Inv
<1> QED BY <1>1 DEF Inv, NamesInv, Trimmed, LogHandlesUnique, NameSurvives, Recorded

(* A process that is there moves on to another status. *)
LEMMA StatusStepKeepsInv ==
    ASSUME Inv, NEW s \in SessionIds, NEW status \in Live \cup Outcomes, NEW logged \in BOOLEAN,
           NEW goroutine \in {"none", "launched", "running"},
           boot # "down", process[s] # Absent,
           AppendProcess(s, [process[s] EXCEPT !.status = status], logged),
           process' = [process EXCEPT ![s] = [process[s] EXCEPT !.status = status]],
           flight' = [flight EXCEPT ![s] = goroutine],
           ranUnder' = ranUnder
               \/ ranUnder' = [ranUnder EXCEPT ![s] =
                     @ \cup {data.version : data \in bound(process[s].program, process[s].digest)}],
           UNCHANGED <<boot, registry, sessions, origin>>
    PROVE  Inv'
<1> DEFINE state == [process[s] EXCEPT !.status = status]
<1>1. process[s] \in Processes
  BY DEF Inv, TypeOK
<1>2. state \in Processes /\ state # Absent /\ state.digest = process[s].digest
  BY <1>1, StatusTyped
<1> HIDE DEF state
<1>3. /\ disk' \in [SessionIds -> [name : Spellings \cup {Absent}, process : Processes \cup {Absent}]]
      /\ \A t \in SessionIds : /\ disk'[t].name = disk[t].name
                               /\ disk'[t].process = IF t = s /\ logged THEN state ELSE disk[t].process
  BY <1>2, AppendProcessTyped DEF Inv, state
<1>4. process' = [process EXCEPT ![s] = state]
  BY DEF state
<1>5. origin[s] \in Versions /\ state.digest = Digest(origin[s])
  BY <1>2 DEF Inv, ProcsInv, DigestKept
<1>6. /\ ranUnder' \in [SessionIds -> SUBSET Versions]
      /\ \A t \in SessionIds : t # s => ranUnder'[t] = ranUnder[t]
      /\ ranUnder'[s] \subseteq {origin[s]}
  <2>1. {data.version : data \in bound(process[s].program, process[s].digest)} \subseteq {origin[s]}
    BY BoundIsOrigin DEF Inv, ProcsInv
  <2>2. ranUnder[s] \subseteq {origin[s]}
    BY DEF Inv, ProcsInv, BoundForLife
  <2>3. \E versions \in SUBSET {origin[s]} : ranUnder' = [ranUnder EXCEPT ![s] = versions]
    BY <2>1, <2>2 DEF Inv, TypeOK
  <2> QED BY <2>3, <1>5 DEF Inv, TypeOK
<1>7. TypeOK'
  <2>1. process' \in [SessionIds -> Processes \cup {Absent}]
    BY <1>2, <1>4 DEF Inv, TypeOK
  <2>2. flight' \in [SessionIds -> {"none", "launched", "running"}]
    BY DEF Inv, TypeOK
  <2>3. boot' = boot /\ registry' = registry /\ sessions' = sessions /\ origin' = origin
    OBVIOUS
  <2> QED BY <1>3, <1>6, <2>1, <2>2, <2>3 DEF Inv, TypeOK
<1>8. NamesInv'
  BY <1>2, ProcessStepKeepsNames DEF state
<1>9. disk[s].process # Absent
  BY DEF Inv, ProcsInv, SameProcesses
<1>10. SameProcesses'
  BY <1>2, <1>3, <1>4, <1>6, <1>9 DEF Inv, ProcsInv, SameProcesses, TypeOK
<1>11. DigestKept'
  BY <1>2, <1>3, <1>4, <1>5 DEF Inv, ProcsInv, DigestKept, TypeOK
<1>12. StreamHasSession'
  BY <1>3, <1>9 DEF Inv, ProcsInv, StreamHasSession, Recorded
<1>13. BoundForLife'
  BY <1>6 DEF Inv, ProcsInv, BoundForLife
<1> QED BY <1>7, <1>8, <1>10, <1>11, <1>12, <1>13 DEF Inv, ProcsInv

-----------------------------------------------------------------------------
LEMMA CreateSessionKeepsInv ==
    ASSUME Inv, NEW s \in SessionIds, NEW given \in Spellings,
           CreateSession(s, given) \/ RenameSession(s, given)
    PROVE  Inv'
<1>0. PICK except \in {s, Absent} : /\ NameFree(TrimSpace(given), except)
                                    /\ except = Absent => sessions[s] = Absent
  BY AbsentAssumption DEF CreateSession, RenameSession
<1>1. PICK logged \in BOOLEAN :
          /\ boot = "up"
          /\ AppendSession(s, TrimSpace(given), logged)
          /\ sessions' = IF logged THEN [sessions EXCEPT ![s] = TrimSpace(given)] ELSE sessions
          /\ UNCHANGED <<boot, registry, process, flight, origin, ranUnder>>
  BY DEF CreateSession, RenameSession
<1>2. NamesInv' /\ sessions' \in [SessionIds -> Spellings \cup {Absent}]
  BY <1>0, <1>1, NamingKeepsNames
<1>3. TrimSpace(given) \in Spellings /\ TrimSpace(given) # Absent
  BY TrimTyped
<1>4. /\ disk' \in [SessionIds -> [name : Spellings \cup {Absent}, process : Processes \cup {Absent}]]
      /\ \A t \in SessionIds : /\ disk'[t].process = disk[t].process
                               /\ disk'[t].name = IF t = s /\ logged THEN TrimSpace(given) ELSE disk[t].name
  BY <1>1, <1>3, AppendSessionTyped DEF Inv
<1>5. TypeOK'
  BY <1>1, <1>2, <1>4 DEF Inv, TypeOK
<1>6. SameProcesses' /\ DigestKept' /\ BoundForLife'
  BY <1>1, <1>4 DEF Inv, ProcsInv, SameProcesses, DigestKept, BoundForLife
<1>7. StreamHasSession'
  BY <1>3, <1>4 DEF Inv, ProcsInv, StreamHasSession, Recorded
<1> QED BY <1>2, <1>5, <1>6, <1>7 DEF Inv, ProcsInv

LEMMA CreateProcessKeepsInv ==
    ASSUME Inv, NEW s \in SessionIds, NEW data \in Loaded, CreateProcess(s, data)
    PROVE  Inv'
<1> DEFINE state == [program |-> data.id, digest |-> Digest(data.version), status |-> "queued"]
<1>1. PICK logged \in BOOLEAN :
          /\ AppendProcess(s, state, logged)
          /\ process' = IF logged THEN [process EXCEPT ![s] = state] ELSE process
          /\ flight' = IF logged THEN [flight EXCEPT ![s] = "launched"] ELSE flight
          /\ origin' = IF logged THEN [origin EXCEPT ![s] = data.version] ELSE origin
  BY DEF CreateProcess
<1>2. /\ boot = "up" /\ sessions[s] # Absent /\ process[s] = Absent
      /\ UNCHANGED <<boot, registry, sessions, ranUnder>>
  BY DEF CreateProcess
<1>3. data.version \in Versions /\ state \in Processes /\ state # Absent
      /\ state.digest = Digest(data.version)
  BY LoadedTyped, AbsentAssumption DEF Inv, Processes, Live
<1> HIDE DEF state
<1>4. /\ disk' \in [SessionIds -> [name : Spellings \cup {Absent}, process : Processes \cup {Absent}]]
      /\ \A t \in SessionIds : /\ disk'[t].name = disk[t].name
                               /\ disk'[t].process = IF t = s /\ logged THEN state ELSE disk[t].process
  BY <1>1, <1>3, AppendProcessTyped DEF Inv
<1>5. NamesInv'
  BY <1>1, <1>2, <1>3, ProcessStepKeepsNames
<1>6. TypeOK'
  BY <1>1, <1>2, <1>3, <1>4 DEF Inv, TypeOK
<1>7. disk[s].name # Absent /\ disk[s].process = Absent /\ ranUnder[s] = {}
  BY <1>2 DEF Inv, NamesInv, NameSurvives, ProcsInv, SameProcesses
<1>8. SameProcesses'
  BY <1>1, <1>2, <1>3, <1>4, <1>7 DEF Inv, ProcsInv, SameProcesses, TypeOK
<1>9. DigestKept'
  BY <1>1, <1>2, <1>3, <1>4, <1>7 DEF Inv, ProcsInv, DigestKept, TypeOK
<1>10. StreamHasSession'
  BY <1>4, <1>7 DEF Inv, ProcsInv, StreamHasSession, Recorded
<1>11. BoundForLife'
  BY <1>1, <1>2, <1>7 DEF Inv, ProcsInv, BoundForLife, TypeOK
<1> QED BY <1>5, <1>6, <1>8, <1>9, <1>10, <1>11 DEF Inv, ProcsInv

LEMMA NewRuntimeKeepsInv ==
    ASSUME Inv, NEW config \in Configs, NewRuntime(config)
    PROVE  Inv'
<1>1. PICK logged \in SUBSET MidFlight :
          /\ disk' = [s \in SessionIds |-> IF s \in logged THEN [disk[s] EXCEPT !.process = Restored(s)]
                                                           ELSE disk[s]]
          /\ \/ /\ boot' = "up"
                /\ registry' = config
                /\ sessions' = [s \in SessionIds |-> disk[s].name]
                /\ process' = [s \in SessionIds |-> Restored(s)]
             \/ UNCHANGED <<boot, registry, sessions, process>>
  BY DEF NewRuntime
<1>2. boot = "down" /\ UNCHANGED <<flight, origin, ranUnder>>
  BY DEF NewRuntime
<1>3. ASSUME NEW s \in SessionIds
      PROVE  /\ Restored(s) \in Processes \cup {Absent}
             /\ Restored(s) = Absent <=> disk[s].process = Absent
             /\ Restored(s) # Absent => Restored(s).digest = disk[s].process.digest
  <2>1. disk[s].process \in Processes \cup {Absent}
    BY DEF Inv, TypeOK
  <2>2. CASE s \in MidFlight
    <3>1. disk[s].process \in Processes
      BY <2>1, <2>2 DEF MidFlight
    <3>2. "interrupted" \in Live \cup Outcomes
      BY DEF Outcomes
    <3> QED BY <2>2, <3>1, <3>2, StatusTyped, AbsentAssumption DEF Restored
  <2>3. CASE s \notin MidFlight
    BY <2>1, <2>3 DEF Restored
  <2> QED BY <2>2, <2>3
<1>4. /\ disk' \in [SessionIds -> [name : Spellings \cup {Absent}, process : Processes \cup {Absent}]]
      /\ \A s \in SessionIds : /\ disk'[s].name = disk[s].name
                               /\ disk'[s].process \in {Restored(s), disk[s].process}
  <2>1. ASSUME NEW s \in SessionIds
        PROVE  /\ disk'[s] \in [name : Spellings \cup {Absent}, process : Processes \cup {Absent}]
               /\ disk'[s].name = disk[s].name
               /\ disk'[s].process \in {Restored(s), disk[s].process}
    <3>1. disk[s] \in [name : Spellings \cup {Absent}, process : Processes \cup {Absent}]
      BY DEF Inv, TypeOK
    <3>2. disk'[s] = IF s \in logged THEN [disk[s] EXCEPT !.process = Restored(s)] ELSE disk[s]
      BY <1>1
    <3> QED BY <3>1, <3>2, <1>3
  <2> QED BY <2>1, <1>1
<1>5. TypeOK'
  BY <1>1, <1>2, <1>3, <1>4 DEF Inv, TypeOK
<1>6. NamesInv'
  BY <1>1, <1>2, <1>4 DEF Inv, NamesInv, Trimmed, LogHandlesUnique, NameSurvives, Recorded
<1>7. SameProcesses'
  BY <1>1, <1>2, <1>3, <1>4 DEF Inv, ProcsInv, SameProcesses
<1>8. DigestKept'
  BY <1>1, <1>2, <1>3, <1>4 DEF Inv, ProcsInv, DigestKept
<1>9. StreamHasSession' /\ BoundForLife'
  BY <1>2, <1>3, <1>4 DEF Inv, ProcsInv, StreamHasSession, BoundForLife, Recorded
<1> QED BY <1>5, <1>6, <1>7, <1>8, <1>9 DEF Inv, ProcsInv

LEMMA NextInv == Inv /\ [Next]_vars => Inv'
<1> SUFFICES ASSUME Inv, [Next]_vars PROVE Inv'
  OBVIOUS
<1>1. ASSUME NEW s \in SessionIds, NEW given \in Spellings,
             CreateSession(s, given) \/ RenameSession(s, given)
      PROVE  Inv'
  BY <1>1, CreateSessionKeepsInv
<1>2. ASSUME NEW s \in SessionIds, NEW data \in Loaded, CreateProcess(s, data)
      PROVE  Inv'
  BY <1>2, CreateProcessKeepsInv
<1>3. ASSUME NEW s \in SessionIds, Retry(s)
      PROVE  Inv'
  <2>1. PICK logged \in BOOLEAN :
            /\ AppendProcess(s, [process[s] EXCEPT !.status = "queued"], logged)
            /\ process' = [process EXCEPT ![s] = [process[s] EXCEPT !.status = "queued"]]
            /\ flight' = IF logged THEN [flight EXCEPT ![s] = "launched"] ELSE flight
    BY <1>3 DEF Retry
  <2>2. boot = "up" /\ process[s] # Absent /\ UNCHANGED <<boot, registry, sessions, origin, ranUnder>>
    BY <1>3 DEF Retry
  <2>3. PICK goroutine \in {"none", "launched", "running"} : flight' = [flight EXCEPT ![s] = goroutine]
    <3>1. flight = [flight EXCEPT ![s] = flight[s]] /\ flight[s] \in {"none", "launched", "running"}
      BY DEF Inv, TypeOK
    <3> QED BY <2>1, <3>1
  <2>4. "queued" \in Live \cup Outcomes
    BY DEF Live
  <2> QED BY <2>1, <2>2, <2>3, <2>4, StatusStepKeepsInv
<1>4. ASSUME NEW s \in SessionIds, Relaunch(s)
      PROVE  Inv'
  <2>1. PICK logged \in BOOLEAN :
            /\ AppendProcess(s, [process[s] EXCEPT !.status = "queued"], logged)
            /\ process' = [process EXCEPT ![s] = [process[s] EXCEPT !.status = "queued"]]
            /\ flight' = [flight EXCEPT ![s] = IF logged THEN "launched" ELSE "none"]
    BY <1>4 DEF Relaunch
  <2>2. boot = "up" /\ flight[s] = "running" /\ UNCHANGED <<boot, registry, sessions, origin, ranUnder>>
    BY <1>4 DEF Relaunch
  <2>3. process[s] # Absent
    BY <2>2 DEF Inv, ProcsInv, SameProcesses
  <2>4. "queued" \in Live \cup Outcomes
    BY DEF Live
  <2> QED BY <2>1, <2>2, <2>3, <2>4, StatusStepKeepsInv
<1>5. ASSUME NEW s \in SessionIds, RunQuantum(s)
      PROVE  Inv'
  <2>1. PICK logged \in BOOLEAN :
            /\ AppendProcess(s, [process[s] EXCEPT !.status = "running"], logged)
            /\ process' = [process EXCEPT ![s] = [process[s] EXCEPT !.status = "running"]]
    BY <1>5 DEF RunQuantum
  <2>2. /\ flight[s] = "launched" /\ flight' = [flight EXCEPT ![s] = "running"]
        /\ UNCHANGED <<boot, registry, sessions, origin>>
        /\ ranUnder' = [ranUnder EXCEPT ![s] =
              @ \cup {data.version : data \in bound(process[s].program, process[s].digest)}]
    BY <1>5 DEF RunQuantum
  <2>3. boot # "down" /\ process[s] # Absent
    BY <2>2 DEF Inv, ProcsInv, SameProcesses
  <2>4. "running" \in Live \cup Outcomes
    BY DEF Live
  <2> QED BY <2>1, <2>2, <2>3, <2>4, StatusStepKeepsInv
<1>6. ASSUME NEW s \in SessionIds, NEW status \in Outcomes, Finish(s, status)
      PROVE  Inv'
  <2>1. PICK logged \in BOOLEAN :
            /\ AppendProcess(s, [process[s] EXCEPT !.status = status], logged)
            /\ process' = [process EXCEPT ![s] = [process[s] EXCEPT !.status = status]]
    BY <1>6 DEF Finish
  <2>2. /\ flight' = [flight EXCEPT ![s] = "none"]
        /\ UNCHANGED <<boot, registry, sessions, origin, ranUnder>>
    BY <1>6 DEF Finish
  <2>3. boot # "down" /\ process[s] # Absent
    BY <1>6 DEF Inv, ProcsInv, SameProcesses, Finish
  <2> QED BY <2>1, <2>2, <2>3, StatusStepKeepsInv
<1>7. ASSUME NEW config \in Configs, NewRuntime(config)
      PROVE  Inv'
  BY <1>7, NewRuntimeKeepsInv
<1>8. CASE Close
  BY <1>8 DEF Close, Inv, TypeOK, NamesInv, ProcsInv, Trimmed, LogHandlesUnique, NameSurvives, Recorded,
              SameProcesses, DigestKept, StreamHasSession, BoundForLife
<1>9. CASE Crash
  BY <1>9 DEF Crash, Inv, TypeOK, NamesInv, ProcsInv, Trimmed, LogHandlesUnique, NameSurvives, Recorded,
              SameProcesses, DigestKept, StreamHasSession, BoundForLife
<1>10. CASE UNCHANGED vars
  BY <1>10 DEF vars, Inv, TypeOK, NamesInv, ProcsInv, Trimmed, LogHandlesUnique, NameSurvives, Recorded,
               SameProcesses, DigestKept, StreamHasSession, BoundForLife
<1> QED BY <1>1, <1>2, <1>3, <1>4, <1>5, <1>6, <1>7, <1>8, <1>9, <1>10 DEF Next

LEMMA InvImplies == Inv => HandlesUnique
<1> SUFFICES ASSUME Inv PROVE HandlesUnique
  OBVIOUS
<1>1. \A s \in SessionIds : sessions[s] = Absent \/ sessions[s] = disk[s].name
  BY DEF Inv, NamesInv, NameSurvives, ProcsInv, SameProcesses
<1> QED BY <1>1 DEF Inv, NamesInv, LogHandlesUnique, HandlesUnique, Recorded

-----------------------------------------------------------------------------
(* The state of sessions, processes and log stays well typed. *)
THEOREM TypeCorrect == Spec => []TypeOK
<1>1. Inv => TypeOK
  BY DEF Inv
<1> QED BY <1>1, InitInv, NextInv, PTL DEF Spec

(* checkSessionNameFreeLocked makes a name a unique handle, in memory and in the
   log, over failed appends, renames and boots. *)
THEOREM HandlesAlwaysUnique == Spec => []HandlesUnique
BY InvImplies, InitInv, NextInv, PTL DEF Spec

(* A session's name in memory is the one its stream restores: CreateSession and
   RenameSession record first. *)
THEOREM NamesAlwaysSurvive == Spec => []NameSurvives
<1>1. Inv => NameSurvives
  BY DEF Inv, NamesInv
<1> QED BY <1>1, InitInv, NextInv, PTL DEF Spec

(* No stream records a process before its session. *)
THEOREM StreamsHaveSession == Spec => []StreamHasSession
<1>1. Inv => StreamHasSession
  BY DEF Inv, ProcsInv
<1> QED BY <1>1, InitInv, NextInv, PTL DEF Spec

(* Whatever programs the boots are given, only the program a process was created
   from ever runs it. *)
THEOREM AlwaysBoundForLife == Spec => []BoundForLife
<1>1. Inv => BoundForLife
  BY DEF Inv, ProcsInv
<1> QED BY <1>1, InitInv, NextInv, PTL DEF Spec
=============================================================================
