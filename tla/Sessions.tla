------------------------------ MODULE Sessions ------------------------------
(***************************************************************************)
(* Sessions and programs over the boots of a runtime (sessions.go,         *)
(* programs.go, state.go, restore.go): which names sessions hold, in       *)
(* memory and in the log, and under which program a process runs when the  *)
(* programs an application hands over change from one boot to the next.    *)
(*                                                                         *)
(* The log is kept as what durable.Fold makes of it: the last session      *)
(* state and the last process state of every stream.  An append is atomic  *)
(* and may fail, and the host may die between any two steps.  One process  *)
(* per session is modelled, so that its id is its session's: how the       *)
(* processes of one session share it is Runtime.tla, which also has the    *)
(* steps between a launch and its outcome, a stop under way among them.    *)
(***************************************************************************)
EXTENDS Naturals, Sequences

CONSTANTS
    SessionIds,  \* session ids, 128 random bits: never met twice
    Texts,       \* the names of sessions without the space around them
    Blank,       \* the empty name, one of Texts
    ProgramIds,  \* program ids
    Configs,     \* the program lists an application may boot with
    Absent       \* no session, no process

(* A name as a caller may spell it: with or without space around it. *)
Spellings == [text : Texts, padded : BOOLEAN]

(* A ProgramData: its id, its wasm, its two schemas, and whether its interface
   and its wasm compile. *)
Versions == [wasm : Nat, schemas : Nat]

(* A process: the program its manifest names, the digest it is bound to, its
   status. *)
Live      == {"queued", "running"}
Outcomes  == {"completed", "waiting", "stopped", "failed", "interrupted"}
Processes == [program : ProgramIds, digest : Nat \X Nat, status : Live \cup Outcomes]

ASSUME TextsAssumption == Blank \in Texts
ASSUME AbsentAssumption ==
    Absent \notin SessionIds /\ Absent \notin Spellings /\ Absent \notin Processes
ASSUME ConfigsAssumption ==
    \A config \in Configs : \A i \in DOMAIN config :
        config[i].id \in ProgramIds /\ config[i].version \in Versions

VARIABLES
    boot,      \* "down", "up", or "closed" by Close
    registry,  \* programRegistry of this boot, as the list it was built from
    sessions,  \* Runtime.sessions: the name of every session, or Absent
    process,   \* Runtime.processes: the session's process, or Absent
    flight,    \* its execute goroutine: "none", "launched" or "running"
    disk,      \* the folded stream of every session
    \* history variables
    origin,    \* the version a process was created from
    ranUnder   \* the versions whose image ran it

vars == <<boot, registry, sessions, process, flight, disk, origin, ranUnder>>

-----------------------------------------------------------------------------
(* Programs *)

(* Mutant of Digest: the schemas are not part of a program's identity. *)
DigestOfWasm(version) == <<version.wasm>>

(* compileProgram: a program's identity is a hash over its wasm and schemas. *)
Digest(version) == <<version.wasm, version.schemas>>

(* newProgramRegistry: every program compiles and no id is listed twice. *)
Compiles(config) ==
    /\ \A i \in DOMAIN config : config[i].compiles
    /\ \A i, j \in DOMAIN config : config[i].id = config[j].id => i = j

Loaded == {registry[i] : i \in DOMAIN registry}

(* bound: the loaded program of that id, when it is still the one the process
   was created from; else none. *)
bound(id, digest) == {data \in Loaded : data.id = id /\ Digest(data.version) = digest}

-----------------------------------------------------------------------------
EmptyStream == [name |-> Absent, process |-> Absent]

Init == /\ boot = "down"
        /\ registry = << >>
        /\ sessions = [s \in SessionIds |-> Absent]
        /\ process = [s \in SessionIds |-> Absent]
        /\ flight = [s \in SessionIds |-> "none"]
        /\ disk = [s \in SessionIds |-> EmptyStream]
        /\ origin = [s \in SessionIds |-> Absent]
        /\ ranUnder = [s \in SessionIds |-> {}]

(* appendSession and appendProcess: the stream as Fold will read it. *)
AppendSession(s, name, logged) ==
    disk' = IF logged THEN [disk EXCEPT ![s].name = name] ELSE disk

AppendProcess(s, state, logged) ==
    disk' = IF logged THEN [disk EXCEPT ![s].process = state] ELSE disk

-----------------------------------------------------------------------------
(* The session API *)

(* Mutant of TrimSpace: a name keeps the space it came with. *)
Untrimmed(name) == name

TrimSpace(name) == [name EXCEPT !.padded = FALSE]

(* checkSessionNameFreeLocked: no other session holds the name.  The empty name
   is always free. *)
NameFree(name, except) ==
    name.text = Blank \/ \A s \in SessionIds \ {except} : sessions[s] # name

(* CreateSession, under a new id: recorded, and then in memory. *)
CreateSession(s, given) ==
    LET name == TrimSpace(given)
    IN  /\ boot = "up" /\ sessions[s] = Absent /\ disk[s] = EmptyStream
        /\ NameFree(name, Absent)
        /\ \E logged \in BOOLEAN :
              /\ AppendSession(s, name, logged)
              /\ sessions' = IF logged THEN [sessions EXCEPT ![s] = name] ELSE sessions
        /\ UNCHANGED <<boot, registry, process, flight, origin, ranUnder>>

(* Mutant of RenameSession: the new name is applied, whether recorded or not. *)
RenameSessionFirst(s, given) ==
    /\ boot = "up" /\ sessions[s] # Absent
    /\ NameFree(TrimSpace(given), s)
    /\ \E logged \in BOOLEAN : AppendSession(s, TrimSpace(given), logged)
    /\ sessions' = [sessions EXCEPT ![s] = TrimSpace(given)]
    /\ UNCHANGED <<boot, registry, process, flight, origin, ranUnder>>

RenameSession(s, given) ==
    LET name == TrimSpace(given)
    IN  /\ boot = "up" /\ sessions[s] # Absent
        /\ NameFree(name, s)
        /\ \E logged \in BOOLEAN :
              /\ AppendSession(s, name, logged)
              /\ sessions' = IF logged THEN [sessions EXCEPT ![s] = name] ELSE sessions
        /\ UNCHANGED <<boot, registry, process, flight, origin, ranUnder>>

-----------------------------------------------------------------------------
(* Processes, as far as their program goes *)

(* CreateProcess binds a process to the program its manifest names. *)
CreateProcess(s, data) ==
    /\ boot = "up" /\ sessions[s] # Absent /\ process[s] = Absent
    /\ data \in Loaded
    /\ LET state == [program |-> data.id, digest |-> Digest(data.version), status |-> "queued"]
       IN  \E logged \in BOOLEAN :
              /\ AppendProcess(s, state, logged)
              /\ process' = IF logged THEN [process EXCEPT ![s] = state] ELSE process
              /\ flight' = IF logged THEN [flight EXCEPT ![s] = "launched"] ELSE flight
              /\ origin' = IF logged THEN [origin EXCEPT ![s] = data.version] ELSE origin
    /\ UNCHANGED <<boot, registry, sessions, ranUnder>>

(* Retry, and the wake that calls it: refused under a changed program.  A failed
   append leaves the process queued and not launched. *)
Retry(s) ==
    /\ boot = "up" /\ process[s] # Absent
    /\ process[s].status \in Outcomes
    /\ bound(process[s].program, process[s].digest) # {}
    /\ LET state == [process[s] EXCEPT !.status = "queued"]
       IN  \E logged \in BOOLEAN :
              /\ AppendProcess(s, state, logged)
              /\ process' = [process EXCEPT ![s] = state]
              /\ flight' = IF logged THEN [flight EXCEPT ![s] = "launched"] ELSE flight
    /\ UNCHANGED <<boot, registry, sessions, origin, ranUnder>>

(* retryAbortedSection and redriveAfterFailure relaunch without a check of their
   own. *)
Relaunch(s) ==
    /\ boot = "up" /\ flight[s] = "running"
    /\ LET state == [process[s] EXCEPT !.status = "queued"]
       IN  \E logged \in BOOLEAN :
              /\ AppendProcess(s, state, logged)
              /\ process' = [process EXCEPT ![s] = state]
              /\ flight' = [flight EXCEPT ![s] = IF logged THEN "launched" ELSE "none"]
    /\ UNCHANGED <<boot, registry, sessions, origin, ranUnder>>

(* execute submits the quantum and records the process as running; runQuantum
   gives it the image bound to it. *)
RunQuantum(s) ==
    /\ flight[s] = "launched"
    /\ flight' = [flight EXCEPT ![s] = "running"]
    /\ LET state == [process[s] EXCEPT !.status = "running"]
       IN  /\ process' = [process EXCEPT ![s] = state]
           /\ \E logged \in BOOLEAN : AppendProcess(s, state, logged)
    /\ ranUnder' = [ranUnder EXCEPT ![s] =
          @ \cup {data.version : data \in bound(process[s].program, process[s].digest)}]
    /\ UNCHANGED <<boot, registry, sessions, origin>>

(* The quantum ends and finishLocked records how; an error of the append is
   dropped.  A quantum stopped before it was submitted or refused by the pool
   goes the same way, and so does the stop of a parked process. *)
Finish(s, status) ==
    /\ \/ flight[s] = "running"
       \/ flight[s] = "launched" /\ status \in {"stopped", "interrupted"}
       \/ boot # "down" /\ process[s] # Absent /\ process[s].status = "waiting" /\ status = "stopped"
    /\ flight' = [flight EXCEPT ![s] = "none"]
    /\ LET state == [process[s] EXCEPT !.status = status]
       IN  /\ process' = [process EXCEPT ![s] = state]
           /\ \E logged \in BOOLEAN : AppendProcess(s, state, logged)
    /\ UNCHANGED <<boot, registry, sessions, origin, ranUnder>>

-----------------------------------------------------------------------------
(* Boots *)

(* restoreSession: a process a crash left in flight is interrupted. *)
MidFlight == {s \in SessionIds : disk[s].process # Absent /\ disk[s].process.status \in Live}

Restored(s) == IF s \in MidFlight THEN [disk[s].process EXCEPT !.status = "interrupted"]
                                  ELSE disk[s].process

(* NewRuntime restores every session and records again the processes it marks
   interrupted; then it compiles the programs.  When an append or a program
   fails there is no runtime, and what was recorded stays. *)
NewRuntime(config) ==
    /\ boot = "down"
    /\ \E logged \in SUBSET MidFlight :
          /\ disk' = [s \in SessionIds |-> IF s \in logged THEN [disk[s] EXCEPT !.process = Restored(s)]
                                                           ELSE disk[s]]
          /\ \/ /\ logged = MidFlight /\ Compiles(config)
                /\ boot' = "up"
                /\ registry' = config
                /\ sessions' = [s \in SessionIds |-> disk[s].name]
                /\ process' = [s \in SessionIds |-> Restored(s)]
             \/ /\ logged # MidFlight \/ ~Compiles(config)
                /\ UNCHANGED <<boot, registry, sessions, process>>
    /\ UNCHANGED <<flight, origin, ranUnder>>

Close == /\ boot = "up"
         /\ boot' = "closed"
         /\ UNCHANGED <<registry, sessions, process, flight, disk, origin, ranUnder>>

(* The host process ends, after Close or in a crash. *)
Crash == /\ boot # "down"
         /\ boot' = "down"
         /\ registry' = << >>
         /\ sessions' = [s \in SessionIds |-> Absent]
         /\ process' = [s \in SessionIds |-> Absent]
         /\ flight' = [s \in SessionIds |-> "none"]
         /\ UNCHANGED <<disk, origin, ranUnder>>

Next == \/ \E s \in SessionIds, given \in Spellings : CreateSession(s, given) \/ RenameSession(s, given)
        \/ \E s \in SessionIds : \E data \in Loaded : CreateProcess(s, data)
        \/ \E s \in SessionIds : Retry(s) \/ Relaunch(s) \/ RunQuantum(s)
        \/ \E s \in SessionIds, status \in Outcomes : Finish(s, status)
        \/ \E config \in Configs : NewRuntime(config)
        \/ Close
        \/ Crash

Spec == Init /\ [][Next]_vars

-----------------------------------------------------------------------------
Recorded(s) == disk[s].name # Absent

(* Type invariant of the registry, the sessions and the log. *)
TypeOK == /\ boot \in {"down", "up", "closed"}
          /\ registry \in Configs \cup {<< >>}
          /\ sessions \in [SessionIds -> Spellings \cup {Absent}]
          /\ process \in [SessionIds -> Processes \cup {Absent}]
          /\ flight \in [SessionIds -> {"none", "launched", "running"}]
          /\ disk \in [SessionIds -> [name : Spellings \cup {Absent},
                                      process : Processes \cup {Absent}]]
          /\ origin \in [SessionIds -> Versions \cup {Absent}]
          /\ ranUnder \in [SessionIds -> SUBSET Versions]

(* sessions.go: "A name is the session's unique handle".  No two sessions hold
   one name, in memory or in the log a boot reads, whatever space the callers
   wrote around it and whichever appends failed.  The check reads memory only,
   so the two must not drift apart. *)
HandlesUnique ==
    \A s, t \in SessionIds : s # t =>
        /\ (Recorded(s) /\ Recorded(t) /\ disk[s].name.text # Blank)
               => disk[s].name.text # disk[t].name.text
        /\ (sessions[s] # Absent /\ sessions[t] # Absent /\ sessions[s].text # Blank)
               => sessions[s].text # sessions[t].text

(* sessions.go: "Record the renamed session first, and apply it only once it is
   recorded".  A name a caller can see is the name the next boot restores. *)
NameSurvives == boot # "down" => \A s \in SessionIds : sessions[s] = disk[s].name

(* durable/events.go, Fold: "A stream starts with its session.state event".  A
   process is recorded only on a stream that has its session, or the next boot
   has a process without one. *)
StreamHasSession == \A s \in SessionIds : disk[s].process # Absent => Recorded(s)

(* programs.go: "a process never runs under changed code".  Over all boots, and
   whatever programs each was given, every image that ran a process is the one
   it was created from: wasm and schemas. *)
BoundForLife == \A s \in SessionIds : ranUnder[s] \subseteq {origin[s]}
=============================================================================
