------------------------------- MODULE Grants -------------------------------
(***************************************************************************)
(* How a manifest becomes what a guest can reach: the manifest's check at  *)
(* the door (manifest.go), the table the dispatcher provider fills         *)
(* (capability/table.go), its reconciliation with the manifest and the     *)
(* layers that admit the runtime's own syscalls into it (chain.go), and    *)
(* the path of a call through the Validator (monitor/validate.go) and the  *)
(* layers down to a handler.                                               *)
(*                                                                         *)
(* The provider is external: it may add any families, and reserve any      *)
(* names, and stops at the table's first refusal.  A schema is its text,   *)
(* which is what the table compares, and different texts may accept the    *)
(* same arguments.  Arguments are a case, as the discriminator reads it,   *)
(* and a body; those of the runtime's own syscalls are taken as valid.     *)
(* Left out: descriptions, Hidden, which only trims the menu, a grant's    *)
(* driver configuration, and skills, which grant nothing.                  *)
(***************************************************************************)
EXTENDS Integers, Sequences, FiniteSets

CONSTANTS
    Written,        \* names as manifests write them
    Trimmed,        \* strings.TrimSpace of each
    Names,          \* the names providers serve and guests call
    Families,       \* the families providers add
    Bodies,         \* argument bodies
    Cases,          \* the cases arguments name; "" is none
    Accepts,        \* the arguments that each schema's text accepts
    NoSchema,
    MaxGrants,      \* bound on a manifest's grants
    MaxFamilies,    \* bound on what a provider adds
    Half,           \* a time.Duration lies in -Half .. Half - 1
    Millisecond,    \* ticks of a time.Duration
    Second, DefaultMaxTimer,
    MaxMS           \* bound on max_duration_ms

(* "malformed" stands for arguments whose case cannot be read. *)
Args == (Cases \cup {"malformed"}) \X Bodies

ASSUME NamesAssumption == /\ Trimmed \in [Written -> STRING]
                          /\ "" \in Cases /\ "malformed" \notin Cases
ASSUME BoundsAssumption == MaxGrants \in Nat /\ MaxFamilies \in Nat /\ MaxMS \in Nat
ASSUME TimerAssumption ==
    /\ Half \in Nat /\ Millisecond \in Nat \ {0} /\ Second \in Nat \ {0}
    /\ Second % Millisecond = 0 /\ DefaultMaxTimer \in 1 .. Half - 1

(* An operation is named by a case.  Nothing is promised of the schemas. *)
ASSUME OperationsAssumption == \A f \in Families : \A e \in f : e.operation \in Cases
ASSUME TextsAssumption ==
    /\ NoSchema \notin DOMAIN Accepts
    /\ \A f \in Families : \A e \in f : e.schema \in DOMAIN Accepts \cup {NoSchema}

VARIABLES
    manifest,   \* the grants as written
    granted,    \* the canonical names of those checked so far
    maxMS,      \* the sys.timer grant's max_duration_ms
    phase,
    \* Table
    entries,    \* entries: the operations indexed
    routes,     \* routes: the syscalls handlers serve
    reserved,   \* reserved: the syscalls layers serve
    added,      \* how much the provider added
    layer,      \* the next layer to be built
    maximum,    \* the maximum of sys.timer's schema, in seconds
    \* the last call
    call

table == <<entries, routes, reserved>>
vars  == <<manifest, granted, maxMS, phase, entries, routes, reserved, added, layer, maximum, call>>

NoCall == [name |-> "", args |-> << >>, to |-> ""]

-----------------------------------------------------------------------------
(* The runtime's own names *)

TimerSyscall == "sys.timer"

Markers   == {"sys.begin", "sys.commit"}
World     == {"sys.now", "sys.random"}
Lifecycle == {"sys.input", "sys.output", "sys.abort"}
Progress  == {"sys.log"}
Timer     == {TimerSyscall}

(* The layers that reserve names, in the order newDispatcher builds them. *)
Layers   == <<Timer, Progress, Lifecycle, World>>
Protocol == Markers \cup Timer \cup Progress \cup Lifecycle \cup World

(* reservedSyscallPrefix: sys.declassify is in the namespace, and nobody's. *)
Reserved == Protocol \cup {"sys.declassify"}

-----------------------------------------------------------------------------
Init == /\ manifest \in UNION {[1 .. n -> Written] : n \in 0 .. MaxGrants}
        /\ granted = {}
        /\ maxMS \in IF \E i \in DOMAIN manifest : manifest[i] = TimerSyscall
                    THEN 0 .. MaxMS ELSE {0}
        /\ phase = "manifest"
        /\ entries = {} /\ routes = {} /\ reserved = {}
        /\ added = 0
        /\ layer = 1
        /\ maximum = 0
        /\ call = NoCall

(* Mutant of Grantable: the prefix is looked for in the name as it is written. *)
GrantableUntrimmed(name) == /\ Trimmed[name] # ""
                            /\ Trimmed[name] \notin granted
                            /\ name \in Reserved => name = TimerSyscall

(* validateSyscalls, for one grant. *)
Grantable(name) == /\ Trimmed[name] # ""
                   /\ Trimmed[name] \notin granted
                   /\ Trimmed[name] \in Reserved => Trimmed[name] = TimerSyscall

Checked == Cardinality(granted)

ValidateGrant ==
    /\ phase = "manifest" /\ Checked < Len(manifest)
    /\ \/ /\ Grantable(manifest[Checked + 1])
          /\ granted' = granted \cup {Trimmed[manifest[Checked + 1]]}
          /\ UNCHANGED phase
       \/ /\ ~Grantable(manifest[Checked + 1])
          /\ phase' = "refused"
          /\ UNCHANGED granted
    /\ UNCHANGED <<manifest, maxMS, table, added, layer, maximum, call>>

(* The manifest is accepted; newDispatcher asks the provider for a table. *)
AsksProvider ==
    /\ phase = "manifest" /\ Checked = Len(manifest)
    /\ phase' = "provider"
    /\ UNCHANGED <<manifest, granted, maxMS, table, added, layer, maximum, call>>

-----------------------------------------------------------------------------
(* The table *)

SyscallOf(f) == (CHOOSE e \in f : TRUE).syscall

(* served: a family's entries agree on the syscall and the discriminator, and a
   case has a discriminator to name it. *)
served(f) == /\ f # {}
             /\ \A d, e \in f : d.syscall = e.syscall /\ d.discriminator = e.discriminator
             /\ \A e \in f : e.discriminator = "" => e.operation = ""

Admitted == routes \cup reserved

Key(e) == <<e.syscall, e.operation>>

(* Add, refused for a name or an operation already taken, within the family too.
   What a refused Add has indexed by then has no route, and goes with the table. *)
Addable(f) == /\ served(f)
              /\ SyscallOf(f) \notin Admitted
              /\ \A e \in f : \A d \in f \cup entries : Key(d) = Key(e) => d = e

ProviderAdds(f) ==
    /\ phase = "provider" /\ added < MaxFamilies
    /\ added' = added + 1
    /\ \/ /\ Addable(f)
          /\ entries' = entries \cup f
          /\ routes' = routes \cup {SyscallOf(f)}
          /\ UNCHANGED phase
       \/ /\ ~Addable(f)
          /\ phase' = "refused"
          /\ UNCHANGED <<entries, routes>>
    /\ UNCHANGED <<manifest, granted, maxMS, reserved, layer, maximum, call>>

(* A provider may reserve a name with nothing behind it. *)
ProviderReserves(name) ==
    /\ phase = "provider" /\ added < MaxFamilies
    /\ added' = added + 1
    /\ \/ /\ name \notin Admitted
          /\ reserved' = reserved \cup {name}
          /\ UNCHANGED phase
       \/ /\ name \in Admitted
          /\ phase' = "refused"
          /\ UNCHANGED reserved
    /\ UNCHANGED <<manifest, granted, maxMS, entries, routes, layer, maximum, call>>

(* LeafSyscalls *)
LeafSyscalls == granted \ {TimerSyscall}

(* reconcileGrants: the provider advertises nothing the manifest did not grant. *)
Reconciled == Admitted \subseteq LeafSyscalls

Reconciles ==
    /\ phase = "provider"
    /\ phase' = IF Reconciled THEN "layers" ELSE "refused"
    /\ UNCHANGED <<manifest, granted, maxMS, table, added, layer, maximum, call>>

-----------------------------------------------------------------------------
(* The layers *)

(* Multiplication of a time.Duration wraps. *)
Wrapped(n) == LET low == n % (2 * Half)
              IN  IF low < Half THEN low ELSE low - 2 * Half

GrantedMS == IF TimerSyscall \in granted THEN maxMS ELSE 0

(* Mutant of TimerMaximum: the maximum is rounded up. *)
TimerRoundedUp ==
    LET duration == Wrapped(GrantedMS * Millisecond)
    IN  ((IF duration <= 0 THEN DefaultMaxTimer ELSE duration) + Second - 1) \div Second

(* newTimerDispatcher: the bound of sys.timer's schema, in seconds. *)
TimerMaximum ==
    LET duration == Wrapped(GrantedMS * Millisecond)
    IN  (IF duration <= 0 THEN DefaultMaxTimer ELSE duration) \div Second

(* Mutant of LayerNames: sys.random is served without being admitted. *)
LayerNamesShort(i) == Layers[i] \ {"sys.random"}

LayerNames(i) == Layers[i]

(* Each layer reserves the names it serves as it is built. *)
LayerReserves ==
    /\ phase = "layers" /\ layer <= Len(Layers)
    /\ layer' = layer + 1
    /\ \/ /\ LayerNames(layer) \cap Admitted = {}
          /\ reserved' = reserved \cup LayerNames(layer)
          /\ maximum' = IF Layers[layer] = Timer THEN TimerMaximum ELSE maximum
          /\ UNCHANGED phase
       \/ /\ LayerNames(layer) \cap Admitted # {}
          /\ phase' = "refused"
          /\ UNCHANGED <<reserved, maximum>>
    /\ UNCHANGED <<manifest, granted, maxMS, entries, routes, added, call>>

Built == /\ phase = "layers" /\ layer > Len(Layers)
         /\ phase' = "serving"
         /\ UNCHANGED <<manifest, granted, maxMS, table, added, layer, maximum, call>>

(* The next quantum builds the chain again, from the manifest it keeps. *)
NextQuantum == /\ phase \in {"serving", "refused"} /\ Checked = Len(manifest)
               /\ phase' = "provider"
               /\ entries' = {} /\ routes' = {} /\ reserved' = {}
               /\ added' = 0
               /\ layer' = 1
               /\ maximum' = 0
               /\ call' = NoCall
               /\ UNCHANGED <<manifest, granted, maxMS>>

-----------------------------------------------------------------------------
(* The path of a call *)

EntriesOf(name) == {e \in entries : e.syscall = name}

(* Mutant of SchemaAccepts: equal texts are separate branches of the oneOf. *)
OneOfAccepts(name, args) ==
    \/ \E e \in EntriesOf(name) : e.schema = NoSchema
    \/ Cardinality({e \in EntriesOf(name) : args \in Accepts[e.schema]}) = 1

(* menuSchema: none, the text the entries share, or a oneOf over the distinct
   texts, which takes arguments that match exactly one. *)
SchemaAccepts(name, args) ==
    \/ \E e \in EntriesOf(name) : e.schema = NoSchema
    \/ Cardinality({s \in {e.schema : e \in EntriesOf(name)} : args \in Accepts[s]}) = 1

(* caseName: the case is read only where the family has a discriminator. *)
caseName(name, args) == IF \E e \in EntriesOf(name) : e.discriminator # "" THEN args[1] ELSE ""

Resolved(name, args) == {e \in EntriesOf(name) : e.operation = caseName(name, args)}

(* The table resolves the call to an entry, whose handler runs, or denies it. *)
Routed(name, args) ==
    CASE name \notin routes                  -> "denied"
      [] caseName(name, args) = "malformed"  -> "invalid"
      [] Resolved(name, args) = {}           -> "denied"
      [] OTHER                               -> "handler"

(* The Validator, the layers that serve their own names, the dispatcher. *)
Reaches(name, args) ==
    CASE name \in Markers                                       -> "layer"
      [] name \notin Markers \cup Admitted                      -> "denied"
      [] name \in routes /\ ~SchemaAccepts(name, args)          -> "invalid"
      [] name \in World \cup Lifecycle \cup Progress \cup Timer -> "layer"
      [] OTHER                                                  -> Routed(name, args)

GuestCalls(name, args) ==
    /\ phase = "serving"
    /\ call' = [name |-> name, args |-> args, to |-> Reaches(name, args)]
    /\ UNCHANGED <<manifest, granted, maxMS, phase, table, added, layer, maximum>>

Next == \/ ValidateGrant \/ AsksProvider
        \/ \E f \in Families : ProviderAdds(f)
        \/ \E name \in Names : ProviderReserves(name)
        \/ Reconciles
        \/ LayerReserves \/ Built \/ NextQuantum
        \/ \E name \in Names, args \in Args : GuestCalls(name, args)

Spec == Init /\ [][Next]_vars

-----------------------------------------------------------------------------
(* Properties *)

(* A handler runs only for a syscall the manifest grants by name, never for one
   of the runtime's namespace, and only as an operation the provider indexed:
   neither a provider that advertises more nor a name written with spaces
   widens the grant (chain.go reconcileGrants, manifest.go). *)
OnlyGrantedRuns ==
    call.to = "handler" =>
        /\ \E i \in DOMAIN manifest : Trimmed[manifest[i]] = call.name
        /\ call.name \notin Reserved
        /\ \E e \in entries : e.syscall = call.name /\ e.operation \in {"", call.args[1]}

(* "The table the Validator enforces names exactly what the chain serves"
   (chain.go), for the runtime's own syscalls: once a chain is built each of
   them reaches its layer, whatever the manifest says and the provider did. *)
ProtocolIsServed == call.name \in Protocol => call.to = "layer"

(* A call that its operation's own schema accepts is refused as invalid only
   where the table cannot tell: every operation of the syscall has a schema, and
   one of another text accepts the call too.  Operations that share a schema, or
   one without any, cost no valid call; texts that overlap do (menuSchema). *)
ValidCallPasses ==
    \A e \in Resolved(call.name, call.args) :
        ((e.schema = NoSchema \/ call.args \in Accepts[e.schema]) /\ call.to = "invalid") =>
            /\ \A d \in EntriesOf(call.name) : d.schema # NoSchema
            /\ \E d \in EntriesOf(call.name) :
                  d.schema # e.schema /\ call.args \in Accepts[d.schema]

(* A guest's timer is never longer than its grant allows, also where the grant's
   milliseconds overflow a time.Duration: what wraps is cut or falls back to the
   default (timer.go newTimerDispatcher). *)
TimerWithinGrant ==
    (maximum > 0 /\ TimerSyscall \in granted /\ maxMS > 0)
        => maximum * Second <= maxMS * Millisecond
=============================================================================
