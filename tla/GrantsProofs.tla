---------------------------- MODULE GrantsProofs ----------------------------
(***************************************************************************)
(* What Grants promises, for any manifest, provider, families, names and   *)
(* bounds.                                                                 *)
(*                                                                         *)
(* The table is never trusted on its own: what it holds after the          *)
(* reconciliation is granted (Reconciled), and what is granted is not the  *)
(* runtime's (GrantedInv).  Nothing is assumed of the schemas, which may   *)
(* overlap.                                                                *)
(***************************************************************************)
EXTENDS Grants, FiniteSetTheorems, TLAPS

ManifestOK == /\ manifest \in Seq(Written)
              /\ maxMS \in Nat
              /\ IsFiniteSet(granted)
              /\ phase \in {"manifest", "provider", "layers", "serving", "refused"}
              /\ layer \in 1 .. Len(Layers) + 1
              /\ call = NoCall \/ call \in [name : Names, args : Args,
                                            to : {"layer", "denied", "invalid", "handler"}]

(* What is granted stands in the manifest, and is the runtime's only if it is the
   timer. *)
GrantedInv == /\ \A name \in granted : \E i \in DOMAIN manifest : Trimmed[manifest[i]] = name
              /\ granted \cap Reserved \subseteq {TimerSyscall}

(* An entry comes from a family the provider added. *)
TableInv == \A e \in entries : \E f \in Families : e \in f

(* Once reconciled, handlers serve granted names, and the layers built so far
   have their own. *)
ChainInv ==
    /\ phase \in {"layers", "serving"} =>
          /\ routes \subseteq LeafSyscalls
          /\ \A i \in 1 .. layer - 1 : LayerNames(i) \subseteq reserved
    /\ phase \in {"manifest", "provider"} => layer = 1
    /\ phase = "serving" => layer = Len(Layers) + 1

(* The timer's maximum, once it is set, is that of the manifest's grant. *)
MaximumInv == /\ phase \in {"manifest", "provider"} => maximum = 0
              /\ maximum \in {0, TimerMaximum}

CallInv == phase # "serving" => call = NoCall

Inv == /\ ManifestOK /\ GrantedInv /\ TableInv /\ ChainInv /\ MaximumInv /\ CallInv
       /\ OnlyGrantedRuns /\ ProtocolIsServed /\ ValidCallPasses

-----------------------------------------------------------------------------
(* The operators *)

LEMMA LayersAre ==
    /\ Len(Layers) = 4
    /\ Layers[1] = Timer /\ Layers[2] = Progress /\ Layers[3] = Lifecycle /\ Layers[4] = World
BY DEF Layers

(* What wraps is cut, or negative and then beyond every positive duration. *)
LEMMA WrappedBound ==
    ASSUME NEW n \in Nat
    PROVE  /\ Wrapped(n) \in Int
           /\ Wrapped(n) <= n
           /\ (n > 0 /\ Wrapped(n) <= 0) => n >= Half
<1> DEFINE low == n % (2 * Half)
<1>1. Half \in Nat \ {0}
  BY TimerAssumption
<1>2. low \in 0 .. 2 * Half - 1 /\ low <= n
  BY <1>1
<1>3. n < 2 * Half => low = n
  BY <1>1
<1>4. Wrapped(n) = IF low < Half THEN low ELSE low - 2 * Half
  BY DEF Wrapped
<1> HIDE DEF low
<1> QED BY <1>1, <1>2, <1>3, <1>4

LEMMA RoundedDown ==
    ASSUME NEW d \in Nat
    PROVE  d \div Second \in Nat /\ (d \div Second) * Second <= d
BY TimerAssumption

(* The bound of a timer with a positive grant. *)
LEMMA TimerBound ==
    ASSUME TimerSyscall \in granted, maxMS \in Nat, maxMS > 0
    PROVE  TimerMaximum * Second <= maxMS * Millisecond
<1> DEFINE n == maxMS * Millisecond
           duration == Wrapped(n)
           limit == IF duration <= 0 THEN DefaultMaxTimer ELSE duration
<1>1. n \in Nat /\ n > 0
  BY TimerAssumption
<1>2. TimerMaximum = limit \div Second
  BY DEF TimerMaximum, GrantedMS
<1> HIDE DEF n
<1>3. /\ duration \in Int /\ duration <= n
      /\ duration <= 0 => n >= Half
  BY <1>1, WrappedBound
<1> HIDE DEF duration
<1>4. limit \in Nat /\ limit <= n
  BY <1>1, <1>3, TimerAssumption
<1> HIDE DEF limit
<1>5. (limit \div Second) * Second <= limit /\ limit \div Second \in Nat
  BY <1>4, RoundedDown
<1>6. (limit \div Second) * Second <= n
  BY <1>1, <1>4, <1>5, TimerAssumption
<1> QED BY <1>2, <1>6 DEF n

(* What a call reaches. *)
LEMMA ReachesOne ==
    ASSUME NEW name, NEW args
    PROVE  Reaches(name, args) \in {"layer", "denied", "invalid", "handler"}
BY DEF Reaches, Routed

LEMMA HandlerReached ==
    ASSUME NEW name, NEW args, Reaches(name, args) = "handler"
    PROVE  name \in routes /\ Resolved(name, args) # {}
<1>1. Routed(name, args) = "handler"
  BY DEF Reaches
<1> QED BY <1>1 DEF Routed

LEMMA LayerReached ==
    ASSUME NEW name \in Protocol, NEW args,
           name \notin routes, Protocol \ Markers \subseteq reserved
    PROVE  Reaches(name, args) = "layer"
<1>1. CASE name \in Markers
  BY <1>1 DEF Reaches
<1>2. CASE name \notin Markers
  <2>1. name \in Admitted /\ name \in World \cup Lifecycle \cup Progress \cup Timer
    BY <1>2 DEF Protocol, Admitted
  <2> QED BY <1>2, <2>1 DEF Reaches
<1> QED BY <1>1, <1>2

(* The merged schema refuses what a text accepts only if another text does too. *)
LEMMA RefusedByMenu ==
    ASSUME NEW name, NEW args, NEW e \in EntriesOf(name),
           e.schema = NoSchema \/ args \in Accepts[e.schema],
           ~SchemaAccepts(name, args)
    PROVE  /\ \A d \in EntriesOf(name) : d.schema # NoSchema
           /\ \E d \in EntriesOf(name) : d.schema # e.schema /\ args \in Accepts[d.schema]
<1> DEFINE Taking == {s \in {d.schema : d \in EntriesOf(name)} : args \in Accepts[s]}
<1>1. \A d \in EntriesOf(name) : d.schema # NoSchema
  BY DEF SchemaAccepts
<1>2. e.schema \in Taking
  BY <1>1
<1>3. Cardinality(Taking) # 1
  BY DEF SchemaAccepts
<1>4. Taking # {e.schema}
  BY <1>3, FS_Singleton
<1>5. PICK s \in Taking : s # e.schema
  BY <1>2, <1>4
<1> QED BY <1>1, <1>5

(* A call its operation accepts is refused as invalid only by the merged schema. *)
LEMMA ValidReaches ==
    ASSUME TableInv, NEW name, NEW args, NEW e \in Resolved(name, args),
           e.schema = NoSchema \/ args \in Accepts[e.schema],
           Reaches(name, args) = "invalid"
    PROVE  /\ \A d \in EntriesOf(name) : d.schema # NoSchema
           /\ \E d \in EntriesOf(name) : d.schema # e.schema /\ args \in Accepts[d.schema]
<1>1. e \in EntriesOf(name) /\ e \in entries /\ e.operation = caseName(name, args)
  BY DEF Resolved, EntriesOf
<1>2. caseName(name, args) # "malformed"
  BY <1>1, OperationsAssumption, NamesAssumption DEF TableInv
<1>3. Routed(name, args) # "invalid"
  BY <1>2 DEF Routed
<1>4. ~SchemaAccepts(name, args)
  BY <1>3 DEF Reaches
<1> QED BY <1>1, <1>4, RefusedByMenu

-----------------------------------------------------------------------------
(* NoCall says nothing. *)
LEMMA NoCallFields == NoCall.to = "" /\ NoCall.name = ""
BY DEF NoCall

LEMMA NoCallKeeps ==
    ASSUME call = NoCall
    PROVE  OnlyGrantedRuns /\ ProtocolIsServed /\ ValidCallPasses
BY DEF NoCall, OnlyGrantedRuns, ProtocolIsServed, ValidCallPasses, Protocol, Markers, World,
       Lifecycle, Progress, Timer, TimerSyscall

LEMMA InitInv == Init => Inv
<1> SUFFICES ASSUME Init PROVE Inv
  OBVIOUS
<1>1. PICK n \in 0 .. MaxGrants : manifest \in [1 .. n -> Written]
  BY DEF Init
<1>2. manifest \in Seq(Written)
  BY <1>1, BoundsAssumption
<1>3. IsFiniteSet(granted)
  BY FS_EmptySet DEF Init
<1>4. ManifestOK
  BY <1>2, <1>3, BoundsAssumption, LayersAre DEF Init, ManifestOK
<1>5. OnlyGrantedRuns /\ ProtocolIsServed /\ ValidCallPasses
  BY NoCallKeeps DEF Init
<1> QED BY <1>4, <1>5 DEF Init, Inv, GrantedInv, TableInv, ChainInv, MaximumInv, CallInv

LEMMA ValidateGrantInv == ASSUME Inv, ValidateGrant PROVE Inv'
<1> DEFINE name == manifest[Checked + 1]
<1>1. Checked \in Nat
  BY FS_CardinalityType DEF Inv, ManifestOK, Checked
<1>2. Checked + 1 \in DOMAIN manifest
  BY <1>1 DEF Inv, ManifestOK, ValidateGrant
<1>3. phase = "manifest" /\ maximum = 0 /\ call = NoCall
  BY DEF Inv, ValidateGrant, MaximumInv, CallInv
<1>4. UNCHANGED <<manifest, maxMS, entries, routes, reserved, added, layer, maximum, call>>
  BY DEF ValidateGrant, table
<1>5. (OnlyGrantedRuns /\ ProtocolIsServed /\ ValidCallPasses)'
  <2>1. call' = NoCall
    BY <1>3, <1>4
  <2> QED BY <2>1 DEF NoCall, OnlyGrantedRuns, ProtocolIsServed, ValidCallPasses, Protocol,
                      Markers, World, Lifecycle, Progress, Timer, TimerSyscall
<1>6. /\ TableInv' /\ ChainInv' /\ MaximumInv' /\ CallInv'
      /\ phase' \in {"manifest", "refused"}
  BY <1>3, <1>4 DEF Inv, ValidateGrant, TableInv, ChainInv, MaximumInv, CallInv
<1>7. CASE Grantable(name) /\ granted' = granted \cup {Trimmed[name]}
  <2>1. IsFiniteSet(granted')
    BY <1>7, FS_AddElement DEF Inv, ManifestOK
  <2>2. ManifestOK'
    BY <1>4, <1>6, <2>1 DEF Inv, ManifestOK
  <2>3. GrantedInv'
    BY <1>2, <1>4, <1>7 DEF Inv, GrantedInv, Grantable
  <2> QED BY <1>5, <1>6, <2>2, <2>3 DEF Inv
<1>8. CASE UNCHANGED granted
  <2>1. ManifestOK' /\ GrantedInv'
    BY <1>4, <1>6, <1>8 DEF Inv, ManifestOK, GrantedInv
  <2> QED BY <1>5, <1>6, <2>1 DEF Inv
<1> QED BY <1>7, <1>8 DEF ValidateGrant

(* A step before the chain serves that leaves the manifest as it is. *)
LEMMA BuildingKeeps ==
    ASSUME Inv, phase # "serving",
           UNCHANGED <<manifest, granted, maxMS, call>>,
           phase' \in {"manifest", "provider", "layers", "serving", "refused"},
           layer' \in 1 .. Len(Layers) + 1
    PROVE  /\ (ManifestOK /\ GrantedInv /\ CallInv)'
           /\ (OnlyGrantedRuns /\ ProtocolIsServed /\ ValidCallPasses)'
           /\ LeafSyscalls' = LeafSyscalls /\ TimerMaximum' = TimerMaximum
<1>1. call' = NoCall
  BY DEF Inv, CallInv
<1>2. (OnlyGrantedRuns /\ ProtocolIsServed /\ ValidCallPasses)'
  <2>1. call'.to = "" /\ call'.name = ""
    BY <1>1, NoCallFields
  <2> QED BY <2>1 DEF OnlyGrantedRuns, ProtocolIsServed, ValidCallPasses, Protocol,
                      Markers, World, Lifecycle, Progress, Timer, TimerSyscall
<1>3. ManifestOK' /\ GrantedInv' /\ CallInv'
  BY <1>1 DEF Inv, ManifestOK, GrantedInv, CallInv
<1> QED BY <1>2, <1>3 DEF LeafSyscalls, TimerMaximum, GrantedMS

LEMMA AsksProviderInv == ASSUME Inv, AsksProvider PROVE Inv'
<1>1. /\ (ManifestOK /\ GrantedInv /\ CallInv)'
      /\ (OnlyGrantedRuns /\ ProtocolIsServed /\ ValidCallPasses)'
      /\ TimerMaximum' = TimerMaximum
  BY BuildingKeeps DEF Inv, AsksProvider, ManifestOK
<1>2. (TableInv /\ ChainInv /\ MaximumInv)'
  BY <1>1 DEF Inv, AsksProvider, TableInv, ChainInv, MaximumInv, table
<1> QED BY <1>1, <1>2 DEF Inv

LEMMA ProviderAddsInv == ASSUME Inv, NEW f \in Families, ProviderAdds(f) PROVE Inv'
<1>1. /\ (ManifestOK /\ GrantedInv /\ CallInv)'
      /\ (OnlyGrantedRuns /\ ProtocolIsServed /\ ValidCallPasses)'
      /\ TimerMaximum' = TimerMaximum
  BY BuildingKeeps DEF Inv, ProviderAdds, ManifestOK
<1>2. (ChainInv /\ MaximumInv)'
  BY <1>1 DEF Inv, ProviderAdds, ChainInv, MaximumInv
<1>3. CASE /\ Addable(f)
           /\ entries' = entries \cup f
           /\ routes' = routes \cup {SyscallOf(f)}
  <2>1. TableInv'
    BY <1>3 DEF Inv, TableInv
  <2> QED BY <1>1, <1>2, <2>1 DEF Inv
<1>4. CASE UNCHANGED <<entries, routes>>
  BY <1>1, <1>2, <1>4 DEF Inv, TableInv
<1> QED BY <1>3, <1>4 DEF ProviderAdds

LEMMA ProviderReservesInv == ASSUME Inv, NEW name \in Names, ProviderReserves(name) PROVE Inv'
<1>1. /\ (ManifestOK /\ GrantedInv /\ CallInv)'
      /\ (OnlyGrantedRuns /\ ProtocolIsServed /\ ValidCallPasses)'
      /\ TimerMaximum' = TimerMaximum
  BY BuildingKeeps DEF Inv, ProviderReserves, ManifestOK
<1>2. (TableInv /\ ChainInv /\ MaximumInv)'
  BY <1>1 DEF Inv, ProviderReserves, TableInv, ChainInv, MaximumInv
<1> QED BY <1>1, <1>2 DEF Inv

(* reconcileGrants lets no name but a granted one through. *)
LEMMA ReconcilesInv == ASSUME Inv, Reconciles PROVE Inv'
<1>1. /\ (ManifestOK /\ GrantedInv /\ CallInv)'
      /\ (OnlyGrantedRuns /\ ProtocolIsServed /\ ValidCallPasses)'
      /\ LeafSyscalls' = LeafSyscalls /\ TimerMaximum' = TimerMaximum
  BY BuildingKeeps DEF Inv, Reconciles, ManifestOK
<1>2. (TableInv /\ MaximumInv)'
  BY <1>1 DEF Inv, Reconciles, TableInv, MaximumInv, table
<1>3. ChainInv'
  BY <1>1 DEF Inv, Reconciles, Reconciled, Admitted, ChainInv, table
<1> QED BY <1>1, <1>2, <1>3 DEF Inv

LEMMA LayerReservesInv == ASSUME Inv, LayerReserves PROVE Inv'
<1>1. layer \in 1 .. 4 /\ layer' = layer + 1 /\ phase = "layers" /\ phase' \in {"layers", "refused"}
  BY LayersAre DEF Inv, LayerReserves, ManifestOK
<1>2. /\ (ManifestOK /\ GrantedInv /\ CallInv)'
      /\ (OnlyGrantedRuns /\ ProtocolIsServed /\ ValidCallPasses)'
      /\ LeafSyscalls' = LeafSyscalls /\ TimerMaximum' = TimerMaximum
  BY <1>1, LayersAre, BuildingKeeps DEF LayerReserves
<1>3. (TableInv /\ MaximumInv)'
  BY <1>1, <1>2 DEF Inv, LayerReserves, TableInv, MaximumInv
<1>4. ChainInv'
  <2>1. CASE phase' = "layers"
    <3>1. reserved' = reserved \cup LayerNames(layer) /\ UNCHANGED routes
      BY <1>1, <2>1 DEF LayerReserves
    <3>2. \A i \in 1 .. layer - 1 : LayerNames(i) \subseteq reserved
      BY <1>1 DEF Inv, ChainInv
    <3>3. ASSUME NEW i \in 1 .. layer' - 1 PROVE LayerNames(i) \subseteq reserved'
      <4>1. i \in 1 .. layer - 1 \/ i = layer
        BY <1>1
      <4> QED BY <3>1, <3>2, <4>1
    <3> QED BY <1>1, <1>2, <2>1, <3>1, <3>3 DEF Inv, ChainInv, LayerNames
  <2> QED BY <1>1, <2>1 DEF ChainInv
<1> QED BY <1>2, <1>3, <1>4 DEF Inv

LEMMA BuiltInv == ASSUME Inv, Built PROVE Inv'
<1>1. /\ (ManifestOK /\ GrantedInv /\ CallInv)'
      /\ (OnlyGrantedRuns /\ ProtocolIsServed /\ ValidCallPasses)'
      /\ LeafSyscalls' = LeafSyscalls /\ TimerMaximum' = TimerMaximum
  BY BuildingKeeps DEF Inv, Built, ManifestOK
<1>2. (TableInv /\ MaximumInv)'
  BY <1>1 DEF Inv, Built, TableInv, MaximumInv, table
<1>3. ChainInv'
  BY <1>1, LayersAre DEF Inv, Built, ManifestOK, ChainInv, LayerNames, table
<1> QED BY <1>1, <1>2, <1>3 DEF Inv

LEMMA NextQuantumInv == ASSUME Inv, NextQuantum PROVE Inv'
<1>1. call' = NoCall
  BY DEF NextQuantum
<1>2. (OnlyGrantedRuns /\ ProtocolIsServed /\ ValidCallPasses)'
  BY <1>1 DEF NoCall, OnlyGrantedRuns, ProtocolIsServed, ValidCallPasses, Protocol,
              Markers, World, Lifecycle, Progress, Timer, TimerSyscall
<1>3. (ManifestOK /\ GrantedInv /\ CallInv)'
  BY <1>1, LayersAre DEF Inv, NextQuantum, ManifestOK, GrantedInv, CallInv
<1>4. (TableInv /\ ChainInv /\ MaximumInv)'
  BY DEF NextQuantum, TableInv, ChainInv, MaximumInv
<1> QED BY <1>2, <1>3, <1>4 DEF Inv

(* Once the chain serves, the runtime's names are its layers'. *)
LEMMA ServingChain ==
    ASSUME Inv, phase = "serving"
    PROVE  /\ routes \cap Reserved = {} /\ routes \subseteq granted
           /\ Protocol \ Markers \subseteq reserved
<1>1. routes \subseteq granted \ {TimerSyscall}
  BY DEF Inv, ChainInv, LeafSyscalls
<1>2. \A i \in 1 .. 4 : Layers[i] \subseteq reserved
  BY LayersAre DEF Inv, ChainInv, LayerNames
<1>3. Timer \subseteq reserved /\ Progress \subseteq reserved /\ Lifecycle \subseteq reserved
      /\ World \subseteq reserved
  BY <1>2, LayersAre
<1> QED BY <1>1, <1>3 DEF Inv, GrantedInv, Protocol

LEMMA GuestCallsInv ==
    ASSUME Inv, NEW name \in Names, NEW args \in Args, GuestCalls(name, args)
    PROVE  Inv'
<1>1. /\ phase = "serving"
      /\ call' = [name |-> name, args |-> args, to |-> Reaches(name, args)]
      /\ UNCHANGED <<manifest, granted, maxMS, phase, entries, routes, reserved, added, layer,
                     maximum>>
  BY DEF GuestCalls, table
<1>2. call'.name = name /\ call'.args = args /\ call'.to = Reaches(name, args)
  BY <1>1
<1>3. /\ routes \cap Reserved = {} /\ routes \subseteq granted
      /\ Protocol \ Markers \subseteq reserved
  BY <1>1, ServingChain
<1>4. ManifestOK'
  BY <1>1, ReachesOne DEF Inv, ManifestOK
<1>5. (GrantedInv /\ TableInv /\ ChainInv /\ MaximumInv /\ CallInv)'
  BY <1>1 DEF Inv, GrantedInv, TableInv, ChainInv, MaximumInv, CallInv, LeafSyscalls,
              LayerNames, TimerMaximum, GrantedMS
<1>6. OnlyGrantedRuns'
  <2>1. ASSUME Reaches(name, args) = "handler"
        PROVE  /\ \E i \in DOMAIN manifest : Trimmed[manifest[i]] = name
               /\ name \notin Reserved
               /\ \E e \in entries : e.syscall = name /\ e.operation \in {"", args[1]}
    <3>1. name \in routes /\ Resolved(name, args) # {}
      BY <2>1, HandlerReached
    <3>2. PICK e \in entries : e.syscall = name /\ e.operation = caseName(name, args)
      BY <3>1 DEF Resolved, EntriesOf
    <3>3. caseName(name, args) \in {"", args[1]}
      BY DEF caseName
    <3> QED BY <1>3, <3>1, <3>2, <3>3 DEF Inv, GrantedInv
  <2> QED BY <1>1, <1>2, <2>1 DEF OnlyGrantedRuns
<1>7. ProtocolIsServed'
  <2>1. ASSUME name \in Protocol PROVE Reaches(name, args) = "layer"
    <3>1. name \notin routes
      BY <1>3, <2>1 DEF Reserved
    <3> QED BY <1>3, <2>1, <3>1, LayerReached
  <2> QED BY <1>2, <2>1 DEF ProtocolIsServed
<1>8. ValidCallPasses'
  <2>1. /\ EntriesOf(name)' = EntriesOf(name)
        /\ Resolved(name, args)' = Resolved(name, args)
    BY <1>1 DEF Resolved, EntriesOf, caseName
  <2>2. \A e \in Resolved(name, args) :
           ((e.schema = NoSchema \/ args \in Accepts[e.schema]) /\ Reaches(name, args) = "invalid") =>
              /\ \A d \in EntriesOf(name) : d.schema # NoSchema
              /\ \E d \in EntriesOf(name) : d.schema # e.schema /\ args \in Accepts[d.schema]
    BY ValidReaches DEF Inv
  <2> QED BY <1>1, <1>2, <2>1, <2>2 DEF ValidCallPasses, Resolved, EntriesOf, caseName
<1> QED BY <1>4, <1>5, <1>6, <1>7, <1>8 DEF Inv

-----------------------------------------------------------------------------
LEMMA StepInv == Inv /\ [Next]_vars => Inv'
<1> SUFFICES ASSUME Inv, [Next]_vars PROVE Inv'
  OBVIOUS
<1>1. CASE UNCHANGED vars
  <2>1. (ManifestOK /\ GrantedInv /\ TableInv /\ ChainInv /\ MaximumInv /\ CallInv)'
    BY <1>1 DEF Inv, vars, ManifestOK, GrantedInv, TableInv, ChainInv, MaximumInv, CallInv,
                LeafSyscalls, LayerNames, TimerMaximum, GrantedMS
  <2>2. (OnlyGrantedRuns /\ ProtocolIsServed)'
    BY <1>1 DEF Inv, vars, OnlyGrantedRuns, ProtocolIsServed
  <2>3. /\ EntriesOf(call.name)' = EntriesOf(call.name)
        /\ Resolved(call.name, call.args)' = Resolved(call.name, call.args)
    BY <1>1 DEF vars, Resolved, EntriesOf, caseName
  <2>4. ValidCallPasses'
    BY <1>1, <2>3 DEF Inv, vars, ValidCallPasses
  <2> QED BY <2>1, <2>2, <2>4 DEF Inv
<1> QED BY <1>1, ValidateGrantInv, AsksProviderInv, ProviderAddsInv, ProviderReservesInv,
           ReconcilesInv, LayerReservesInv, BuiltInv, NextQuantumInv, GuestCallsInv DEF Next

LEMMA AlwaysInv == Spec => []Inv
BY InitInv, StepInv, PTL DEF Spec

(* No manifest, provider or spelling of a name makes a handler run for a syscall
   that is not granted, or is the runtime's (reconcileGrants, validateSyscalls). *)
THEOREM AlwaysOnlyGranted == Spec => []OnlyGrantedRuns
<1>1. Inv => OnlyGrantedRuns
  BY DEF Inv
<1> QED BY <1>1, AlwaysInv, PTL

(* Every chain that is built serves the runtime's own syscalls by its layers. *)
THEOREM ProtocolAlwaysServed == Spec => []ProtocolIsServed
<1>1. Inv => ProtocolIsServed
  BY DEF Inv
<1> QED BY <1>1, AlwaysInv, PTL

(* The schema the Validator merges refuses a call its operation accepts only if
   every operation has a schema and one of another text accepts the call too, for
   any schemas, overlapping or equivalent ones included (menuSchema). *)
THEOREM ValidAlwaysPasses == Spec => []ValidCallPasses
<1>1. Inv => ValidCallPasses
  BY DEF Inv
<1> QED BY <1>1, AlwaysInv, PTL

(* The bound of sys.timer's schema is within the grant for any width of a
   Duration, overflow included (newTimerDispatcher). *)
THEOREM TimerAlwaysWithinGrant == Spec => []TimerWithinGrant
<1>1. Inv => TimerWithinGrant
  <2> SUFFICES ASSUME Inv, maximum > 0, TimerSyscall \in granted, maxMS > 0
               PROVE  maximum * Second <= maxMS * Millisecond
    BY DEF TimerWithinGrant
  <2>1. maximum = TimerMaximum
    BY DEF Inv, MaximumInv
  <2> QED BY <2>1, TimerBound DEF Inv, ManifestOK
<1> QED BY <1>1, AlwaysInv, PTL
=============================================================================
