-------------------------- MODULE ExposeBdevProofs --------------------------
(***************************************************************************)
(* Proofs about ExposeBdev, for any sets of volumes, hosts and ANA states. *)
(*                                                                         *)
(* The inductive invariant says of each volume what its operation has      *)
(* already done at its next command.  One part, Built, holds whatever goes *)
(* wrong: it speaks of the subsystem if there is one, and carries          *)
(* CompleteService.  The other, OnTrack, holds as long as no error has     *)
(* come from outside, and carries the properties of the results.  A step   *)
(* for one volume leaves the others what they have, the transport          *)
(* included, so that only the volume's own parts need an argument.         *)
(***************************************************************************)
EXTENDS ExposeBdev, TLAPS

BeforeCreate == {"getTransports", "createTransport", "createSubsystem"}

Complete(v) ==
    Exists(v) /\ subsystem[v].listener # None =>
        /\ subsystem[v].anyHost <=> AllowedHosts(wanted[v]) = {}
        /\ subsystem[v].hosts = AllowedHosts(wanted[v])
        /\ subsystem[v].ns \/ v \in lost

Built(v) ==
    /\ op[v] \in Starts /\ pc[v] \in BeforeCreate => toAdd[v] = AllowedHosts(op[v])
    /\ pc[v] \in {"addNs", "addListener"} => toAdd[v] = {}
    /\ Exists(v) =>
          /\ pc[v] \in {"addHost", "addNs", "addListener"} =>
                /\ subsystem[v].listener = None
                /\ wanted[v] = op[v]
                /\ subsystem[v].anyHost <=> AllowedHosts(op[v]) = {}
                /\ subsystem[v].hosts \cup toAdd[v] = AllowedHosts(op[v])
          /\ pc[v] = "addListener" => subsystem[v].ns \/ v \in lost
          /\ pc[v] = "setAnaState" => wanted[v] = op[v] /\ subsystem[v].listener # None
          /\ pc[v] \in {"removeNs", "deleteSubsystem"} => subsystem[v].listener = None

StartOnTrack(v) ==
    /\ pc[v] \in {"createSubsystem", "addHost", "addNs", "addListener"} => transport
    /\ pc[v] \in {"addHost", "addNs", "addListener", "setAnaState"} => Exists(v)
    /\ pc[v] \in {"addListener", "setAnaState"} => subsystem[v].ns
    /\ v \in fresh =>
          /\ v \in bdevs
          /\ pc[v] \in BeforeCreate => ~Exists(v)
          /\ pc[v] # "error"
    /\ pc[v] = "ok" =>
          /\ Exists(v) /\ subsystem[v].ns
          /\ subsystem[v].listener = WantedAnaState(op[v])
          /\ wanted[v] = op[v]

StopOnTrack(v) ==
    /\ pc[v] \in {"getListeners", "removeListener", "removeNs", "deleteSubsystem"} => Exists(v)
    /\ pc[v] \in {"getListeners", "removeListener", "removeNs"} =>
          (listed[v].ns <=> subsystem[v].ns)
    /\ pc[v] = "removeListener" => subsystem[v].listener # None
    /\ pc[v] = "removeNs" => listed[v].ns
    /\ pc[v] # "error"
    /\ pc[v] = "ok" => ~Exists(v)

OnTrack(v) ==
    /\ op[v] = NoOp => v \notin fresh
    /\ op[v] \in Starts /\ v \notin fault => StartOnTrack(v)
    /\ op[v] \in StopExposeBdev /\ v \notin fault => StopOnTrack(v)

VolumeInv(v) == Complete(v) /\ Built(v) /\ OnTrack(v)

Inv == TypeOK /\ \A v \in Volumes : VolumeInv(v)

\* A step for another volume: nothing of u changes, and the transport stays.
Spared(u) ==
    /\ transport => transport'
    /\ u \in bdevs <=> u \in bdevs'
    /\ subsystem'[u] = subsystem[u]
    /\ op'[u] = op[u] /\ pc'[u] = pc[u]
    /\ toAdd'[u] = toAdd[u] /\ listed'[u] = listed[u]
    /\ wanted'[u] = wanted[u]
    /\ u \in lost <=> u \in lost'
    /\ u \in fresh <=> u \in fresh'
    /\ u \in fault <=> u \in fault'
-----------------------------------------------------------------------------
LEMMA SparedKeepsInv ==
    ASSUME NEW u \in Volumes, VolumeInv(u), Spared(u)
    PROVE  VolumeInv(u)'
BY DEF VolumeInv, Spared, Complete, Built, OnTrack, StartOnTrack, StopOnTrack, Exists

\* The kinds of operations, told apart by their names.
LEMMA OperationKinds ==
    /\ NoOp \notin Operations
    /\ \A o \in Starts : o.name \in {"Start", "StartWithANAState"} /\ o \notin StopExposeBdev
    /\ \A o \in StopExposeBdev : o.name = "Stop" /\ o \notin Starts
    /\ \A o \in Starts : AllowedHosts(o) \in SUBSET Hosts /\ WantedAnaState(o) \in AnaStates
    /\ \A o \in Starts : o.name # "Start" => AllowedHosts(o) = {}
BY ExposeAssumption DEF NoOp, Operations, Starts, StopExposeBdev, StartExposeBdev,
   StartExposeBdevWithANAState, AllowedHosts, WantedAnaState

\* The pc of a volume tells which kind of operation it runs.
LEMMA PcTellsKind ==
    ASSUME TypeOK, NEW v \in Volumes
    PROVE  /\ pc[v] \in StepsOf("Start") \cup StepsOf("StartWithANAState") => op[v] \in Starts
           /\ pc[v] \in {"addHost"} => op[v].name = "Start"
           /\ pc[v] = "setAnaState" => op[v].name = "StartWithANAState"
           /\ pc[v] \in StepsOf("Stop") => op[v] \in StopExposeBdev
<1>1. CASE op[v] = NoOp
    BY <1>1 DEF TypeOK, StepsOf
<1>2. CASE op[v] \in StartExposeBdev
    <2>1. op[v].name = "Start" /\ op[v] \in Starts /\ op[v] # NoOp
        BY <1>2, OperationKinds DEF StartExposeBdev, Starts, Operations
    <2> QED  BY <2>1 DEF TypeOK, StepsOf, Ended
<1>3. CASE op[v] \in StartExposeBdevWithANAState
    <2>1. op[v].name = "StartWithANAState" /\ op[v] \in Starts /\ op[v] # NoOp
        BY <1>3, OperationKinds DEF StartExposeBdevWithANAState, Starts, Operations
    <2> QED  BY <2>1 DEF TypeOK, StepsOf, Ended
<1>4. CASE op[v] \in StopExposeBdev
    <2>1. op[v].name = "Stop" /\ op[v] # NoOp
        BY <1>4, OperationKinds DEF Operations
    <2> QED  BY <1>4, <2>1 DEF TypeOK, StepsOf, Ended
<1> QED  BY <1>1, <1>2, <1>3, <1>4 DEF TypeOK, Operations, Starts
-----------------------------------------------------------------------------
\* What TypeOK says of pc and fault.
PcType ==
    /\ pc \in [Volumes -> Steps \cup Ended \cup {"idle"}]
    /\ \A v \in Volumes :
          IF op[v] = NoOp THEN pc[v] = "idle" ELSE pc[v] \in StepsOf(op[v].name) \cup Ended
    /\ fault \in SUBSET Volumes

LEMMA StepsAreSteps == \A n : StepsOf(n) \subseteq Steps
BY DEF StepsOf, Steps

LEMMA GotoKeepsPcType ==
    ASSUME TypeOK, NEW v \in Volumes, op[v] # NoOp, op' = op,
           NEW next \in StepsOf(op[v].name) \cup Ended, Goto(v, next)
    PROVE  PcType'
<1>1. next \in Steps \cup Ended
    BY StepsAreSteps
<1>2. "error" \in Ended
    BY DEF Ended
<1>3. CASE pc' = [pc EXCEPT ![v] = next] /\ UNCHANGED fault
    BY <1>1, <1>3 DEF TypeOK, PcType
<1>4. CASE pc' = [pc EXCEPT ![v] = "error"] /\ fault' = fault \cup {v}
    BY <1>2, <1>4 DEF TypeOK, PcType
<1> QED  BY <1>3, <1>4 DEF Goto

LEMMA TypeInit == Init => TypeOK
<1> SUFFICES ASSUME Init PROVE TypeOK
    OBVIOUS
<1>1. NoOp \in Operations \cup {NoOp} /\ NoOp \in Starts \cup {NoOp}
    OBVIOUS
<1>2. NoLists \in [listener : BOOLEAN, ns : BOOLEAN]
    BY DEF NoLists
<1>3. \A v \in Volumes : op[v] = NoOp /\ pc[v] = "idle" /\ toAdd[v] = {}
    BY DEF Init
<1> QED  BY <1>1, <1>2, <1>3 DEF Init, TypeOK

\* The steps that a start can go on to.
LEMMA StartGoesOn ==
    ASSUME TypeOK, NEW v \in Volumes, op[v] \in Starts
    PROVE  /\ op[v] # NoOp
           /\ {"getTransports", "createTransport", "createSubsystem", "addNs", "addListener"}
                \subseteq StepsOf(op[v].name)
           /\ op[v].name = "Start" => "addHost" \in StepsOf(op[v].name)
           /\ op[v].name # "Start" => "setAnaState" \in StepsOf(op[v].name)
BY OperationKinds DEF StepsOf, Operations

LEMMA StopGoesOn ==
    ASSUME TypeOK, NEW v \in Volumes, op[v] \in StopExposeBdev
    PROVE  op[v] # NoOp /\ StepsOf(op[v].name) = StepsOf("Stop")
BY OperationKinds DEF StepsOf, Operations

LEMMA BeginKeepsTypes ==
    ASSUME TypeOK, NEW v \in Volumes, Begin(v)
    PROVE  TypeOK'
<1>1. PICK o \in Operations : op' = [op EXCEPT ![v] = o]
    BY RequestsAssumption DEF Begin
<1>2. op'[v] = o /\ op' \in [Volumes -> Operations \cup {NoOp}]
    BY <1>1 DEF TypeOK
<1>3. PICK s \in {"getSubsystems", "getTransports"} :
          pc' = [pc EXCEPT ![v] = s] /\ s \in StepsOf(o.name)
    <2>1. CASE o.name = "Stop"
        BY <1>2, <2>1 DEF Begin, StepsOf
    <2>2. CASE o.name # "Stop"
        BY <1>2, <2>2, OperationKinds DEF Begin, StepsOf, Operations
    <2> QED  BY <2>1, <2>2
<1>4. o # NoOp /\ s \in Steps
    BY <1>3, OperationKinds, StepsAreSteps
<1>5. PcType'
    BY <1>1, <1>3, <1>4 DEF PcType, TypeOK, Begin
<1>6. toAdd' \in [Volumes -> SUBSET Hosts]
    <2>1. o.name = "Start" => o.hosts \in SUBSET Hosts
        BY DEF Operations, Starts, StartExposeBdev, StartExposeBdevWithANAState,
           StopExposeBdev
    <2> QED  BY <1>2, <2>1 DEF Begin, TypeOK
<1> QED  BY <1>2, <1>5, <1>6 DEF Begin, TypeOK, PcType, target

LEMMA StartKeepsTypes ==
    ASSUME TypeOK, NEW v \in Volumes,
           \/ GetTransports(v) \/ CreateTransport(v)
           \/ CreateSubsystem(v) \/ AddHost(v) \/ AddNs(v)
           \/ AddListener(v) \/ SetANAState(v)
    PROVE  TypeOK'
<1> DEFINE Start == op[v] \in Starts
<1>1. Start
    BY PcTellsKind DEF GetTransports, CreateTransport, NvmfCreateTransport, CreateSubsystem,
       NvmfCreateSubsystem, Becomes, AddHost, NvmfSubsystemAddHost, AddNs, NvmfSubsystemAddNs,
       AddListener, NvmfSubsystemAddListener, SetANAState, NvmfSubsystemListenerSetANAState,
       HasListener, StepsOf
<1>2. /\ op[v] # NoOp
      /\ AllowedHosts(op[v]) \in SUBSET Hosts /\ WantedAnaState(op[v]) \in AnaStates
    BY <1>1, OperationKinds, StartGoesOn
<1>3. \A next \in StepsOf(op[v].name) \cup Ended : op' = op /\ Goto(v, next) => PcType'
    BY <1>2, GotoKeepsPcType
<1>4. "ok" \in Ended /\ "error" \in Ended
    BY DEF Ended
<1> HIDE DEF Start
<1> USE <1>1 DEF Start
<1>5. CASE GetTransports(v)
    <2>1. PcType'
        BY <1>3, <1>5, StartGoesOn DEF GetTransports
    <2> QED  BY <1>5, <2>1 DEF GetTransports, TypeOK, PcType, target, history
<1>6. CASE CreateTransport(v)
    <2>1. PcType'
        BY <1>3, <1>6, StartGoesOn DEF CreateTransport, NvmfCreateTransport
    <2> QED  BY <1>6, <2>1 DEF CreateTransport, NvmfCreateTransport, TypeOK, PcType, history
<1>7. CASE CreateSubsystem(v)
    <2>1. PcType'
        <3>1. CASE toAdd[v] = {}
            BY <1>3, <1>7, <3>1, StartGoesOn DEF CreateSubsystem, NvmfCreateSubsystem, Becomes
        <3>2. CASE op[v].name = "Start"
            BY <1>3, <1>7, <3>2, StartGoesOn DEF CreateSubsystem, NvmfCreateSubsystem, Becomes
        <3> QED  BY <3>1, <3>2 DEF TypeOK
    <2>2. NewSubsystem(op[v]) \in Subsystem
        BY DEF NewSubsystem, Subsystem
    <2> QED  BY <1>7, <2>1, <2>2 DEF CreateSubsystem, NvmfCreateSubsystem, Becomes, TypeOK,
            PcType, Operations
<1>8. CASE AddHost(v)
    <2>1. PICK h \in toAdd[v] :
              /\ subsystem' = [subsystem EXCEPT ![v].hosts = @ \cup {h}]
              /\ toAdd' = [toAdd EXCEPT ![v] = @ \ {h}]
              /\ Goto(v, IF toAdd[v] = {h} THEN "addNs" ELSE "addHost")
        BY <1>8 DEF AddHost, NvmfSubsystemAddHost, Becomes
    <2>2. op[v].name = "Start" /\ op' = op
        BY <1>8, PcTellsKind DEF AddHost, NvmfSubsystemAddHost, Becomes
    <2>3. PcType'
        BY <1>3, <2>1, <2>2, StartGoesOn
    <2>4. subsystem' \in [Volumes -> Subsystem \cup {None}]
        <3>1. subsystem[v] \in Subsystem /\ toAdd[v] \in SUBSET Hosts
            BY <1>8 DEF TypeOK, Exists, AddHost, NvmfSubsystemAddHost, Becomes
        <3>2. [subsystem[v] EXCEPT !.hosts = @ \cup {h}] \in Subsystem
            BY <3>1 DEF Subsystem
        <3> QED  BY <2>1, <3>2 DEF TypeOK
    <2>5. toAdd' \in [Volumes -> SUBSET Hosts] /\ \A u \in Volumes : toAdd'[u] \subseteq toAdd[u]
        BY <2>1 DEF TypeOK
    <2> QED  BY <1>8, <2>3, <2>4, <2>5 DEF AddHost, NvmfSubsystemAddHost, Becomes, TypeOK,
            PcType, history
<1>9. CASE AddNs(v)
    <2>1. PcType'
        BY <1>3, <1>9, StartGoesOn DEF AddNs, NvmfSubsystemAddNs, Becomes
    <2>2. subsystem' \in [Volumes -> Subsystem \cup {None}]
        BY <1>9 DEF TypeOK, Subsystem, Exists, AddNs, NvmfSubsystemAddNs, Becomes
    <2> QED  BY <1>9, <2>1, <2>2 DEF AddNs, NvmfSubsystemAddNs, Becomes, TypeOK, PcType,
            history
<1>10. CASE AddListener(v)
    <2>1. PcType'
        BY <1>3, <1>4, <1>10, StartGoesOn DEF AddListener, NvmfSubsystemAddListener, Becomes
    <2>2. subsystem' \in [Volumes -> Subsystem \cup {None}]
        BY <1>10, ExposeAssumption DEF TypeOK, Subsystem, Exists, AddListener,
           NvmfSubsystemAddListener, Becomes
    <2> QED  BY <1>10, <2>1, <2>2 DEF AddListener, NvmfSubsystemAddListener, Becomes, TypeOK,
            PcType, history
<1>11. CASE SetANAState(v)
    <2>1. PcType'
        BY <1>3, <1>4, <1>11, StartGoesOn DEF SetANAState, NvmfSubsystemListenerSetANAState,
           Becomes, HasListener
    <2>2. subsystem' \in [Volumes -> Subsystem \cup {None}]
        BY <1>2, <1>11 DEF TypeOK, Subsystem, Exists, SetANAState,
           NvmfSubsystemListenerSetANAState, Becomes, HasListener
    <2> QED  BY <1>11, <2>1, <2>2 DEF SetANAState, NvmfSubsystemListenerSetANAState, Becomes,
            HasListener, TypeOK, PcType, history
<1> QED  BY <1>5, <1>6, <1>7, <1>8, <1>9, <1>10, <1>11

LEMMA StopKeepsTypes ==
    ASSUME TypeOK, NEW v \in Volumes,
           \/ GetSubsystems(v) \/ GetListeners(v)
           \/ RemoveListener(v) \/ RemoveNs(v)
           \/ DeleteSubsystem(v)
    PROVE  TypeOK'
<1>1. op[v] \in StopExposeBdev
    BY PcTellsKind DEF GetSubsystems, GetListeners, RemoveListener,
       NvmfSubsystemRemoveListener, Becomes, HasListener, RemoveNs, NvmfSubsystemRemoveNs,
       DeleteSubsystem, NvmfDeleteSubsystem, StepsOf
<1>2. op[v] # NoOp /\ StepsOf(op[v].name) = StepsOf("Stop")
    BY <1>1, StopGoesOn
<1>3. \A next \in StepsOf("Stop") \cup {"ok"} : op' = op /\ Goto(v, next) => PcType'
    BY <1>2, GotoKeepsPcType DEF Ended
<1>4. AfterListeners(v) \in StepsOf("Stop") /\ {"getListeners", "removeListener"} \subseteq StepsOf("Stop")
    BY DEF AfterListeners, StepsOf
<1>5. CASE GetSubsystems(v)
    <2>1. PcType'
        BY <1>3, <1>4, <1>5 DEF GetSubsystems
    <2>2. (Exists(v) /\ subsystem[v].ns) \in BOOLEAN
        BY DEF TypeOK, Subsystem, Exists
    <2> QED  BY <1>5, <2>1, <2>2 DEF GetSubsystems, TypeOK, PcType, target, history
<1>6. CASE GetListeners(v)
    <2>1. PcType'
        BY <1>3, <1>4, <1>6 DEF GetListeners
    <2> QED  BY <1>6, <2>1 DEF GetListeners, TypeOK, PcType, target, history
<1>7. CASE RemoveListener(v)
    <2>1. PcType'
        BY <1>3, <1>4, <1>7 DEF RemoveListener, NvmfSubsystemRemoveListener, Becomes,
           HasListener
    <2>2. subsystem' \in [Volumes -> Subsystem \cup {None}]
        BY <1>7 DEF TypeOK, Subsystem, Exists, RemoveListener, NvmfSubsystemRemoveListener,
           Becomes, HasListener
    <2> QED  BY <1>7, <2>1, <2>2 DEF RemoveListener, NvmfSubsystemRemoveListener, Becomes,
            HasListener, TypeOK, PcType, history
<1>8. CASE RemoveNs(v)
    <2>1. PcType'
        BY <1>3, <1>8 DEF RemoveNs, NvmfSubsystemRemoveNs, Becomes, StepsOf
    <2>2. subsystem' \in [Volumes -> Subsystem \cup {None}]
        <3>1. subsystem[v] \in Subsystem
            BY <1>8 DEF TypeOK, Exists, RemoveNs, NvmfSubsystemRemoveNs, Becomes
        <3>2. [subsystem[v] EXCEPT !.ns = FALSE] \in Subsystem
            BY <3>1 DEF Subsystem
        <3> QED  BY <1>8, <3>2 DEF TypeOK, RemoveNs, NvmfSubsystemRemoveNs, Becomes
    <2> QED  BY <1>8, <2>1, <2>2 DEF RemoveNs, NvmfSubsystemRemoveNs, Becomes, TypeOK, PcType,
            history
<1>9. CASE DeleteSubsystem(v)
    <2>1. PcType'
        BY <1>3, <1>9 DEF DeleteSubsystem, NvmfDeleteSubsystem, Becomes
    <2> QED  BY <1>9, <2>1 DEF DeleteSubsystem, NvmfDeleteSubsystem, Becomes, TypeOK, PcType
<1> QED  BY <1>5, <1>6, <1>7, <1>8, <1>9

LEMMA EnvironmentKeepsTypes ==
    ASSUME TypeOK, NEW v \in Volumes,
           \/ Leave(v) \/ CommandFails(v) \/ BdevRemoved(v) \/ BdevAppears(v) \/ SpdkRestart
    PROVE  TypeOK'
<1>1. CASE Leave(v)
    <2>1. op'[v] = NoOp /\ NoOp.name # "Start" /\ op' \in [Volumes -> Operations \cup {NoOp}]
        BY <1>1 DEF Leave, TypeOK, NoOp
    <2>2. toAdd' \in [Volumes -> SUBSET Hosts] /\ toAdd'[v] = {}
        BY <1>1 DEF Leave, TypeOK
    <2>3. listed' \in [Volumes -> [listener : BOOLEAN, ns : BOOLEAN]]
        BY <1>1 DEF Leave, TypeOK, NoLists
    <2>4. PcType'
        BY <1>1, <2>1 DEF Leave, TypeOK, PcType
    <2> QED  BY <1>1, <2>1, <2>2, <2>3, <2>4 DEF Leave, TypeOK, PcType, target
<1>2. CASE CommandFails(v)
    <2>1. op[v] # NoOp
        BY <1>2 DEF CommandFails, TypeOK, Steps, StepsOf
    <2>2. PcType'
        BY <1>2, <2>1 DEF CommandFails, TypeOK, PcType, Ended
    <2> QED  BY <1>2, <2>2 DEF CommandFails, TypeOK, PcType, target, history
<1>3. CASE BdevRemoved(v)
    <2>1. subsystem' \in [Volumes -> Subsystem \cup {None}]
        <3>1. CASE Exists(v)
            <4>1. subsystem[v] \in Subsystem
                BY <3>1 DEF TypeOK, Exists
            <4>2. [subsystem[v] EXCEPT !.ns = FALSE] \in Subsystem
                BY <4>1 DEF Subsystem
            <4> QED  BY <1>3, <3>1, <4>2 DEF TypeOK, BdevRemoved
        <3> QED  BY <1>3, <3>1 DEF TypeOK, BdevRemoved
    <2> QED  BY <1>3, <2>1 DEF BdevRemoved, TypeOK
<1>4. CASE BdevAppears(v)
    BY <1>4 DEF BdevAppears, TypeOK, history
<1>5. CASE SpdkRestart
    BY <1>5 DEF SpdkRestart, TypeOK
<1> QED  BY <1>1, <1>2, <1>3, <1>4, <1>5

LEMMA TypeNext == TypeOK /\ [Next]_vars => TypeOK'
<1> SUFFICES ASSUME TypeOK, [Next]_vars PROVE TypeOK'
    OBVIOUS
<1>1. CASE UNCHANGED vars
    BY <1>1 DEF vars, target, history, TypeOK
<1>2. CASE SpdkRestart
    <2>1. CASE Volumes = {}
        BY <1>2, <2>1 DEF SpdkRestart, TypeOK
    <2> QED  BY <1>2, <2>1, EnvironmentKeepsTypes
<1>3. CASE \E v \in Volumes : Begin(v)
    BY <1>3, BeginKeepsTypes
<1> QED  BY <1>1, <1>2, <1>3, StartKeepsTypes, StopKeepsTypes, EnvironmentKeepsTypes DEF Next

\* Every variable of the model keeps its type, and the operation on a volume is always
\* at a command of its own kind: pkg/spdk/client/advanced.go never goes from a start
\* into the commands of another.
THEOREM TypeCorrect == Spec => []TypeOK
BY TypeInit, TypeNext, PTL DEF Spec
-----------------------------------------------------------------------------
LEMMA InvInit == Init => Inv
<1> SUFFICES ASSUME Init PROVE Inv
    OBVIOUS
<1>1. ASSUME NEW v \in Volumes
      PROVE  VolumeInv(v)
    <2>1. subsystem[v] = None /\ op[v] = NoOp /\ pc[v] = "idle" /\ v \notin fresh
        BY DEF Init
    <2>2. NoOp \notin Starts /\ NoOp \notin StopExposeBdev
        BY OperationKinds DEF Operations
    <2> QED  BY <2>1, <2>2 DEF VolumeInv, Complete, Built, OnTrack, Exists
<1> QED  BY <1>1, TypeInit DEF Inv

\* To keep the invariant a step for v need only spare the others and keep that of v.
LEMMA OwnSuffices ==
    ASSUME Inv, TypeOK', NEW v \in Volumes,
           \A u \in Volumes \ {v} : Spared(u), VolumeInv(v)'
    PROVE  Inv'
<1>1. ASSUME NEW u \in Volumes
      PROVE  VolumeInv(u)'
    <2>1. CASE u = v
        BY <2>1
    <2>2. CASE u # v
        BY <2>2, SparedKeepsInv DEF Inv
    <2> QED  BY <2>1, <2>2
<1> QED  BY <1>1 DEF Inv

LEMMA BeginKeepsInv ==
    ASSUME Inv, NEW v \in Volumes, Begin(v)
    PROVE  Inv'
<1>1. TypeOK /\ VolumeInv(v)
    BY DEF Inv
<1>2. TypeOK'
    BY <1>1, BeginKeepsTypes
<1>3. PICK o \in Operations : op' = [op EXCEPT ![v] = o]
    BY RequestsAssumption DEF Begin
<1>4. \A u \in Volumes \ {v} : Spared(u)
    BY <1>1, <1>3 DEF Begin, Spared, TypeOK, target
<1>5. op[v] = NoOp /\ op'[v] = o /\ v \notin fresh
    BY <1>1, <1>3 DEF Begin, TypeOK, VolumeInv, OnTrack
<1>6. /\ subsystem' = subsystem /\ wanted' = wanted /\ lost' = lost /\ bdevs' = bdevs
      /\ v \in fresh' => v \in bdevs /\ ~Exists(v)
      /\ toAdd'[v] = IF o.name = "Start" THEN o.hosts ELSE {}
      /\ pc'[v] = IF o.name = "Stop" THEN "getSubsystems" ELSE "getTransports"
    BY <1>1, <1>5 DEF Begin, target, TypeOK
<1>7. o # NoOp /\ (o \in Starts => o.name # "Stop") /\ (o \in StopExposeBdev => o.name = "Stop")
    BY OperationKinds
<1>8. o \in Starts => toAdd'[v] = AllowedHosts(o)
    BY <1>6 DEF AllowedHosts
<1>9. Complete(v)'
    BY <1>1, <1>6 DEF VolumeInv, Complete, Exists
<1>10. Built(v)'
    BY <1>5, <1>6, <1>8 DEF Built, BeforeCreate
<1>11. OnTrack(v)'
    BY <1>5, <1>6, <1>7 DEF OnTrack, StartOnTrack, StopOnTrack, Exists
<1> QED  BY <1>2, <1>4, <1>9, <1>10, <1>11, OwnSuffices DEF VolumeInv

\* What a command of a start leaves to show.
LEMMA StartKeepsInv ==
    ASSUME Inv, NEW v \in Volumes,
           \/ GetTransports(v) \/ CreateTransport(v)
           \/ CreateSubsystem(v) \/ AddHost(v) \/ AddNs(v)
           \/ AddListener(v) \/ SetANAState(v)
    PROVE  Inv'
<1>1. TypeOK /\ VolumeInv(v)
    BY DEF Inv
<1>2. TypeOK'
    BY <1>1, StartKeepsTypes
<1>3. op[v] \in Starts
    BY <1>1, PcTellsKind DEF GetTransports, CreateTransport, NvmfCreateTransport,
       CreateSubsystem, NvmfCreateSubsystem, Becomes, AddHost, NvmfSubsystemAddHost, AddNs,
       NvmfSubsystemAddNs, AddListener, NvmfSubsystemAddListener, SetANAState,
       NvmfSubsystemListenerSetANAState, HasListener, StepsOf
<1>4. /\ op[v] # NoOp /\ op[v] \notin StopExposeBdev
      /\ AllowedHosts(op[v]) \in SUBSET Hosts
      /\ WantedAnaState(op[v]) \in AnaStates
    BY <1>3, OperationKinds, StartGoesOn, <1>1
<1>5. None \notin AnaStates /\ Optimized # None
    BY ExposeAssumption
<1> USE DEF VolumeInv
<1>6. CASE GetTransports(v)
    <2>1. \A u \in Volumes \ {v} : Spared(u)
        BY <1>1, <1>6 DEF GetTransports, Goto, Spared, TypeOK, target, history
    <2>2. Complete(v)' /\ Built(v)'
        BY <1>1, <1>6 DEF GetTransports, Goto, Complete, Built, BeforeCreate, Exists,
           TypeOK, target, history
    <2>3. OnTrack(v)'
        BY <1>1, <1>3, <1>4, <1>6 DEF GetTransports, Goto, OnTrack, StartOnTrack,
           BeforeCreate, Exists, TypeOK, target, history
    <2> QED  BY <1>2, <2>1, <2>2, <2>3, OwnSuffices
<1>7. CASE CreateTransport(v)
    <2>1. \A u \in Volumes \ {v} : Spared(u)
        BY <1>1, <1>7 DEF CreateTransport, NvmfCreateTransport, Goto, Spared, TypeOK, history
    <2>2. Complete(v)' /\ Built(v)'
        BY <1>1, <1>7 DEF CreateTransport, NvmfCreateTransport, Goto, Complete, Built,
           BeforeCreate, Exists, TypeOK, history
    <2>3. OnTrack(v)'
        BY <1>1, <1>3, <1>4, <1>7 DEF CreateTransport, NvmfCreateTransport, Goto, OnTrack,
           StartOnTrack, BeforeCreate, Exists, TypeOK, history
    <2> QED  BY <1>2, <2>1, <2>2, <2>3, OwnSuffices
<1>8. CASE CreateSubsystem(v)
    <2>1. \A u \in Volumes \ {v} : Spared(u)
        BY <1>1, <1>8 DEF CreateSubsystem, NvmfCreateSubsystem, Becomes, Goto, Spared, TypeOK
    <2>2. /\ subsystem'[v] = NewSubsystem(op[v]) /\ wanted'[v] = op[v] /\ op'[v] = op[v]
          /\ toAdd' = toAdd /\ toAdd[v] = AllowedHosts(op[v])
        BY <1>1, <1>3, <1>8 DEF CreateSubsystem, NvmfCreateSubsystem, Becomes, Built,
           BeforeCreate, TypeOK
    <2>3. NewSubsystem(op[v]) # None
        <3>1. NewSubsystem(op[v]) \in Subsystem
            BY DEF NewSubsystem, Subsystem
        <3> QED  BY <3>1, SubsystemAssumption
    <2>4. /\ subsystem'[v].anyHost <=> AllowedHosts(op[v]) = {}
          /\ subsystem'[v].hosts = {} /\ subsystem'[v].listener = None
        <3>1. NewSubsystem(op[v]).anyHost = (AllowedHosts(op[v]) = {})
            BY DEF NewSubsystem
        <3>2. NewSubsystem(op[v]).hosts = {} /\ NewSubsystem(op[v]).listener = None
            BY DEF NewSubsystem
        <3> QED  BY <2>2, <3>1, <3>2
    <2>5. pc'[v] \in {"addHost", "addNs", "error"} /\ (pc'[v] = "addNs" => toAdd[v] = {})
        BY <1>1, <1>8 DEF CreateSubsystem, NvmfCreateSubsystem, Becomes, Goto, TypeOK
    <2>6. Complete(v)' /\ Built(v)'
        BY <2>2, <2>4, <2>5 DEF Complete, Built, BeforeCreate
    <2>7. StartOnTrack(v) /\ v \notin fault' => StartOnTrack(v)'
        BY <1>1, <1>8, <2>2, <2>3, <2>5
           DEF CreateSubsystem, NvmfCreateSubsystem, Becomes, Goto, StartOnTrack,
           BeforeCreate, Exists, TypeOK
    <2>8. OnTrack(v)'
        BY <1>1, <1>3, <1>4, <1>8, <2>2, <2>7 DEF CreateSubsystem, NvmfCreateSubsystem,
           Becomes, Goto, OnTrack
    <2> QED  BY <1>2, <2>1, <2>6, <2>8, OwnSuffices
<1>9. CASE AddHost(v)
    <2>1. PICK h \in toAdd[v] :
              /\ subsystem' = [subsystem EXCEPT ![v].hosts = @ \cup {h}]
              /\ toAdd' = [toAdd EXCEPT ![v] = @ \ {h}]
              /\ Goto(v, IF toAdd[v] = {h} THEN "addNs" ELSE "addHost")
        BY <1>9 DEF AddHost, NvmfSubsystemAddHost, Becomes
    <2>2. \A u \in Volumes \ {v} : Spared(u)
        BY <1>1, <1>9, <2>1 DEF AddHost, NvmfSubsystemAddHost, Becomes, Goto, Spared, TypeOK,
           history
    <2>3. subsystem[v] \in Subsystem
        BY <1>1, <1>9 DEF AddHost, NvmfSubsystemAddHost, Becomes, Exists, TypeOK
    <2>4. /\ subsystem'[v] = [subsystem[v] EXCEPT !.hosts = subsystem[v].hosts \cup {h}]
          /\ toAdd'[v] = toAdd[v] \ {h} /\ op' = op /\ wanted' = wanted /\ lost' = lost
        BY <1>1, <1>9, <2>1 DEF AddHost, NvmfSubsystemAddHost, Becomes, TypeOK, history
    <2>5. /\ subsystem'[v].anyHost = subsystem[v].anyHost
          /\ subsystem'[v].hosts = subsystem[v].hosts \cup {h}
          /\ subsystem'[v].ns = subsystem[v].ns
          /\ subsystem'[v].listener = subsystem[v].listener
        BY <2>3, <2>4 DEF Subsystem
    <2>6. /\ pc'[v] \in {"addHost", "addNs", "error"}
          /\ pc'[v] = "addNs" => toAdd'[v] = {}
        BY <1>1, <2>1, <2>4 DEF Goto, TypeOK
    <2>7. subsystem'[v].hosts \cup toAdd'[v] = subsystem[v].hosts \cup toAdd[v]
        BY <2>4, <2>5
    <2>8. subsystem[v].listener = None /\ Exists(v) /\ pc[v] = "addHost"
        BY <1>1, <1>9 DEF AddHost, NvmfSubsystemAddHost, Becomes, Built
    <2>9. Complete(v)' /\ Built(v)'
        BY <1>1, <2>4, <2>5, <2>6, <2>7, <2>8 DEF Complete, Built, BeforeCreate
    <2>10. subsystem'[v] # None
        <3>1. h \in Hosts
            BY <1>1 DEF TypeOK
        <3>2. [subsystem[v] EXCEPT !.hosts = subsystem[v].hosts \cup {h}] \in Subsystem
            BY <2>3, <3>1 DEF Subsystem
        <3> QED  BY <2>4, <3>2, SubsystemAssumption
    <2>11. StartOnTrack(v) /\ v \notin fault' => StartOnTrack(v)'
        BY <1>1, <1>9, <2>1, <2>6, <2>10
           DEF AddHost, NvmfSubsystemAddHost, Becomes, Goto, StartOnTrack, BeforeCreate,
           Exists, TypeOK, history
    <2>12. OnTrack(v)'
        BY <1>1, <1>3, <1>4, <1>9, <2>1, <2>11 DEF AddHost, NvmfSubsystemAddHost, Becomes,
           Goto, OnTrack, history
    <2> QED  BY <1>2, <2>2, <2>9, <2>12, OwnSuffices
<1>10. CASE AddNs(v)
    <2>1. \A u \in Volumes \ {v} : Spared(u)
        BY <1>1, <1>10 DEF AddNs, NvmfSubsystemAddNs, Becomes, Goto, Spared, TypeOK, history
    <2>2. subsystem[v] \in Subsystem /\ pc[v] = "addNs" /\ Exists(v)
        BY <1>1, <1>10 DEF AddNs, NvmfSubsystemAddNs, Becomes, Exists, TypeOK
    <2>3. subsystem'[v] = [subsystem[v] EXCEPT !.ns = TRUE]
        BY <1>1, <1>10 DEF AddNs, NvmfSubsystemAddNs, Becomes, TypeOK
    <2>4. subsystem'[v] \in Subsystem /\ subsystem'[v] # None
        BY <2>2, <2>3, SubsystemAssumption DEF Subsystem
    <2>5. /\ subsystem'[v].anyHost = subsystem[v].anyHost
          /\ subsystem'[v].hosts = subsystem[v].hosts
          /\ subsystem'[v].ns
          /\ subsystem'[v].listener = subsystem[v].listener
        BY <2>2, <2>3 DEF Subsystem
    <2>6. pc'[v] \in {"addListener", "error"}
        BY <1>1, <1>10 DEF AddNs, NvmfSubsystemAddNs, Becomes, Goto, TypeOK
    <2>7. Complete(v)' /\ Built(v)'
        BY <1>1, <1>10, <2>2, <2>5, <2>6 DEF AddNs, NvmfSubsystemAddNs, Becomes, Complete,
           Built, BeforeCreate, history
    <2>8. StartOnTrack(v) /\ v \notin fault' => StartOnTrack(v)'
        BY <1>1, <1>10, <2>4, <2>5, <2>6
           DEF AddNs, NvmfSubsystemAddNs, Becomes, Goto, StartOnTrack, BeforeCreate, Exists,
           TypeOK, history
    <2>9. OnTrack(v)'
        BY <1>1, <1>3, <1>4, <1>10, <2>8 DEF AddNs, NvmfSubsystemAddNs, Becomes, Goto,
           OnTrack, history
    <2> QED  BY <1>2, <2>1, <2>7, <2>9, OwnSuffices
<1>11. CASE AddListener(v)
    <2>1. \A u \in Volumes \ {v} : Spared(u)
        BY <1>1, <1>11 DEF AddListener, NvmfSubsystemAddListener, Becomes, Goto, Spared,
           TypeOK, history
    <2>2. subsystem[v] \in Subsystem /\ pc[v] = "addListener" /\ Exists(v)
        BY <1>1, <1>11 DEF AddListener, NvmfSubsystemAddListener, Becomes, Exists, TypeOK
    <2>3. subsystem'[v] = [subsystem[v] EXCEPT !.listener = Optimized]
        BY <1>1, <1>11 DEF AddListener, NvmfSubsystemAddListener, Becomes, TypeOK
    <2>4. subsystem'[v] \in Subsystem /\ subsystem'[v] # None
        BY <2>2, <2>3, ExposeAssumption, SubsystemAssumption DEF Subsystem
    <2>5. /\ subsystem'[v].anyHost = subsystem[v].anyHost
          /\ subsystem'[v].hosts = subsystem[v].hosts
          /\ subsystem'[v].ns = subsystem[v].ns
          /\ subsystem'[v].listener = Optimized
        BY <2>2, <2>3 DEF Subsystem
    <2>6. /\ pc'[v] \in {"ok", "setAnaState", "error"}
          /\ pc'[v] = "ok" => op[v].name = "Start"
        BY <1>1, <1>11 DEF AddListener, NvmfSubsystemAddListener, Becomes, Goto, TypeOK
    <2>7. Complete(v)' /\ Built(v)'
        BY <1>1, <1>5, <1>11, <2>2, <2>5, <2>6 DEF AddListener, NvmfSubsystemAddListener,
           Becomes, Complete, Built, BeforeCreate, history
    <2>8. pc'[v] = "ok" => WantedAnaState(op[v]) = Optimized
        BY <2>6 DEF WantedAnaState
    <2>9. StartOnTrack(v) /\ v \notin fault' => StartOnTrack(v)'
        BY <1>1, <1>11, <2>2, <2>4, <2>5, <2>6, <2>8
           DEF AddListener, NvmfSubsystemAddListener, Becomes, Goto, StartOnTrack,
           BeforeCreate, Built, Exists, TypeOK, history
    <2>10. OnTrack(v)'
        BY <1>1, <1>3, <1>4, <1>11, <2>9 DEF AddListener, NvmfSubsystemAddListener, Becomes,
           Goto, OnTrack, history
    <2> QED  BY <1>2, <2>1, <2>7, <2>10, OwnSuffices
<1>12. CASE SetANAState(v)
    <2>1. \A u \in Volumes \ {v} : Spared(u)
        BY <1>1, <1>12 DEF SetANAState, NvmfSubsystemListenerSetANAState, Becomes,
           HasListener, Goto, Spared, TypeOK, history
    <2>2. subsystem[v] \in Subsystem /\ pc[v] = "setAnaState" /\ Exists(v)
        BY <1>1, <1>12 DEF SetANAState, NvmfSubsystemListenerSetANAState, Becomes,
           HasListener, Exists, TypeOK
    <2>3. subsystem'[v] = [subsystem[v] EXCEPT !.listener = WantedAnaState(op[v])]
        BY <1>1, <1>12 DEF SetANAState, NvmfSubsystemListenerSetANAState, Becomes,
           HasListener, TypeOK
    <2>4. subsystem'[v] \in Subsystem /\ subsystem'[v] # None
        BY <1>4, <2>2, <2>3, SubsystemAssumption DEF Subsystem
    <2>5. /\ subsystem'[v].anyHost = subsystem[v].anyHost
          /\ subsystem'[v].hosts = subsystem[v].hosts
          /\ subsystem'[v].ns = subsystem[v].ns
          /\ subsystem'[v].listener = WantedAnaState(op[v])
        BY <2>2, <2>3 DEF Subsystem
    <2>6. pc'[v] \in {"ok", "error"}
        BY <1>1, <1>12 DEF SetANAState, NvmfSubsystemListenerSetANAState, Becomes,
           HasListener, Goto, TypeOK
    <2>7. Complete(v)' /\ Built(v)'
        BY <1>1, <1>12, <2>2, <2>5, <2>6 DEF SetANAState, NvmfSubsystemListenerSetANAState,
           Becomes, HasListener, Complete, Built, BeforeCreate, history
    <2>8. StartOnTrack(v) /\ v \notin fault' => StartOnTrack(v)'
        BY <1>1, <1>12, <2>2, <2>4, <2>5, <2>6
           DEF SetANAState, NvmfSubsystemListenerSetANAState, Becomes, HasListener, Goto,
           StartOnTrack, BeforeCreate, Built, Exists, TypeOK, history
    <2>9. OnTrack(v)'
        BY <1>1, <1>3, <1>4, <1>12, <2>8 DEF SetANAState, NvmfSubsystemListenerSetANAState,
           Becomes, HasListener, Goto, OnTrack, history
    <2> QED  BY <1>2, <2>1, <2>7, <2>9, OwnSuffices
<1> QED  BY <1>6, <1>7, <1>8, <1>9, <1>10, <1>11, <1>12

LEMMA StopKeepsInv ==
    ASSUME Inv, NEW v \in Volumes,
           \/ GetSubsystems(v) \/ GetListeners(v)
           \/ RemoveListener(v) \/ RemoveNs(v)
           \/ DeleteSubsystem(v)
    PROVE  Inv'
<1>1. TypeOK /\ VolumeInv(v)
    BY DEF Inv
<1>2. TypeOK'
    BY <1>1, StopKeepsTypes
<1>3. op[v] \in StopExposeBdev
    BY <1>1, PcTellsKind DEF GetSubsystems, GetListeners, RemoveListener,
       NvmfSubsystemRemoveListener, Becomes, HasListener, RemoveNs, NvmfSubsystemRemoveNs,
       DeleteSubsystem, NvmfDeleteSubsystem, StepsOf
<1>4. op[v] # NoOp /\ op[v] \notin Starts
    BY <1>1, <1>3, OperationKinds, StopGoesOn
<1> USE DEF VolumeInv
<1>5. CASE GetSubsystems(v)
    <2>1. \A u \in Volumes \ {v} : Spared(u)
        BY <1>1, <1>5 DEF GetSubsystems, Goto, Spared, TypeOK, target, history
    <2>2. Complete(v)' /\ Built(v)'
        BY <1>1, <1>4, <1>5 DEF GetSubsystems, Goto, Complete, Built, BeforeCreate, Exists,
           TypeOK, target, history
    <2>3. listed'[v].ns = (Exists(v) /\ subsystem[v].ns)
        BY <1>1, <1>5 DEF GetSubsystems, TypeOK
    <2>4. v \notin fault' => StopOnTrack(v)'
        BY <1>1, <1>5, <2>3 DEF GetSubsystems, Goto, StopOnTrack, Exists, TypeOK, target
    <2>5. OnTrack(v)'
        BY <1>4, <1>5, <2>4 DEF GetSubsystems, OnTrack
    <2> QED  BY <1>2, <2>1, <2>2, <2>5, OwnSuffices
<1>6. CASE GetListeners(v)
    <2>1. \A u \in Volumes \ {v} : Spared(u)
        BY <1>1, <1>6 DEF GetListeners, Goto, Spared, TypeOK, target, history
    <2>2. Complete(v)' /\ Built(v)'
        BY <1>1, <1>4, <1>6 DEF GetListeners, AfterListeners, Goto, Complete, Built,
           BeforeCreate, Exists, TypeOK, target, history
    <2>3. listed'[v].ns = listed[v].ns
        BY <1>1, <1>6 DEF GetListeners, TypeOK
    <2>4. v \notin fault' => StopOnTrack(v)'
        BY <1>1, <1>3, <1>6, <2>3 DEF GetListeners, AfterListeners, Goto, OnTrack,
           StopOnTrack, Exists, TypeOK, target
    <2>5. OnTrack(v)'
        BY <1>4, <1>6, <2>4 DEF GetListeners, OnTrack
    <2> QED  BY <1>2, <2>1, <2>2, <2>5, OwnSuffices
<1>7. CASE RemoveListener(v)
    <2>1. \A u \in Volumes \ {v} : Spared(u)
        BY <1>1, <1>7 DEF RemoveListener, NvmfSubsystemRemoveListener, Becomes, HasListener,
           Goto, Spared, TypeOK, history
    <2>2. subsystem[v] \in Subsystem /\ pc[v] = "removeListener"
        BY <1>1, <1>7 DEF RemoveListener, NvmfSubsystemRemoveListener, Becomes, HasListener,
           Exists, TypeOK
    <2>3. subsystem'[v] = [subsystem[v] EXCEPT !.listener = None]
        BY <1>1, <1>7 DEF RemoveListener, NvmfSubsystemRemoveListener, Becomes, HasListener,
           TypeOK
    <2>4. subsystem'[v] \in Subsystem /\ subsystem'[v] # None
        BY <2>2, <2>3, SubsystemAssumption DEF Subsystem
    <2>5. subsystem'[v].ns = subsystem[v].ns /\ subsystem'[v].listener = None
        BY <2>2, <2>3 DEF Subsystem
    <2>6. pc'[v] \in {AfterListeners(v), "error"} /\ AfterListeners(v) \in {"removeNs", "deleteSubsystem"}
        BY <1>1, <1>7 DEF RemoveListener, NvmfSubsystemRemoveListener, Becomes, HasListener,
           Goto, TypeOK, AfterListeners
    <2>7. Complete(v)' /\ Built(v)'
        BY <1>4, <1>7, <2>5, <2>6 DEF RemoveListener, NvmfSubsystemRemoveListener, Becomes,
           HasListener, Complete, Built
    <2>8. v \notin fault' => StopOnTrack(v)'
        BY <1>1, <1>3, <1>7, <2>2, <2>4, <2>5 DEF RemoveListener, NvmfSubsystemRemoveListener,
           Becomes, HasListener, AfterListeners, Goto, OnTrack, StopOnTrack, Exists, TypeOK
    <2>9. OnTrack(v)'
        BY <1>4, <1>7, <2>8 DEF RemoveListener, NvmfSubsystemRemoveListener, Becomes,
           HasListener, OnTrack
    <2> QED  BY <1>2, <2>1, <2>7, <2>9, OwnSuffices
<1>8. CASE RemoveNs(v)
    <2>1. \A u \in Volumes \ {v} : Spared(u)
        BY <1>1, <1>8 DEF RemoveNs, NvmfSubsystemRemoveNs, Becomes, Goto, Spared, TypeOK,
           history
    <2>2. subsystem[v] \in Subsystem /\ pc[v] = "removeNs" /\ Exists(v)
        BY <1>1, <1>8 DEF RemoveNs, NvmfSubsystemRemoveNs, Becomes, Exists, TypeOK
    <2>3. subsystem'[v] = [subsystem[v] EXCEPT !.ns = FALSE]
        BY <1>1, <1>8 DEF RemoveNs, NvmfSubsystemRemoveNs, Becomes, TypeOK
    <2>4. [subsystem[v] EXCEPT !.ns = FALSE] \in Subsystem
        BY <2>2 DEF Subsystem
    <2>5. subsystem'[v] # None
        BY <2>3, <2>4, SubsystemAssumption
    <2>6. subsystem'[v].listener = subsystem[v].listener
        BY <2>2, <2>3 DEF Subsystem
    <2>7. pc'[v] \in {"deleteSubsystem", "error"}
        BY <1>1, <1>8 DEF RemoveNs, NvmfSubsystemRemoveNs, Becomes, Goto, TypeOK
    <2>8. Complete(v)' /\ Built(v)'
        BY <1>1, <1>4, <1>8, <2>2, <2>6, <2>7 DEF RemoveNs, NvmfSubsystemRemoveNs, Becomes,
           Complete, Built
    <2>9. v \notin fault' => StopOnTrack(v)'
        BY <1>1, <1>3, <1>8, <2>5, <2>7 DEF RemoveNs, NvmfSubsystemRemoveNs, Becomes, Goto,
           StopOnTrack, Exists, TypeOK
    <2>10. OnTrack(v)'
        BY <1>4, <1>8, <2>9 DEF RemoveNs, NvmfSubsystemRemoveNs, Becomes, OnTrack
    <2> QED  BY <1>2, <2>1, <2>8, <2>10, OwnSuffices
<1>9. CASE DeleteSubsystem(v)
    <2>1. \A u \in Volumes \ {v} : Spared(u)
        BY <1>1, <1>9 DEF DeleteSubsystem, NvmfDeleteSubsystem, Becomes, Goto, Spared, TypeOK
    <2>2. subsystem'[v] = None /\ pc'[v] \in {"ok", "error"}
        BY <1>1, <1>9 DEF DeleteSubsystem, NvmfDeleteSubsystem, Becomes, Goto, TypeOK
    <2>3. Complete(v)' /\ Built(v)'
        BY <1>4, <1>9, <2>2 DEF DeleteSubsystem, NvmfDeleteSubsystem, Becomes, Complete,
           Built, BeforeCreate, Exists
    <2>4. v \notin fault' => StopOnTrack(v)'
        BY <1>1, <1>9, <2>2 DEF DeleteSubsystem, NvmfDeleteSubsystem, Becomes, Goto,
           StopOnTrack, Exists, TypeOK
    <2>5. OnTrack(v)'
        BY <1>4, <1>9, <2>4 DEF DeleteSubsystem, NvmfDeleteSubsystem, Becomes, OnTrack
    <2> QED  BY <1>2, <2>1, <2>3, <2>5, OwnSuffices
<1> QED  BY <1>5, <1>6, <1>7, <1>8, <1>9

LEMMA LeaveKeepsInv ==
    ASSUME Inv, NEW v \in Volumes, Leave(v)
    PROVE  Inv'
<1>1. TypeOK /\ VolumeInv(v)
    BY DEF Inv
<1>2. TypeOK'
    BY <1>1, EnvironmentKeepsTypes
<1>3. \A u \in Volumes \ {v} : Spared(u)
    BY <1>1 DEF Leave, Spared, TypeOK, target
<1>4. op'[v] = NoOp /\ pc'[v] = "idle" /\ v \notin fresh'
    BY <1>1 DEF Leave, TypeOK
<1>5. NoOp \notin Starts /\ NoOp \notin StopExposeBdev
    BY OperationKinds DEF Operations
<1>6. Complete(v)' /\ Built(v)' /\ OnTrack(v)'
    BY <1>1, <1>4, <1>5 DEF Leave, VolumeInv, Complete, Built, OnTrack, Exists, target
<1> QED  BY <1>2, <1>3, <1>6, OwnSuffices DEF VolumeInv

\* On its way an operation comes to no command that the target would refuse.
LEMMA OnTrackWorks ==
    ASSUME Inv, NEW v \in Volumes, v \notin fault, pc[v] \in Steps,
           v \in fresh \/ op[v] \in StopExposeBdev
    PROVE  Works(v)
<1>1. TypeOK /\ VolumeInv(v)
    BY DEF Inv
<1>2. CASE op[v] \in Starts
    <2>1. StartOnTrack(v) /\ v \in fresh /\ pc[v] \notin StepsOf("Stop")
        BY <1>1, <1>2, PcTellsKind, OperationKinds DEF VolumeInv, OnTrack
    <2>2. pc[v] = "setAnaState" => subsystem[v].listener # None
        BY <1>1, <2>1 DEF VolumeInv, Built, StartOnTrack
    <2> QED  BY <2>1, <2>2 DEF StartOnTrack, BeforeCreate, Works, HasListener, StepsOf, Steps
<1>3. CASE op[v] \in StopExposeBdev
    <2>1. StopOnTrack(v) /\ pc[v] \in StepsOf("Stop")
        BY <1>1, <1>3, PcTellsKind, OperationKinds DEF VolumeInv, OnTrack, Steps
    <2> QED  BY <2>1 DEF StopOnTrack, Works, HasListener, StepsOf
<1>4. op[v] # NoOp
    BY <1>1 DEF TypeOK, Steps, StepsOf
<1> QED  BY <1>1, <1>2, <1>3, <1>4 DEF TypeOK, Operations

LEMMA CommandFailsKeepsInv ==
    ASSUME Inv, NEW v \in Volumes, CommandFails(v)
    PROVE  Inv'
<1>1. TypeOK /\ VolumeInv(v)
    BY DEF Inv
<1>2. TypeOK'
    BY <1>1, EnvironmentKeepsTypes
<1>3. \A u \in Volumes \ {v} : Spared(u)
    BY <1>1 DEF CommandFails, Spared, TypeOK, target, history
<1>4. pc'[v] = "error"
    BY <1>1 DEF CommandFails, TypeOK
<1>5. v \notin fault' => v \notin fault /\ v \notin fresh /\ op[v] \notin StopExposeBdev
    BY OnTrackWorks DEF CommandFails
<1>6. Complete(v)' /\ Built(v)'
    BY <1>1, <1>4 DEF CommandFails, VolumeInv, Complete, Built, BeforeCreate, Exists, target,
       history
<1>7. OnTrack(v)'
    BY <1>1, <1>4, <1>5 DEF CommandFails, VolumeInv, OnTrack, StartOnTrack, BeforeCreate,
       Exists, target, history
<1> QED  BY <1>2, <1>3, <1>6, <1>7, OwnSuffices DEF VolumeInv

LEMMA BdevRemovedKeepsInv ==
    ASSUME Inv, NEW v \in Volumes, BdevRemoved(v)
    PROVE  Inv'
<1>1. TypeOK /\ VolumeInv(v)
    BY DEF Inv
<1>2. TypeOK'
    BY <1>1, EnvironmentKeepsTypes
<1>3. \A u \in Volumes \ {v} : Spared(u)
    BY <1>1 DEF BdevRemoved, Spared, TypeOK
<1>4. /\ op[v] # NoOp => v \in fault'
      /\ op' = op /\ pc' = pc /\ toAdd' = toAdd /\ wanted' = wanted /\ fresh' = fresh
    BY DEF BdevRemoved
<1>5. OnTrack(v)'
    BY <1>1, <1>4, OperationKinds DEF VolumeInv, OnTrack, Operations
<1>6. CASE Exists(v)
    <2>1. subsystem[v] \in Subsystem /\ subsystem'[v] = [subsystem[v] EXCEPT !.ns = FALSE]
        BY <1>1, <1>6 DEF BdevRemoved, TypeOK, Exists
    <2>2. /\ subsystem'[v].anyHost = subsystem[v].anyHost
          /\ subsystem'[v].hosts = subsystem[v].hosts
          /\ subsystem'[v].listener = subsystem[v].listener
          /\ v \in lost'
        BY <1>6, <2>1 DEF Subsystem, BdevRemoved
    <2>3. Complete(v)' /\ Built(v)'
        BY <1>1, <1>4, <1>6, <2>2 DEF VolumeInv, Complete, Built, Exists
    <2> QED  BY <1>2, <1>3, <1>5, <2>3, OwnSuffices DEF VolumeInv
<1>7. CASE ~Exists(v)
    <2>1. Complete(v)' /\ Built(v)'
        BY <1>1, <1>4, <1>7 DEF BdevRemoved, VolumeInv, Complete, Built, Exists
    <2> QED  BY <1>2, <1>3, <1>5, <2>1, OwnSuffices DEF VolumeInv
<1> QED  BY <1>6, <1>7

LEMMA BdevAppearsKeepsInv ==
    ASSUME Inv, NEW v \in Volumes, BdevAppears(v)
    PROVE  Inv'
<1>1. TypeOK /\ VolumeInv(v)
    BY DEF Inv
<1>2. TypeOK'
    BY <1>1, EnvironmentKeepsTypes
<1>3. \A u \in Volumes \ {v} : Spared(u)
    BY <1>1 DEF BdevAppears, Spared, history
<1>4. Complete(v)' /\ Built(v)' /\ OnTrack(v)'
    BY <1>1 DEF BdevAppears, VolumeInv, Complete, Built, OnTrack, StartOnTrack, StopOnTrack,
       Exists, history
<1> QED  BY <1>2, <1>3, <1>4, OwnSuffices DEF VolumeInv

LEMMA SpdkRestartKeepsInv ==
    ASSUME Inv, SpdkRestart, TypeOK'
    PROVE  Inv'
<1>1. ASSUME NEW v \in Volumes
      PROVE  VolumeInv(v)'
    <2>1. /\ subsystem'[v] = None /\ (op[v] # NoOp => v \in fault')
          /\ op' = op /\ pc' = pc /\ toAdd' = toAdd /\ fresh' = fresh
        BY DEF SpdkRestart
    <2>2. VolumeInv(v)
        BY DEF Inv
    <2>3. OnTrack(v)'
        BY <2>1, <2>2, OperationKinds DEF VolumeInv, OnTrack, Operations
    <2> QED  BY <2>1, <2>2, <2>3 DEF VolumeInv, Complete, Built, Exists
<1> QED  BY <1>1 DEF Inv

LEMMA InvNext == Inv /\ [Next]_vars => Inv'
<1> SUFFICES ASSUME Inv, [Next]_vars PROVE Inv'
    OBVIOUS
<1>1. TypeOK /\ TypeOK'
    BY TypeNext DEF Inv
<1>2. CASE UNCHANGED vars
    BY <1>2 DEF vars, target, history, Inv, TypeOK, VolumeInv, Complete, Built, OnTrack,
       StartOnTrack, StopOnTrack, Exists
<1>3. CASE SpdkRestart
    BY <1>1, <1>3, SpdkRestartKeepsInv
<1> QED  BY <1>2, <1>3, BeginKeepsInv, LeaveKeepsInv, CommandFailsKeepsInv, StartKeepsInv,
            StopKeepsInv, BdevRemovedKeepsInv, BdevAppearsKeepsInv DEF Next

LEMMA InvAlways == Spec => []Inv
BY InvInit, InvNext, PTL DEF Spec

\* Whoever reaches a subsystem finds its hosts, its namespace: the listener is added
\* last and removed first, whichever command fails and whatever dies in between.
THEOREM ServiceIsComplete == Spec => []CompleteService
<1>1. Inv => CompleteService
    BY DEF Inv, VolumeInv, Complete, CompleteService
<1> QED  BY <1>1, InvAlways, PTL

\* A start that returns without an error, while nothing went away, has exposed the bdev
\* with its arguments.
THEOREM StartsServe == Spec => []StartServes
<1>1. Inv => StartServes
    BY DEF Inv, VolumeInv, OnTrack, StartOnTrack, StartServes
<1> QED  BY <1>1, InvAlways, PTL

\* Stop removes what any start or stop has left, at whichever command that has ended.
THEOREM StopsGetThrough == Spec => []StopGetsThrough
<1>1. Inv => StopGetsThrough
    BY DEF Inv, VolumeInv, OnTrack, StopOnTrack, StopGetsThrough
<1> QED  BY <1>1, InvAlways, PTL

\* A start with a bdev and no subsystem of its volume does not fail by itself, however
\* many volumes start with it and find no transport.
THEOREM FreshStartsSucceed == Spec => []FreshStartSucceeds
<1>1. Inv => FreshStartSucceeds
    <2> SUFFICES ASSUME Inv, NEW v \in fresh, pc[v] = "error", op[v] \in Starts
                 PROVE  v \in fault
        BY DEF FreshStartSucceeds
    <2>1. v \in Volumes
        BY DEF Inv, TypeOK
    <2> QED  BY <2>1 DEF Inv, VolumeInv, OnTrack, StartOnTrack
<1> QED  BY <1>1, InvAlways, PTL
-----------------------------------------------------------------------------
(***************************************************************************)
(* Refinement of BdevExposure.  What hosts see of a volume is a function   *)
(* of its subsystem, which is invisible until it has a listener: Built     *)
(* says that it is complete by then, and that the listener is gone before  *)
(* anything else is taken away.                                            *)
(***************************************************************************)

\* Of the commands of an operation only those on its own subsystem are seen.
LEMMA SeenOfOwn ==
    ASSUME NEW v \in Volumes, \A u \in Volumes \ {v} : subsystem'[u] = subsystem[u]
    PROVE  ServiceSeen' = [ServiceSeen EXCEPT ![v] = ServiceSeen'[v]]
BY DEF ServiceSeen, HasListener, Exists, Served

LEMMA SeenStays ==
    ASSUME \A u \in Volumes : subsystem'[u] = subsystem[u]
    PROVE  ServiceSeen' = ServiceSeen
BY DEF ServiceSeen, HasListener, Exists, Served

\* What is told of a call: it runs until it has ended.
LEMMA OutcomeRuns ==
    ASSUME TypeOK, NEW v \in Volumes, pc[v] \in Steps
    PROVE  /\ Outcomes[v] = "running"
           /\ op[v] \in Operations
BY DEF Outcomes, TypeOK, Ended, Steps, StepsOf

LEMMA OutcomeMoves ==
    ASSUME TypeOK, NEW v \in Volumes, NEW next, pc' = [pc EXCEPT ![v] = next]
    PROVE  /\ next \in Ended \cup {"idle"} => Outcomes' = [Outcomes EXCEPT ![v] = next]
           /\ next \in Steps => Outcomes' = [Outcomes EXCEPT ![v] = "running"]
BY DEF Outcomes, TypeOK, Ended, Steps, StepsOf

LEMMA GotoProceeds ==
    ASSUME TypeOK, NEW v \in Volumes, pc[v] \in Steps, NEW next \in Steps \cup {"ok"},
           Goto(v, next),
           next = "ok" => v \in fault \/ ServiceSeen'[v] = Exposure!Promised(v)
    PROVE  Exposure!Proceeds(v)
<1>1. CASE pc' = [pc EXCEPT ![v] = "error"] /\ fault' = fault \cup {v}
    BY <1>1, OutcomeMoves DEF Ended, Exposure!Proceeds, Exposure!Returns, Exposure!Disturb
<1>2. CASE pc' = [pc EXCEPT ![v] = next] /\ UNCHANGED fault /\ next = "ok"
    BY <1>2, OutcomeMoves DEF Ended, Exposure!Proceeds, Exposure!Returns
<1>3. CASE pc' = [pc EXCEPT ![v] = next] /\ UNCHANGED fault /\ next \in Steps
    <2>1. Outcomes' = [Outcomes EXCEPT ![v] = "running"] /\ Outcomes[v] = "running"
        BY <1>3, OutcomeMoves, OutcomeRuns
    <2>2. Outcomes' = Outcomes
        BY <2>1 DEF Outcomes
    <2> QED  BY <1>3, <2>2 DEF Exposure!Proceeds
<1> QED  BY <1>1, <1>2, <1>3 DEF Goto
\* The steps of a start that hosts do not see: the subsystem has no listener yet.
LEMMA StartWorks ==
    ASSUME Inv, NEW v \in Volumes,
           GetTransports(v) \/ CreateTransport(v) \/ CreateSubsystem(v) \/ AddHost(v) \/ AddNs(v)
    PROVE  Exposure!Work(v)
<1>1. TypeOK /\ VolumeInv(v)
    BY DEF Inv
<1>2. /\ pc[v] \in {"getTransports", "createTransport", "createSubsystem", "addHost", "addNs"}
      /\ op' = op
      /\ \A u \in Volumes \ {v} : subsystem'[u] = subsystem[u]
    BY <1>1 DEF GetTransports, CreateTransport, NvmfCreateTransport, CreateSubsystem,
       NvmfCreateSubsystem, AddHost, NvmfSubsystemAddHost, AddNs, NvmfSubsystemAddNs, Becomes,
       TypeOK, target
<1>3. pc[v] \in Steps /\ op[v] \in Starts
    BY <1>1, <1>2, PcTellsKind DEF Steps, StepsOf
<1>4. \E next \in Steps : Goto(v, next)
    <2>1. {"createSubsystem", "createTransport", "addNs", "addHost", "addListener"} \subseteq Steps
        BY DEF Steps, StepsOf
    <2> QED  BY <2>1 DEF GetTransports, CreateTransport, CreateSubsystem, AddHost, AddNs
<1>5. ServiceSeen'[v] = ServiceSeen[v]
    <2>1. CASE GetTransports(v) \/ CreateTransport(v)
        BY <2>1 DEF GetTransports, CreateTransport, NvmfCreateTransport, target, ServiceSeen,
           HasListener, Exists, Served
    <2>2. CASE CreateSubsystem(v)
        <3>1. subsystem[v] = None /\ subsystem'[v] = NewSubsystem(op[v])
            BY <1>1, <2>2 DEF CreateSubsystem, NvmfCreateSubsystem, Becomes, TypeOK, Exists
        <3>2. subsystem'[v].listener = None
            BY <3>1 DEF NewSubsystem
        <3> QED  BY <3>1, <3>2 DEF ServiceSeen, HasListener, Exists
    <2>3. CASE AddHost(v) \/ AddNs(v)
        <3>1. Exists(v) /\ subsystem[v].listener = None /\ subsystem[v] \in Subsystem
            BY <1>1, <2>3 DEF AddHost, NvmfSubsystemAddHost, AddNs, NvmfSubsystemAddNs,
               VolumeInv, Built, TypeOK, Exists
        <3>2. subsystem'[v].listener = subsystem[v].listener
            BY <1>1, <2>3, <3>1 DEF AddHost, NvmfSubsystemAddHost, AddNs, NvmfSubsystemAddNs,
               Becomes, TypeOK, Subsystem
        <3> QED  BY <3>1, <3>2 DEF ServiceSeen, HasListener
    <2> QED  BY <2>1, <2>2, <2>3
<1>6. ServiceSeen' = ServiceSeen
    BY <1>2, <1>5, SeenOfOwn DEF ServiceSeen
<1>7. Exposure!Proceeds(v)
    <2>1. "ok" \notin Steps
        BY DEF Steps, StepsOf
    <2> QED  BY <1>1, <1>3, <1>4, <2>1, GotoProceeds
<1> QED  BY <1>1, <1>2, <1>3, <1>6, <1>7, OutcomeRuns DEF Exposure!Work, Exposure!Running

\* The listener makes the bdev appear, to all its hosts and with its data.
LEMMA ListenerExposes ==
    ASSUME Inv, NEW v \in Volumes, AddListener(v)
    PROVE  Exposure!Expose(v)
<1>1. TypeOK /\ VolumeInv(v)
    BY DEF Inv
<1>2. /\ pc[v] = "addListener" /\ op' = op
      /\ Exists(v) /\ subsystem[v] \in Subsystem
      /\ subsystem' = [subsystem EXCEPT ![v] = [subsystem[v] EXCEPT !.listener = Optimized]]
    BY <1>1 DEF AddListener, NvmfSubsystemAddListener, Becomes, TypeOK, Exists
<1>3. pc[v] \in Steps /\ op[v] \in Starts
    BY <1>1, <1>2, PcTellsKind DEF Steps, StepsOf
<1>4. /\ toAdd[v] = {} /\ subsystem[v].listener = None
      /\ subsystem[v].anyHost <=> AllowedHosts(op[v]) = {}
      /\ subsystem[v].hosts \cup toAdd[v] = AllowedHosts(op[v])
    BY <1>1, <1>2 DEF VolumeInv, Built
<1>5. subsystem[v].ns \in BOOLEAN /\ (subsystem[v].ns \/ v \in fault)
    BY <1>1, <1>2, <1>3 DEF VolumeInv, OnTrack, StartOnTrack, Subsystem
<1>6. ServiceSeen[v] = None
    BY <1>4 DEF ServiceSeen, HasListener
<1>7. Exposure!Promised(v) = PromiseOf(op[v])
    BY <1>3 DEF Exposure!Promised, Promises
<1>8. ServiceSeen'[v] = [audience |-> Exposure!Promised(v).audience, ana |-> Optimized,
                         readable |-> subsystem[v].ns]
    <2>1. /\ subsystem'[v] # None
          /\ subsystem'[v].listener = Optimized /\ subsystem'[v].ns = subsystem[v].ns
          /\ subsystem'[v].anyHost = subsystem[v].anyHost
          /\ subsystem'[v].hosts = subsystem[v].hosts
        <3>1. subsystem'[v] = [subsystem[v] EXCEPT !.listener = Optimized]
            BY <1>1, <1>2 DEF TypeOK
        <3>2. subsystem'[v] \in Subsystem
            BY <1>2, <3>1, ExposeAssumption DEF Subsystem
        <3> QED  BY <1>2, <3>1, <3>2, SubsystemAssumption DEF Subsystem
    <2>2. ServiceSeen'[v] = Served(v)'
        BY <2>1, ExposeAssumption DEF ServiceSeen, HasListener, Exists
    <2> QED  BY <1>4, <1>7, <2>1, <2>2 DEF Served, PromiseOf
<1>9. ServiceSeen' = [ServiceSeen EXCEPT ![v] = ServiceSeen'[v]]
    BY <1>1, <1>2, SeenOfOwn DEF TypeOK
<1>10. Exposure!Proceeds(v)
    <2>1. PICK next \in {"ok", "setAnaState"} :
              Goto(v, next) /\ (next = "ok" => op[v].name = "Start")
        BY DEF AddListener
    <2>2. next \in Steps \cup {"ok"}
        BY DEF Steps, StepsOf
    <2>3. ASSUME next = "ok", v \notin fault PROVE ServiceSeen'[v] = Exposure!Promised(v)
        <3>1. subsystem[v].ns = TRUE
            BY <1>5, <2>3
        <3>2. WantedAnaState(op[v]) = Optimized
            BY <2>1, <2>3 DEF WantedAnaState
        <3>3. PromiseOf(op[v]) = [audience |-> PromiseOf(op[v]).audience, ana |-> Optimized,
                                  readable |-> TRUE]
            BY <3>2 DEF PromiseOf
        <3> QED  BY <1>7, <1>8, <3>1, <3>3
    <2> QED  BY <1>1, <1>3, <2>1, <2>2, <2>3, GotoProceeds
<1> QED  BY <1>1, <1>2, <1>3, <1>5, <1>6, <1>8, <1>9, <1>10, OutcomeRuns
         DEF Exposure!Expose, Exposure!Running, Exposure!Becomes

LEMMA AnaStateIsSet ==
    ASSUME Inv, NEW v \in Volumes, SetANAState(v)
    PROVE  Exposure!SetAnaState(v)
<1>1. TypeOK /\ VolumeInv(v)
    BY DEF Inv
<1>2. /\ pc[v] = "setAnaState" /\ op' = op
      /\ Exists(v) /\ subsystem[v] \in Subsystem /\ subsystem[v].listener # None
      /\ subsystem' = [subsystem EXCEPT
                         ![v] = [subsystem[v] EXCEPT !.listener = WantedAnaState(op[v])]]
    BY <1>1 DEF SetANAState, NvmfSubsystemListenerSetANAState, HasListener, Becomes, TypeOK, Exists
<1>3. pc[v] \in Steps /\ op[v] \in Starts /\ wanted[v] = op[v]
    BY <1>1, <1>2, PcTellsKind DEF Steps, StepsOf, VolumeInv, Built
<1>4. /\ subsystem[v].anyHost <=> AllowedHosts(op[v]) = {}
      /\ subsystem[v].hosts = AllowedHosts(op[v])
    BY <1>1, <1>2, <1>3 DEF VolumeInv, Complete
<1>5. Exposure!Promised(v) = PromiseOf(op[v])
    BY <1>3 DEF Exposure!Promised, Promises
<1>6. ServiceSeen[v] = Served(v) /\ ServiceSeen[v].audience = Exposure!Promised(v).audience
    BY <1>2, <1>4, <1>5 DEF ServiceSeen, HasListener, Served, PromiseOf
<1>7. ServiceSeen[v] # None
    <2>1. Served(v) \in Service
        BY <1>2 DEF Served, Subsystem, Service
    <2> QED  BY <1>6, <2>1, ServiceAssumption
<1>8. ServiceSeen'[v] = [ServiceSeen[v] EXCEPT !.ana = Exposure!Promised(v).ana]
    <2>1. subsystem'[v] = [subsystem[v] EXCEPT !.listener = WantedAnaState(op[v])]
        BY <1>1, <1>2 DEF TypeOK
    <2>2. WantedAnaState(op[v]) \in AnaStates /\ WantedAnaState(op[v]) # None
        BY <1>3, OperationKinds, ExposeAssumption
    <2>3. subsystem'[v] \in Subsystem
        BY <1>2, <2>1, <2>2 DEF Subsystem
    <2>4. /\ subsystem'[v].listener = WantedAnaState(op[v]) /\ subsystem'[v].ns = subsystem[v].ns
          /\ subsystem'[v].anyHost = subsystem[v].anyHost
          /\ subsystem'[v].hosts = subsystem[v].hosts
        BY <1>2, <2>1, <2>3 DEF Subsystem
    <2>5. ServiceSeen'[v] = Served(v)'
        BY <2>2, <2>3, <2>4, SubsystemAssumption DEF ServiceSeen, HasListener, Exists
    <2> QED  BY <1>5, <1>6, <2>4, <2>5 DEF Served, PromiseOf
<1>9. ServiceSeen' = [ServiceSeen EXCEPT ![v] = ServiceSeen'[v]]
    BY <1>1, <1>2, SeenOfOwn DEF TypeOK
<1>10. Exposure!Proceeds(v)
    <2>1. ASSUME v \notin fault PROVE ServiceSeen'[v] = Exposure!Promised(v)
        <3>1. subsystem[v].ns
            BY <1>1, <1>2, <1>3, <2>1 DEF VolumeInv, OnTrack, StartOnTrack
        <3>2. subsystem[v].ns = TRUE
            BY <1>2, <3>1 DEF Subsystem
        <3>3. Served(v).audience = PromiseOf(op[v]).audience
            BY <1>5, <1>6
        <3>4. [Served(v) EXCEPT !.ana = PromiseOf(op[v]).ana] = PromiseOf(op[v])
            <4>1. Served(v).readable = TRUE
                BY <3>2 DEF Served
            <4>2. Served(v) = [audience |-> Served(v).audience, ana |-> Served(v).ana,
                               readable |-> Served(v).readable]
                BY DEF Served
            <4>3. PromiseOf(op[v]) = [audience |-> PromiseOf(op[v]).audience,
                                      ana |-> PromiseOf(op[v]).ana,
                                      readable |-> PromiseOf(op[v]).readable]
                BY DEF PromiseOf
            <4>4. PromiseOf(op[v]).readable = Served(v).readable
                BY <4>1 DEF PromiseOf
            <4> QED  BY <3>3, <4>2, <4>3, <4>4
        <3> QED  BY <1>5, <1>6, <1>8, <3>4
    <2> QED  BY <1>1, <1>3, <2>1, GotoProceeds DEF SetANAState
<1> QED  BY <1>1, <1>2, <1>3, <1>6, <1>7, <1>8, <1>9, <1>10, OutcomeRuns
         DEF Exposure!SetAnaState, Exposure!Running, Exposure!Becomes
\* The steps of a stop: the bdev vanishes with its listener, and what follows is not
\* seen.  A stop that finds no subsystem, or has deleted it, has kept its promise.
LEMMA StopWorks ==
    ASSUME Inv, NEW v \in Volumes,
           GetSubsystems(v) \/ GetListeners(v) \/ RemoveListener(v) \/ RemoveNs(v)
             \/ DeleteSubsystem(v)
    PROVE  Exposure!Work(v) \/ Exposure!Hide(v)
<1>1. TypeOK /\ VolumeInv(v)
    BY DEF Inv
<1>2. /\ pc[v] \in StepsOf("Stop") /\ op' = op
      /\ \A u \in Volumes \ {v} : subsystem'[u] = subsystem[u]
    BY <1>1 DEF GetSubsystems, GetListeners, RemoveListener, NvmfSubsystemRemoveListener, RemoveNs,
       NvmfSubsystemRemoveNs, DeleteSubsystem, NvmfDeleteSubsystem, Becomes, TypeOK, StepsOf, target
<1>3. pc[v] \in Steps /\ op[v] \in StopExposeBdev
    BY <1>1, <1>2, PcTellsKind, StepsAreSteps
<1>4. Exposure!Promised(v) = None
    BY <1>3, OperationKinds DEF Exposure!Promised
<1>5. ServiceSeen' = [ServiceSeen EXCEPT ![v] = ServiceSeen'[v]]
    BY <1>2, SeenOfOwn
<1>6. CASE GetSubsystems(v) \/ GetListeners(v) \/ RemoveNs(v) \/ DeleteSubsystem(v)
    <2>1. ServiceSeen'[v] = ServiceSeen[v]
        <3>1. CASE GetSubsystems(v) \/ GetListeners(v)
            BY <3>1 DEF GetSubsystems, GetListeners, target, ServiceSeen, HasListener, Exists, Served
        <3>2. CASE RemoveNs(v)
            <4>1. subsystem[v].listener = None /\ subsystem[v] \in Subsystem
                BY <1>1, <3>2 DEF RemoveNs, NvmfSubsystemRemoveNs, VolumeInv, Built, TypeOK, Exists
            <4>2. subsystem'[v].listener = None
                BY <1>1, <3>2, <4>1 DEF RemoveNs, NvmfSubsystemRemoveNs, Becomes, TypeOK, Subsystem
            <4> QED  BY <4>1, <4>2 DEF ServiceSeen, HasListener
        <3>3. CASE DeleteSubsystem(v)
            <4>1. subsystem[v].listener = None
                BY <1>1, <3>3 DEF DeleteSubsystem, NvmfDeleteSubsystem, VolumeInv, Built
            <4>2. subsystem'[v] = None
                BY <1>1, <3>3 DEF DeleteSubsystem, NvmfDeleteSubsystem, Becomes, TypeOK
            <4> QED  BY <4>1, <4>2 DEF ServiceSeen, HasListener, Exists
        <3> QED  BY <1>6, <3>1, <3>2, <3>3
    <2>2. ServiceSeen' = ServiceSeen
        BY <1>5, <2>1 DEF ServiceSeen
    <2>3. \E next \in Steps \cup {"ok"} :
              Goto(v, next) /\ (next = "ok" => ServiceSeen'[v] = None)
        <3>1. {"getListeners", "removeListener", "removeNs", "deleteSubsystem"} \subseteq Steps
              /\ "ok" \notin Steps
            BY DEF Steps, StepsOf
        <3>2. CASE GetSubsystems(v)
            <4>1. ~Exists(v) => ServiceSeen'[v] = None
                BY <2>1 DEF ServiceSeen, HasListener
            <4> QED  BY <3>1, <3>2, <4>1 DEF GetSubsystems
        <3>3. CASE GetListeners(v) \/ RemoveNs(v)
            BY <3>1, <3>3 DEF GetListeners, RemoveNs, AfterListeners
        <3>4. CASE DeleteSubsystem(v)
            <4>1. subsystem'[v] = None
                BY <1>1, <3>4 DEF DeleteSubsystem, NvmfDeleteSubsystem, Becomes, TypeOK
            <4> QED  BY <3>4, <4>1 DEF DeleteSubsystem, ServiceSeen, HasListener, Exists
        <3> QED  BY <1>6, <3>2, <3>3, <3>4
    <2>4. Exposure!Proceeds(v)
        BY <1>1, <1>3, <1>4, <2>3, GotoProceeds
    <2> QED  BY <1>1, <1>2, <1>3, <2>2, <2>4, OutcomeRuns DEF Exposure!Work, Exposure!Running
<1>7. CASE RemoveListener(v)
    <2>1. ServiceSeen'[v] = None
        <3>1. subsystem'[v].listener = None
            BY <1>1, <1>7 DEF RemoveListener, NvmfSubsystemRemoveListener, HasListener, Exists,
               Becomes, TypeOK, Subsystem
        <3> QED  BY <3>1 DEF ServiceSeen, HasListener
    <2>2. \E next \in Steps : Goto(v, next)
        BY <1>7 DEF RemoveListener, AfterListeners, Steps, StepsOf
    <2>3. Exposure!Proceeds(v)
        BY <1>1, <1>3, <1>4, <2>1, <2>2, GotoProceeds
    <2> QED  BY <1>1, <1>2, <1>3, <1>5, <2>1, <2>3, OutcomeRuns
             DEF Exposure!Hide, Exposure!Running, Exposure!Becomes
<1> QED  BY <1>6, <1>7

LEMMA CallBegins ==
    ASSUME TypeOK, NEW v \in Volumes, Begin(v)
    PROVE  Exposure!Begin(v)
<1>1. PICK o \in Requests : op' = [op EXCEPT ![v] = o]
    BY DEF Begin
<1>2. PICK s \in {"getSubsystems", "getTransports"} : pc' = [pc EXCEPT ![v] = s]
    BY DEF Begin
<1>3. Outcomes' = [Outcomes EXCEPT ![v] = "running"]
    BY <1>2, OutcomeMoves DEF Steps, StepsOf
<1>4. ServiceSeen' = ServiceSeen
    BY SeenStays DEF Begin, target
<1> QED  BY <1>1, <1>3, <1>4, RequestsAssumption DEF Begin, Exposure!Begin, Operations

LEMMA CallLeaves ==
    ASSUME TypeOK, NEW v \in Volumes, Leave(v)
    PROVE  Exposure!Leave(v)
<1>1. Outcomes' = [Outcomes EXCEPT ![v] = "idle"]
    BY OutcomeMoves DEF Leave
<1>2. ServiceSeen' = ServiceSeen
    BY SeenStays DEF Leave, target
<1> QED  BY <1>1, <1>2 DEF Leave, Exposure!Leave

LEMMA CallFails ==
    ASSUME Inv, NEW v \in Volumes, CommandFails(v)
    PROVE  Exposure!Fail(v) \/ Exposure!Work(v)
<1>1. TypeOK
    BY DEF Inv
<1>2. ServiceSeen' = ServiceSeen /\ op' = op
    BY SeenStays DEF CommandFails, target
<1>3. Exposure!Returns(v, "error")
    BY <1>1, OutcomeMoves DEF CommandFails, Ended, Exposure!Returns
<1>4. Outcomes[v] = "running" /\ op[v] \in Operations
    BY <1>1, OutcomeRuns DEF CommandFails
<1>5. CASE Works(v) \/ v \in fault
    <2>1. Exposure!Disturb(v)
        BY <1>5 DEF CommandFails, Exposure!Disturb
    <2> QED  BY <1>2, <1>3, <1>4, <2>1 DEF Exposure!Work, Exposure!Proceeds, Exposure!Running,
                Operations
<1>6. CASE ~Works(v) /\ v \notin fault
    <2>1. op[v] \in Starts
        BY <1>4, <1>6, OnTrackWorks DEF CommandFails, Operations
    <2> QED  BY <1>2, <1>3, <1>4, <1>6, <2>1 DEF CommandFails, Exposure!Fail, Exposure!Running
<1> QED  BY <1>5, <1>6

LEMMA DataGoes ==
    ASSUME TypeOK, NEW v \in Volumes, BdevRemoved(v)
    PROVE  Exposure!BdevGoes(v)
<1>1. \A u \in Volumes \ {v} : subsystem'[u] = subsystem[u]
    BY DEF BdevRemoved, TypeOK
<1>2. Outcomes' = Outcomes /\ op' = op
    BY DEF BdevRemoved, Outcomes
<1>3. IF op[v] = NoOp THEN UNCHANGED fault ELSE Exposure!Disturb(v)
    BY DEF BdevRemoved, Exposure!Disturb
<1>4. CASE HasListener(v)
    <2>1. subsystem[v] \in Subsystem /\ subsystem'[v] = [subsystem[v] EXCEPT !.ns = FALSE]
        BY <1>4 DEF BdevRemoved, TypeOK, HasListener, Exists
    <2>2. /\ subsystem'[v] \in Subsystem
          /\ subsystem'[v].anyHost = subsystem[v].anyHost
          /\ subsystem'[v].hosts = subsystem[v].hosts
          /\ subsystem'[v].listener = subsystem[v].listener
          /\ subsystem'[v].ns = FALSE
        BY <2>1 DEF Subsystem
    <2>3. ServiceSeen[v] = Served(v) /\ ServiceSeen'[v] = Served(v)'
        BY <1>4, <2>2, SubsystemAssumption DEF ServiceSeen, HasListener, Exists
    <2>4. Served(v) \in Service
        BY <1>4, <2>1 DEF Served, Subsystem, Service, HasListener
    <2>5. ServiceSeen' = [ServiceSeen EXCEPT ![v] = [ServiceSeen[v] EXCEPT !.readable = FALSE]]
        <3>1. Served(v)' = [Served(v) EXCEPT !.readable = subsystem'[v].ns]
            <4>1. Served(v) = [audience |-> Served(v).audience, ana |-> Served(v).ana,
                               readable |-> Served(v).readable]
                BY DEF Served
            <4>2. Served(v)' = [audience |-> Served(v).audience, ana |-> Served(v).ana,
                                readable |-> subsystem'[v].ns]
                BY <2>2 DEF Served
            <4> QED  BY <4>1, <4>2
        <3> QED  BY <1>1, <2>2, <2>3, <3>1, SeenOfOwn
    <2> QED  BY <1>2, <1>3, <2>3, <2>4, <2>5, ServiceAssumption
             DEF Exposure!BdevGoes, Exposure!Becomes
<1>5. CASE ~HasListener(v)
    <2>1. ServiceSeen[v] = None /\ ServiceSeen'[v] = None
        <3>1. CASE Exists(v)
            <4>1. subsystem[v] \in Subsystem /\ subsystem[v].listener = None
                BY <1>5, <3>1 DEF TypeOK, HasListener, Exists
            <4>2. subsystem'[v].listener = None
                BY <3>1, <4>1 DEF BdevRemoved, TypeOK, Subsystem
            <4> QED  BY <1>5, <4>2 DEF ServiceSeen, HasListener
        <3>2. CASE ~Exists(v)
            BY <1>5, <3>2 DEF BdevRemoved, ServiceSeen, HasListener, Exists
        <3> QED  BY <3>1, <3>2
    <2>2. ServiceSeen' = ServiceSeen
        BY <1>1, <2>1, SeenOfOwn DEF ServiceSeen
    <2> QED  BY <1>2, <1>3, <2>1, <2>2 DEF Exposure!BdevGoes
<1> QED  BY <1>4, <1>5

LEMMA TargetGoes == SpdkRestart => Exposure!TargetDies
<1> SUFFICES ASSUME SpdkRestart PROVE Exposure!TargetDies
    OBVIOUS
<1>1. ServiceSeen' = [v \in Volumes |-> None]
    BY DEF SpdkRestart, ServiceSeen, HasListener, Exists
<1>2. Outcomes' = Outcomes
    BY DEF SpdkRestart, Outcomes
<1> QED  BY <1>1, <1>2 DEF SpdkRestart, Exposure!TargetDies

LEMMA ExposureInit == Init => Exposure!Init
BY DEF Init, Exposure!Init, ServiceSeen, HasListener, Exists, Outcomes

LEMMA ExposureNext == Inv /\ [Next]_vars => [Exposure!Next]_(Exposure!vars)
<1> SUFFICES ASSUME Inv, [Next]_vars PROVE [Exposure!Next]_(Exposure!vars)
    OBVIOUS
<1>1. TypeOK
    BY DEF Inv
<1>2. CASE UNCHANGED vars
    <2>1. ServiceSeen' = ServiceSeen /\ Outcomes' = Outcomes
        BY <1>2, SeenStays DEF vars, target, Outcomes
    <2> QED  BY <1>2, <2>1 DEF vars, Exposure!vars
<1>3. ASSUME NEW v \in Volumes, BdevAppears(v) PROVE UNCHANGED Exposure!vars
    <2>1. ServiceSeen' = ServiceSeen /\ Outcomes' = Outcomes
        BY <1>3, SeenStays DEF BdevAppears, Outcomes
    <2> QED  BY <1>3, <2>1 DEF BdevAppears, Exposure!vars
<1>4. CASE SpdkRestart
    BY <1>4, TargetGoes DEF Exposure!Next
<1> QED  BY <1>1, <1>2, <1>3, <1>4, StartWorks, ListenerExposes, AnaStateIsSet, StopWorks,
            CallBegins, CallLeaves, CallFails, DataGoes DEF Next, Exposure!Next

\* The commands of StartExposeBdev, StartExposeBdevWithANAState and StopExposeBdev
\* implement BdevExposure: hosts see a bdev appear at once, with its data and to the
\* whole audience of its start, and vanish at once, at whichever command an operation
\* fails or its process dies.
THEOREM OperationsImplementExposure == Spec => ImplementsExposure
BY InvInit, InvNext, ExposureInit, ExposureNext, PTL
DEF Spec, ImplementsExposure, Exposure!Spec
=============================================================================
