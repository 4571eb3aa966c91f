----------------------------- MODULE ExposeBdev -----------------------------
(***************************************************************************)
(* Exposing the bdevs of volumes over NVMe/TCP: StartExposeBdev,           *)
(* StartExposeBdevWithANAState and StopExposeBdev of                       *)
(* pkg/spdk/client/advanced.go, with the nvmf commands of basic.go.        *)
(*                                                                         *)
(* An operation is a sequence of commands to the SPDK target and has no    *)
(* rollback.  A command may fail, without having been carried out or after *)
(* it, as RpcService says, and what was done before it stays.  Commands of *)
(* one client are carried out in their order, so that a command whose      *)
(* answer was lost is not carried out after a later one of the volume.     *)
(*                                                                         *)
(* A volume has one bdev and one subsystem.  Its users let one operation   *)
(* at a time run for it; those of different volumes run at the same time   *)
(* and share the transport.  Bdevs come and go, SPDK restarts, and the     *)
(* process of an operation may die.                                        *)
(***************************************************************************)

CONSTANTS
    Volumes,
    Hosts,       \* host NQNs
    AnaStates,
    Optimized,   \* the ANA state that a new listener has
    Requests,    \* the operations that are asked for
    None         \* no subsystem, no listener

ASSUME ExposeAssumption ==
    /\ Optimized \in AnaStates
    /\ None \notin AnaStates

VARIABLES
    transport,   \* the TCP transport of the target exists
    bdevs,       \* the volumes whose bdev exists
    subsystem,   \* the subsystem of a volume
    op,          \* the operation on a volume, with its arguments
    pc,          \* its next command, or how it has ended
    toAdd,       \* hosts it is still to add
    listed,      \* what the lists that Stop has read contain
    wanted,      \* history: the start that has created the subsystem
    lost,        \* history: volumes whose bdev has gone under their subsystem
    fresh,       \* history: volumes that had a bdev and no subsystem when their operation began
    fault        \* history: volumes whose operation has met an error from outside

target == <<transport, bdevs, subsystem>>
history == <<wanted, lost, fresh>>
vars == <<target, op, pc, toAdd, listed, history, fault>>

\* What the target keeps of a subsystem.
Subsystem ==
    [anyHost : BOOLEAN, hosts : SUBSET Hosts, ns : BOOLEAN, listener : AnaStates \cup {None}]

ASSUME SubsystemAssumption == None \notin Subsystem

NoOp == [name |-> "none"]
NoLists == [listener |-> FALSE, ns |-> FALSE]

StartExposeBdev == [name : {"Start"}, hosts : SUBSET Hosts]
StartExposeBdevWithANAState == [name : {"StartWithANAState"}, ana : AnaStates]
Starts == StartExposeBdev \cup StartExposeBdevWithANAState
StopExposeBdev == [name : {"Stop"}]
Operations == Starts \cup StopExposeBdev

ASSUME RequestsAssumption == Requests \subseteq Operations

AllowedHosts(start) == IF start.name = "Start" THEN start.hosts ELSE {}
WantedAnaState(start) == IF start.name = "Start" THEN Optimized ELSE start.ana

Ended == {"ok", "error"}

\* The commands of an operation.
StepsOf(name) ==
    CASE name = "Start" ->
            {"getTransports", "createTransport", "createSubsystem", "addHost", "addNs", "addListener"}
      [] name = "StartWithANAState" ->
            {"getTransports", "createTransport", "createSubsystem", "addNs", "addListener", "setAnaState"}
      [] OTHER ->
            {"getSubsystems", "getListeners", "removeListener", "removeNs", "deleteSubsystem"}

Steps == StepsOf("Start") \cup StepsOf("StartWithANAState") \cup StepsOf("Stop")

TypeOK ==
    /\ transport \in BOOLEAN
    /\ bdevs \in SUBSET Volumes
    /\ subsystem \in [Volumes -> Subsystem \cup {None}]
    /\ op \in [Volumes -> Operations \cup {NoOp}]
    /\ pc \in [Volumes -> Steps \cup Ended \cup {"idle"}]
    /\ \A v \in Volumes :
          IF op[v] = NoOp THEN pc[v] = "idle" ELSE pc[v] \in StepsOf(op[v].name) \cup Ended
    /\ toAdd \in [Volumes -> SUBSET Hosts]
    /\ \A v \in Volumes : op[v].name # "Start" => toAdd[v] = {}
    /\ listed \in [Volumes -> [listener : BOOLEAN, ns : BOOLEAN]]
    /\ wanted \in [Volumes -> Starts \cup {NoOp}]
    /\ lost \in SUBSET Volumes
    /\ fresh \in SUBSET Volumes
    /\ fault \in SUBSET Volumes

Init ==
    /\ transport = FALSE
    /\ bdevs \in SUBSET Volumes
    /\ subsystem = [v \in Volumes |-> None]
    /\ op = [v \in Volumes |-> NoOp]
    /\ pc = [v \in Volumes |-> "idle"]
    /\ toAdd = [v \in Volumes |-> {}]
    /\ listed = [v \in Volumes |-> NoLists]
    /\ wanted = [v \in Volumes |-> NoOp]
    /\ lost = {}
    /\ fresh = {}
    /\ fault = {}
-----------------------------------------------------------------------------
Exists(v) == subsystem[v] # None

\* The operation goes on, or its command was carried out and the answer is lost.
Goto(v, next) ==
    \/ pc' = [pc EXCEPT ![v] = next] /\ UNCHANGED fault
    \/ pc' = [pc EXCEPT ![v] = "error"] /\ fault' = fault \cup {v}

Begin(v) ==
    /\ op[v] = NoOp
    /\ op' \in {[op EXCEPT ![v] = o] : o \in Requests}
    /\ pc' = [pc EXCEPT ![v] = IF op'[v].name = "Stop" THEN "getSubsystems" ELSE "getTransports"]
    /\ toAdd' = [toAdd EXCEPT ![v] = IF op'[v].name = "Start" THEN op'[v].hosts ELSE {}]
    /\ fresh' = IF v \in bdevs /\ ~Exists(v) THEN fresh \cup {v} ELSE fresh
    /\ UNCHANGED <<target, listed, wanted, lost, fault>>

\* The operation returns, or its process dies.
Leave(v) ==
    /\ op[v] # NoOp
    /\ op' = [op EXCEPT ![v] = NoOp]
    /\ pc' = [pc EXCEPT ![v] = "idle"]
    /\ toAdd' = [toAdd EXCEPT ![v] = {}]
    /\ listed' = [listed EXCEPT ![v] = NoLists]
    /\ fresh' = fresh \ {v}
    /\ fault' = fault \ {v}
    /\ UNCHANGED <<target, wanted, lost>>
-----------------------------------------------------------------------------
(* The commands that change the target, where it carries them out. *)

\* That another client has created the transport meanwhile is no error to its caller.
NvmfCreateTransport == transport' = TRUE /\ UNCHANGED <<bdevs, subsystem>>

\* What the subsystem of v becomes.
Becomes(v, s) ==
    /\ subsystem' = [subsystem EXCEPT ![v] = s]
    /\ UNCHANGED <<transport, bdevs>>

NvmfCreateSubsystem(v, s) == ~Exists(v) /\ Becomes(v, s)

NvmfSubsystemAddHost(v, h) ==
    Exists(v) /\ Becomes(v, [subsystem[v] EXCEPT !.hosts = @ \cup {h}])

NvmfSubsystemAddNs(v) ==
    Exists(v) /\ v \in bdevs /\ Becomes(v, [subsystem[v] EXCEPT !.ns = TRUE])

\* A new listener is optimized.
NvmfSubsystemAddListener(v) ==
    Exists(v) /\ transport /\ Becomes(v, [subsystem[v] EXCEPT !.listener = Optimized])

HasListener(v) == Exists(v) /\ subsystem[v].listener # None

NvmfSubsystemListenerSetANAState(v, ana) ==
    HasListener(v) /\ Becomes(v, [subsystem[v] EXCEPT !.listener = ana])

NvmfSubsystemRemoveListener(v) ==
    HasListener(v) /\ Becomes(v, [subsystem[v] EXCEPT !.listener = None])

NvmfSubsystemRemoveNs(v) ==
    Exists(v) /\ subsystem[v].ns /\ Becomes(v, [subsystem[v] EXCEPT !.ns = FALSE])

NvmfDeleteSubsystem(v) == Exists(v) /\ Becomes(v, None)
-----------------------------------------------------------------------------
(* StartExposeBdev and StartExposeBdevWithANAState. *)

GetTransports(v) ==
    /\ pc[v] = "getTransports"
    /\ Goto(v, IF transport THEN "createSubsystem" ELSE "createTransport")
    /\ UNCHANGED <<target, op, toAdd, listed, history>>

\* Only a transport that this operation creates is a success.
CreateTransportStrict(v) ==
    /\ pc[v] = "createTransport"
    /\ NvmfCreateTransport
    /\ IF transport
         THEN pc' = [pc EXCEPT ![v] = "error"] /\ UNCHANGED fault
         ELSE Goto(v, "createSubsystem")
    /\ UNCHANGED <<op, toAdd, listed, history>>

\* That another operation has created the transport meanwhile is no error.
CreateTransport(v) ==
    /\ pc[v] = "createTransport"
    /\ NvmfCreateTransport
    /\ Goto(v, "createSubsystem")
    /\ UNCHANGED <<op, toAdd, listed, history>>

\* Created for every host, although some are named.
NewSubsystemForAll(start) ==
    [anyHost |-> TRUE, hosts |-> {}, ns |-> FALSE, listener |-> None]

\* A subsystem as it is created, for a start with the given arguments.
NewSubsystem(start) ==
    [anyHost |-> AllowedHosts(start) = {}, hosts |-> {}, ns |-> FALSE, listener |-> None]

CreateSubsystem(v) ==
    /\ pc[v] = "createSubsystem"
    /\ NvmfCreateSubsystem(v, NewSubsystem(op[v]))
    /\ wanted' = [wanted EXCEPT ![v] = op[v]]
    /\ Goto(v, IF toAdd[v] = {} THEN "addNs" ELSE "addHost")
    /\ UNCHANGED <<op, toAdd, listed, lost, fresh>>

AddHost(v) ==
    /\ pc[v] = "addHost"
    /\ \E h \in toAdd[v] :
          /\ NvmfSubsystemAddHost(v, h)
          /\ toAdd' = [toAdd EXCEPT ![v] = @ \ {h}]
          /\ Goto(v, IF toAdd[v] = {h} THEN "addNs" ELSE "addHost")
    /\ UNCHANGED <<op, listed, history>>

AddNs(v) ==
    /\ pc[v] = "addNs"
    /\ NvmfSubsystemAddNs(v)
    /\ Goto(v, "addListener")
    /\ UNCHANGED <<op, toAdd, listed, history>>

AddListenerAndReturn(v) ==
    /\ pc[v] = "addListener"
    /\ NvmfSubsystemAddListener(v)
    /\ Goto(v, "ok")
    /\ UNCHANGED <<op, toAdd, listed, history>>

AddListener(v) ==
    /\ pc[v] = "addListener"
    /\ NvmfSubsystemAddListener(v)
    /\ Goto(v, IF op[v].name = "Start" THEN "ok" ELSE "setAnaState")
    /\ UNCHANGED <<op, toAdd, listed, history>>

SetANAState(v) ==
    /\ pc[v] = "setAnaState"
    /\ NvmfSubsystemListenerSetANAState(v, WantedAnaState(op[v]))
    /\ Goto(v, "ok")
    /\ UNCHANGED <<op, toAdd, listed, history>>
-----------------------------------------------------------------------------
(* StopExposeBdev. *)

\* The list of subsystems has the namespaces in it, which are removed two commands later.
GetSubsystems(v) ==
    /\ pc[v] = "getSubsystems"
    /\ Goto(v, IF Exists(v) THEN "getListeners" ELSE "ok")
    /\ listed' = [listed EXCEPT ![v].ns = Exists(v) /\ subsystem[v].ns]
    /\ UNCHANGED <<target, op, toAdd, history>>

\* Also when the subsystem was listed without a namespace.
RemoveNsAlways(v) == "removeNs"

\* What follows once the listeners are gone.
AfterListeners(v) == IF listed[v].ns THEN "removeNs" ELSE "deleteSubsystem"

GetListeners(v) ==
    /\ pc[v] = "getListeners"
    /\ Exists(v)
    /\ listed' = [listed EXCEPT ![v].listener = subsystem[v].listener # None]
    /\ Goto(v, IF subsystem[v].listener # None THEN "removeListener" ELSE AfterListeners(v))
    /\ UNCHANGED <<target, op, toAdd, history>>

RemoveListener(v) ==
    /\ pc[v] = "removeListener"
    /\ NvmfSubsystemRemoveListener(v)
    /\ Goto(v, AfterListeners(v))
    /\ UNCHANGED <<op, toAdd, listed, history>>

RemoveNs(v) ==
    /\ pc[v] = "removeNs"
    /\ NvmfSubsystemRemoveNs(v)
    /\ Goto(v, "deleteSubsystem")
    /\ UNCHANGED <<op, toAdd, listed, history>>

DeleteSubsystem(v) ==
    /\ pc[v] = "deleteSubsystem"
    /\ NvmfDeleteSubsystem(v)
    /\ wanted' = [wanted EXCEPT ![v] = NoOp]
    /\ lost' = lost \ {v}
    /\ Goto(v, "ok")
    /\ UNCHANGED <<op, toAdd, listed, fresh>>
-----------------------------------------------------------------------------
\* Whether the target would carry out the next command of the operation.
Works(v) ==
    CASE pc[v] = "createSubsystem" -> ~Exists(v)
      [] pc[v] = "addNs" -> Exists(v) /\ v \in bdevs
      [] pc[v] = "addListener" -> Exists(v) /\ transport
      [] pc[v] \in {"setAnaState", "removeListener"} -> HasListener(v)
      [] pc[v] = "removeNs" -> Exists(v) /\ subsystem[v].ns
      [] pc[v] \in {"addHost", "getListeners", "deleteSubsystem"} -> Exists(v)
      [] OTHER -> TRUE

\* The command is refused, or does not reach the target: the operation ends there.
CommandFails(v) ==
    /\ pc[v] \in Steps
    /\ pc' = [pc EXCEPT ![v] = "error"]
    /\ fault' = IF Works(v) THEN fault \cup {v} ELSE fault
    /\ UNCHANGED <<target, op, toAdd, listed, history>>

\* SPDK closes the namespace of a bdev that goes, and opens none for one that comes.
BdevRemoved(v) ==
    /\ v \in bdevs
    /\ bdevs' = bdevs \ {v}
    /\ subsystem' = IF Exists(v) THEN [subsystem EXCEPT ![v].ns = FALSE] ELSE subsystem
    /\ lost' = IF Exists(v) THEN lost \cup {v} ELSE lost
    /\ fault' = IF op[v] # NoOp THEN fault \cup {v} ELSE fault
    /\ UNCHANGED <<transport, op, pc, toAdd, listed, wanted, fresh>>

BdevAppears(v) ==
    /\ v \notin bdevs
    /\ bdevs' = bdevs \cup {v}
    /\ UNCHANGED <<transport, subsystem, op, pc, toAdd, listed, history, fault>>

SpdkRestart ==
    /\ transport' = FALSE
    /\ bdevs' = {}
    /\ subsystem' = [v \in Volumes |-> None]
    /\ wanted' = [v \in Volumes |-> NoOp]
    /\ lost' = {}
    /\ fault' = fault \cup {v \in Volumes : op[v] # NoOp}
    /\ UNCHANGED <<op, pc, toAdd, listed, fresh>>

Next ==
    \/ \E v \in Volumes :
          \/ Begin(v) \/ Leave(v) \/ CommandFails(v)
          \/ GetTransports(v) \/ CreateTransport(v)
          \/ CreateSubsystem(v) \/ AddHost(v) \/ AddNs(v)
          \/ AddListener(v) \/ SetANAState(v)
          \/ GetSubsystems(v) \/ GetListeners(v)
          \/ RemoveListener(v) \/ RemoveNs(v)
          \/ DeleteSubsystem(v)
          \/ BdevRemoved(v) \/ BdevAppears(v)
    \/ SpdkRestart

Spec == Init /\ [][Next]_vars
-----------------------------------------------------------------------------
\* Whoever can reach a subsystem finds it complete: as long as it has a listener,
\* the hosts that its start names, and no others, are allowed, and its namespace is
\* there unless its bdev has gone.  So the listener comes last and goes first.
CompleteService ==
    \A v \in Volumes :
        Exists(v) /\ subsystem[v].listener # None =>
            /\ subsystem[v].anyHost <=> AllowedHosts(wanted[v]) = {}
            /\ subsystem[v].hosts = AllowedHosts(wanted[v])
            /\ subsystem[v].ns \/ v \in lost

\* A start that returns without an error, while nothing went away, has exposed the
\* bdev with its own arguments, whatever other volumes and earlier attempts did.
StartServes ==
    \A v \in Volumes :
        pc[v] = "ok" /\ op[v] \in Starts /\ v \notin fault =>
            /\ Exists(v) /\ subsystem[v].ns
            /\ subsystem[v].listener = WantedAnaState(op[v])
            /\ wanted[v] = op[v]

\* A stop that no error from outside hits removes the subsystem, at whichever command
\* the start or an earlier stop has ended: its lists keep it from removing what is
\* not there.
StopGetsThrough ==
    \A v \in Volumes :
        op[v] \in StopExposeBdev =>
            /\ pc[v] = "error" => v \in fault
            /\ pc[v] = "ok" => ~Exists(v) \/ v \in fault

\* A start on a volume that has its bdev and no subsystem does not fail by itself,
\* also when another volume's start creates the transport at the same time.
FreshStartSucceeds ==
    \A v \in fresh : pc[v] = "error" /\ op[v] \in Starts => v \in fault
-----------------------------------------------------------------------------
(***************************************************************************)
(* What hosts and callers see of it: the variables of BdevExposure.  A     *)
(* subsystem can be reached once it has a listener.                        *)
(***************************************************************************)
Served(v) ==
    [audience |-> IF subsystem[v].anyHost THEN Hosts ELSE subsystem[v].hosts,
     ana      |-> subsystem[v].listener,
     readable |-> subsystem[v].ns]

Service == [audience : SUBSET Hosts, ana : AnaStates, readable : BOOLEAN]

ASSUME ServiceAssumption == None \notin Service

ServiceSeen == [v \in Volumes |-> IF HasListener(v) THEN Served(v) ELSE None]

PromiseOf(start) ==
    [audience |-> IF AllowedHosts(start) = {} THEN Hosts ELSE AllowedHosts(start),
     ana      |-> WantedAnaState(start),
     readable |-> TRUE]

Promises == [start \in Starts |-> PromiseOf(start)]

Outcomes == [v \in Volumes |-> IF pc[v] \in Ended \cup {"idle"} THEN pc[v] ELSE "running"]

Exposure == INSTANCE BdevExposure WITH
    Stops     <- StopExposeBdev,
    Promise   <- Promises,
    Hidden    <- None,
    service   <- ServiceSeen,
    request   <- op,
    outcome   <- Outcomes,
    disturbed <- fault

\* Hosts see the bdev of a volume as BdevExposure says: at once and to its whole
\* audience, or not at all; and the results of Start and Stop can be relied on.
ImplementsExposure == Exposure!Spec
=============================================================================
