--------------------------- MODULE NvmeInitiator ---------------------------
(***************************************************************************)
(* The NVMe/TCP initiator of one volume on one host: pkg/initiator         *)
(* (initiator.go, nvme.go, nvmecli.go) with the commands of pkg/util       *)
(* (device.go, dmsetup.go) that it executes.                               *)
(*                                                                         *)
(* In the kernel there are the controllers ("paths") that connect the host *)
(* to the targets of the volume's subsystem, the block device of its       *)
(* namespace, a linear dm device on top of it, and the device node         *)
(* /dev/longhorn/<volume>, the endpoint.  The Initiator object remembers   *)
(* what it has seen of them.  An operation is a sequence of commands; each *)
(* is one step, and between two of them paths come and go, users open and  *)
(* close the device, and the process may die.  A command may fail, before  *)
(* or after it has had its effect.                                         *)
(*                                                                         *)
(* Operations hold the lock of the volume (InitiatorLock), all but         *)
(* SyncDmDeviceSize.  Retries are bounded in the code; here a retried step *)
(* may fail any number of times before it ends.  A controller is named by  *)
(* the address it is connected to.  The subsystem's name is known.         *)
(***************************************************************************)

CONSTANTS
    Addrs,       \* transport addresses (with service ids) of the targets
    Namespaces,  \* names, and numbers, of NVMe block devices
    DmNumbers,   \* numbers of dm devices
    Requests,    \* the operations that are asked for, a subset of Operations
    Syncs,       \* whether SyncDmDeviceSize is among them
    None,        \* no address, no device, no device node
    Zero         \* the number 0:0 of a BlockDevice that was not filled in

ASSUME NvmeAssumption ==
    /\ None \notin Addrs \cup Namespaces \cup DmNumbers
    /\ Zero \notin Namespaces \cup DmNumbers \cup {None}
    /\ Namespaces \cap DmNumbers = {}
    /\ Syncs \in BOOLEAN

VARIABLES
    paths,      \* addresses of the connected controllers
    namespace,  \* the block device of the subsystem
    dm,         \* the linear dm device
    inUse,      \* somebody has opened it
    node,       \* the number of the endpoint
    removing,   \* an os.Remove of the endpoint that its caller has given up on
    info,       \* NVMeTCPInfo: TransportAddress and TransportServiceID, NamespaceName
    dev,        \* i.dev
    isUp,
    op,         \* the operation that holds the lock, with its arguments
    pc,         \* its next command, or how it has ended
    busy,       \* its dmDeviceIsBusy
    previous,   \* previousInfo of ensureNVMeTCPPathWithoutLock
    sync,       \* where SyncDmDeviceSize is
    fault       \* history: something has failed that might have worked

kernel == <<paths, namespace, dm, inUse, node, removing>>
memory == <<info, dev, isUp>>
vars == <<kernel, memory, op, pc, busy, previous, sync, fault>>

NoDm   == [number |-> None]
NoDev  == [source |-> None]
NoOp   == [name |-> "none"]
NoInfo == [addr |-> None, ns |-> None]
NoSync == [step |-> "idle", source |-> None]

Numbers == Namespaces \cup DmNumbers \cup {Zero}

\* A linear device: its live and its inactive table map one namespace each.
DmDevice ==
    [number : DmNumbers, live : Namespaces, inactive : Namespaces \cup {None},
     suspended : BOOLEAN, deferred : BOOLEAN]

\* LonghornBlockDevice; a Source that was not filled in has no name.
Device == [source : Namespaces \cup {None}, export : Numbers]

NVMeTCPInfo == [addr : Addrs \cup {None}, ns : Namespaces \cup {None}]

Operations ==
    [name : {"Start"}, addr : Addrs, cleanup : BOOLEAN, stop : BOOLEAN]
      \cup [name : {"Stop"}, cleanup : BOOLEAN, deferred : BOOLEAN, strict : BOOLEAN]
      \cup [name : {"ConnectPath", "ConnectTarget", "ReconnectPath"}, addr : Addrs]
      \cup [name : {"LoadDeviceInfo"}, addr : Addrs \cup {None}]
      \cup [name : {"LoadEndpoint"}, dmBusy : BOOLEAN]
      \cup [name : {"WaitForConnect", "WaitForDisconnect", "Disconnect",
                    "Suspend", "Resume", "Reload"}]

ASSUME RequestsAssumption == Requests \subseteq Operations

Ended == {"ok", "error"}

Steps ==
    {"reuse", "reuseWait", "loadEndpoint", "removeDm", "removeNode", "disconnect",
     "ensure", "ensureWait", "connect", "load", "cleanup", "skipDm", "createDm",
     "checkDm", "suspend", "reload", "resume", "node", "makeNode", "loadInfo"}

\* The steps that an operation may come to.
StepsOf(name) ==
    CASE name = "Start"         -> Steps \ {"loadInfo"}
      [] name = "Stop"          -> {"removeDm", "removeNode", "disconnect"}
      [] name = "ReconnectPath" -> {"ensure", "ensureWait", "connect", "load", "cleanup"}
      [] name = "ConnectPath"   -> {"ensure", "ensureWait", "connect"}
      [] name = "ConnectTarget" -> {"connect"}
      [] name = "Disconnect"    -> {"disconnect"}
      [] name = "Suspend"       -> {"checkDm", "suspend"}
      [] name = "Resume"        -> {"resume"}
      [] name = "Reload"        -> {"reload"}
      [] name = "LoadEndpoint"  -> {"loadEndpoint"}
      [] OTHER                  -> {"loadInfo"}

TypeOK ==
    /\ paths \in SUBSET Addrs
    /\ namespace \in Namespaces \cup {None}
    /\ dm \in DmDevice \cup {NoDm}
    /\ inUse \in BOOLEAN
    /\ node \in Numbers \cup {None}
    /\ removing \in BOOLEAN
    /\ info \in NVMeTCPInfo
    /\ dev \in Device \cup {NoDev}
    /\ isUp \in BOOLEAN
    /\ op \in Operations \cup {NoOp}
    /\ pc \in {"idle"} \cup Steps \cup Ended
    /\ busy \in BOOLEAN
    /\ previous \in NVMeTCPInfo
    /\ sync \in [step : {"idle", "polling", "loading", "loaded"}, source : Namespaces \cup {None}]
    /\ fault \in BOOLEAN
    /\ op = NoOp => pc = "idle"
    /\ op # NoOp => pc \in StepsOf(op.name) \cup Ended

Init ==
    /\ paths = {} /\ namespace = None /\ dm = NoDm /\ inUse = FALSE /\ node = None
    /\ removing = FALSE
    /\ info = NoInfo /\ dev = NoDev /\ isUp = FALSE
    /\ op = NoOp /\ pc = "idle" /\ busy = FALSE /\ previous = NoInfo
    /\ sync = NoSync
    /\ fault = FALSE
-----------------------------------------------------------------------------
\* The step pc has its outcome: the operation goes on with another one.
Goto(next) == pc' = next

\* Where StartNvmeTCPInitiator goes on when the path cannot be used as it is.
Relaunch ==
    IF ~op.stop THEN "ensure" ELSE IF op.cleanup THEN "removeDm" ELSE "disconnect"

\* Where it goes on when the path is connected and the device known.
Connected ==
    CASE op.name = "ReconnectPath"        -> "ok"
      [] op.name = "Start" /\ ~op.cleanup -> "skipDm"
      [] op.name = "Start" /\ op.cleanup  -> IF busy THEN "checkDm" ELSE "createDm"

\* What an operation does about an error of the step it is in.
OnError ==
    CASE op.name = "Start" /\ pc \in {"reuse", "reuseWait", "loadEndpoint"}        -> Relaunch
      [] op.name = "Start" /\ pc \in {"checkDm", "suspend", "reload", "resume"}    -> "node"
      [] pc \in {"ensure", "ensureWait"}                                           -> "connect"
      [] pc \in {"load", "record"}                                                 -> "cleanup"
      [] OTHER                                                                     -> "error"

\* A step whose command did what it should, and failed all the same.
FailsAfterwards == pc' = OnError /\ fault' = TRUE

\* The step does what its command says, and goes on or fails.
Outcome(next) == (Goto(next) /\ UNCHANGED fault) \/ FailsAfterwards

HasDm == dm # NoDm

\* Mutant of GetDevices: a path without a namespace is taken for a device.
GetControllers(a) == IF a # None /\ a \notin paths THEN {} ELSE paths

\* GetDevices: the controllers of the device that is found for address a, none
\* if there is no device, or none of its controllers has the address.
GetDevices(a) ==
    IF namespace = None \/ (a # None /\ a \notin paths) THEN {} ELSE paths

\* The commands of the step pc can do their work.
Works ==
    CASE pc \in {"loadEndpoint"}                            -> HasDm /\ node = dm.number
      [] pc \in {"checkDm", "suspend", "resume"}            -> HasDm
      [] pc = "reload"                                      -> HasDm /\ namespace = dev.source /\ namespace # None
      [] pc = "createDm"                                    -> ~HasDm /\ namespace = dev.source
      [] pc = "makeNode"                                    -> node = None
      [] pc \in {"reuse", "reuseWait", "ensure", "ensureWait", "loadInfo"} ->
            GetDevices(info.addr) # {}
      [] OTHER                                              -> TRUE

\* Any command may fail, or time out, without having done anything.
CommandFails ==
    /\ pc \in Steps \ {"skipDm", "cleanup"}
    /\ pc' = OnError
    /\ fault' = (fault \/ Works)
    /\ UNCHANGED <<kernel, memory, op, busy, previous, sync>>
-----------------------------------------------------------------------------
FirstStep(o) ==
    CASE o.name = "Start"                            -> "reuse"
      [] o.name = "Stop"                             -> IF o.cleanup THEN "removeDm" ELSE "disconnect"
      [] o.name \in {"ConnectPath", "ReconnectPath"} -> "ensure"
      [] o.name = "ConnectTarget"                    -> "connect"
      [] o.name = "Disconnect"                       -> "disconnect"
      [] o.name = "Suspend"                          -> "checkDm"
      [] o.name = "Resume"                           -> "resume"
      [] o.name = "Reload"                           -> "reload"
      [] o.name = "LoadEndpoint"                     -> "loadEndpoint"
      [] OTHER                                       -> "loadInfo"

\* busy is TRUE from the start unless the initiator is to be stopped first.
Begin(o) ==
    /\ op = NoOp
    /\ op' = o
    /\ pc' = FirstStep(o)
    /\ busy' = (o.name = "Start" /\ ~o.stop)
    /\ UNCHANGED <<kernel, memory, previous, sync, fault>>

Return ==
    /\ pc \in Ended
    /\ op' = NoOp /\ pc' = "idle" /\ busy' = FALSE
    /\ previous' = NoInfo /\ fault' = FALSE
    /\ UNCHANGED <<kernel, memory, sync>>
-----------------------------------------------------------------------------
(* loadNVMeDeviceInfoWithoutLock *)

\* The error of GetDevices says that there is no device, rather than none with a.
NoValidDevice == paths = {}

\* The controller at a; without an address GetDevices knows only the one that owns the block
\* device, whichever it is, and the recorded name cannot select another.
Selectable(a) == IF a \in GetDevices(a) THEN {a} ELSE GetDevices(a)

\* DetectDevice finds the numbers of device n; nothing is exported yet.
DetectDevice(n) == [source |-> n, export |-> Zero]

\* GetDevices finds the device and its controllers, and lsblk its numbers.
Load(a) ==
    /\ \E p \in Selectable(a) : info' = [addr |-> p, ns |-> namespace]
    /\ dev' = DetectDevice(namespace)

\* The device has been found, but lsblk fails: only the names are recorded.
LoadsHalf(a) ==
    /\ \E p \in Selectable(a) : info' = [addr |-> p, ns |-> namespace]
    /\ UNCHANGED dev

\* reuseExistingNVMeTCPPathWithoutLock, from the step that looks at the present
\* path to the step that waits for it, or to the next one.
Reuse(from, wait, otherwise) ==
    /\ pc = from
    /\ \/ Load(info.addr) /\ Goto(IF info'.addr = op.addr THEN wait ELSE otherwise) /\ UNCHANGED fault
       \/ LoadsHalf(info.addr) /\ FailsAfterwards
    /\ UNCHANGED <<kernel, isUp, op, busy, previous, sync>>

ReuseWait(wait, next) ==
    /\ pc = wait
    /\ \/ Load(op.addr) /\ Goto(next) /\ UNCHANGED fault
       \/ LoadsHalf(op.addr) /\ FailsAfterwards
    /\ UNCHANGED <<kernel, isUp, op, busy, previous, sync>>

StartReuses == Reuse("reuse", "reuseWait", Relaunch) \/ ReuseWait("reuseWait", "loadEndpoint")

EnsureReuses ==
    \/ Reuse("ensure", "ensureWait", "connect")
    \/ ReuseWait("ensureWait", IF op.name = "ConnectPath" THEN "ok" ELSE Connected)

\* LoadNVMeDeviceInfo, WaitForNVMeTCPConnect, WaitForNVMeTCPTargetDisconnect.
\* The last goes on loading until its retries are used up, returns the error of
\* the last attempt, if any, and returns at once when there is no device.
LoadInfo ==
    /\ pc = "loadInfo"
    /\ LET a == IF op.name = "LoadDeviceInfo" THEN op.addr ELSE info.addr IN
       \/ Load(a) /\ Goto("ok") /\ UNCHANGED fault
       \/ LoadsHalf(a) /\ FailsAfterwards
       \/ /\ op.name = "WaitForDisconnect"
          /\ Load(a) \/ LoadsHalf(a)
          /\ UNCHANGED <<pc, fault>>
       \/ /\ op.name = "WaitForDisconnect" /\ NoValidDevice
          /\ Goto("ok") /\ UNCHANGED <<info, dev, fault>>
    /\ UNCHANGED <<kernel, isUp, op, busy, previous, sync>>
-----------------------------------------------------------------------------
\* DmsetupDeps: the device that the live table of the dm device maps, by name,
\* which lsblk knows only as long as it is there.
DmsetupDeps == {dm.live} \cap {namespace}

\* LoadEndpointForNvmeTcpFrontend: the node denotes the dm device, and unless
\* the caller knows that it is busy, that depends on the namespace.
LoadEndpoint ==
    /\ pc = "loadEndpoint"
    /\ HasDm /\ node = dm.number
    /\ \/ op.name = "LoadEndpoint" /\ op.dmBusy
       \/ info.ns = None
       \/ info.ns \in DmsetupDeps
    /\ dev' = [source |-> IF dev = NoDev THEN None ELSE dev.source, export |-> node]
    /\ isUp' = TRUE
    /\ busy' = FALSE
    /\ Goto("ok")
    /\ UNCHANGED <<kernel, info, op, previous, sync, fault>>
-----------------------------------------------------------------------------
(* stopWithoutLock *)

DeferredRemoval == op.name = "Stop" /\ op.deferred

\* Mutant of ErrorIfBusy: a busy device is an error for Start, too.
AlwaysErrorIfBusy == TRUE

ErrorIfBusy == op.name = "Stop" /\ op.strict

\* removeLinearDmDevice.  A device that is in use stays: it is removed when it
\* is closed if the removal is deferred, or else it is reported to be busy.
RemoveDm ==
    /\ pc = "removeDm"
    /\ \/ /\ ~HasDm
          /\ Goto("removeNode") /\ UNCHANGED <<dm, busy, fault>>
       \/ /\ HasDm /\ ~inUse
          /\ dm' = NoDm
          /\ Outcome("removeNode") /\ UNCHANGED busy
       \/ /\ HasDm /\ inUse /\ DeferredRemoval
          /\ dm' = [dm EXCEPT !.deferred = TRUE]
          /\ Outcome("removeNode") /\ UNCHANGED busy
       \/ /\ HasDm /\ inUse /\ ~DeferredRemoval
          /\ busy' = TRUE
          /\ Goto(IF ErrorIfBusy THEN "error" ELSE "removeNode") /\ UNCHANGED <<dm, fault>>
    /\ UNCHANGED <<paths, namespace, inUse, node, removing, memory, op, previous, sync>>

\* RemoveDevice gives up on a removal that hangs, which may go through later.
RemovalHangs ==
    /\ node # None
    /\ removing' = TRUE
    /\ pc' = "error" /\ fault' = TRUE
\* Mutant of RemoveNode: the object goes on believing in the endpoint.
RemoveNodeOnly ==
    /\ pc = "removeNode"
    /\ node' = None
    /\ Goto("disconnect")
    /\ UNCHANGED <<removing, dev, isUp, fault>>
    /\ UNCHANGED <<paths, namespace, dm, inUse, info, op, busy, previous, sync>>

RemoveNode ==
    /\ pc = "removeNode"
    /\ \/ /\ node' = None /\ dev' = NoDev /\ isUp' = FALSE
          /\ Goto("disconnect")
          /\ UNCHANGED <<removing, fault>>
       \/ RemovalHangs /\ UNCHANGED <<node, dev, isUp>>
    /\ UNCHANGED <<paths, namespace, dm, inUse, info, op, busy, previous, sync>>

\* nvme disconnect: all controllers of the subsystem go, and their namespace.
DisconnectTarget == paths' = {} /\ namespace' = None

\* Stop also forgets what it knew of the path.
Disconnect ==
    /\ pc = "disconnect"
    /\ DisconnectTarget
    /\ \/ /\ Goto(IF op.name = "Start" THEN "ensure" ELSE "ok")
          /\ info' = IF op.name = "Disconnect" THEN info ELSE NoInfo
          /\ UNCHANGED fault
       \/ FailsAfterwards /\ UNCHANGED info
    /\ UNCHANGED <<dm, inUse, node, removing, dev, isUp, op, busy, previous, sync>>
-----------------------------------------------------------------------------
(* discoverAndConnectNVMeTCPTarget, and the rest of ensureNVMeTCPPath *)

\* ConnectTargetWithNrIoQueues: a path that GetDevices or the list of subsystems
\* shows is not connected again.
ConnectTarget(a) == paths' = paths \cup {a}

\* Nothing is loaded by ConnectNVMeTCPPath and ConnectNVMeTCPTarget.
OnlyConnects == op.name \in {"ConnectPath", "ConnectTarget"}

\* An attempt that fails after the kernel has connected is repeated.
Connect ==
    /\ pc = "connect"
    /\ previous' = info
    /\ ConnectTarget(op.addr)
    /\ \/ Goto(IF OnlyConnects THEN "ok" ELSE "load") /\ UNCHANGED fault
       \/ /\ ~OnlyConnects /\ op.addr \notin paths   \* an empty controller name
          /\ Goto("cleanup") /\ fault' = TRUE
       \/ UNCHANGED pc /\ fault' = TRUE
    /\ UNCHANGED <<namespace, dm, inUse, node, removing, memory, op, busy, sync>>

LoadConnected ==
    /\ pc = "load"
    /\ \/ /\ Load(op.addr) /\ Goto(Connected)
          /\ previous' = NoInfo
          /\ UNCHANGED fault
       \/ LoadsHalf(op.addr) /\ FailsAfterwards /\ UNCHANGED previous
    /\ UNCHANGED <<kernel, isUp, op, busy, sync>>

\* The namespace goes when its last path does.
LosePath(a) ==
    /\ paths' = paths \ {a}
    /\ namespace' = IF paths' = {} THEN None ELSE namespace

\* cleanupConnection: DisconnectController, whose failure is only logged.
Cleanup ==
    /\ pc = "cleanup"
    /\ LosePath(op.addr) \/ UNCHANGED <<paths, namespace>>
    /\ info' = previous
    /\ Goto("error")
    /\ UNCHANGED <<dm, inUse, node, removing, dev, isUp, op, busy, previous, sync, fault>>
-----------------------------------------------------------------------------
(* The dm device *)

SkipDm ==
    /\ pc = "skipDm"
    /\ dev' = [dev EXCEPT !.export = dev.source]
    /\ Goto("node")
    /\ UNCHANGED <<kernel, info, isUp, op, busy, previous, sync, fault>>

\* createLinearDmDevice; the numbers are read at last.
CreateDm ==
    /\ pc = "createDm"
    /\ ~HasDm /\ namespace = dev.source
    /\ \E n \in DmNumbers :
        /\ dm' = [number |-> n, live |-> dev.source, inactive |-> None,
                  suspended |-> FALSE, deferred |-> FALSE]
        /\ \/ Goto("node") /\ dev' = [dev EXCEPT !.export = n] /\ UNCHANGED fault
           \/ FailsAfterwards /\ UNCHANGED dev
    /\ UNCHANGED <<paths, namespace, inUse, node, removing, info, isUp, op, busy, previous, sync>>

\* DmsetupInfo
IsSuspended == dm.suspended

\* IsDeferredRemoveSet, which only warns, and IsSuspended.
CheckDm ==
    /\ pc = "checkDm"
    /\ HasDm
    /\ Goto(CASE ~IsSuspended                       -> "suspend"
              [] IsSuspended /\ op.name = "Start"   -> "reload"
              [] IsSuspended /\ op.name = "Suspend" -> "ok")
    /\ UNCHANGED <<kernel, memory, op, busy, previous, sync, fault>>

SuspendDm ==
    /\ pc = "suspend"
    /\ HasDm
    /\ dm' = [dm EXCEPT !.suspended = TRUE]
    /\ Outcome(IF op.name = "Start" THEN "reload" ELSE "ok")
    /\ UNCHANGED <<paths, namespace, inUse, node, removing, memory, op, busy, previous, sync>>

\* Mutant of ReloadDm: the table is made of what depends on the old one.
ReloadLiveTable ==
    /\ pc = "reload"
    /\ dev # NoDev /\ HasDm
    /\ dm' = [dm EXCEPT !.inactive = dm.live]
    /\ Goto(IF op.name = "Start" THEN "resume" ELSE "ok")
    /\ dev' = [dev EXCEPT !.export = dm.number]
    /\ UNCHANGED <<paths, namespace, inUse, node, removing, info, isUp, op, busy, previous, sync, fault>>

\* reloadLinearDmDevice: dmsetup loads the inactive table, then lsblk reads the
\* numbers of the device.
ReloadDm ==
    /\ pc = "reload"
    /\ dev # NoDev /\ HasDm
    /\ namespace # None /\ namespace = dev.source
    /\ dm' = [dm EXCEPT !.inactive = dev.source]
    /\ \/ /\ Goto(IF op.name = "Start" THEN "resume" ELSE "ok")
          /\ dev' = [dev EXCEPT !.export = dm.number]
          /\ UNCHANGED fault
       \/ FailsAfterwards /\ UNCHANGED dev
    /\ UNCHANGED <<paths, namespace, inUse, node, removing, info, isUp, op, busy, previous, sync>>

\* The inactive table, if there is one, becomes the live one.
ResumeDm ==
    /\ pc = "resume"
    /\ HasDm
    /\ dm' = [dm EXCEPT !.suspended = FALSE, !.inactive = None,
                        !.live = IF dm.inactive = None THEN dm.live ELSE dm.inactive]
    /\ \/ /\ Goto(IF op.name = "Start" THEN "node" ELSE "ok")
          /\ busy' = FALSE
          /\ UNCHANGED fault
       \/ FailsAfterwards /\ UNCHANGED busy
    /\ UNCHANGED <<paths, namespace, inUse, node, removing, memory, op, previous, sync>>
-----------------------------------------------------------------------------
\* Mutant of CheckNode: any node that is there will do.
KeepNode ==
    /\ pc = "node"
    /\ IF node = None
          THEN Goto("makeNode") /\ UNCHANGED <<node, isUp>>
          ELSE Goto("ok") /\ isUp' = TRUE /\ UNCHANGED node
    /\ UNCHANGED <<paths, namespace, dm, inUse, removing, info, dev, op, busy, previous, sync, fault>>

\* createEndpoint: a node with the numbers that i.dev exports stays; any other
\* one is removed first.
CheckNode ==
    /\ pc = "node"
    /\ CASE node = None ->
              Goto("makeNode") /\ UNCHANGED <<node, removing, isUp, fault>>
         [] node # None /\ node = dev.export ->
              Goto("ok") /\ isUp' = TRUE /\ UNCHANGED <<node, removing, fault>>
         [] node # None /\ node # dev.export ->
              \/ node' = None /\ Goto("makeNode") /\ UNCHANGED <<removing, isUp, fault>>
              \/ RemovalHangs /\ UNCHANGED <<node, isUp>>
    /\ UNCHANGED <<paths, namespace, dm, inUse, info, dev, op, busy, previous, sync>>

MakeNode ==
    /\ pc = "makeNode"
    /\ node = None
    /\ node' = dev.export
    /\ \/ Goto("ok") /\ isUp' = TRUE /\ UNCHANGED fault
       \/ FailsAfterwards /\ UNCHANGED isUp
    /\ UNCHANGED <<paths, namespace, dm, inUse, removing, info, dev, op, busy, previous, sync>>
-----------------------------------------------------------------------------
(* SyncDmDeviceSize, which takes no lock *)

SyncStarts ==
    /\ Syncs /\ sync = NoSync
    /\ dev # NoDev /\ dev.source # None
    /\ sync' = [step |-> "polling", source |-> dev.source]
    /\ UNCHANGED <<kernel, memory, op, pc, busy, previous, fault>>

\* The device has grown: reloadLinearDmDevice reads its name again.
SyncReloads ==
    /\ sync.step = "polling"
    /\ dev # NoDev
    /\ sync' = [step |-> "loading", source |-> dev.source]
    /\ UNCHANGED <<kernel, memory, op, pc, busy, previous, fault>>

\* dmsetup loads the table, ...
SyncLoadsTable ==
    /\ sync.step = "loading"
    /\ HasDm
    /\ namespace # None /\ namespace = sync.source
    /\ dm' = [dm EXCEPT !.inactive = sync.source]
    /\ sync' = [step |-> "loaded", source |-> None]
    /\ UNCHANGED <<paths, namespace, inUse, node, removing, memory, op, pc, busy, previous, fault>>

\* ... and lsblk reads the numbers.
SyncEnds ==
    /\ sync.step = "loaded"
    /\ HasDm /\ dev # NoDev
    /\ dev' = [dev EXCEPT !.export = dm.number]
    /\ sync' = NoSync
    /\ UNCHANGED <<kernel, info, isUp, op, pc, busy, previous, fault>>

SyncFails ==
    /\ sync # NoSync
    /\ sync' = NoSync
    /\ UNCHANGED <<kernel, memory, op, pc, busy, previous, fault>>
-----------------------------------------------------------------------------
(* What happens meanwhile *)

\* The host shows the block device of the namespace under a free name.
NamespaceAppears ==
    /\ paths # {} /\ namespace = None
    /\ \E n \in Namespaces :
        /\ HasDm => n \notin {dm.live, dm.inactive}
        /\ namespace' = n
    /\ UNCHANGED <<paths, dm, inUse, node, removing, memory, op, pc, busy, previous, sync, fault>>

\* ctrl_loss_tmo runs out, or another process disconnects.
PathLost(a) ==
    /\ a \in paths
    /\ LosePath(a)
    /\ fault' = (op # NoOp)
    /\ UNCHANGED <<dm, inUse, node, removing, memory, op, pc, busy, previous, sync>>

UserOpens ==
    /\ HasDm /\ node = dm.number /\ ~inUse
    /\ inUse' = TRUE
    /\ UNCHANGED <<paths, namespace, dm, node, removing, memory, op, pc, busy, previous, sync, fault>>

\* A device whose removal was deferred goes now, also from under an operation.
UserCloses ==
    /\ inUse
    /\ inUse' = FALSE
    /\ dm' = IF dm.deferred THEN NoDm ELSE dm
    /\ fault' = (fault \/ (dm.deferred /\ op # NoOp))
    /\ UNCHANGED <<paths, namespace, node, removing, memory, op, pc, busy, previous, sync>>

LateRemoval ==
    /\ removing
    /\ removing' = FALSE
    /\ node' = None
    /\ fault' = (fault \/ op # NoOp)
    /\ UNCHANGED <<paths, namespace, dm, inUse, memory, op, pc, busy, previous, sync>>

\* The process dies and is started again: the kernel keeps what it has.
Restarts ==
    /\ removing' = FALSE
    /\ info' = NoInfo /\ dev' = NoDev /\ isUp' = FALSE
    /\ op' = NoOp /\ pc' = "idle" /\ busy' = FALSE /\ previous' = NoInfo
    /\ sync' = NoSync /\ fault' = FALSE
    /\ UNCHANGED <<paths, namespace, dm, inUse, node>>

Crash == Restarts

\* reloadLinearDmDevice dereferences i.dev, which is nil after a restart and
\* while the initiator is stopped.
Panics ==
    /\ dev = NoDev
    /\ pc = "reload" \/ sync.step \in {"polling", "loaded"}
    /\ Restarts
-----------------------------------------------------------------------------
OperationStep ==
    \/ StartReuses \/ EnsureReuses \/ LoadInfo \/ LoadEndpoint
    \/ RemoveDm \/ RemoveNode \/ Disconnect
    \/ Connect \/ LoadConnected \/ Cleanup
    \/ SkipDm \/ CreateDm \/ CheckDm \/ SuspendDm \/ ReloadDm \/ ResumeDm
    \/ CheckNode \/ MakeNode
    \/ CommandFails

SyncStep == SyncStarts \/ SyncReloads \/ SyncLoadsTable \/ SyncEnds \/ SyncFails

EnvironmentStep ==
    \/ NamespaceAppears \/ UserOpens \/ UserCloses \/ LateRemoval
    \/ \E a \in Addrs : PathLost(a)

Next ==
    \/ \E o \in Requests : Begin(o)
    \/ OperationStep \/ Return
    \/ SyncStep \/ EnvironmentStep
    \/ Crash \/ Panics

Spec == Init /\ [][Next]_vars
-----------------------------------------------------------------------------
Ends(name, how) == op.name = name /\ pc # how /\ pc' = how

\* When StartNvmeTCPInitiator reports success with a device that is not busy,
\* the endpoint leads to the namespace behind the address it was given: its
\* numbers are those of the dm device, whose live table is on the namespace the
\* initiator has recorded, or those of the namespace if no dm device was wanted.
EndpointServes ==
    [][Ends("Start", "ok") /\ ~busy' =>
        /\ isUp' /\ info'.addr = op.addr /\ dev'.export = node'
        /\ op.cleanup /\ HasDm' => node' = dm'.number /\ dm'.live = dev'.source
        /\ op.cleanup /\ ~HasDm' => fault
        /\ ~op.cleanup /\ ~HasDm' /\ ~fault => node' = dev'.source]_vars

\* A Stop with cleanup that succeeds and does not report a busy device leaves
\* nothing behind, in the kernel or in memory, but a dm device to be removed by
\* the user who closes it last.
StoppedIsClean ==
    [][Ends("Stop", "ok") /\ op.cleanup /\ ~busy' =>
        /\ HasDm' => op.deferred /\ dm'.deferred
        /\ node' = None /\ paths' = {} /\ namespace' = None
        /\ dev' = NoDev /\ ~isUp' /\ info' = NoInfo]_vars

\* A Start that stops the initiator first fails only when something fails that
\* could have worked: no state that operations, crashes and users of the device
\* have left behind makes it fail.
CleanStartSucceeds ==
    [][Ends("Start", "error") /\ op.stop => fault \/ fault']_vars

\* From the choice between dm device and namespace to the end, Start has the
\* device that it dereferences.
DevicePresent ==
    op.name = "Start" /\ pc \in {"skipDm", "createDm", "checkDm", "suspend", "reload",
                                 "resume", "node", "makeNode"}
    => dev # NoDev /\ dev.source # None
=============================================================================
