------------------------ MODULE NvmeInitiatorProofs ------------------------
(***************************************************************************)
(* Theorems about NvmeInitiator, for any number of targets, of names of    *)
(* namespaces and of numbers, and whatever operations are asked for.       *)
(***************************************************************************)
EXTENDS NvmeInitiator, TLAPS

\* The type invariant in three parts: what is in the kernel, what the object
\* remembers, and how far the operations are.
KernelOK ==
    /\ paths \in SUBSET Addrs
    /\ namespace \in Namespaces \cup {None}
    /\ dm \in DmDevice \cup {NoDm}
    /\ inUse \in BOOLEAN
    /\ node \in Numbers \cup {None}
    /\ removing \in BOOLEAN

MemoryOK ==
    /\ info \in NVMeTCPInfo
    /\ dev \in Device \cup {NoDev}
    /\ isUp \in BOOLEAN
    /\ previous \in NVMeTCPInfo

SyncOK ==
    sync \in [step : {"idle", "polling", "loading", "loaded"}, source : Namespaces \cup {None}]

ControlOK ==
    /\ op \in Operations \cup {NoOp}
    /\ pc \in {"idle"} \cup Steps \cup Ended
    /\ busy \in BOOLEAN
    /\ fault \in BOOLEAN
    /\ op = NoOp => pc = "idle"
    /\ op # NoOp => pc \in StepsOf(op.name) \cup Ended

Parts == KernelOK /\ MemoryOK /\ SyncOK /\ ControlOK

LEMMA TypeParts == TypeOK <=> Parts
BY DEF TypeOK, Parts, KernelOK, MemoryOK, SyncOK, ControlOK

\* An operation under way, at a step of its own.
UnderWay == op \in Operations /\ pc \in StepsOf(op.name) /\ pc \in Steps

LEMMA StepIsOwn ==
    ASSUME ControlOK, pc \in Steps
    PROVE  UnderWay
<1>1. op # NoOp /\ pc \notin Ended
  BY DEF ControlOK, Steps, Ended
<1>2. QED
  BY <1>1 DEF ControlOK, UnderWay

\* The operations that have an address.
LEMMA AddrOfOperation ==
    ASSUME op \in Operations,
           op.name \in {"Start", "ConnectPath", "ConnectTarget", "ReconnectPath"}
    PROVE  op.addr \in Addrs
BY DEF Operations

LEMMA StartArguments ==
    ASSUME op \in Operations, op.name = "Start"
    PROVE  op.cleanup \in BOOLEAN /\ op.stop \in BOOLEAN
BY DEF Operations

\* Whoever comes to a step that needs an address has one.
LEMMA AddrAtStep ==
    ASSUME UnderWay,
           pc \in {"reuse", "reuseWait", "ensure", "ensureWait", "connect", "load", "cleanup"}
    PROVE  op.addr \in Addrs
<1>1. op.name \in {"Start", "ConnectPath", "ConnectTarget", "ReconnectPath"}
  BY DEF UnderWay, StepsOf
<1>2. QED
  BY <1>1, AddrOfOperation DEF UnderWay

\* An operation goes on within its own steps.
LEMMA OnErrorIsOwn ==
    ASSUME UnderWay
    PROVE  OnError \in StepsOf(op.name) \cup Ended
BY DEF UnderWay, OnError, Relaunch, StepsOf, Steps, Ended

LEMMA ConnectedIsOwn ==
    ASSUME UnderWay, op.name \in {"Start", "ReconnectPath"}
    PROVE  Connected \in StepsOf(op.name) \cup Ended
BY StartArguments DEF UnderWay, Connected, StepsOf, Steps, Ended

LEMMA RelaunchIsOwn ==
    ASSUME UnderWay, op.name = "Start"
    PROVE  Relaunch \in StepsOf(op.name) \cup Ended
BY DEF UnderWay, Relaunch, StepsOf, Steps, Ended

\* It is enough that the next step is one of the operation's own.
LEMMA ControlStep ==
    ASSUME UnderWay, op' = op, pc' \in StepsOf(op.name) \cup Ended,
           busy' \in BOOLEAN, fault' \in BOOLEAN
    PROVE  ControlOK'
<1>1. StepsOf(op.name) \subseteq Steps
  BY DEF StepsOf, Steps
<1>2. op # NoOp
  BY DEF UnderWay, Operations, NoOp
<1>3. QED
  BY <1>1, <1>2 DEF UnderWay, ControlOK

\* What GetDevices finds are controllers, of a device that is there.
LEMMA SelectableControllers ==
    ASSUME KernelOK, MemoryOK, NEW a \in Addrs \cup {None}
    PROVE  Selectable(a) \subseteq Addrs /\ (Selectable(a) # {} => namespace \in Namespaces)
BY NvmeAssumption DEF KernelOK, MemoryOK, Selectable, GetDevices, NVMeTCPInfo
-----------------------------------------------------------------------------
\* What loading the device information records.
LEMMA LoadRecords ==
    ASSUME KernelOK, MemoryOK, NEW a \in Addrs \cup {None}, Load(a)
    PROVE  info' \in NVMeTCPInfo /\ dev' \in Device /\ dev'.source \in Namespaces
<1>1. PICK p \in Selectable(a) : info' = [addr |-> p, ns |-> namespace]
  BY DEF Load
<1>2. p \in Addrs /\ namespace \in Namespaces
  BY <1>1, SelectableControllers
<1>3. QED
  BY <1>1, <1>2 DEF Load, DetectDevice, NVMeTCPInfo, Device, Numbers

LEMMA HalfLoadRecords ==
    ASSUME KernelOK, MemoryOK, NEW a \in Addrs \cup {None}, LoadsHalf(a)
    PROVE  info' \in NVMeTCPInfo /\ dev' = dev
<1>1. PICK p \in Selectable(a) : info' = [addr |-> p, ns |-> namespace]
  BY DEF LoadsHalf
<1>2. p \in Addrs /\ namespace \in Namespaces
  BY <1>1, SelectableControllers
<1>3. QED
  BY <1>1, <1>2 DEF LoadsHalf, NVMeTCPInfo

\* The device that Start has from then on.
Present == dev \in Device /\ dev.source \in Namespaces

LEMMA PresentDevice ==
    ASSUME MemoryOK
    PROVE  (dev # NoDev /\ dev.source # None) <=> Present
BY NvmeAssumption DEF MemoryOK, Present, Device, NoDev

IInv == Parts /\ DevicePresent

\* The steps at which DevicePresent speaks of the device.
WithDevice == {"skipDm", "createDm", "checkDm", "suspend", "reload", "resume", "node", "makeNode"}

LEMMA InitInv == Init => IInv
<1> SUFFICES ASSUME Init PROVE IInv
  OBVIOUS
<1>1. KernelOK /\ SyncOK
  BY DEF Init, KernelOK, SyncOK, NoSync
<1>2. MemoryOK
  BY DEF Init, MemoryOK, NoInfo, NVMeTCPInfo
<1>3. ControlOK
  BY DEF Init, ControlOK
<1>4. DevicePresent
  BY DEF Init, DevicePresent
<1>5. QED
  BY <1>1, <1>2, <1>3, <1>4 DEF IInv, Parts

\* While an operation is at a step, DevicePresent asks for a device at the steps
\* of Start that use it.
LEMMA PresentStep ==
    ASSUME MemoryOK', op.name = "Start" /\ pc' \in WithDevice => Present'
    PROVE  op' = op => DevicePresent'
<1>1. (dev' # NoDev /\ dev'.source # None) <=> Present'
  BY NvmeAssumption DEF MemoryOK, Present, Device, NoDev
<1>2. QED
  BY <1>1 DEF DevicePresent, WithDevice

LEMMA PresentNow ==
    ASSUME IInv, UnderWay, pc \in {"skipDm", "createDm", "node", "makeNode"}
    PROVE  Present
<1>1. op.name = "Start"
  BY DEF UnderWay, StepsOf
<1>2. QED
  BY <1>1, PresentDevice DEF IInv, Parts, DevicePresent

\* An error leads Start to the use of the device only from another such step.
LEMMA OnErrorDevice ==
    ASSUME UnderWay, OnError \in WithDevice
    PROVE  op.name = "Start" /\ pc \in WithDevice
BY DEF UnderWay, OnError, Relaunch, WithDevice, StepsOf, Steps

\* reuseExistingNVMeTCPPathWithoutLock
LEMMA ReuseKeeps ==
    ASSUME IInv, StartReuses \/ EnsureReuses
    PROVE  IInv'
<1>1. UnderWay /\ MemoryOK /\ KernelOK
  BY StepIsOwn DEF StartReuses, EnsureReuses, Reuse, ReuseWait, Steps, IInv, Parts
<1>2. info.addr \in Addrs \cup {None} /\ OnError \in StepsOf(op.name) \cup Ended
  BY <1>1, OnErrorIsOwn DEF MemoryOK, NVMeTCPInfo
<1>3. op.addr \in Addrs
  BY <1>1, AddrAtStep DEF StartReuses, EnsureReuses, Reuse, ReuseWait
<1>4. KernelOK' /\ SyncOK'
  BY DEF StartReuses, EnsureReuses, Reuse, ReuseWait, KernelOK, SyncOK, kernel, IInv, Parts
<1>5. MemoryOK'
  BY <1>1, <1>2, <1>3, LoadRecords, HalfLoadRecords
     DEF StartReuses, EnsureReuses, Reuse, ReuseWait, MemoryOK
<1>6. op.name = "Start" => Relaunch \in StepsOf(op.name) \cup Ended
  BY <1>1, RelaunchIsOwn
<1>7. pc = "ensureWait" => op.name \in {"Start", "ReconnectPath", "ConnectPath"}
  BY <1>1 DEF UnderWay, StepsOf
<1>8. pc \in {"reuse", "reuseWait"} => op.name = "Start"
  BY <1>1 DEF UnderWay, StepsOf
<1>9. pc = "ensure" => {"ensureWait", "connect"} \subseteq StepsOf(op.name)
  BY <1>1 DEF UnderWay, StepsOf, Steps
<1>10. op.name \in {"Start", "ReconnectPath"} => Connected \in StepsOf(op.name) \cup Ended
  BY <1>1, ConnectedIsOwn
<1>11. pc' \in StepsOf(op.name) \cup Ended
  <2>1. op.name = "Start" => {"reuseWait", "loadEndpoint"} \subseteq StepsOf(op.name)
    BY DEF StepsOf, Steps
  <2>2. QED
    BY <2>1, <1>2, <1>6, <1>7, <1>8, <1>9, <1>10
       DEF StartReuses, EnsureReuses, Reuse, ReuseWait, Goto, FailsAfterwards, Ended
<1>12. ControlOK'
  BY <1>1, <1>11, ControlStep
     DEF StartReuses, EnsureReuses, Reuse, ReuseWait, FailsAfterwards, ControlOK, IInv, Parts
<1>13. op.name = "Start" /\ pc' \in WithDevice => Present'
  <2>1. Relaunch \notin WithDevice /\ OnError \notin WithDevice
    BY OnErrorDevice, <1>1
       DEF Relaunch, WithDevice, StartReuses, EnsureReuses, Reuse, ReuseWait
  <2>2. ASSUME Load(op.addr) PROVE Present'
    BY <2>2, <1>1, <1>3, LoadRecords DEF Present
  <2>3. QED
    BY <2>1, <2>2
       DEF StartReuses, EnsureReuses, Reuse, ReuseWait, Goto, FailsAfterwards, WithDevice
<1>14. QED
  BY <1>4, <1>5, <1>12, <1>13, PresentStep
     DEF StartReuses, EnsureReuses, Reuse, ReuseWait, IInv, Parts

\* The load after a connect, and the operations that only load.
LEMMA LoadKeeps ==
    ASSUME IInv, LoadConnected \/ LoadInfo
    PROVE  IInv'
<1>1. UnderWay /\ MemoryOK /\ KernelOK
  BY StepIsOwn DEF LoadConnected, LoadInfo, Steps, IInv, Parts
<1>2. info.addr \in Addrs \cup {None} /\ OnError \in StepsOf(op.name) \cup Ended
  BY <1>1, OnErrorIsOwn DEF MemoryOK, NVMeTCPInfo
<1>3. KernelOK' /\ SyncOK'
  BY DEF LoadConnected, LoadInfo, KernelOK, SyncOK, kernel, IInv, Parts
<1>4. NoInfo \in NVMeTCPInfo
  BY DEF NoInfo, NVMeTCPInfo
<1>5. OnError \in WithDevice => FALSE
  BY OnErrorDevice, <1>1 DEF WithDevice, LoadConnected, LoadInfo
<1>6. CASE LoadConnected
  <2>1. op.addr \in Addrs
    BY <1>1, <1>6, AddrAtStep DEF LoadConnected
  <2>2. op.name \in {"Start", "ReconnectPath"}
    BY <1>1, <1>6 DEF UnderWay, StepsOf, LoadConnected
  <2>3. MemoryOK'
    BY <1>1, <1>4, <1>6, <2>1, LoadRecords, HalfLoadRecords DEF LoadConnected, MemoryOK
  <2>4. pc' \in StepsOf(op.name) \cup Ended
    BY <1>1, <1>2, <1>6, <2>2, ConnectedIsOwn DEF LoadConnected, Goto, FailsAfterwards
  <2>5. ControlOK'
    BY <1>1, <1>6, <2>4, ControlStep DEF LoadConnected, FailsAfterwards, ControlOK, IInv, Parts
  <2>6. op.name = "Start" /\ pc' \in WithDevice => Present'
    BY <1>1, <1>5, <1>6, <2>1, LoadRecords DEF Present, LoadConnected, FailsAfterwards
  <2>7. QED
    BY <1>3, <1>6, <2>3, <2>5, <2>6, PresentStep DEF LoadConnected, IInv, Parts
<1>7. CASE LoadInfo
  <2>1. op.name # "Start"
    BY <1>1, <1>7 DEF UnderWay, StepsOf, LoadInfo
  <2>2. op.name = "LoadDeviceInfo" => op.addr \in Addrs \cup {None}
    BY <1>1 DEF UnderWay, Operations
  <2>3. MemoryOK'
    <3> DEFINE a == IF op.name = "LoadDeviceInfo" THEN op.addr ELSE info.addr
    <3>1. a \in Addrs \cup {None}
      BY <1>2, <2>2
    <3>2. \/ Load(a) \/ LoadsHalf(a)
          \/ UNCHANGED <<info, dev>>
      BY <1>7 DEF LoadInfo
    <3>3. isUp' = isUp /\ previous' = previous
      BY <1>7 DEF LoadInfo
    <3> HIDE DEF a
    <3>4. QED
      BY <1>1, <3>1, <3>2, <3>3, LoadRecords, HalfLoadRecords DEF MemoryOK
  <2>4. pc' \in StepsOf(op.name) \cup Ended
    BY <1>1, <1>2, <1>7 DEF LoadInfo, Goto, FailsAfterwards, Ended, UnderWay
  <2>5. ControlOK'
    BY <1>1, <1>7, <2>4, ControlStep DEF LoadInfo, FailsAfterwards, ControlOK, IInv, Parts
  <2>6. QED
    BY <1>3, <1>7, <2>1, <2>3, <2>5, PresentStep DEF LoadInfo, IInv, Parts
<1>8. QED
  BY <1>6, <1>7

\* Commands that fail change nothing but the control.
LEMMA CommandFailsKeeps ==
    ASSUME IInv, CommandFails
    PROVE  IInv'
<1>1. UnderWay
  BY StepIsOwn DEF CommandFails, Steps, IInv, Parts
<1>2. KernelOK' /\ MemoryOK' /\ SyncOK'
  BY DEF CommandFails, KernelOK, MemoryOK, SyncOK, kernel, memory, IInv, Parts
<1>3. pc' \in StepsOf(op.name) \cup Ended
  BY <1>1, OnErrorIsOwn DEF CommandFails
<1>4. (fault \/ Works) \in BOOLEAN
  OBVIOUS
<1>5. ControlOK'
  BY <1>1, <1>3, <1>4, ControlStep DEF CommandFails, ControlOK, IInv, Parts
<1>6. op.name = "Start" /\ pc' \in WithDevice => Present'
  <2>1. op.name = "Start" /\ pc \in WithDevice => Present
    BY PresentDevice DEF IInv, Parts, DevicePresent, WithDevice
  <2>2. QED
    BY <1>1, <2>1, OnErrorDevice DEF CommandFails, memory, Present
<1>7. QED
  BY <1>2, <1>5, <1>6, PresentStep DEF CommandFails, IInv, Parts

\* Operations begin and return.
LEMMA BeginKeeps ==
    ASSUME IInv, (\E o \in Requests : Begin(o)) \/ Return
    PROVE  IInv'
<1>1. KernelOK' /\ SyncOK'
  BY DEF Begin, Return, KernelOK, SyncOK, kernel, IInv, Parts
<1>2. MemoryOK'
  BY DEF Begin, Return, MemoryOK, memory, NoInfo, NVMeTCPInfo, IInv, Parts
<1>3. CASE Return
  <2>1. ControlOK'
    BY <1>3 DEF Return, ControlOK
  <2>2. DevicePresent'
    BY <1>3 DEF Return, DevicePresent, NoOp
  <2>3. QED
    BY <1>1, <1>2, <2>1, <2>2 DEF IInv, Parts
<1>4. ASSUME NEW o \in Requests, Begin(o)
      PROVE  IInv'
  <2>1. o \in Operations /\ op' = o /\ pc' = FirstStep(o)
    BY <1>4, RequestsAssumption DEF Begin
  <2>2. FirstStep(o) \in StepsOf(o.name) /\ FirstStep(o) \in Steps
    BY <2>1 DEF FirstStep, StepsOf, Steps, Operations
  <2>3. o # NoOp
    BY <2>1 DEF Operations, NoOp
  <2>4. ControlOK'
    BY <1>4, <2>1, <2>2, <2>3 DEF Begin, ControlOK, IInv, Parts
  <2>5. o.name = "Start" => FirstStep(o) = "reuse"
    BY DEF FirstStep
  <2>6. DevicePresent'
    BY <2>1, <2>5 DEF DevicePresent
  <2>7. QED
    BY <1>1, <1>2, <2>4, <2>6 DEF IInv, Parts
<1>5. QED
  BY <1>3, <1>4

\* stopWithoutLock
LEMMA StopKeeps ==
    ASSUME IInv, RemoveDm \/ RemoveNode \/ Disconnect
    PROVE  IInv'
<1>1. UnderWay
  BY StepIsOwn DEF RemoveDm, RemoveNode, Disconnect, Steps, IInv, Parts
<1>2. KernelOK'
  BY DEF RemoveDm, RemoveNode, Disconnect, DisconnectTarget, RemovalHangs, HasDm, NoDm, DmDevice,
         KernelOK, IInv, Parts
<1>3. MemoryOK' /\ SyncOK'
  <2>1. NoInfo \in NVMeTCPInfo
    BY DEF NoInfo, NVMeTCPInfo
  <2>2. info' \in NVMeTCPInfo /\ dev' \in Device \cup {NoDev} /\ isUp' \in BOOLEAN
    BY <2>1 DEF RemoveDm, RemoveNode, Disconnect, memory, MemoryOK, IInv, Parts
  <2>3. QED
    BY <2>2 DEF RemoveDm, RemoveNode, Disconnect, MemoryOK, SyncOK, IInv, Parts
<1>4. OnError \in StepsOf(op.name) \cup Ended /\ OnError \notin WithDevice
  BY <1>1, OnErrorIsOwn, OnErrorDevice DEF RemoveDm, RemoveNode, Disconnect, WithDevice
<1>5. pc' \in StepsOf(op.name) \cup Ended /\ pc' \notin WithDevice
  <2>1. CASE RemoveDm
    <3>1. op.name \in {"Start", "Stop"}
      BY <1>1, <2>1 DEF RemoveDm, UnderWay, StepsOf
    <3>2. "removeNode" \in StepsOf(op.name)
      BY <3>1 DEF StepsOf, Steps
    <3>3. QED
      BY <1>4, <2>1, <3>2 DEF RemoveDm, Outcome, Goto, FailsAfterwards, Ended, WithDevice
  <2>2. CASE RemoveNode
    <3>1. op.name \in {"Start", "Stop"}
      BY <1>1, <2>2 DEF RemoveNode, UnderWay, StepsOf
    <3>2. "disconnect" \in StepsOf(op.name)
      BY <3>1 DEF StepsOf, Steps
    <3>3. QED
      BY <2>2, <3>2 DEF RemoveNode, RemovalHangs, Goto, Ended, WithDevice
  <2>3. CASE Disconnect
    <3>1. op.name = "Start" => "ensure" \in StepsOf(op.name)
      BY DEF StepsOf, Steps
    <3>2. QED
      BY <1>4, <2>3, <3>1 DEF Disconnect, Goto, FailsAfterwards, Ended, WithDevice
  <2>4. QED
    BY <2>1, <2>2, <2>3
<1>6. ControlOK'
  BY <1>1, <1>5, ControlStep
     DEF RemoveDm, RemoveNode, Disconnect, RemovalHangs, Outcome, FailsAfterwards, ControlOK, IInv, Parts
<1>7. QED
  BY <1>2, <1>3, <1>5, <1>6, PresentStep DEF RemoveDm, RemoveNode, Disconnect, IInv, Parts

\* Connect, and the cleanup after it.
LEMMA ConnectKeeps ==
    ASSUME IInv, Connect \/ Cleanup
    PROVE  IInv'
<1>1. UnderWay
  BY StepIsOwn DEF Connect, Cleanup, Steps, IInv, Parts
<1>2. op.addr \in Addrs
  BY <1>1, AddrAtStep DEF Connect, Cleanup
<1>3. KernelOK' /\ SyncOK'
  BY <1>2 DEF Connect, ConnectTarget, Cleanup, LosePath, KernelOK, SyncOK, IInv, Parts
<1>4. MemoryOK'
  BY DEF Connect, Cleanup, memory, MemoryOK, IInv, Parts
<1>5. op.name \in {"Start", "ReconnectPath"} => {"load", "cleanup"} \subseteq StepsOf(op.name)
  BY DEF StepsOf, Steps
<1>6. pc = "connect" => op.name \in {"Start", "ReconnectPath", "ConnectPath", "ConnectTarget"}
  BY <1>1 DEF UnderWay, StepsOf
<1>7. pc' \in StepsOf(op.name) \cup Ended /\ pc' \notin WithDevice
  <2>1. CASE Connect
    BY <1>1, <1>5, <1>6, <2>1 DEF Connect, OnlyConnects, Goto, Ended, WithDevice, UnderWay
  <2>2. CASE Cleanup
    BY <2>2 DEF Cleanup, Goto, Ended, WithDevice
  <2>3. QED
    BY <2>1, <2>2
<1>8. ControlOK'
  BY <1>1, <1>7, ControlStep DEF Connect, ConnectTarget, Cleanup, ControlOK, IInv, Parts
<1>9. QED
  BY <1>3, <1>4, <1>7, <1>8, PresentStep DEF Connect, Cleanup, IInv, Parts

\* The steps of Start after the path is connected, and what shares them.
LEMMA DmKeeps ==
    ASSUME IInv, CheckDm \/ SuspendDm \/ ReloadDm \/ ResumeDm
    PROVE  IInv'
<1>1. UnderWay
  BY StepIsOwn DEF CheckDm, SuspendDm, ReloadDm, ResumeDm, Steps, IInv, Parts
<1>2. dm \in DmDevice
  BY DEF CheckDm, SuspendDm, ReloadDm, ResumeDm, HasDm, KernelOK, IInv, Parts
<1>3. ReloadDm => dev \in Device /\ dev.source \in Namespaces
  BY NvmeAssumption DEF ReloadDm, Device, KernelOK, MemoryOK, IInv, Parts
<1>4. dm' \in DmDevice
  BY <1>2, <1>3 DEF CheckDm, SuspendDm, ReloadDm, ResumeDm, DmDevice, kernel
<1>5. KernelOK' /\ SyncOK'
  BY <1>4 DEF CheckDm, SuspendDm, ReloadDm, ResumeDm, KernelOK, SyncOK, kernel, IInv, Parts
<1>6. dev \in Device => [dev EXCEPT !.export = dm.number] \in Device
                          /\ [dev EXCEPT !.export = dm.number].source = dev.source
  BY <1>2 DEF Device, DmDevice, Numbers
<1>7. MemoryOK' /\ (Present => Present')
  BY <1>3, <1>6 DEF CheckDm, SuspendDm, ReloadDm, ResumeDm, memory, MemoryOK, Present, IInv, Parts
<1>8. OnError \in StepsOf(op.name) \cup Ended
  BY <1>1, OnErrorIsOwn
<1>9. pc' \in StepsOf(op.name) \cup Ended
  <2>1. op.name = "Start" => {"suspend", "reload", "resume", "node"} \subseteq StepsOf(op.name)
    BY DEF StepsOf, Steps
  <2>2. op.name = "Suspend" => "suspend" \in StepsOf(op.name)
    BY DEF StepsOf
  <2>3. pc \in {"checkDm", "suspend"} => op.name \in {"Start", "Suspend"}
    BY <1>1 DEF UnderWay, StepsOf
  <2>4. IsSuspended \in BOOLEAN
    BY <1>2 DEF IsSuspended, DmDevice
  <2>5. CASE CheckDm
    BY <2>1, <2>2, <2>3, <2>4, <2>5 DEF CheckDm, Goto, Ended
  <2>6. CASE SuspendDm \/ ReloadDm \/ ResumeDm
    BY <1>8, <2>1, <2>6 DEF SuspendDm, ReloadDm, ResumeDm, Outcome, Goto, FailsAfterwards, Ended
  <2>7. QED
    BY <2>5, <2>6
<1>10. ControlOK'
  BY <1>1, <1>9, ControlStep
     DEF CheckDm, SuspendDm, ReloadDm, ResumeDm, Outcome, FailsAfterwards, ControlOK, IInv, Parts
<1>11. op.name = "Start" /\ pc' \in WithDevice => Present'
  BY <1>7, PresentDevice
     DEF CheckDm, SuspendDm, ReloadDm, ResumeDm, DevicePresent, IInv, Parts
<1>12. QED
  BY <1>5, <1>7, <1>10, <1>11, PresentStep DEF CheckDm, SuspendDm, ReloadDm, ResumeDm, IInv, Parts

LEMMA EndKeeps ==
    ASSUME IInv, SkipDm \/ CreateDm \/ CheckNode \/ MakeNode
    PROVE  IInv'
<1>1. UnderWay
  BY StepIsOwn DEF SkipDm, CreateDm, CheckNode, MakeNode, Steps, IInv, Parts
<1>2. Present /\ op.name = "Start"
  BY <1>1, PresentNow DEF SkipDm, CreateDm, CheckNode, MakeNode, UnderWay, StepsOf
<1>3. dev.export \in Numbers
  BY <1>2 DEF Present, Device
<1>4. KernelOK' /\ SyncOK'
  <2>1. dm' \in DmDevice \cup {NoDm}
    <3>1. CASE CreateDm
      <4>1. PICK n \in DmNumbers : dm' = [number |-> n, live |-> dev.source, inactive |-> None,
                                          suspended |-> FALSE, deferred |-> FALSE]
        BY <3>1 DEF CreateDm
      <4>2. dev.source \in Namespaces
        BY <1>2 DEF Present
      <4>3. QED
        BY <4>1, <4>2 DEF DmDevice
    <3>2. CASE SkipDm \/ CheckNode \/ MakeNode
      BY <3>2 DEF SkipDm, CheckNode, MakeNode, kernel, KernelOK, IInv, Parts
    <3>3. QED
      BY <3>1, <3>2
  <2>2. QED
    BY <1>3, <2>1 DEF SkipDm, CreateDm, CheckNode, MakeNode, RemovalHangs, kernel, KernelOK, SyncOK,
                      IInv, Parts
<1>5. MemoryOK' /\ Present'
  BY <1>2 DEF SkipDm, CreateDm, CheckNode, MakeNode, Present, Device, Numbers, MemoryOK, IInv, Parts
<1>6. pc' \in StepsOf(op.name) \cup Ended
  <2>1. {"node", "makeNode"} \subseteq StepsOf(op.name)
    BY <1>2 DEF StepsOf, Steps
  <2>2. OnError \in StepsOf(op.name) \cup Ended
    BY <1>1, OnErrorIsOwn
  <2>3. QED
    BY <2>1, <2>2
       DEF SkipDm, CreateDm, CheckNode, MakeNode, RemovalHangs, Goto, FailsAfterwards, Ended
<1>7. ControlOK'
  BY <1>1, <1>6, ControlStep
     DEF SkipDm, CreateDm, CheckNode, MakeNode, RemovalHangs, FailsAfterwards, ControlOK, IInv, Parts
<1>8. QED
  BY <1>4, <1>5, <1>7, PresentStep DEF SkipDm, CreateDm, CheckNode, MakeNode, IInv, Parts

LEMMA LoadEndpointKeeps ==
    ASSUME IInv, LoadEndpoint
    PROVE  IInv'
<1>1. UnderWay
  BY StepIsOwn DEF LoadEndpoint, Steps, IInv, Parts
<1>2. node \in Numbers
  BY DEF LoadEndpoint, HasDm, KernelOK, DmDevice, Numbers, IInv, Parts
<1>3. MemoryOK'
  BY <1>2 DEF LoadEndpoint, MemoryOK, Device, IInv, Parts
<1>4. KernelOK' /\ SyncOK'
  BY DEF LoadEndpoint, KernelOK, SyncOK, kernel, IInv, Parts
<1>5. ControlOK'
  BY <1>1, ControlStep DEF LoadEndpoint, Goto, Ended, ControlOK, IInv, Parts
<1>6. DevicePresent'
  BY DEF LoadEndpoint, Goto, DevicePresent
<1>7. QED
  BY <1>3, <1>4, <1>5, <1>6 DEF IInv, Parts
-----------------------------------------------------------------------------
\* What leaves the operations alone, and the device when there is one.
LEMMA BesideKeeps ==
    ASSUME IInv, UNCHANGED <<op, pc>>, Present => Present', MemoryOK'
    PROVE  DevicePresent'
<1>1. op.name = "Start" /\ pc \in WithDevice => Present
  BY PresentDevice DEF DevicePresent, WithDevice, IInv, Parts
<1>2. QED
  BY <1>1, PresentStep DEF WithDevice

\* SyncDmDeviceSize changes the numbers in i.dev under an operation, and keeps it.
LEMMA SyncKeeps ==
    ASSUME IInv, SyncStep
    PROVE  IInv'
<1>1. sync' \in [step : {"idle", "polling", "loading", "loaded"}, source : Namespaces \cup {None}]
  <2>1. dev # NoDev => dev.source \in Namespaces \cup {None}
    BY DEF MemoryOK, Device, IInv, Parts
  <2>2. QED
    BY <2>1 DEF SyncStep, SyncStarts, SyncReloads, SyncLoadsTable, SyncEnds, SyncFails, NoSync
<1>2. KernelOK'
  <2>1. CASE SyncLoadsTable
    <3>1. sync.source \in Namespaces /\ dm \in DmDevice
      BY <2>1 DEF SyncLoadsTable, HasDm, KernelOK, IInv, Parts
    <3>2. dm' \in DmDevice
      BY <2>1, <3>1 DEF SyncLoadsTable, DmDevice
    <3>3. QED
      BY <2>1, <3>2 DEF SyncLoadsTable, KernelOK, IInv, Parts
  <2>2. CASE SyncStarts \/ SyncReloads \/ SyncEnds \/ SyncFails
    BY <2>2 DEF SyncStarts, SyncReloads, SyncEnds, SyncFails, kernel, KernelOK, IInv, Parts
  <2>3. QED
    BY <2>1, <2>2 DEF SyncStep
<1>3. MemoryOK' /\ (Present => Present')
  <2>1. CASE SyncEnds
    <3>1. dev \in Device /\ dm.number \in Numbers
      BY <2>1 DEF SyncEnds, HasDm, DmDevice, Numbers, KernelOK, MemoryOK, IInv, Parts
    <3>2. dev' \in Device /\ dev'.source = dev.source
      BY <2>1, <3>1 DEF SyncEnds, Device
    <3>3. QED
      BY <2>1, <3>2 DEF SyncEnds, Present, MemoryOK, IInv, Parts
  <2>2. CASE SyncStarts \/ SyncReloads \/ SyncLoadsTable \/ SyncFails
    BY <2>2 DEF SyncStarts, SyncReloads, SyncLoadsTable, SyncFails, memory, Present, MemoryOK,
                IInv, Parts
  <2>3. QED
    BY <2>1, <2>2 DEF SyncStep
<1>4. UNCHANGED <<op, pc, busy, fault>>
  BY DEF SyncStep, SyncStarts, SyncReloads, SyncLoadsTable, SyncEnds, SyncFails
<1>5. SyncOK' /\ ControlOK'
  BY <1>1, <1>4 DEF SyncOK, ControlOK, IInv, Parts
<1>6. QED
  BY <1>2, <1>3, <1>4, <1>5, BesideKeeps DEF IInv, Parts

\* What happens meanwhile in the kernel.
LEMMA EnvironmentKeeps ==
    ASSUME IInv, EnvironmentStep
    PROVE  IInv'
<1>1. UNCHANGED <<memory, op, pc, busy, previous, sync>>
  BY DEF EnvironmentStep, NamespaceAppears, UserOpens, UserCloses, LateRemoval, PathLost
<1>2. KernelOK'
  BY DEF EnvironmentStep, NamespaceAppears, UserOpens, UserCloses, LateRemoval, PathLost, LosePath,
         KernelOK, IInv, Parts
<1>3. dm \in DmDevice => dm.deferred \in BOOLEAN
  BY DEF DmDevice
<1>4. fault' \in BOOLEAN
  BY DEF EnvironmentStep, NamespaceAppears, UserOpens, UserCloses, LateRemoval, PathLost,
         ControlOK, IInv, Parts
<1>5. MemoryOK' /\ SyncOK' /\ ControlOK' /\ (Present => Present')
  BY <1>1, <1>4 DEF memory, MemoryOK, SyncOK, ControlOK, Present, IInv, Parts
<1>6. QED
  BY <1>1, <1>2, <1>5, BesideKeeps DEF IInv, Parts

\* The process is started again: with nothing but the kernel.
LEMMA RestartKeeps ==
    ASSUME IInv, Restarts
    PROVE  IInv'
<1>1. KernelOK'
  BY DEF Restarts, KernelOK, IInv, Parts
<1>2. MemoryOK' /\ SyncOK'
  BY DEF Restarts, MemoryOK, SyncOK, NoInfo, NVMeTCPInfo, NoSync
<1>3. ControlOK' /\ DevicePresent'
  BY DEF Restarts, ControlOK, DevicePresent
<1>4. QED
  BY <1>1, <1>2, <1>3 DEF IInv, Parts

LEMMA StutteringKeeps ==
    ASSUME IInv, UNCHANGED vars
    PROVE  IInv'
<1>1. KernelOK' /\ MemoryOK' /\ SyncOK' /\ ControlOK'
  BY DEF vars, kernel, memory, KernelOK, MemoryOK, SyncOK, ControlOK, IInv, Parts
<1>2. DevicePresent'
  BY DEF vars, memory, DevicePresent, IInv
<1>3. QED
  BY <1>1, <1>2 DEF IInv, Parts

LEMMA NextInv == IInv /\ [Next]_vars => IInv'
<1> SUFFICES ASSUME IInv, [Next]_vars PROVE IInv'
  OBVIOUS
<1>1. CASE (\E o \in Requests : Begin(o)) \/ Return
  BY <1>1, BeginKeeps
<1>2. CASE OperationStep
  BY <1>2, ReuseKeeps, LoadKeeps, LoadEndpointKeeps, StopKeeps, ConnectKeeps, DmKeeps, EndKeeps,
     CommandFailsKeeps
     DEF OperationStep
<1>3. CASE SyncStep
  BY <1>3, SyncKeeps
<1>4. CASE EnvironmentStep
  BY <1>4, EnvironmentKeeps
<1>5. CASE Crash \/ Panics
  BY <1>5, RestartKeeps DEF Crash, Panics
<1>6. CASE UNCHANGED vars
  BY <1>6, StutteringKeeps
<1>7. QED
  BY <1>1, <1>2, <1>3, <1>4, <1>5, <1>6 DEF Next

LEMMA Invariance == Spec => []IInv
BY InitInv, NextInv, PTL DEF Spec

\* Whatever fails, whatever happens meanwhile and whenever the process dies, an
\* operation is only ever at one of its own steps, and what the kernel has and
\* the Initiator records are of the kinds that they should be.
THEOREM TypeCorrect == Spec => []TypeOK
<1>1. IInv => TypeOK
  BY TypeParts DEF IInv
<1>2. QED
  BY <1>1, Invariance, PTL

\* StartNvmeTCPInitiator never dereferences a device that it does not have: from
\* the choice between dm device and namespace to the end, i.dev is there and has
\* the name of a namespace, though SyncDmDeviceSize writes it without the lock.
THEOREM DeviceAlwaysPresent == Spec => []DevicePresent
<1>1. IInv => DevicePresent
  BY DEF IInv
<1>2. QED
  BY <1>1, Invariance, PTL
-----------------------------------------------------------------------------
\* How far a Stop with cleanup has come that has not found the device busy.  No
\* step of SyncDmDeviceSize, of a user or of the kernel undoes it: without a
\* device in memory SyncDmDeviceSize cannot bring one back.
DmIsGone == HasDm => op.deferred /\ dm.deferred

NodeIsGone == node = None /\ dev = NoDev /\ ~isUp

StopProgress ==
    op.name = "Stop" /\ op.cleanup /\ ~busy =>
        /\ pc \in {"removeNode", "disconnect"} => DmIsGone
        /\ pc = "disconnect" => NodeIsGone

StopInv == IInv /\ StopProgress

\* The steps of the Stop itself.
LEMMA StopAdvances ==
    ASSUME StopInv, op.name = "Stop", OperationStep
    PROVE  StopProgress'
<1>1. UnderWay /\ pc \in {"removeDm", "removeNode", "disconnect"}
  <2>1. op # NoOp
    BY DEF NoOp
  <2>2. pc \in StepsOf(op.name) \cup Ended
    BY <2>1 DEF StopInv, IInv, Parts, ControlOK
  <2>3. pc \notin Ended
    BY DEF OperationStep, StartReuses, EnsureReuses, Reuse, ReuseWait, LoadInfo, LoadEndpoint,
           RemoveDm, RemoveNode, Disconnect, Connect, LoadConnected, Cleanup, SkipDm, CreateDm,
           CheckDm, SuspendDm, ReloadDm, ResumeDm, CheckNode, MakeNode, CommandFails, Ended, Steps
  <2>4. pc \in {"removeDm", "removeNode", "disconnect"}
    BY <2>2, <2>3 DEF StepsOf
  <2>5. QED
    BY <2>4, StepIsOwn DEF StopInv, IInv, Parts, Steps
<1>2. RemoveDm \/ RemoveNode \/ Disconnect \/ CommandFails
  BY <1>1 DEF OperationStep, StartReuses, EnsureReuses, Reuse, ReuseWait, LoadInfo, LoadEndpoint,
              Connect, LoadConnected, Cleanup, SkipDm, CreateDm, CheckDm, SuspendDm, ReloadDm,
              ResumeDm, CheckNode, MakeNode
<1>3. OnError = "error" /\ op' = op
  BY <1>1, <1>2 DEF OnError, RemoveDm, RemoveNode, Disconnect, CommandFails
<1>4. CASE RemoveDm
  <2>1. CASE ~HasDm
    <3>1. pc' = "removeNode" /\ dm' = dm
      BY <1>4, <2>1 DEF RemoveDm, Goto
    <3>2. QED
      BY <1>3, <2>1, <3>1 DEF StopProgress, DmIsGone, HasDm
  <2>2. CASE HasDm /\ ~inUse
    <3>1. pc' \in {"removeNode", "error"} /\ dm' = NoDm
      BY <1>3, <1>4, <2>2 DEF RemoveDm, Outcome, Goto, FailsAfterwards
    <3>2. QED
      BY <1>3, <3>1 DEF StopProgress, DmIsGone, HasDm
  <2>3. CASE HasDm /\ inUse /\ DeferredRemoval
    <3>1. pc' \in {"removeNode", "error"} /\ dm' = [dm EXCEPT !.deferred = TRUE]
      BY <1>3, <1>4, <2>3 DEF RemoveDm, Outcome, Goto, FailsAfterwards
    <3>2. dm'.deferred /\ op.deferred
      <4>1. dm \in DmDevice
        BY <2>3 DEF HasDm, StopInv, IInv, Parts, KernelOK
      <4>2. QED
        BY <2>3, <3>1, <4>1 DEF DmDevice, DeferredRemoval
    <3>3. QED
      BY <1>3, <3>1, <3>2 DEF StopProgress, DmIsGone, HasDm
  <2>4. CASE HasDm /\ inUse /\ ~DeferredRemoval
    BY <1>4, <2>4 DEF RemoveDm, StopProgress
  <2>5. QED
    BY <1>4, <2>1, <2>2, <2>3, <2>4 DEF RemoveDm
<1>5. CASE RemoveNode
  <2>1. (op.cleanup /\ ~busy => DmIsGone) /\ dm' = dm /\ busy' = busy
    BY <1>5 DEF RemoveNode, StopInv, StopProgress
  <2>2. pc' = "error" \/ (pc' = "disconnect" /\ node' = None /\ dev' = NoDev /\ isUp' = FALSE)
    BY <1>5 DEF RemoveNode, RemovalHangs, Goto
  <2>3. QED
    BY <1>3, <2>1, <2>2 DEF StopProgress, DmIsGone, NodeIsGone, HasDm
<1>6. CASE Disconnect \/ CommandFails
  <2>1. pc' \in {"ok", "error"}
    BY <1>3, <1>6 DEF Disconnect, CommandFails, Goto, FailsAfterwards
  <2>2. QED
    BY <2>1 DEF StopProgress
<1>7. QED
  BY <1>2, <1>4, <1>5, <1>6

\* What others do to the kernel and to the device in memory while it stops.
LEMMA OthersPreserveStop ==
    ASSUME StopInv, op' = op, pc' = pc, busy' = busy,
           DmIsGone => DmIsGone', NodeIsGone => NodeIsGone'
    PROVE  StopProgress'
BY DEF StopInv, StopProgress

LEMMA StopNext == StopInv /\ [Next]_vars => StopInv'
<1> SUFFICES ASSUME StopInv, [Next]_vars PROVE StopProgress'
  BY NextInv DEF StopInv
<1>1. CASE \E o \in Requests : Begin(o)
  BY <1>1 DEF Begin, FirstStep, StopProgress
<1>2. CASE Return \/ Crash \/ Panics
  BY <1>2 DEF Return, Crash, Panics, Restarts, NoOp, StopProgress
<1>3. CASE OperationStep
  <2>1. CASE op.name = "Stop"
    BY <1>3, <2>1, StopAdvances
  <2>2. CASE op.name # "Stop"
    <3>1. op' = op
      BY <1>3 DEF OperationStep, StartReuses, EnsureReuses, Reuse, ReuseWait, LoadInfo, LoadEndpoint,
             RemoveDm, RemoveNode, Disconnect, Connect, LoadConnected, Cleanup, SkipDm, CreateDm,
             CheckDm, SuspendDm, ReloadDm, ResumeDm, CheckNode, MakeNode, CommandFails
    <3>2. QED
      BY <2>2, <3>1 DEF StopProgress
  <2>3. QED
    BY <2>1, <2>2
<1>4. CASE SyncStep
  <2>1. DmIsGone => DmIsGone'
    <3>1. CASE SyncLoadsTable
      <4>1. dm \in DmDevice
        BY <3>1 DEF SyncLoadsTable, HasDm, StopInv, IInv, Parts, KernelOK
      <4>2. dm'.deferred = dm.deferred /\ HasDm /\ op' = op
        BY <3>1, <4>1 DEF SyncLoadsTable, DmDevice
      <4>3. QED
        BY <4>2 DEF DmIsGone
    <3>2. CASE SyncStarts \/ SyncReloads \/ SyncEnds \/ SyncFails
      BY <3>2 DEF SyncStarts, SyncReloads, SyncEnds, SyncFails, kernel, DmIsGone, HasDm
    <3>3. QED
      BY <1>4, <3>1, <3>2 DEF SyncStep
  <2>2. NodeIsGone => NodeIsGone'
    BY <1>4 DEF SyncStep, SyncStarts, SyncReloads, SyncLoadsTable, SyncEnds, SyncFails, kernel,
                memory, NodeIsGone
  <2>3. QED
    BY <1>4, <2>1, <2>2, OthersPreserveStop
       DEF SyncStep, SyncStarts, SyncReloads, SyncLoadsTable, SyncEnds, SyncFails
<1>5. CASE EnvironmentStep
  <2>1. DmIsGone => DmIsGone'
    BY <1>5 DEF EnvironmentStep, NamespaceAppears, UserOpens, UserCloses, LateRemoval, PathLost,
                DmIsGone, HasDm
  <2>2. NodeIsGone => NodeIsGone'
    BY <1>5 DEF EnvironmentStep, NamespaceAppears, UserOpens, UserCloses, LateRemoval, PathLost,
                memory, NodeIsGone
  <2>3. QED
    BY <1>5, <2>1, <2>2, OthersPreserveStop
       DEF EnvironmentStep, NamespaceAppears, UserOpens, UserCloses, LateRemoval, PathLost
<1>6. CASE UNCHANGED vars
  <2>1. (DmIsGone => DmIsGone') /\ (NodeIsGone => NodeIsGone')
    BY <1>6 DEF vars, kernel, memory, DmIsGone, NodeIsGone, HasDm
  <2>2. QED
    BY <1>6, <2>1, OthersPreserveStop DEF vars
<1>7. QED
  BY <1>1, <1>2, <1>3, <1>4, <1>5, <1>6 DEF Next

\* A Stop succeeds only with its last command, the disconnect.
LEMMA StopEnds ==
    ASSUME StopInv, [Next]_vars, Ends("Stop", "ok")
    PROVE  Disconnect
<1>1. op # NoOp /\ op.name = "Stop" /\ pc # "ok" /\ pc' = "ok"
  BY DEF Ends, NoOp
<1>2. pc \in {"removeDm", "removeNode", "disconnect", "error"}
  BY <1>1 DEF StopInv, IInv, Parts, ControlOK, StepsOf, Ended
<1>3. OperationStep
  BY <1>1 DEF Next, vars, Begin, Return, SyncStep, SyncStarts, SyncReloads, SyncLoadsTable, SyncEnds,
              SyncFails, EnvironmentStep, NamespaceAppears, UserOpens, UserCloses, LateRemoval,
              PathLost, Crash, Panics, Restarts
<1>4. RemoveDm \/ RemoveNode \/ Disconnect \/ CommandFails
  BY <1>2, <1>3 DEF OperationStep, StartReuses, EnsureReuses, Reuse, ReuseWait, LoadInfo, LoadEndpoint,
              Connect, LoadConnected, Cleanup, SkipDm, CreateDm, CheckDm, SuspendDm, ReloadDm,
              ResumeDm, CheckNode, MakeNode
<1>5. pc \in {"removeDm", "removeNode", "disconnect"} => OnError = "error"
  BY <1>1 DEF OnError
<1>6. QED
  BY <1>1, <1>2, <1>4, <1>5
     DEF RemoveDm, RemoveNode, CommandFails, RemovalHangs, Outcome, Goto, FailsAfterwards, Steps

\* A Stop with cleanup that reports success and no busy device has left nothing
\* in the kernel or in memory but a device whose removal is deferred, with
\* whatever interleaving of SyncDmDeviceSize, of its users, of hanging removals
\* that go through late, and of paths and namespaces that come and go.
THEOREM StopLeavesNothing == Spec => StoppedIsClean
<1>1. Init => StopInv
  BY InitInv DEF StopInv, StopProgress, Init, NoOp
<1>2. StopInv /\ [Next]_vars =>
        [Ends("Stop", "ok") /\ op.cleanup /\ ~busy' =>
          /\ HasDm' => op.deferred /\ dm'.deferred
          /\ node' = None /\ paths' = {} /\ namespace' = None
          /\ dev' = NoDev /\ ~isUp' /\ info' = NoInfo]_vars
  <2> SUFFICES ASSUME StopInv, [Next]_vars, Ends("Stop", "ok"), op.cleanup, ~busy'
               PROVE  /\ HasDm' => op.deferred /\ dm'.deferred
                      /\ node' = None /\ paths' = {} /\ namespace' = None
                      /\ dev' = NoDev /\ ~isUp' /\ info' = NoInfo
    OBVIOUS
  <2>1. Disconnect /\ op.name = "Stop" /\ pc' = "ok" /\ pc = "disconnect"
    BY StopEnds DEF Ends, Disconnect
  <2>2. ~busy /\ DmIsGone /\ NodeIsGone
    BY <2>1 DEF Disconnect, StopInv, StopProgress
  <2>3. OnError = "error"
    BY <2>1 DEF OnError
  <2>4. info' = NoInfo /\ paths' = {} /\ namespace' = None
    BY <2>1, <2>3 DEF Disconnect, DisconnectTarget, Goto, FailsAfterwards
  <2>5. dm' = dm /\ node' = node /\ dev' = dev /\ isUp' = isUp
    BY <2>1 DEF Disconnect
  <2>6. QED
    BY <2>2, <2>4, <2>5 DEF DmIsGone, NodeIsGone, HasDm
<1>3. QED
  BY <1>1, <1>2, StopNext, PTL DEF Spec, StoppedIsClean
-----------------------------------------------------------------------------
\* What a Start counts on when it comes to the steps that could fail for what
\* has been left behind.  At createDm there is no dm device, since this Start has
\* removed it, and the namespace is the one it has loaded; at makeNode there is
\* no node, since it has just been removed; and a cleanup follows a failure.
AfterRemoval == {"removeNode", "disconnect", "ensure", "ensureWait", "connect", "load", "createDm"}

DmWasRemoved == op.stop /\ op.cleanup /\ ~busy /\ pc \in AfterRemoval => ~HasDm

SourceIsThere == pc = "createDm" => op.cleanup /\ ~busy /\ (fault \/ namespace = dev.source)

NodeWasRemoved == pc = "makeNode" => node = None

CleanupHasCause == pc = "cleanup" => fault

StartProgress ==
    op.name = "Start" => DmWasRemoved /\ SourceIsThere /\ NodeWasRemoved /\ CleanupHasCause

StartInv == IInv /\ StartProgress

\* A step of Start keeps all this, and an error has a cause.
StartAdvances ==
    /\ DmWasRemoved' /\ SourceIsThere' /\ NodeWasRemoved' /\ CleanupHasCause'
    /\ pc' = "error" /\ op.stop => fault \/ fault'

LEMMA StartNow ==
    ASSUME StartInv, op.name = "Start"
    PROVE  /\ op \in Operations /\ op.cleanup \in BOOLEAN /\ op.stop \in BOOLEAN
           /\ DmWasRemoved /\ SourceIsThere /\ NodeWasRemoved /\ CleanupHasCause
<1>1. op \in Operations
  BY DEF StartInv, IInv, Parts, ControlOK, NoOp
<1>2. QED
  BY <1>1, StartArguments DEF StartInv, StartProgress

\* Where Start goes on with a path that cannot be used, with one that can, and
\* after an error.
LEMMA StartGoesOn ==
    ASSUME StartInv, op.name = "Start"
    PROVE  /\ Relaunch \in {"ensure", "removeDm", "disconnect"}
           /\ Relaunch = "ensure" => ~op.stop
           /\ Relaunch = "disconnect" => ~op.cleanup
           /\ Connected \in {"skipDm", "checkDm", "createDm"}
           /\ Connected = "createDm" => op.cleanup /\ ~busy
BY StartNow DEF Relaunch, Connected

LEMMA StartErrors ==
    ASSUME op.name = "Start"
    PROVE  OnError = CASE pc \in {"reuse", "reuseWait", "loadEndpoint"}     -> Relaunch
                       [] pc \in {"checkDm", "suspend", "reload", "resume"} -> "node"
                       [] pc \in {"ensure", "ensureWait"}                   -> "connect"
                       [] pc \in {"load", "record"}                         -> "cleanup"
                       [] OTHER                                             -> "error"
BY DEF OnError

LEMMA StartReusing ==
    ASSUME StartInv, op.name = "Start", StartReuses \/ EnsureReuses \/ LoadConnected
    PROVE  StartAdvances
<1>1. UNCHANGED <<op, busy, dm, namespace, node>>
  BY DEF StartReuses, EnsureReuses, LoadConnected, Reuse, ReuseWait, kernel
<1>2. NodeWasRemoved' /\ CleanupHasCause' /\ pc' # "error"
  BY StartGoesOn, StartErrors
     DEF StartReuses, EnsureReuses, LoadConnected, Reuse, ReuseWait, Goto, FailsAfterwards,
         NodeWasRemoved, CleanupHasCause
<1>3. SourceIsThere'
  <2>1. pc' = "createDm" => Load(op.addr) /\ op.cleanup /\ ~busy
    BY StartGoesOn, StartErrors
       DEF StartReuses, EnsureReuses, LoadConnected, Reuse, ReuseWait, Goto, FailsAfterwards
  <2>2. Load(op.addr) => dev'.source = namespace
    BY DEF Load, DetectDevice
  <2>3. QED
    BY <1>1, <2>1, <2>2 DEF SourceIsThere
<1>4. DmWasRemoved'
  <2>1. pc' \in AfterRemoval /\ op.stop /\ op.cleanup => pc \in {"ensure", "ensureWait", "load"}
    BY StartGoesOn, StartErrors
       DEF StartReuses, EnsureReuses, LoadConnected, Reuse, ReuseWait, Goto, FailsAfterwards,
           AfterRemoval
  <2>2. QED
    BY <1>1, <2>1, StartNow DEF DmWasRemoved, HasDm, AfterRemoval
<1>5. QED
  BY <1>2, <1>3, <1>4 DEF StartAdvances

LEMMA StartStopping ==
    ASSUME StartInv, op.name = "Start", RemoveDm \/ RemoveNode \/ Disconnect
    PROVE  StartAdvances
<1>1. op' = op /\ OnError = "error"
  BY StartErrors DEF RemoveDm, RemoveNode, Disconnect
<1>2. CASE RemoveDm
  <2>1. pc' = "removeNode" \/ (pc' = "error" /\ fault')
    BY <1>1, <1>2 DEF RemoveDm, ErrorIfBusy, Outcome, Goto, FailsAfterwards
  <2>2. ~HasDm' \/ busy'
    BY <1>2 DEF RemoveDm, DeferredRemoval, HasDm
  <2>3. QED
    BY <2>1, <2>2 DEF StartAdvances, DmWasRemoved, SourceIsThere, NodeWasRemoved, CleanupHasCause,
                      AfterRemoval
<1>3. CASE RemoveNode \/ Disconnect
  <2>1. pc' \in {"disconnect", "ensure"} \/ (pc' = "error" /\ fault')
    BY <1>1, <1>3 DEF RemoveNode, Disconnect, RemovalHangs, Goto, FailsAfterwards
  <2>2. pc \in AfterRemoval /\ UNCHANGED <<dm, busy>>
    BY <1>3 DEF RemoveNode, Disconnect, AfterRemoval
  <2>3. QED
    BY <1>1, <2>1, <2>2, StartNow
       DEF StartAdvances, DmWasRemoved, SourceIsThere, NodeWasRemoved, CleanupHasCause, HasDm
<1>4. QED
  BY <1>2, <1>3

LEMMA StartConnecting ==
    ASSUME StartInv, op.name = "Start", Connect \/ Cleanup
    PROVE  StartAdvances
<1>1. UNCHANGED <<op, dm, busy>>
  BY DEF Connect, Cleanup, kernel
<1>2. CASE Connect
  <2>1. pc = "connect" /\ (pc' = "load" \/ (pc' \in {"cleanup", "connect"} /\ fault'))
    BY <1>2 DEF Connect, OnlyConnects, Goto
  <2>2. QED
    BY <1>1, <2>1, StartNow
       DEF StartAdvances, DmWasRemoved, SourceIsThere, NodeWasRemoved, CleanupHasCause, HasDm,
           AfterRemoval
<1>3. CASE Cleanup
  <2>1. pc' = "error" /\ fault
    BY <1>3, StartNow DEF Cleanup, Goto, CleanupHasCause
  <2>2. QED
    BY <2>1 DEF StartAdvances, DmWasRemoved, SourceIsThere, NodeWasRemoved, CleanupHasCause,
                AfterRemoval
<1>4. QED
  BY <1>2, <1>3

LEMMA StartFinishing ==
    ASSUME StartInv, op.name = "Start",
           \/ LoadEndpoint \/ SkipDm \/ CreateDm \/ CheckDm \/ SuspendDm \/ ReloadDm \/ ResumeDm
           \/ CheckNode \/ MakeNode
    PROVE  StartAdvances
<1>1. pc' \in {"ok", "node", "suspend", "reload", "resume", "makeNode"} \/ (pc' = "error" /\ fault')
  BY StartErrors
     DEF LoadEndpoint, SkipDm, CreateDm, CheckDm, SuspendDm, ReloadDm, ResumeDm, CheckNode, MakeNode,
         IsSuspended, RemovalHangs, Outcome, Goto, FailsAfterwards
<1>2. pc' = "makeNode" => node' = None
  BY StartErrors
     DEF LoadEndpoint, SkipDm, CreateDm, CheckDm, SuspendDm, ReloadDm, ResumeDm, CheckNode, MakeNode,
         IsSuspended, RemovalHangs, Outcome, Goto, FailsAfterwards
<1>3. QED
  BY <1>1, <1>2 DEF StartAdvances, DmWasRemoved, SourceIsThere, NodeWasRemoved, CleanupHasCause,
                    AfterRemoval

\* A command that fails at a step that leads to an error might have worked.
LEMMA StartFailing ==
    ASSUME StartInv, op.name = "Start", CommandFails
    PROVE  StartAdvances
<1>1. pc' = OnError /\ UNCHANGED <<op, dm, busy, namespace, node, dev>>
  BY DEF CommandFails, kernel, memory
<1>2. pc # "record"
  BY DEF CommandFails, Steps
<1>3. pc' = "cleanup" => fault'
  <2>1. pc' = "cleanup" => pc = "load"
    BY <1>1, <1>2, StartErrors, StartGoesOn
  <2>2. pc = "load" => Works
    BY DEF Works
  <2>3. QED
    BY <2>1, <2>2 DEF CommandFails
<1>4. pc' = "error" /\ op.stop => fault \/ fault'
  <2> SUFFICES ASSUME pc' = "error", op.stop, ~fault PROVE Works
    BY DEF CommandFails
  <2>1. pc \in {"removeDm", "removeNode", "disconnect", "connect", "createDm", "node", "makeNode",
                "loadInfo"}
    BY <1>1, StartErrors, StartGoesOn DEF CommandFails, Steps
  <2>2. pc # "loadInfo"
    BY DEF StartInv, IInv, Parts, ControlOK, StepsOf, NoOp, Ended
  <2>3. CASE pc = "createDm"
    <3>1. op.cleanup /\ ~busy /\ namespace = dev.source
      BY <2>3, StartNow DEF SourceIsThere
    <3>2. ~HasDm
      BY <2>3, <3>1, StartNow DEF DmWasRemoved, AfterRemoval
    <3>3. QED
      BY <2>3, <3>1, <3>2 DEF Works
  <2>4. CASE pc = "makeNode"
    BY <2>4, StartNow DEF Works, NodeWasRemoved
  <2>5. CASE pc \in {"removeDm", "removeNode", "disconnect", "connect", "node"}
    BY <2>5 DEF Works
  <2>6. QED
    BY <2>1, <2>2, <2>3, <2>4, <2>5
<1>5. pc' # "createDm" /\ pc' # "makeNode"
  BY <1>1, StartErrors, StartGoesOn
<1>6. DmWasRemoved'
  <2>1. pc' \in AfterRemoval /\ op.stop /\ op.cleanup => pc \in {"ensure", "ensureWait"}
    BY <1>1, StartErrors, StartGoesOn DEF AfterRemoval
  <2>2. QED
    BY <1>1, <2>1, StartNow DEF DmWasRemoved, AfterRemoval, HasDm
<1>7. QED
  BY <1>3, <1>4, <1>5, <1>6 DEF StartAdvances, SourceIsThere, NodeWasRemoved, CleanupHasCause

LEMMA StartSteps ==
    ASSUME StartInv, op.name = "Start", OperationStep
    PROVE  StartAdvances
<1>1. pc # "loadInfo"
  BY DEF StartInv, IInv, Parts, ControlOK, StepsOf, NoOp, Ended
<1>2. ~LoadInfo
  BY <1>1 DEF LoadInfo
<1>3. QED
  BY <1>2, StartReusing, StartStopping, StartConnecting, StartFinishing, StartFailing
     DEF OperationStep

\* What others do to the kernel and to the device in memory while it starts: a
\* path that is lost is a failure, and so is what users and late removals do.
LEMMA OthersPreserveStart ==
    ASSUME StartInv, SyncStep \/ EnvironmentStep \/ UNCHANGED vars
    PROVE  StartProgress' /\ pc' = pc
<1>1. UNCHANGED <<op, pc, busy>>
  BY DEF SyncStep, SyncStarts, SyncReloads, SyncLoadsTable, SyncEnds, SyncFails, EnvironmentStep,
         NamespaceAppears, UserOpens, UserCloses, LateRemoval, PathLost, vars
<1> SUFFICES ASSUME op.name = "Start"
             PROVE  DmWasRemoved' /\ SourceIsThere' /\ NodeWasRemoved' /\ CleanupHasCause'
  BY <1>1 DEF StartProgress
<1>2. op # NoOp
  BY DEF NoOp
<1>3. ~HasDm => ~HasDm'
  BY DEF SyncStep, SyncStarts, SyncReloads, SyncLoadsTable, SyncEnds, SyncFails, EnvironmentStep,
         NamespaceAppears, UserOpens, UserCloses, LateRemoval, PathLost, vars, kernel, HasDm
<1>4. fault => fault'
  BY <1>2 DEF SyncStep, SyncStarts, SyncReloads, SyncLoadsTable, SyncEnds, SyncFails, EnvironmentStep,
              NamespaceAppears, UserOpens, UserCloses, LateRemoval, PathLost, vars
<1>5. node = None => node' = None
  BY DEF SyncStep, SyncStarts, SyncReloads, SyncLoadsTable, SyncEnds, SyncFails, EnvironmentStep,
         NamespaceAppears, UserOpens, UserCloses, LateRemoval, PathLost, vars, kernel
<1>6. Present /\ namespace = dev.source => fault' \/ namespace' = dev'.source
  <2>1. CASE SyncEnds
    BY <2>1 DEF SyncEnds, kernel, Present, Device
  <2>2. CASE SyncStarts \/ SyncReloads \/ SyncLoadsTable \/ SyncFails \/ UNCHANGED vars
    BY <2>2 DEF SyncStarts, SyncReloads, SyncLoadsTable, SyncFails, vars, kernel, memory
  <2>3. CASE EnvironmentStep
    BY <1>2, <2>3, NvmeAssumption
       DEF EnvironmentStep, NamespaceAppears, UserOpens, UserCloses, LateRemoval, PathLost, memory,
           Present
  <2>4. QED
    BY <2>1, <2>2, <2>3 DEF SyncStep
<1>7. pc = "createDm" => Present
  BY PresentDevice DEF StartInv, IInv, Parts, DevicePresent
<1>8. QED
  BY <1>1, <1>3, <1>4, <1>5, <1>6, <1>7, StartNow
     DEF DmWasRemoved, SourceIsThere, NodeWasRemoved, CleanupHasCause

LEMMA StartNext == StartInv /\ [Next]_vars => StartInv'
<1> SUFFICES ASSUME StartInv, [Next]_vars PROVE StartProgress'
  BY NextInv DEF StartInv
<1>1. CASE \E o \in Requests : Begin(o)
  BY <1>1 DEF Begin, FirstStep, StartProgress, DmWasRemoved, SourceIsThere, NodeWasRemoved,
              CleanupHasCause, AfterRemoval
<1>2. CASE Return \/ Crash \/ Panics
  BY <1>2 DEF Return, Crash, Panics, Restarts, NoOp, StartProgress
<1>3. CASE OperationStep
  <2>1. op' = op
    BY <1>3 DEF OperationStep, StartReuses, EnsureReuses, Reuse, ReuseWait, LoadInfo, LoadEndpoint,
           RemoveDm, RemoveNode, Disconnect, Connect, LoadConnected, Cleanup, SkipDm, CreateDm,
           CheckDm, SuspendDm, ReloadDm, ResumeDm, CheckNode, MakeNode, CommandFails
  <2>2. QED
    BY <1>3, <2>1, StartSteps DEF StartProgress, StartAdvances
<1>4. CASE SyncStep \/ EnvironmentStep \/ UNCHANGED vars
  BY <1>4, OthersPreserveStart
<1>5. QED
  BY <1>1, <1>2, <1>3, <1>4 DEF Next

\* A Start that is to stop the initiator first fails only if a command fails that
\* could have worked, or a path, a user or a late removal interferes: the steps
\* of the stop have taken away every dm device and node that an earlier
\* operation, a crash or SyncDmDeviceSize may have left in its way.
THEOREM StartRecovers == Spec => CleanStartSucceeds
<1>1. Init => StartInv
  BY InitInv DEF StartInv, StartProgress, Init, NoOp
<1>2. StartInv /\ [Next]_vars => [Ends("Start", "error") /\ op.stop => fault \/ fault']_vars
  <2> SUFFICES ASSUME StartInv, [Next]_vars, Ends("Start", "error"), op.stop
               PROVE  fault \/ fault'
    OBVIOUS
  <2>1. op.name = "Start" /\ pc # "error" /\ pc' = "error"
    BY DEF Ends
  <2>2. OperationStep
    BY <2>1, OthersPreserveStart DEF Next, Begin, FirstStep, Return, Crash, Panics, Restarts
  <2>3. QED
    BY <2>1, <2>2, StartSteps DEF StartAdvances
<1>3. QED
  BY <1>1, <1>2, StartNext, PTL DEF Spec, CleanStartSucceeds
-----------------------------------------------------------------------------
\* What a Start relies on for the endpoint that it hands out: the path that it
\* knows is the one it was asked for; a busy device, and only one that Start is
\* to create, is reloaded; the table that resume makes live is on the namespace
\* it knows, whatever SyncDmDeviceSize loads meanwhile, since no other namespace
\* can appear before the next connect; and the numbers it makes a node of are
\* those of the device on top.
PathsHoldNamespace == paths = {} => namespace = None

KnowsPath ==
    pc \in WithDevice \cup {"loadEndpoint"} =>
        Present /\ info.addr = op.addr /\ info.ns = dev.source

OnlyBusyIsReloaded ==
    /\ pc \in {"checkDm", "suspend", "reload", "resume"} => op.cleanup /\ busy
    /\ pc = "createDm" => op.cleanup
    /\ pc = "skipDm" => ~op.cleanup

TableIsLoaded ==
    pc = "resume" =>
        /\ HasDm => dm.inactive = dev.source /\ dev.export = dm.number
        /\ namespace = dev.source \/ paths = {}

ExportIsSet ==
    pc \in {"node", "makeNode"} =>
        /\ op.cleanup /\ ~busy /\ HasDm => dev.export = dm.number /\ dm.live = dev.source
        /\ op.cleanup /\ ~busy /\ ~HasDm => fault
        /\ ~op.cleanup /\ ~HasDm /\ ~fault => dev.export = dev.source

Serving == KnowsPath /\ OnlyBusyIsReloaded /\ TableIsLoaded /\ ExportIsSet

ServeInv == IInv /\ PathsHoldNamespace /\ (op.name = "Start" => Serving)

\* What a Start that ends well hands out.
Served ==
    ~busy' =>
        /\ isUp' /\ info'.addr = op.addr /\ dev'.export = node'
        /\ op.cleanup /\ HasDm' => node' = dm'.number /\ dm'.live = dev'.source
        /\ op.cleanup /\ ~HasDm' => fault
        /\ ~op.cleanup /\ ~HasDm' /\ ~fault => node' = dev'.source

ServeAdvances == Serving' /\ (pc' = "ok" => Served)

LEMMA ServeNow ==
    ASSUME ServeInv, op.name = "Start"
    PROVE  /\ op \in Operations /\ op.cleanup \in BOOLEAN /\ op.stop \in BOOLEAN /\ op.addr \in Addrs
           /\ KernelOK /\ MemoryOK /\ pc # "loadInfo"
           /\ KnowsPath /\ OnlyBusyIsReloaded /\ TableIsLoaded /\ ExportIsSet
<1>1. op \in Operations /\ pc # "loadInfo"
  BY DEF ServeInv, IInv, Parts, ControlOK, NoOp, StepsOf, Ended
<1>2. QED
  BY <1>1, StartArguments, AddrOfOperation DEF ServeInv, Serving, IInv, Parts

\* Where Start goes on, and that no error makes it a success.
LEMMA ServeGoesOn ==
    ASSUME ServeInv, op.name = "Start"
    PROVE  /\ Relaunch \in {"ensure", "removeDm", "disconnect"}
           /\ Connected \in {"skipDm", "checkDm", "createDm"}
           /\ Connected = "skipDm" => ~op.cleanup
           /\ Connected = "createDm" => op.cleanup
           /\ Connected = "checkDm" => op.cleanup /\ busy
BY ServeNow DEF Relaunch, Connected

\* Loading for the address that is asked for selects just that controller.
LEMMA LoadsAddr ==
    ASSUME KernelOK, MemoryOK, op.addr \in Addrs, Load(op.addr)
    PROVE  info'.addr = op.addr /\ info'.ns = dev'.source /\ dev'.source \in Namespaces
<1>1. PICK p \in Selectable(op.addr) : info' = [addr |-> p, ns |-> namespace]
  BY DEF Load
<1>2. op.addr # None
  BY NvmeAssumption
<1>3. p = op.addr
  BY <1>1, <1>2 DEF Selectable, GetDevices
<1>4. dev'.source \in Namespaces
  BY LoadRecords
<1>5. QED
  BY <1>1, <1>3, <1>4 DEF Load, DetectDevice

\* Until the device is loaded there is nothing to keep.
LEMMA BeforeServing ==
    ASSUME pc' \notin WithDevice \cup {"loadEndpoint", "ok"}
    PROVE  ServeAdvances
BY DEF ServeAdvances, Serving, KnowsPath, OnlyBusyIsReloaded, TableIsLoaded, ExportIsSet, WithDevice

LEMMA ServeReusing ==
    ASSUME ServeInv, op.name = "Start", StartReuses \/ EnsureReuses \/ LoadConnected
    PROVE  ServeAdvances
<1>1. op' = op /\ busy' = busy
  BY DEF StartReuses, EnsureReuses, LoadConnected, Reuse, ReuseWait
<1>2. CASE pc' \notin WithDevice \cup {"loadEndpoint", "ok"}
  BY <1>2, BeforeServing
<1>3. CASE pc' \in WithDevice \cup {"loadEndpoint", "ok"}
  <2>1. Load(op.addr) /\ (pc' = "loadEndpoint" \/ pc' = Connected)
    BY <1>3, ServeGoesOn, StartErrors
       DEF StartReuses, EnsureReuses, LoadConnected, Reuse, ReuseWait, Goto, FailsAfterwards, WithDevice
  <2>2. info'.addr = op.addr /\ info'.ns = dev'.source /\ dev'.source \in Namespaces
        /\ dev' \in Device
    BY <2>1, ServeNow, LoadsAddr, LoadRecords
  <2>3. QED
    BY <1>1, <2>1, <2>2, ServeGoesOn
       DEF ServeAdvances, Serving, KnowsPath, OnlyBusyIsReloaded, TableIsLoaded, ExportIsSet, Present
<1>4. QED
  BY <1>2, <1>3

LEMMA ServeStopping ==
    ASSUME ServeInv, op.name = "Start", RemoveDm \/ RemoveNode \/ Disconnect \/ Connect \/ Cleanup
    PROVE  ServeAdvances
<1>1. pc' \in {"removeNode", "disconnect", "ensure", "connect", "load", "cleanup", "error"}
  BY StartErrors
     DEF RemoveDm, RemoveNode, Disconnect, Connect, Cleanup, OnlyConnects, RemovalHangs, Outcome, Goto,
         FailsAfterwards
<1>2. QED
  BY <1>1, BeforeServing DEF WithDevice

\* The endpoint that is there is that of the dm device, which depends on the
\* namespace that was loaded.
LEMMA ServeExisting ==
    ASSUME ServeInv, op.name = "Start", LoadEndpoint
    PROVE  ServeAdvances
<1>1. Present /\ info.addr = op.addr /\ info.ns = dev.source /\ dev # NoDev
  BY ServeNow, PresentDevice DEF LoadEndpoint, KnowsPath
<1>2. info.ns = dm.live
  BY <1>1, NvmeAssumption DEF LoadEndpoint, DmsetupDeps, Present
<1>3. pc' = "ok" /\ isUp' /\ info' = info /\ node' = node /\ dm' = dm /\ HasDm /\ node = dm.number
  BY DEF LoadEndpoint, Goto, kernel
<1>4. dev'.source = dev.source /\ dev'.export = node
  BY <1>1 DEF LoadEndpoint
<1>5. Served
  BY <1>1, <1>2, <1>3, <1>4 DEF Served, HasDm
<1>6. QED
  BY <1>3, <1>5
     DEF ServeAdvances, Serving, KnowsPath, OnlyBusyIsReloaded, TableIsLoaded, ExportIsSet, WithDevice

\* The dm device is created on the namespace, skipped, or reloaded.
LEMMA ServeOnTop ==
    ASSUME ServeInv, op.name = "Start",
           SkipDm \/ CreateDm \/ CheckDm \/ SuspendDm \/ ReloadDm \/ ResumeDm
    PROVE  ServeAdvances
<1>1. op' = op /\ info' = info /\ pc \in WithDevice
  BY DEF SkipDm, CreateDm, CheckDm, SuspendDm, ReloadDm, ResumeDm, memory, WithDevice
<1>2. Present /\ info.addr = op.addr /\ info.ns = dev.source /\ dev \in Device
  BY <1>1, ServeNow DEF KnowsPath, Present
<1>3. pc' \in {"suspend", "reload", "resume", "node", "error"}
  BY StartErrors
     DEF SkipDm, CreateDm, CheckDm, SuspendDm, ReloadDm, ResumeDm, IsSuspended, Outcome, Goto,
         FailsAfterwards
<1>4. dev' \in Device /\ dev'.source = dev.source
  BY <1>2, ServeNow
     DEF SkipDm, CreateDm, CheckDm, SuspendDm, ReloadDm, ResumeDm, memory, Device, Numbers, Present,
         KernelOK, DmDevice, HasDm
<1>5. KnowsPath'
  BY <1>1, <1>2, <1>4 DEF KnowsPath, Present
<1>6. pc \in {"skipDm", "createDm"} => pc' \in {"node", "error"}
  BY StartErrors DEF SkipDm, CreateDm, CheckDm, SuspendDm, ReloadDm, ResumeDm, Goto, FailsAfterwards
<1>7. OnlyBusyIsReloaded'
  <2>1. CASE CheckDm \/ SuspendDm \/ ReloadDm
    BY <1>1, <1>3, <2>1, ServeNow DEF CheckDm, SuspendDm, ReloadDm, OnlyBusyIsReloaded
  <2>2. CASE SkipDm \/ CreateDm \/ ResumeDm
    <3>1. pc' \in {"node", "error"}
      BY <1>6, <2>2, StartErrors DEF SkipDm, CreateDm, ResumeDm, Goto, FailsAfterwards
    <3>2. QED
      BY <3>1 DEF OnlyBusyIsReloaded
  <2>3. QED
    BY <2>1, <2>2
<1>8. TableIsLoaded'
  <2> SUFFICES ASSUME pc' = "resume" PROVE TableIsLoaded'
    BY DEF TableIsLoaded
  <2>1. ReloadDm
    BY <1>6, StartErrors
       DEF SkipDm, CreateDm, CheckDm, SuspendDm, ReloadDm, ResumeDm, IsSuspended, Outcome, Goto,
           FailsAfterwards
  <2>2. dev' = [dev EXCEPT !.export = dm.number]
    BY <2>1, StartErrors DEF ReloadDm, FailsAfterwards
  <2>3. dm \in DmDevice
    BY <2>1, ServeNow DEF ReloadDm, HasDm, KernelOK
  <2>4. dm'.inactive = dev.source /\ dm'.number = dm.number /\ namespace' = dev.source
    BY <2>1, <2>3 DEF ReloadDm, DmDevice
  <2>5. dev'.source = dev.source /\ dev'.export = dm.number
    BY <1>2, <2>2 DEF Device
  <2>6. QED
    BY <2>4, <2>5 DEF TableIsLoaded
<1>9. ExportIsSet'
  <2>1. CASE SkipDm
    <3>1. ~op.cleanup /\ dev'.export = dev.source
      BY <1>2, <2>1, ServeNow DEF SkipDm, OnlyBusyIsReloaded, Device
    <3>2. QED
      BY <1>1, <1>4, <3>1 DEF ExportIsSet
  <2>2. CASE CreateDm
    <3>1. op.cleanup
      BY <2>2, ServeNow DEF CreateDm, OnlyBusyIsReloaded
    <3>2. PICK n \in DmNumbers :
            /\ dm' = [number |-> n, live |-> dev.source, inactive |-> None,
                      suspended |-> FALSE, deferred |-> FALSE]
            /\ pc' = "error" \/ dev' = [dev EXCEPT !.export = n]
      BY <2>2, StartErrors DEF CreateDm, FailsAfterwards
    <3>3. dm' # NoDm
      BY <3>2, NvmeAssumption DEF NoDm
    <3>4. QED
      BY <1>1, <1>2, <1>4, <3>1, <3>2, <3>3 DEF ExportIsSet, HasDm, Device
  <2>3. CASE CheckDm \/ SuspendDm \/ ReloadDm
    <3>1. op.cleanup /\ busy'
      BY <2>3, ServeNow DEF CheckDm, SuspendDm, ReloadDm, OnlyBusyIsReloaded
    <3>2. QED
      BY <1>1, <3>1 DEF ExportIsSet
  <2>4. CASE ResumeDm
    <3>1. op.cleanup /\ dm.inactive = dev.source /\ dev.export = dm.number
      BY <2>4, ServeNow DEF ResumeDm, OnlyBusyIsReloaded, TableIsLoaded
    <3>2. dm \in DmDevice /\ dev.source # None
      BY <1>2, <2>4, ServeNow, NvmeAssumption DEF ResumeDm, HasDm, KernelOK, Present
    <3>3. dm'.live = dev.source /\ dm'.number = dm.number /\ dm' # NoDm /\ dev' = dev
      BY <2>4, <3>1, <3>2, NvmeAssumption DEF ResumeDm, DmDevice, NoDm, memory
    <3>4. QED
      BY <1>1, <3>1, <3>3 DEF ExportIsSet, HasDm
  <2>5. QED
    BY <2>1, <2>2, <2>3, <2>4
<1>10. QED
  BY <1>3, <1>5, <1>7, <1>8, <1>9 DEF ServeAdvances, Serving

\* createEndpoint
LEMMA ServeNode ==
    ASSUME ServeInv, op.name = "Start", CheckNode \/ MakeNode
    PROVE  ServeAdvances
<1>1. UNCHANGED <<op, info, dev, dm, busy>> /\ pc \in WithDevice /\ pc \in {"node", "makeNode"}
  BY DEF CheckNode, MakeNode, WithDevice
<1>2. pc' = "ok" => isUp' /\ node' = dev.export
  BY StartErrors DEF CheckNode, MakeNode, RemovalHangs, Goto, FailsAfterwards
<1>3. pc' \in {"makeNode", "ok", "error"}
  BY StartErrors DEF CheckNode, MakeNode, RemovalHangs, Goto, FailsAfterwards
<1>4. KnowsPath /\ ExportIsSet
  BY ServeNow
<1>5. pc' = "ok" => Served
  BY <1>1, <1>2, <1>4 DEF Served, KnowsPath, ExportIsSet, HasDm
<1>6. pc' = "makeNode" => UNCHANGED fault
  BY StartErrors DEF CheckNode, MakeNode, RemovalHangs, Goto, FailsAfterwards
<1>7. Serving'
  BY <1>1, <1>3, <1>4, <1>6
     DEF Serving, KnowsPath, OnlyBusyIsReloaded, TableIsLoaded, ExportIsSet, HasDm, Present, WithDevice
<1>8. QED
  BY <1>5, <1>7 DEF ServeAdvances

LEMMA ServeFailing ==
    ASSUME ServeInv, op.name = "Start", CommandFails
    PROVE  ServeAdvances
<1>1. pc' = OnError /\ UNCHANGED <<op, info, dev, dm, busy>>
  BY DEF CommandFails, kernel, memory
<1>2. CASE pc \in {"checkDm", "suspend", "reload", "resume"}
  <2>1. pc' = "node" /\ op.cleanup /\ busy
    BY <1>1, <1>2, StartErrors, ServeNow DEF OnlyBusyIsReloaded
  <2>2. KnowsPath
    BY ServeNow
  <2>3. QED
    BY <1>1, <1>2, <2>1, <2>2
       DEF ServeAdvances, Serving, KnowsPath, OnlyBusyIsReloaded, TableIsLoaded, ExportIsSet, Present,
           WithDevice
<1>3. CASE pc \notin {"checkDm", "suspend", "reload", "resume"}
  <2>1. pc' \in {"ensure", "removeDm", "disconnect", "connect", "cleanup", "error"}
    BY <1>1, <1>3, StartErrors, ServeGoesOn
  <2>2. QED
    BY <2>1, BeforeServing DEF WithDevice
<1>4. QED
  BY <1>2, <1>3

LEMMA ServeSteps ==
    ASSUME ServeInv, op.name = "Start", OperationStep
    PROVE  ServeAdvances
<1>1. ~LoadInfo
  BY ServeNow DEF LoadInfo
<1>2. QED
  BY <1>1, ServeReusing, ServeStopping, ServeExisting, ServeOnTop, ServeNode, ServeFailing
     DEF OperationStep

\* A namespace goes with the last path, and appears only while there is one.
LEMMA PathsKept ==
    ASSUME IInv, PathsHoldNamespace, [Next]_vars
    PROVE  PathsHoldNamespace'
<1>1. CASE OperationStep
  <2>1. CASE Disconnect \/ Connect \/ Cleanup
    BY <2>1 DEF Disconnect, DisconnectTarget, Connect, ConnectTarget, Cleanup, LosePath,
                PathsHoldNamespace
  <2>2. CASE ~(Disconnect \/ Connect \/ Cleanup)
    BY <1>1, <2>2
       DEF OperationStep, StartReuses, EnsureReuses, Reuse, ReuseWait, LoadInfo, LoadEndpoint,
           RemoveDm, RemoveNode, LoadConnected, SkipDm, CreateDm, CheckDm, SuspendDm, ReloadDm,
           ResumeDm, CheckNode, MakeNode, CommandFails, kernel, PathsHoldNamespace
  <2>3. QED
    BY <2>1, <2>2
<1>2. CASE (\E o \in Requests : Begin(o)) \/ Return \/ Crash \/ Panics
  BY <1>2 DEF Begin, Return, Crash, Panics, Restarts, kernel, PathsHoldNamespace
<1>3. CASE SyncStep \/ EnvironmentStep \/ UNCHANGED vars
  BY <1>3 DEF SyncStep, SyncStarts, SyncReloads, SyncLoadsTable, SyncEnds, SyncFails, EnvironmentStep,
              NamespaceAppears, UserOpens, UserCloses, LateRemoval, PathLost, LosePath, vars, kernel,
              PathsHoldNamespace
<1>4. QED
  BY <1>1, <1>2, <1>3 DEF Next

\* SyncDmDeviceSize beside a Start: it loads the very table that Start loads, and
\* records the numbers of the device that Start records.
LEMMA SyncPreservesServe ==
    ASSUME ServeInv, op.name = "Start", SyncStep
    PROVE  Serving'
<1>1. UNCHANGED <<op, pc, busy, fault, info, paths, namespace>>
  BY DEF SyncStep, SyncStarts, SyncReloads, SyncLoadsTable, SyncEnds, SyncFails, kernel, memory
<1>2. KnowsPath /\ OnlyBusyIsReloaded /\ TableIsLoaded /\ ExportIsSet /\ KernelOK /\ PathsHoldNamespace
  BY ServeNow DEF ServeInv
<1>3. CASE SyncEnds
  <2>1. dev \in Device
    BY <1>3, ServeNow DEF SyncEnds, MemoryOK
  <2>2. dev'.source = dev.source /\ dev'.export = dm.number /\ HasDm /\ dm' = dm
    BY <1>3, <2>1 DEF SyncEnds, Device, kernel
  <2>3. Present => Present'
    <3>1. dm.number \in Numbers
      BY <1>2, <2>2 DEF KernelOK, HasDm, DmDevice, Numbers
    <3>2. QED
      BY <1>3, <2>1, <2>2, <3>1 DEF SyncEnds, Present, Device
  <2>4. QED
    BY <1>1, <1>2, <2>2, <2>3
       DEF Serving, KnowsPath, OnlyBusyIsReloaded, TableIsLoaded, ExportIsSet, HasDm
<1>4. CASE SyncLoadsTable
  <2>1. dev' = dev /\ dm \in DmDevice /\ dm # NoDm
    BY <1>2, <1>4 DEF SyncLoadsTable, memory, HasDm, KernelOK
  <2>2. /\ dm'.inactive = sync.source /\ namespace = sync.source /\ namespace # None
        /\ dm'.number = dm.number /\ dm'.live = dm.live /\ dm' # NoDm
    BY <1>4, <2>1, NvmeAssumption DEF SyncLoadsTable, DmDevice, NoDm
  <2>3. paths # {}
    BY <1>2, <2>2 DEF PathsHoldNamespace
  <2>4. TableIsLoaded'
    BY <1>1, <1>2, <2>1, <2>2, <2>3 DEF TableIsLoaded, HasDm
  <2>5. KnowsPath' /\ OnlyBusyIsReloaded'
    BY <1>1, <1>2, <2>1 DEF KnowsPath, OnlyBusyIsReloaded, Present
  <2>6. ExportIsSet'
    BY <1>1, <1>2, <2>1, <2>2 DEF ExportIsSet, HasDm
  <2>7. QED
    BY <2>4, <2>5, <2>6 DEF Serving
<1>5. CASE SyncStarts \/ SyncReloads \/ SyncFails
  <2>1. dev' = dev /\ dm' = dm
    BY <1>5 DEF SyncStarts, SyncReloads, SyncFails, kernel, memory
  <2>2. QED
    BY <1>1, <1>2, <2>1
       DEF Serving, KnowsPath, OnlyBusyIsReloaded, TableIsLoaded, ExportIsSet, HasDm, Present
<1>6. QED
  BY <1>3, <1>4, <1>5 DEF SyncStep

\* The kernel and the users of the device beside a Start: what they take away is
\* a failure, and no namespace appears once the one that was loaded has gone.
LEMMA EnvironmentPreservesServe ==
    ASSUME ServeInv, op.name = "Start", EnvironmentStep
    PROVE  Serving'
<1>1. UNCHANGED <<op, pc, busy, info, dev>> /\ op # NoOp
  BY DEF EnvironmentStep, NamespaceAppears, UserOpens, UserCloses, LateRemoval, PathLost, memory, NoOp
<1>2. KnowsPath /\ OnlyBusyIsReloaded /\ TableIsLoaded /\ ExportIsSet /\ PathsHoldNamespace
  BY ServeNow DEF ServeInv
<1>3. fault => fault'
  BY <1>1 DEF EnvironmentStep, NamespaceAppears, UserOpens, UserCloses, LateRemoval, PathLost
<1>4. dm' = dm \/ (dm' = NoDm /\ fault')
  BY <1>1 DEF EnvironmentStep, NamespaceAppears, UserOpens, UserCloses, LateRemoval, PathLost
<1>5. KnowsPath' /\ OnlyBusyIsReloaded'
  BY <1>1, <1>2 DEF KnowsPath, OnlyBusyIsReloaded, Present
<1>6. pc = "resume" /\ (namespace = dev.source \/ paths = {}) =>
        namespace' = dev.source \/ paths' = {}
  <2>1. pc = "resume" => dev.source # None
    BY <1>2, NvmeAssumption DEF KnowsPath, Present, WithDevice
  <2>2. QED
    BY <2>1 DEF EnvironmentStep, NamespaceAppears, UserOpens, UserCloses, LateRemoval, PathLost,
                LosePath
<1>7. TableIsLoaded'
  BY <1>1, <1>2, <1>4, <1>6 DEF TableIsLoaded, HasDm
<1>8. ExportIsSet'
  BY <1>1, <1>2, <1>3, <1>4 DEF ExportIsSet, HasDm
<1>9. QED
  BY <1>5, <1>7, <1>8 DEF Serving

LEMMA ServeNext == ServeInv /\ [Next]_vars => ServeInv'
<1> SUFFICES ASSUME ServeInv, [Next]_vars PROVE (op.name = "Start" => Serving)'
  BY NextInv, PathsKept DEF ServeInv
<1>1. CASE \E o \in Requests : Begin(o)
  BY <1>1 DEF Begin, FirstStep, Serving, KnowsPath, OnlyBusyIsReloaded, TableIsLoaded, ExportIsSet,
              WithDevice
<1>2. CASE Return \/ Crash \/ Panics
  BY <1>2 DEF Return, Crash, Panics, Restarts, NoOp
<1>3. CASE OperationStep
  <2>1. op' = op
    BY <1>3 DEF OperationStep, StartReuses, EnsureReuses, Reuse, ReuseWait, LoadInfo, LoadEndpoint,
           RemoveDm, RemoveNode, Disconnect, Connect, LoadConnected, Cleanup, SkipDm, CreateDm,
           CheckDm, SuspendDm, ReloadDm, ResumeDm, CheckNode, MakeNode, CommandFails
  <2>2. QED
    BY <1>3, <2>1, ServeSteps DEF ServeAdvances
<1>4. CASE SyncStep \/ EnvironmentStep
  <2>1. op' = op
    BY <1>4 DEF SyncStep, SyncStarts, SyncReloads, SyncLoadsTable, SyncEnds, SyncFails,
                EnvironmentStep, NamespaceAppears, UserOpens, UserCloses, LateRemoval, PathLost
  <2>2. QED
    BY <1>4, <2>1, SyncPreservesServe, EnvironmentPreservesServe
<1>5. CASE UNCHANGED vars
  BY <1>5 DEF vars, kernel, memory, ServeInv, Serving, KnowsPath, OnlyBusyIsReloaded, TableIsLoaded,
              ExportIsSet, HasDm, Present
<1>6. QED
  BY <1>1, <1>2, <1>3, <1>4, <1>5 DEF Next

\* A Start that reports success with a device that is not busy has an endpoint
\* that leads to the namespace behind the address it was asked for: by the dm
\* device if there is one, whose live table is on that namespace although
\* SyncDmDeviceSize may have loaded another meanwhile; and if there should be a
\* dm device and is none, or none and the node is another, something has failed.
THEOREM StartServesEndpoint == Spec => EndpointServes
<1>1. Init => ServeInv
  BY InitInv DEF ServeInv, PathsHoldNamespace, Init, NoOp
<1>2. ServeInv /\ [Next]_vars =>
        [Ends("Start", "ok") /\ ~busy' =>
          /\ isUp' /\ info'.addr = op.addr /\ dev'.export = node'
          /\ op.cleanup /\ HasDm' => node' = dm'.number /\ dm'.live = dev'.source
          /\ op.cleanup /\ ~HasDm' => fault
          /\ ~op.cleanup /\ ~HasDm' /\ ~fault => node' = dev'.source]_vars
  <2> SUFFICES ASSUME ServeInv, [Next]_vars, Ends("Start", "ok")
               PROVE  Served
    BY DEF Served
  <2>1. op.name = "Start" /\ pc # "ok" /\ pc' = "ok"
    BY DEF Ends
  <2>2. OperationStep
    BY <2>1 DEF Next, vars, Begin, FirstStep, Return, SyncStep, SyncStarts, SyncReloads,
                SyncLoadsTable, SyncEnds, SyncFails, EnvironmentStep, NamespaceAppears, UserOpens,
                UserCloses, LateRemoval, PathLost, Crash, Panics, Restarts
  <2>3. QED
    BY <2>1, <2>2, ServeSteps DEF ServeAdvances
<1>3. QED
  BY <1>1, <1>2, ServeNext, PTL DEF Spec, EndpointServes
=============================================================================
