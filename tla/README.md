# Verification of go-spdk-helper

TLA+ models of the parts of go-spdk-helper that are hard to test: the JSON-RPC
client with its goroutines and queues, the file lock of a volume, the ids and
disks of ublk, the NVMe/TCP initiator with its dm device and its endpoint, the scan
of NVMe devices command by command, the exposure of bdevs through an SPDK target,
the lvstores and lvols on its disks, and the sizes of erasure-coded volumes.
TLC checks them on small instances, TLAPS proves the main safety properties for
every value of the constants. `PROJECT.json` lists the runs, the lines of the
source that each definition stands for, the hazards and the findings.

Contents: [the system](#the-system), [modules](#modules), [runs](#runs),
[findings](#findings), [fairness](#fairness), [proofs](#proofs),
[what is assumed](#what-the-models-assume), [what is left out](#what-is-not-modelled),
[plan](#plan).

## The system

go-spdk-helper is a library for the instance manager of Longhorn. It talks to an
SPDK target over a Unix socket and makes the volumes that SPDK exports available
on a host: an NVMe/TCP or a ublk block device, a linear device-mapper device on
top of it that can be switched over to another path, and a device node
`/dev/longhorn/<volume>`, the endpoint. There is no server and no loop of its
own; everything happens inside the calls of its users, which come from many
goroutines and, on one host, from several processes.

| Component | State it keeps | Operations | Interacts with |
|---|---|---|---|
| JSON-RPC client (`pkg/jsonrpc`) | semaphore, `msgWrapperQueue`, `respReceiverQueue`, `responseChans`, `idCounter`, one channel per call | `SendCommand`, `SendCommandWithLongTimeout`, shutdown through the context; goroutines `dispatcher` and `read` | callers in any number; the SPDK target through the socket |
| Per-volume file lock (`initiator.go` 157-208, go-common-libs `FileLock`) | the lock file in `/var/lock`, `flock` on its inode, two goroutines per lock | `newLock`, `Unlock`, the removal of the file by `Stop` | every locked operation of every process on the volume |
| ublk initiator and id generator (`initiator.go` 637-768, 1026-1044, `ublk_id_generator.go`) | `UblkInfo.UblkID`; per process `isUblkTargetCreated`, `lastCandidate`; in SPDK the target and its disks | `StartUblkInitiator`, `Stop`, `GetAvailableID` | other volumes through SPDK's list of disks; restarts of SPDK and of the process |
| NVMe/TCP initiator (`initiator.go`) | `NVMeTCPInfo`, `dev`, `isUp`, `Endpoint`; in the kernel paths, namespace, dm device, device node | `StartNvmeTCPInitiator`, `Stop`, `Suspend`, `Resume`, `ReloadDmDevice`, `SyncDmDeviceSize`, `LoadNVMeDeviceInfo`, `LoadEndpointForNvmeTcpFrontend`, connect, reconnect and disconnect of paths, two `WaitFor` operations | nvme-cli, dmsetup, lsblk, the kernel, users of the device |
| NVMe device scan (`nvme.go`, `nvmecli.go`) | none of its own; in the kernel the controllers and the block devices of all volumes | `GetDevices`, `DiscoverTarget`, `ConnectTarget`, `DisconnectTarget`, `DisconnectController` | nvme-cli; initiators of other volumes, which connect and disconnect meanwhile |
| Device and dmsetup helpers (`pkg/util`) | one goroutine that outlives its caller (`removeAsync`) | `DetectDevice`, `DuplicateDevice`, `RemoveDevice`, the `Dmsetup*` functions | the kernel |
| Exposing bdevs and devices (`advanced.go`) | in SPDK: subsystems, hosts, namespaces, listeners, AIO bdevs, lvstores | `AddDevice`, `DeleteDevice`, `StartExposeBdev`, `StopExposeBdev` | the SPDK target, one command after the other |
| Command wrappers (`basic.go`, `ec.go`, `ublk.go`) | none; in SPDK the lvstores and lvols | about a hundred SPDK commands; `BdevLvolGetWithFilter`, which sends many | the JSON-RPC client; everybody else's commands come in between |
| Erasure coding geometry (`ec_geometry.go`) | none | `ComputeShardSize`, `EcUsableSize`, `ValidateECCreationSize`, `MaxECVolumeSizeForCreation` | the sizes have to agree with what SPDK computes |
| Setup, target, command line, types, utilities | none | scripts, process start, flags | the shell |

What is hard about each of them, and what makes it correct:

* **JSON-RPC client.** Callers, dispatcher and reader meet in two bounded queues,
  a map and unbuffered channels; calls give up at any moment, answers come late
  and in any order, the socket can be full in both directions. Correct means: an
  answer reaches the call that asked, or nobody; a command is carried out at most
  once, and not at all if the call was refused; no channel is closed twice; no
  slot leaks; nobody waits who cannot be woken; the dispatcher never hangs.
* **File lock.** A timeout races the lock, a crash comes at any moment, and the
  file is removed while others wait on it. Correct means: operations of a volume
  do not overlap, and no lock outlives its operation.
* **ublk.** An id is chosen from a list that is stale when the id is used, and is
  remembered after the disk is gone. Correct means: an id in use is not taken
  again, nobody stops the disk of another volume, a bdev has one disk, and a
  volume's own disk is known to it.
* **NVMe/TCP initiator.** A start is a dozen commands on state that outlives the
  process; each can fail before or after its effect; paths, users and one
  operation without the lock come in between. Correct means: a start that
  succeeds has an endpoint on the right namespace, a stop that succeeds leaves
  nothing, and no leftover makes the next start fail for good.
* **NVMe device scan.** Every answer of nvme-cli is true when it is given, and a scan
  puts several together, of different times. Correct means: what is reported was
  there, what stays there is found whatever other volumes do, the end of a connection
  is not reported while there is one, and nobody disconnects another's path.
* **Exposing bdevs.** Several commands without a rollback, bdevs that go under them,
  one transport that all volumes share. Correct means: a subsystem that hosts can
  reach is complete, a success means what it says, and after a failure the opposite
  operation gets through, and then the retry.
* **lvstores and lvols.** A list of lvols is one command and then three for each of
  them, while lvols are deleted, renamed, and made anew. Correct means: the list
  tells nothing that was never true, and leaves out nothing that was there; a missing
  xattr is not taken for a missing lvol, nor the other way round.
* **Erasure coding geometry.** The metadata of the lvstore takes space on the device
  that it describes, and three functions have to agree at the boundary. Correct
  means: the shards hold what was asked for, what is admitted is what SPDK can
  create, the maximum is the largest size that is admitted, and the loops end.

The hazards in `PROJECT.json` name the lines.

## Modules

| Module | Stands for | Extends |
|---|---|---|
| `RpcService` | what the client promises about one call | - |
| `JsonRpcClient` | `client.go`, with the socket and the target as environment | - (`INSTANCE RpcService`) |
| `MCJsonRpcClient` | symmetry, and the restricted `OpenFairSpec` | `JsonRpcClient` |
| `InitiatorLock` | `newLock`, `FileLock.Lock`, `Unlock`, the removal of the file | - |
| `UblkInitiator`, `MCUblkInitiator` | several volumes, one SPDK target, one process that restarts | - |
| `NvmeInitiator`, `MCNvmeInitiator` | one volume, one process that restarts, the kernel | - |
| `NvmeScan`, `MCNvmeScan` | the functions of `nvme.go` and their callers, one command of nvme-cli at a time, in a kernel that other volumes use too | - |
| `BdevExposure` | what hosts see of a bdev, and what the callers of its exposure are told | - |
| `ExposeBdev`, `MCExposeBdev` | several volumes, one SPDK target, the three operations on the exposure of a bdev | - (`INSTANCE BdevExposure`) |
| `LvolStore`, `MCLvolStore` | the disks, lvstores and lvols of a target, its commands on them, and the three operations that send several | - |
| `EcGeometry`, `MCEcGeometry` | `ec_geometry.go`, and what SPDK computes from its results | - |
| `JsonRpcClientProofs`, `InitiatorLockProofs`, `UblkInitiatorProofs`, `NvmeInitiatorProofs`, `NvmeScanProofs`, `ExposeBdevProofs`, `LvolStoreProofs`, `EcGeometryProofs` | theorems | their module, TLAPS |

The modules are composed by assumption. `UblkInitiator` and `NvmeInitiator` take
from `InitiatorLock` that the locked operations of one volume do not overlap
(which `SerializedWithoutStop` proves as long as nobody calls `Stop`, and the
finding refutes otherwise). They, `ExposeBdev` and `LvolStore` take from `RpcService`
that a failed command may have been carried out and an answered one was.
`NvmeInitiator` takes a scan for one step that finds what is there, or fails:
`NvmeScanProofs!UndisturbedScansAreExact` proves that a scan does so as long as no path
and no device comes or goes during it, and `NvmeScan` says what the step hides otherwise.

**JsonRpcClient.** A call is named once and is made once; `caller[c]` is the
program counter of its goroutine. Every case of every `select` is an action:
`AcquireSem`, `RefuseOnCtxDone` and `RefuseOnTimeout` at the semaphore and again at
the queue, `AwaitResponse` as a step of its own because between the enqueue
(client.go:295) and the receive (client.go:299) the caller is not a receiver of
its channel. `TakeMessage` and `HandleSend` are two steps because Encode blocks;
`HandleRecv` is one, with `Deliver` if the caller is blocked in its receive and
`Drop` otherwise, which is what `select` with a `default` does on an unbuffered
channel. A second close is the state `"panicked"`. `read` is `ReadTick`,
`ReadResponse`, `QueueResponse`, `DropResponse`, `ReaderShutdown`. The target takes
requests in order, works on up to `ServiceLimit` of them and answers in any order.

**RpcService** has one variable per promise: the phase of a call, how often its
command was carried out, whose answer it got. `ImplementsService` instantiates it
with `phase <- PhaseOf(caller[c])` and `answer <- got`.

**InitiatorLock.** An inode is named by the operation whose `open` created it, so
that an unlinked inode and its successor at the same path are two things. The
caller, the goroutine of `Lock` and the goroutine that waits for `lock.done`
interleave; the mutex of `FileLock` shows in `LockFails`, which waits for `flock`.

**UblkInitiator.** The commands of SPDK are operators with their names
(`UblkCreateTarget`, `UblkGetDisks`, `UblkStartDisk`, `UblkStopDisk`), the steps of
`StartUblkInitiator` and `Stop` use them, and the list an id was chosen from (`inUse`)
is kept, to be stale when `StartDisk` uses the id. `CreateTarget` and `StartDisk`
also end with their answer lost. `Return` is the error return that is possible after
any step. `SpdkRestart` and `ProcessRestart` each lose what they lose.

**NvmeInitiator.** `op` is the operation that holds the lock with its arguments,
`pc` its next command, `OnError` the place where the code goes on after an error of
that command: `StartNvmeTCPInitiator` turns some errors into another branch, some
into a warning, and returns the rest. Each command succeeds, fails without effect
(`CommandFails`) or fails after its effect (`FailsAfterwards`). The dm device has a
live and an inactive table, a suspended flag and a deferred removal, because
`dmsetup reload` writes the one and `resume` moves it to the other.
`SyncDmDeviceSize` has its own small state (`sync`) and steps between those of the
operation. `NamespaceAppears`, `PathLost`, `UserOpens`, `UserCloses` and
`LateRemoval` (the `os.Remove` that `RemoveDevice` gave up on) happen at any time,
`Crash` too. `Panics` is the nil dereference of `reloadLinearDmDevice`. `fault` is a
history variable that only properties read.

**NvmeScan.** `path` says what each controller of the kernel is connected to, `disk`
which subsystem a block device belongs to and which controller owns it; a device
whose last path has gone stays for a while without an owner. `call` is the function
that runs with its arguments: `load` (`loadNVMeDeviceInfo`, which may know neither
subsystem nor address, only a controller), `connect` and `discoverAndConnect`
(`discoverAndConnectNVMeTCPTarget` for a known and an unknown subsystem), and
`disconnect` of an address or of the whole subsystem. `GetDevices` is `ListDevices`,
then for each device in any order `Look`, `Skip` (the device is being torn down),
`LookFails` or `LookFindsSeveral`, then `Filter`, then the fallback for multipath
(`ListAll`) and the last look that chooses the error (`Diagnose`).
`selectControllerForNVMeDevice` is `Selectable`. `HostIds`, `Discover`, `Connect` and
`Verify` are the connect with its retries (`Retry`: from the start, with the discovery
if it did not know the subsystem). `DisconnectController` is `ListPaths` and `Remove`
by name, with the reuse of names in between. The environment (`OtherConnects`,
`PathLost`, `DeviceAppears`, `DeviceGone`) changes the kernel `MaxChanges` times during
a call. `history` records what was true during the call; only properties read it, but
for the count of changes.

**ExposeBdev.** The effect of a command on a subsystem is an operator named after its
method in `basic.go` (`NvmfCreateSubsystem`, `NvmfSubsystemAddHost`, ...); the steps of
the operations are `GetTransports`, `CreateTransport`, `CreateSubsystem`, `AddHost`,
`AddNs`, `AddListener`, `SetANAState`, and `GetSubsystems`, `GetListeners`,
`RemoveListener`, `RemoveNs`, `DeleteSubsystem`. `pc[v]` is the next command of the
operation on volume `v`, and `Goto` lets the operation go on or lose the answer to a
command that was carried out. `CommandFails` is the command that is not: `Works` tells
whether the target would have refused it in its state, or whether the error came from
outside (`fault`). `Leave` is the return of the operation, and also the death of its
process at any command. `listed` is what `StopExposeBdev` has read and acts upon later.
`BdevRemoved` takes the namespace away under a subsystem, `SpdkRestart` everything.
`wanted`, `lost`, `fresh` and `fault` are history variables.

**BdevExposure** knows no subsystem and no command: a bdev is hidden, or served to an
audience in an ANA state, with or without its data. It appears at once to the whole
audience that the start names, in the state `Optimized`, and vanishes at once; a call
that nothing from outside has hit returns no error from a stop, and no success without
what it promised. `ImplementsExposure` instantiates it with `service <- ServiceSeen`
(the listener decides whether hosts reach a subsystem), `outcome <- Outcomes` and
`disturbed <- fault`: the commands before the listener of a start, and after that of a
stop, are steps that nobody sees.

**LvolStore.** A disk, the AIO bdev made of it and the lvstore that `AddDevice` makes
have one name, as in the code; an lvstore can be renamed. The commands on AIO bdevs,
lvstores and lvols are operators with the names of their methods (`BdevAioCreate`,
`BdevLvolCreateLvstore`, `BdevLvolSnapshot`, `BdevLvolSetXattr`,
`BdevLvolRegisterSnapshotChecksum`, ...), which others issue at any time
(`OthersCommand`); the operations `AddDevice`, `DeleteDevice` and
`BdevLvolGetWithFilter` send theirs one at a time, each of which can be refused by the
target (`Refused`), fail for a reason of its own (`CommandFails`) or lose its answer
(`Or`). The list keeps, per lvol, what has been asked so far; `Learn` adds one value,
and what counts as an error is that of basic.go:351-380. `history.seen` are the values
that an lvol in the list has had since the list was taken, `history.stayed` the lvols
that were there all the time.

**EcGeometry.** A behaviour is one call; each turn of the iteration of
`lvstoreMetadataBytes` (`Iterate`, `Settle`) and of the bisection (`Probe`, `Halve`) is a
step. The functions on sizes are operators with their names and formulas, over
constants. `EcBdevSize`, `DataClusters` and `Creatable` are what SPDK computes, taken
from the replay in `ec_geometry_test.go`; the properties compare the two sides.

## Runs

| Run | Checks | Instance and why it is enough |
|---|---|---|
| `jsonrpc_safety` | `NoPanic`, `IdUnused`, `AnswerIsOwn`, `SemaphoreExact`, `ResponsesAreKept`, `WaiterIsReachable`, `ImplementsService` | 3 calls, 2 slots, one message in each direction of the socket. Two calls are under way while a third waits for a slot or has just given up, so that answers overtake each other and late answers meet entries of calls that are gone. Four ids, as many as can be in use at a time and one more: ids wrap (the first is 2) but are not reused while in use. Calls are symmetric |
| `jsonrpc_liveness` | `CallsReturnUnaided`, `CancelReleasesCallers`, `GoroutinesEnd` | 2 calls, 1 slot: one call queues for the slot of the other. No symmetry, which liveness does not allow |
| `jsonrpc_backpressure` | `EncodeEnds` | `OpenFairSpec`: one goroutine makes six calls one after the other, each of which may give up; every queue holds one. Six messages fill every place of the cycle from the dispatcher through the target back to the dispatcher. Cancel and close, which would resolve it, are excluded |
| `lock` | `OverlapOnlyAfterStop`, `NoLockLeaks`, `LockReturns` | 3 operations, one a `Stop`: a holder, a waiter and a newcomer, with timeouts and crashes of each |
| `lock_stop_race` | `Serialized`, refuted | the same three |
| `ublk` | `ReservedIdIsFree`, `StopsOnlyOwnDisk`, `OneDiskPerBdev`, `DiskIsKnown` | 2 volumes, `MaxUblkId` = 3: a free id remains when both volumes have a disk, and the generator comes to its wrap, where `wrapped` ends what the first two properties promise |
| `nvme` | `DevicePresent`, `EndpointServes`, `StoppedIsClean`, `CleanStartSucceeds` | 2 targets, 2 names for namespaces, 2 dm numbers: an old and a new of each. `StartsAndStops`: start and stop with every argument, connect and reconnect of a path. Symmetric in addresses, names and numbers |
| `nvme_sync` | `EndpointServes` | 1 target, 2 namespaces, 1 dm number, `Maintenance`: all other operations, with `SyncDmDeviceSize` between their steps |
| `nvme_scan` | `ReportedPathExisted`, `SteadyPathIsFound`, `NotFoundMeansGone`, `DisconnectsOnlyItsPath` | 2 subsystems (the one that is looked for and another), 2 ports of one address, which differ where a comparison of addresses goes wrong, 3 controllers (two paths, and a free name or another volume's), 2 block devices (an old and a new). `MaxChanges` = 2: a path or a device goes and another takes its place. Every function with every argument |
| `expose` | `CompleteService`, `StartServes`, `StopGetsThrough`, `FreshStartSucceeds`, `ImplementsExposure` | 2 volumes, which meet at the transport; 2 hosts, so that a start can fail between them; 2 ANA states, one of them what a new listener has. `OneOfEachKind`: a start for all hosts, one with an ANA state that differs from the first, Stop. Symmetric in volumes and in hosts |
| `lvol` | `ListTellsTheTruth`, `ListIsComplete`, `ListFailsForCause`, `AddedStoreIsOwn` | 2 disks, 3 UUIDs of lvstores (those of the disks and a new one), 2 lvols with 2 names, which can swap them. `MaxCommands` = 2 commands of others during an operation: an lvol goes and another takes its name; between operations any number |
| `ec_geometry` | `ShardBacksSpec`, `AdmissionPredictsSpdk`, `MaxIsLargest`, `CallsEnd` | 16 pages of 8 bytes in a cluster, growth by 2, a limit of 20 clusters: the proportions of the code with numbers that TLC can hold. Every size at a quarter of a cluster and one byte beyond, up to over the limit; 0 to 3 data chunks, 2 strip sizes |

The NVMe models, `ExposeBdev` and `LvolStore` have no bound but their constants and
those named in the table: operations follow each other for ever, and the whole state
space is explored (`nvme` 2.7, `nvme_sync` 2.8, `nvme_scan` 1.3, `lvol` 0.9, `expose`
0.6 million states).
`EndpointServes` has three conditions that say how much the code promises: if
Start reports a busy device it promises nothing, if the dm device has gone at the
moment Start returns then something failed meanwhile, and without a cleanup the
endpoint is the namespace itself only if no dm device was left over.
`CHECK_DEADLOCK FALSE` stands where the system comes to rest: calls are made once
(JSON-RPC), operations end (lock), a function returns (geometry).

## Findings

`lock_stop_race` (code bug, initiator.go:977). `Stop` unlinks the lock file
while it holds the lock "to avoid an unlink race". A waiter that has opened the
old inode gets its lock when `Stop` unlocks, a newcomer creates and locks a new
file, and both run: `Lock` never compares its inode with the one at the path. TLC
refutes what the comment says.

Other places where the code does something else than its comments say. They were met
while modelling; the models do what the code does, and no property claims otherwise:

* `handleRecv` reports that "the caller is no longer waiting" (client.go:186-189) of a
  caller that has not begun to wait; the call fails though its command was carried out.
* "Correctness never depends on" `isUblkTargetCreated`, says its comment
  (initiator.go:66-68, 700-701); after a restart of SPDK it is stale, the target is
  never created again, and every start fails until the process restarts.
* The "orphaned connection" that `cleanupConnection` removes after a failed load
  (initiator.go:835) may be a path that was connected before by somebody else, and may
  be the last one.
* `ConnectTarget` returns the first controller of the first device, which after the
  fallback for multipath is that of any path of the subsystem, not of the one to the
  address (nvme.go:216-218). `ReportedPathExisted` claims the address for `load` only.
* Without a subsystem name (initiator.go:802) `GetDevices` returns all devices and
  does not look at the address.
* `BdevRaidGet` with an empty name overwrites the name of every raid bdev with it,
  against the comment at that line (basic.go:878-880).
* `GetAvailableID` reports that "1..65535 are all in use" also if the id it handed out
  last is free again (ublk_id_generator.go:25-40): its 65535 turns pass over the ids
  after that one, and 0, but do not come back to it (`OthersAreTried`).
* `AddDevice` returns the name it was given for the lvstore, also when the lvstore
  that it finds on the disk has another; `DeleteDevice` with that name then fails.

## Fairness

`JsonRpcClient.Fairness`: the goroutines run (weak fairness of the caller's steps,
of the dispatcher, of the reader) and so does the target. Nothing is assumed of a
caller's timers, which can be 24 hours long. The reader's shutdown has strong
fairness: while the socket is closed, it passes its `select` again and again, and
Go's `select` takes each ready case with positive probability.

`InitiatorLock.LockFairness`: the goroutines of a lock run, the timer fires, and
the kernel hands an inode's lock to its waiters in turn (strong fairness of
`Flock`). `RunFairness` adds that operations end, which the timeouts of the
commands they execute justify. `LockReturns` needs it: the timeout of `Lock` alone does
not bound the call, because the caller whose timer has fired waits for the mutex that
the goroutine blocked in `flock` holds (filelock.go:106).

`EcGeometry`: weak fairness of `Next`, a goroutine that runs and waits for nobody.

The ublk, NVMe, `ExposeBdev` and `LvolStore` modules have safety properties only and
assume no fairness: what they do ends after a fixed number of commands and retries.

## Proofs

For every value of the constants, with no assumption but the named `ASSUME`s of
the modules and what the table says:

| Theorem | Property | Inductive invariant |
|---|---|---|
| `JsonRpcClientProofs!TypeCorrect`, `SemaphoreCorrect` | `TypeOK`, `SemaphoreExact` | `BaseInv` = `TypeOK`, `SemaphoreExact`, `ControlInv` (which pcs hold a message or a wrapper). The count of the semaphore stays in range only because it equals the number of holders |
| `NeverPanics` | `NoPanic` | `BaseInv` and `ChannelInv`: a call is in the queue, being encoded, or registered under one id, never two of them; a channel that is closed is registered nowhere |
| `AnswersAreOwn` | `AnswerIsOwn` | `EntryMatches`: the entry under the id of a message under way is its own call's or empty. Needs `[]IdUnused` |
| `ClientImplementsService` | `ImplementsService` | `ExecInv`: a message that is not yet accepted has `executed` = 0, one that is has 1. Step by step, each action of the client is one of `RpcService` or stutters. Needs `[]IdUnused` |
| `WaitersAreReachable` | `WaiterIsReachable` | `ReachInv`, which begins at the enqueue: a call passes from the queue to the dispatcher, to `responseChans`, to the closed channels. Needs `[]IdUnused` |
| `ResponsesKept` | `ResponsesAreKept` | `KeptInv`: a message is at one place and once (`OnceInv`), its channel is registered under its id (`EntryExact`), and its call has a slot (`WaitInv`). So there are at most as many messages as slots, by an injection, and the queue has a place for the one that `read` holds. Once the dispatcher is done slots are freed, but no message is added (`FewInv`). Needs `[]IdUnused` |
| `IdsAreUnused` | `IdUnused`, if `Cardinality(Calls) < IdSpace` | `IdInv`: the ids in use are among the last k that were given out, for some k; and the calls that have entered the queue are at least these k, the messages in the queue and the one that is being encoded together. So the next id, `IdSpace` steps behind itself, is not among them |
| `FewCallsAreServed` | `AnswerIsOwn`, `WaiterIsReachable`, `ResponsesAreKept`, `ImplementsService`, under the same condition | the four theorems above, without their hypothesis |
| `InitiatorLockProofs!TypeCorrect`, `NeverLeaksLock`, `OverlapsOnlyAfterStop`, `SerializedWithoutStop` | `TypeOK`, `NoLockLeaks`, `OverlapOnlyAfterStop`; `Serialized` if `Stops` is empty | `LockerInv` (goroutine and caller agree), `OwnerInv` (who is running owns the inode it opened), `PathInv` (while nothing was removed, all have the inode at the path) |
| `OverlapIsBounded` | at most n + 1 operations run at once when n calls of `Stop` have removed the file or died, for finite `Ops` | `InodesInv`: the inodes that can still be locked are at most as many as these calls, and the one at the path. Who runs holds an inode of its own |
| `UblkInitiatorProofs!TypeCorrect`, `OneDiskEach` | `TypeOK`, `OneDiskPerBdev` | `BdevInv`: whoever has passed the stopping of its disks has none, the others one at most |
| `ReservedIdsAreFree`, `OnlyOwnDisksStopped` | `ReservedIdIsFree`, `StopsOnlyOwnDisk` | `IdInv`: until the generator wraps, reserved ids are distinct, free and not greater than `lastCandidate`, and ids remembered or listed name the initiator's own disk or none |
| `OthersAreTried` | about an operator: `Candidate` takes every number but `lastCandidate`, and none twice | arithmetic of remainders |
| `DisksAreKnown` | `DiskIsKnown` | with `BdevInv`: whoever has passed the stopping of its disks has none that it could forget |
| `NvmeInitiatorProofs!TypeCorrect`, `DeviceAlwaysPresent` | `TypeOK`, `DevicePresent` | `IInv` = `TypeOK` in parts and `DevicePresent` itself. Every operation stays at its own steps (`StepsOf`), also through `OnError`; a load that succeeds records a namespace, and only `RemoveNode`, which no operation does after its load, and restarts forget the device |
| `StopLeavesNothing` | `StoppedIsClean` | `StopInv` adds `StopProgress`: what a Stop with cleanup has removed so far stays removed. The argument is that of the steps it interleaves with: without `i.dev`, `SyncDmDeviceSize` cannot write it (it panics); a table it loads does not undo a deferred removal; users and the kernel only remove |
| `StartRecovers` | `CleanStartSucceeds` | `StartInv` adds `StartProgress`: at `createDm` the dm device is gone, since this Start removed it, and the namespace is the one it loaded unless something failed; at `makeNode` the node was just removed; a cleanup follows a failure |
| `StartServesEndpoint` | `EndpointServes` | `ServeInv` adds `Serving`: the known path is the one asked for, only a busy device is reloaded, the loaded table is on the namespace in `dev`, and what the node is made from are the numbers of the device on top. `SyncDmDeviceSize` loads the same table, because no other namespace can appear after the load without another connect (`PathsHoldNamespace`) |
| `NvmeScanProofs!TypeCorrect`, `ReportedPathsExisted`, `SteadyPathsAreFound`, `NotFoundOnlyIfGone` | `TypeOK`, `ReportedPathExisted`, `SteadyPathIsFound`, `NotFoundMeansGone` | `Watched`: the history knows of the present, kept by every change of the kernel; `Collected`: what the scan has recorded has been there, and a steady device is still in the list or recorded |
| `DisconnectsOnlyThePath` | `DisconnectsOnlyItsPath` | `Named`: the controller that was found leads to the address, is gone, or has a reused name |
| `UndisturbedScansAreExact` | `ScanIsExact`: a load during which nothing changes returns what one look at the kernel tells; failed commands turn answers into errors only | `OneDevice`: a subsystem has one device, owned by a controller of it, kept by every change of the kernel; `StillInv`: the records are those of the devices as they are (`Faithful`), the fallback is reached without an address only if there is no device, and the diagnosis only if there is no device or no path |
| `ExposeBdevProofs!TypeCorrect` | `TypeOK` | itself: an operation stays at the commands of its kind |
| `ServiceIsComplete` | `CompleteService` | `Built` says, if there is a subsystem, what it has when the operation is at a given command: its hosts are those added and those to add, its listener is none before `addListener` and after `removeListener`. It holds whatever fails |
| `StartsServe`, `StopsGetThrough`, `FreshStartsSucceed` | `StartServes`, `StopGetsThrough`, `FreshStartSucceeds` | `OnTrack` says of an operation that met no error from outside that there is what its next command needs, the transport and the bdev included. A step for one volume spares the others (`Spared`): it takes nothing away, and the transport only comes |
| `OperationsImplementExposure` | `ImplementsExposure` | `TypeOK`, `CompleteService`, `Built` and `OnTrack` above. One lemma for the command hosts see in each operation (`ListenerExposes`, `AnaStateIsSet`, `StopWorks`), one for those they do not (`StartWorks`), and one for each event from outside |
| `LvolStoreProofs!TypeCorrect`, `ListsTellTheTruth`, `ListsAreComplete`, `ListsFailForCause` | `TypeOK`, `ListTellsTheTruth`, `ListIsComplete`, `ListFailsForCause` | `SeenNow`: what the target shows now has been seen, kept by every command; `ListInv`: an entry has for each field that has been asked a value that was seen, and an lvol that is no snapshot has no checksum |
| `AddedStoresAreOwn` | `AddedStoreIsOwn` | `Unique` and `Own`: UUIDs of lvstores are distinct, and none on another disk has the one that was returned |
| `EcGeometryProofs!TypeCorrect`, `ShardsBackSpec`, `AdmissionsPredictSpdk`, `MaximumIsLargest` | `TypeOK`, `ShardBacksSpec`, `AdmissionPredictsSpdk`, `MaxIsLargest` | `SizedInv`: the iteration has ended at the least number of metadata clusters that suffices, and the spare one; `SearchInv`: what is at most `lo` is admitted, what is above `hi` is not. Both rest on a lemma about the rounding: metadata grow more slowly than the device (`MdSlow`), so admission is monotone in the size |
| `LoopsShrink` | every step makes `Width`, `Stage`, `Distance`, naturals, lexicographically smaller: the safety half of `CallsEnd` | the same `IInv`. A settled size exists for every volume (`EnoughSettles`: the growth of the metadata over a multiple of the pages of a cluster is smaller than it), so the iteration, which stays below the least one, has an end |
| `MetadataIsBounded` | the estimate never passes a bound that depends on the volume only | `LoopInv`, `EnoughSettles` |
| `SearchHalves` | a turn of the bisection leaves at most half of the sizes | `MiddleInv`: between probe and comparison the size is the middle of the bounds |

`[]IdUnused` says that an id is not reused while a message or an entry with it is left.
The entries of calls that gave up stay for ever unless their answers come, so nothing
in the code ensures it in the long run; `IdsAreUnused` proves it for the first
`IdSpace` - 1 calls of a client, which are 2^32 - 1 in the code and three in
`jsonrpc_safety`. Beyond them it is a hypothesis about the run: no entry is 2^32
messages old.

All invariants and action properties were found to hold by TLC before they were
proved, and so were the measure, the bounds, the halving and the exactness of the theorems
that name no property of a run. The type invariants are in no run: the theorems cover them. Only
model-checked: all liveness (`CallsReturnUnaided`, `CancelReleasesCallers`, `EncodeEnds`,
`GoroutinesEnd`, `LockReturns`, `CallsEnd`), which is out of the prover's reach. Of
`CallsEnd` the prover has the half without fairness, `LoopsShrink`; what remains is that
a call that has not returned has a next step, and that it is taken.

## What the models assume

* JSON-RPC: the target answers a request at most once; a decode error is a message
  cut short by the end of the connection. One client, whose context is its own.
* Lock: the goroutine of `Lock` has taken its mutex before the two minutes of the
  timer are over. The lock file of `Stop` is the one that `newLock` opens, though the
  first is removed in the mount namespace of the process and the second opened in
  that of the host: the models take the directory to be shared. A crash of the
  process is the crash of one operation of it, the others being other processes'.
* ublk: one process per SPDK target, and nobody else on its ublk disks. A bdev has the
  name of its initiator.
* NVMe: one subsystem, whose name the caller knows (the other case is in `NvmeScan`);
  a controller is named by its address; a target accepts every connection, or the
  command fails. The kernel shows a namespace under a name that is not in a table of
  the dm device, because the dm device holds that name. A step that the code retries a
  fixed number of times may fail any number of times here; the outcomes are the same.
* NVMe scan: a subsystem has one namespace, whose block device belongs to the first
  controller and goes over to another when that is lost. Native multipath shows one
  device per subsystem; two at a time only while the older one is torn down.
* Exposing bdevs: one operation at a time on a volume, which has one bdev and one
  subsystem with one listener. The target carries out commands in the order they were
  sent, so that one whose answer was lost does not come after the commands of a later
  operation. The effect of the nvmf commands is that of SPDK as the code relies on it: a
  subsystem is created once, a namespace needs its bdev, a listener its transport, and
  what is not there cannot be removed. The order in which hosts are added is open. No
  service is the value that stands for none (`ServiceAssumption`).
* lvols: `BdevLvolGetWithFilter` is called with a filter that accepts every bdev, and
  of the bdevs of the target those that are no lvols, which the code drops, are left
  out. UUIDs are unique. An operation has the target to itself but for the commands of
  others that the model names.
* Geometry: a size of 0, which the code answers with 0, promises nothing. TLC runs on
  smaller constants; the theorems hold for all that satisfy the named assumptions, with
  unbounded integers. The sizes up to the limit that `ValidateECCreationSize` admits
  stay far below 2^64 with the constants of the code.

## What is not modelled

* `SendMsgWithTimeout`, an unused synchronous variant, and the error classifiers of
  `types.go`.
* A malformed message from a live target, after which the decoder is replaced and the
  responses it had buffered are lost (client.go:229).
* The dm device and endpoint of a ublk volume, `UblkRecoverDisk`,
  `UblkDestroyTarget`; several processes on one SPDK target.
* `WaitForControllerLive` and `Flush`, which change no state of the program.
* The life cycle of EC bdevs in `ec.go`: the client sends one command for each step and
  derives a label from what SPDK reports ("idle" and "done" of a rebuild among them);
  all state is SPDK's.
* The wrappers of `basic.go` for RAID, NVMe and virtio bdevs, QoS and logs, and on lvols
  for parents, shallow and deep copies, resize and fragmaps: one request each, and the
  client keeps nothing between them.
* The parsing of the output of nvme, dmsetup and lsblk; scripts of `setup.go` and
  `target.go`; the command line. They keep no state and run one command each.
* What hosts do with a bdev. They may connect between the listener and its ANA state
  (advanced.go:154-170), when it is optimized: `BdevExposure` has that moment, and a start
  that fails there and leaves it so, as the code does.
* A suspended dm device after a replace that failed: Start then reports success
  without resuming it. The code states no promise about it.

## Plan

Done, in this order: `JsonRpcClient` with `RpcService`, `InitiatorLock`,
`UblkInitiator`, `NvmeInitiator`, `ExposeBdev`, `EcGeometry`, `NvmeScan`, `LvolStore`,
each with its runs and its theorems.

Left:

1. A ublk volume in full: the dm device and the endpoint on top of the ublk device,
   and several processes on one SPDK target.
2. `NvmeInitiator` as the composition of two volumes over `NvmeScan`, whose scan is
   proved to be its one step where nothing changes during it.
3. An abstract specification of the endpoint of a volume, which `NvmeInitiator`
   implements as `ExposeBdev` does `BdevExposure`; and two clients that work on one volume.
