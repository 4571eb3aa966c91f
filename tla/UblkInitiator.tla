--------------------------- MODULE UblkInitiator ---------------------------
(***************************************************************************)
(* The ublk disks of the volumes on one SPDK target: StartUblkInitiator    *)
(* and the ublk part of Stop in pkg/initiator/initiator.go, with the ids   *)
(* of ublk_id_generator.go and the calls of pkg/spdk/client/ublk.go.       *)
(*                                                                         *)
(* There is one initiator per volume, named like the volume's bdev.  Its   *)
(* operations exclude each other (InitiatorLock), but those of different   *)
(* initiators run at the same time: they share the id generator and the    *)
(* flag isUblkTargetCreated of their process, and the target.  The list of *)
(* disks that an id is chosen from is read before, and an id is used       *)
(* after, the calls of others.                                             *)
(*                                                                         *)
(* Every call of the target is one step, and may fail as RpcService says:  *)
(* without having been carried out, or after.  Linear dm devices and       *)
(* endpoints are left out; that they may fail is not.  No other process    *)
(* starts or stops ublk disks of this target.                              *)
(***************************************************************************)
EXTENDS Integers

CONSTANTS
    Initiators,
    NoBdev,       \* no disk under this id
    MaxUblkId     \* 65535 in the code

ASSUME UblkAssumption ==
    /\ NoBdev \notin Initiators
    /\ MaxUblkId \in Nat \ {0}

VARIABLES
    target,         \* the ublk target of SPDK exists
    disks,          \* the bdev of the ublk disk with an id
    targetCreated,  \* isUblkTargetCreated
    lastCandidate,  \* of idGenerator
    pc,             \* where the operation of an initiator is
    toStop,         \* ids that StartUblkInitiator is to stop before it starts
    inUse,          \* ids in the second list it has read
    ublkId,         \* UblkInfo.UblkID
    candidate,      \* availableUblkID
    wrapped,        \* history: the generator has passed MaxUblkId
    orphaned        \* history: initiators that were not told of their disk

spdk == <<target, disks>>
process == <<targetCreated, lastCandidate, wrapped>>
vars == <<spdk, process, pc, toStop, inUse, ublkId, candidate, orphaned>>

UblkIds == 1 .. MaxUblkId
UnInitializedUblkId == -1
Unset == {UnInitializedUblkId, 0}   \* 0 if the user of the package leaves it out

TypeOK ==
    /\ target \in BOOLEAN
    /\ disks \in [UblkIds -> Initiators \cup {NoBdev}]
    /\ targetCreated \in BOOLEAN
    /\ lastCandidate \in 0 .. MaxUblkId
    /\ pc \in [Initiators -> {"idle", "listing", "stopping", "stoppingOwn", "relisting",
                              "picking", "creating", "starting", "started", "returning", "stop"}]
    /\ toStop \in [Initiators -> SUBSET UblkIds]
    /\ inUse \in [Initiators -> SUBSET UblkIds]
    /\ ublkId \in [Initiators -> UblkIds \cup Unset]
    /\ candidate \in [Initiators -> UblkIds \cup {0}]
    /\ \A i \in Initiators : pc[i] \in {"creating", "starting"} => candidate[i] # 0
    /\ wrapped \in BOOLEAN
    /\ orphaned \in SUBSET Initiators

Init ==
    /\ target = FALSE
    /\ disks = [u \in UblkIds |-> NoBdev]
    /\ targetCreated = FALSE
    /\ lastCandidate = 0
    /\ pc = [i \in Initiators |-> "idle"]
    /\ toStop = [i \in Initiators |-> {}]
    /\ inUse = [i \in Initiators |-> {}]
    /\ ublkId \in [Initiators -> Unset]
    /\ candidate = [i \in Initiators |-> 0]
    /\ wrapped = FALSE
    /\ orphaned = {}
-----------------------------------------------------------------------------
(***************************************************************************)
(* The commands of the client.                                             *)
(***************************************************************************)

\* A target that is there already is a success.
UblkCreateTarget == target' = TRUE

UblkGetDisks == {u \in UblkIds : disks[u] # NoBdev}

\* It fails without a target, and for an id in use.
UblkStartDisk(i, u) ==
    /\ target
    /\ disks[u] = NoBdev
    /\ disks' = [disks EXCEPT ![u] = i]

\* An id without a disk is no error to any of its callers.
UblkStopDisk(u) == disks' = [u2 \in UblkIds |-> IF u2 = u THEN NoBdev ELSE disks[u2]]
-----------------------------------------------------------------------------
(***************************************************************************)
(* The steps of the initiators.                                            *)
(***************************************************************************)

Moves(i, from, to) ==
    /\ pc[i] = from
    /\ pc' = [pc EXCEPT ![i] = to]

StartUblkInitiator(i) ==
    /\ Moves(i, "idle", "listing")
    /\ UNCHANGED <<spdk, process, toStop, inUse, ublkId, candidate, orphaned>>

\* An operation returns after its last step (FindUblkDevicePath, which is to find
\* the disk just started, and what follows it) or with an error after any other.
Return(i) ==
    /\ pc[i] # "idle"
    /\ pc' = [pc EXCEPT ![i] = "idle"]
    /\ toStop' = [toStop EXCEPT ![i] = {}]
    /\ inUse' = [inUse EXCEPT ![i] = {}]
    /\ candidate' = [candidate EXCEPT ![i] = 0]
    /\ UNCHANGED <<spdk, process, ublkId, orphaned>>

\* Only the disk that the initiator knows of, instead of all those of the bdev.
ListKnownDisk(i) ==
    /\ Moves(i, "listing", "stopping")
    /\ toStop' = [toStop EXCEPT ![i] = {u \in UblkGetDisks : disks[u] = i /\ u = ublkId[i]}]
    /\ UNCHANGED <<spdk, process, inUse, ublkId, candidate, orphaned>>

ListOwnDisks(i) ==
    /\ Moves(i, "listing", "stopping")
    /\ toStop' = [toStop EXCEPT ![i] = {u \in UblkGetDisks : disks[u] = i}]
    /\ UNCHANGED <<spdk, process, inUse, ublkId, candidate, orphaned>>

StopOwnDisk(i) ==
    /\ pc[i] = "stopping"
    /\ \E u \in toStop[i] :
          /\ UblkStopDisk(u)
          /\ toStop' = [toStop EXCEPT ![i] = @ \ {u}]
    /\ UNCHANGED <<target, process, pc, inUse, ublkId, candidate, orphaned>>

OwnDisksStopped(i) ==
    /\ toStop[i] = {}
    /\ Moves(i, "stopping", "stoppingOwn")
    /\ orphaned' = orphaned \ {i}
    /\ UNCHANGED <<spdk, process, toStop, inUse, ublkId, candidate>>

\* stopWithoutLock stops the disk the initiator remembers; it goes on remembering.
StopWithoutLock(i) ==
    /\ Moves(i, "stoppingOwn", "relisting") \/ Moves(i, "stop", "returning")
    /\ IF ublkId[i] = UnInitializedUblkId THEN UNCHANGED disks ELSE UblkStopDisk(ublkId[i])
    /\ UNCHANGED <<target, process, toStop, inUse, ublkId, candidate, orphaned>>

ListUsedIds(i) ==
    /\ Moves(i, "relisting", "picking")
    /\ inUse' = [inUse EXCEPT ![i] = UblkGetDisks]
    /\ UNCHANGED <<spdk, process, toStop, ublkId, candidate, orphaned>>

\* GetAvailableID tries the ids after lastCandidate, and not lastCandidate itself.
Candidate(k) == (lastCandidate + k) % (MaxUblkId + 1)

Available(i, k) == Candidate(k) # 0 /\ Candidate(k) \notin inUse[i]

ForgetCandidate(i) ==
    /\ Moves(i, "picking", "creating")
    /\ \E k \in UblkIds :
          /\ Available(i, k)
          /\ \A l \in 1 .. k - 1 : ~Available(i, l)
          /\ candidate' = [candidate EXCEPT ![i] = Candidate(k)]
    /\ UNCHANGED <<spdk, process, toStop, inUse, ublkId, orphaned>>

GetAvailableId(i) ==
    /\ Moves(i, "picking", "creating")
    /\ \E k \in UblkIds :
          /\ Available(i, k)
          /\ \A l \in 1 .. k - 1 : ~Available(i, l)
          /\ candidate' = [candidate EXCEPT ![i] = Candidate(k)]
          /\ lastCandidate' = Candidate(k)
          /\ wrapped' = (wrapped \/ lastCandidate + k > MaxUblkId)
    /\ UNCHANGED <<spdk, targetCreated, toStop, inUse, ublkId, orphaned>>

\* The answer to ublk_create_target may be lost, and the flag is not set then.
CreateTarget(i) ==
    /\ \/ /\ targetCreated
          /\ Moves(i, "creating", "starting")
          /\ UNCHANGED <<target, targetCreated>>
       \/ /\ ~targetCreated
          /\ UblkCreateTarget
          /\ \/ Moves(i, "creating", "starting") /\ targetCreated' = TRUE
             \/ Moves(i, "creating", "returning") /\ UNCHANGED targetCreated
    /\ UNCHANGED <<disks, lastCandidate, wrapped, toStop, inUse, ublkId, candidate, orphaned>>

RememberLater(i) == UNCHANGED ublkId

Remember(i) == ublkId' = [ublkId EXCEPT ![i] = candidate[i]]

\* If the answer is lost, UblkID keeps its old value.
StartDisk(i) ==
    /\ pc[i] = "starting"
    /\ UblkStartDisk(i, candidate[i])
    /\ \/ /\ Moves(i, "starting", "started")
          /\ Remember(i)
          /\ UNCHANGED orphaned
       \/ /\ Moves(i, "starting", "returning")
          /\ orphaned' = orphaned \cup {i}
          /\ UNCHANGED ublkId
    /\ UNCHANGED <<target, process, toStop, inUse, candidate>>

Stop(i) ==
    /\ Moves(i, "idle", "stop")
    /\ UNCHANGED <<spdk, process, toStop, inUse, ublkId, candidate, orphaned>>

\* The operations under way, whose clients are connected to the old SPDK, fail.
AbortOperations ==
    /\ pc' = [i \in Initiators |-> "idle"]
    /\ toStop' = [i \in Initiators |-> {}]
    /\ inUse' = [i \in Initiators |-> {}]
    /\ candidate' = [i \in Initiators |-> 0]

SpdkRestart ==
    /\ target' = FALSE
    /\ disks' = [u \in UblkIds |-> NoBdev]
    /\ AbortOperations
    /\ UNCHANGED <<process, ublkId, orphaned>>

\* The process of the initiators restarts and makes new ones for the same volumes.
ProcessRestart ==
    /\ targetCreated' = FALSE
    /\ lastCandidate' = 0
    /\ wrapped' = FALSE
    /\ AbortOperations
    /\ ublkId' \in [Initiators -> Unset]
    /\ orphaned' = Initiators
    /\ UNCHANGED spdk

Next ==
    \/ \E i \in Initiators :
          \/ StartUblkInitiator(i) \/ ListOwnDisks(i) \/ StopOwnDisk(i) \/ OwnDisksStopped(i)
          \/ StopWithoutLock(i) \/ ListUsedIds(i) \/ GetAvailableId(i)
          \/ CreateTarget(i) \/ StartDisk(i)
          \/ Stop(i) \/ Return(i)
    \/ SpdkRestart
    \/ ProcessRestart

Spec == Init /\ [][Next]_vars
-----------------------------------------------------------------------------
\* An id that GetAvailableID has handed out is still free when ublk_start_disk
\* uses it, though the list it was chosen from may be out of date and others
\* start disks meanwhile: as long as the generator has not wrapped.
ReservedIdIsFree ==
    ~wrapped => \A i \in Initiators :
        pc[i] \in {"creating", "starting"} => disks[candidate[i]] = NoBdev

\* What an initiator stops is its own disk: neither the id it remembers from a
\* disk that is gone nor one it has read from the first list may by now name the
\* disk of another volume.
StopsOnlyOwnDisk ==
    ~wrapped => \A i \in Initiators : \A u \in toStop[i] \cup ({ublkId[i]} \ Unset) :
        disks[u] \in {i, NoBdev}

\* StartUblkInitiator stops the disks of its bdev "blindly before starting": a
\* bdev never has two, whatever failed in the middle of earlier operations.
OneDiskPerBdev ==
    \A u, v \in UblkIds : disks[u] = disks[v] /\ disks[u] # NoBdev => u = v

\* Stop finds the disk of its volume unless the answer to its start was lost or
\* the process has restarted since.
DiskIsKnown ==
    \A u \in UblkIds : \A i \in Initiators \ orphaned : disks[u] = i => ublkId[i] = u
=============================================================================
