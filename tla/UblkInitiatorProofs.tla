------------------------ MODULE UblkInitiatorProofs ------------------------
(***************************************************************************)
(* Theorems about UblkInitiator, for any number of volumes and of ids.     *)
(***************************************************************************)
EXTENDS UblkInitiator, TLAPS

PCs == {"idle", "listing", "stopping", "stoppingOwn", "relisting",
        "picking", "creating", "starting", "started", "returning", "stop"}

\* The initiators that have got an id and not used it yet.
Reserving == {"creating", "starting"}

\* Ids reserved since the process started are at most lastCandidate, and all
\* different.  A disk above lastCandidate is older than the process, so whoever is
\* choosing an id has it in its list.
IdsOk ==
    \A i \in Initiators :
        /\ pc[i] \in Reserving => candidate[i] <= lastCandidate
                                    /\ disks[candidate[i]] = NoBdev
        /\ pc[i] = "picking" =>
              \A u \in UblkIds : u > lastCandidate /\ disks[u] # NoBdev => u \in inUse[i]
        /\ ublkId[i] \in UblkIds => ublkId[i] <= lastCandidate
                                      /\ disks[ublkId[i]] \in {i, NoBdev}
        /\ \A u \in toStop[i] : pc[i] = "stopping" /\ disks[u] = i
        /\ \A j \in Initiators \ {i} : pc[j] \in Reserving =>
              /\ candidate[j] # ublkId[i]
              /\ pc[i] \in Reserving => candidate[j] # candidate[i]

IdInv == ~wrapped => IdsOk

\* Once the disks of the first list are stopped, there is none of the own bdev.
BdevInv ==
    \A i \in Initiators :
        /\ pc[i] = "stopping" => \A u \in UblkIds : disks[u] = i => u \in toStop[i]
        /\ pc[i] \in {"stoppingOwn", "relisting", "picking", "creating", "starting"} =>
              \A u \in UblkIds : disks[u] # i

LEMMA TypeInit == Init => TypeOK
<1> SUFFICES ASSUME Init PROVE TypeOK
  OBVIOUS
<1>1. 0 \in 0 .. MaxUblkId
  BY UblkAssumption
<1>2. ublkId \in [Initiators -> UblkIds \cup Unset]
  BY DEF Init
<1>3. \A i \in Initiators : pc[i] = "idle"
  BY DEF Init
<1>4. QED
  BY <1>1, <1>2, <1>3 DEF Init, TypeOK

LEMMA TypeNext == TypeOK /\ [Next]_vars => TypeOK'
<1> SUFFICES ASSUME TypeOK, [Next]_vars PROVE TypeOK'
  OBVIOUS
<1> USE DEF TypeOK, spdk, process, Moves, UblkStopDisk
<1>1. ASSUME NEW i \in Initiators, StartUblkInitiator(i) \/ OwnDisksStopped(i) \/ Stop(i)
      PROVE  TypeOK'
  BY <1>1 DEF StartUblkInitiator, OwnDisksStopped, Stop
<1>2. ASSUME NEW i \in Initiators, ListOwnDisks(i) \/ StopOwnDisk(i) \/ StopWithoutLock(i)
                                     \/ ListUsedIds(i)
      PROVE  TypeOK'
  BY <1>2 DEF ListOwnDisks, UblkGetDisks, StopOwnDisk, StopWithoutLock, ListUsedIds
<1>3. ASSUME NEW i \in Initiators, GetAvailableId(i)
      PROVE  TypeOK'
  <2>1. PICK k \in UblkIds : /\ candidate' = [candidate EXCEPT ![i] = Candidate(k)]
                             /\ lastCandidate' = Candidate(k) /\ Candidate(k) # 0
                             /\ wrapped' = (wrapped \/ lastCandidate + k > MaxUblkId)
    BY <1>3 DEF GetAvailableId, Available
  <2>2. lastCandidate + k \in Nat /\ MaxUblkId + 1 \in Nat \ {0}
    BY UblkAssumption DEF UblkIds
  <2>3. Candidate(k) \in 0 .. MaxUblkId
    BY <2>2, UblkAssumption DEF Candidate
  <2>4. Candidate(k) \in UblkIds
    BY <2>1, <2>3, UblkAssumption DEF UblkIds
  <2>5. wrapped' \in BOOLEAN
    BY <2>1
  <2>6. QED
    BY <1>3, <2>1, <2>3, <2>4, <2>5 DEF GetAvailableId
<1>4. ASSUME NEW i \in Initiators, CreateTarget(i)
      PROVE  TypeOK'
  BY <1>4 DEF CreateTarget, UblkCreateTarget
<1>5. ASSUME NEW i \in Initiators, StartDisk(i)
      PROVE  TypeOK'
  <2>1. candidate[i] \in UblkIds
    BY <1>5 DEF StartDisk, UblkStartDisk
  <2>2. QED
    BY <1>5, <2>1 DEF StartDisk, UblkStartDisk, Remember
<1>6. ASSUME NEW i \in Initiators, Return(i)
      PROVE  TypeOK'
  BY <1>6 DEF Return
<1>7. CASE SpdkRestart \/ ProcessRestart
  <2>1. 0 \in 0 .. MaxUblkId
    BY UblkAssumption
  <2>2. ublkId' \in [Initiators -> UblkIds \cup Unset]
    BY <1>7 DEF SpdkRestart, ProcessRestart
  <2>3. \A i \in Initiators : pc'[i] = "idle"
    BY <1>7 DEF SpdkRestart, ProcessRestart, AbortOperations
  <2>4. QED
    BY <1>7, <2>1, <2>2, <2>3 DEF SpdkRestart, ProcessRestart, AbortOperations
<1>8. CASE UNCHANGED vars
  BY <1>8 DEF vars
<1>9. QED
  BY <1>1, <1>2, <1>3, <1>4, <1>5, <1>6, <1>7, <1>8 DEF Next

\* The types of the ublk state, and that id 0 is never handed out.
THEOREM TypeCorrect == Spec => []TypeOK
  BY TypeInit, TypeNext, PTL DEF Spec

(***************************************************************************)
(* Facts about the steps.                                                  *)
(***************************************************************************)
LEMMA Stopped ==
    ASSUME TypeOK, NEW u, UblkStopDisk(u)
    PROVE  \A v \in UblkIds : disks'[v] = IF v = u THEN NoBdev ELSE disks[v]
  BY DEF UblkStopDisk

\* Only StartDisk makes a disk.
LEMMA OnlyStartMakes ==
    ASSUME TypeOK, Next, NEW u \in UblkIds, disks'[u] # disks[u], disks'[u] # NoBdev
    PROVE  \E i \in Initiators : StartDisk(i)
<1> USE DEF spdk, process
<1>1. ASSUME NEW i \in Initiators, StopOwnDisk(i)
      PROVE  FALSE
  BY <1>1, Stopped DEF StopOwnDisk
<1>2. ASSUME NEW i \in Initiators, StopWithoutLock(i)
      PROVE  FALSE
  BY <1>2, Stopped DEF StopWithoutLock
<1>3. ASSUME SpdkRestart PROVE FALSE
  BY <1>3 DEF SpdkRestart
<1>4. ASSUME NEW i \in Initiators,
             StartUblkInitiator(i) \/ ListOwnDisks(i) \/ OwnDisksStopped(i) \/ ListUsedIds(i)
               \/ GetAvailableId(i) \/ CreateTarget(i) \/ Stop(i) \/ Return(i)
      PROVE  FALSE
  BY <1>4 DEF StartUblkInitiator, ListOwnDisks, UblkGetDisks, OwnDisksStopped, ListUsedIds,
     GetAvailableId, CreateTarget, UblkCreateTarget, Stop, Return
<1>5. ASSUME ProcessRestart PROVE FALSE
  BY <1>5 DEF ProcessRestart
<1>6. QED
  BY <1>1, <1>2, <1>3, <1>4, <1>5 DEF Next

LEMMA Started ==
    ASSUME TypeOK, NEW i \in Initiators, StartDisk(i)
    PROVE  /\ candidate[i] \in UblkIds
           /\ disks[candidate[i]] = NoBdev
           /\ \A u \in UblkIds : disks'[u] = IF u = candidate[i] THEN i ELSE disks[u]
           /\ pc[i] = "starting" /\ pc'[i] \in {"started", "returning"}
           /\ \A j \in Initiators \ {i} : pc'[j] = pc[j] /\ ublkId'[j] = ublkId[j]
           /\ ublkId'[i] \in {ublkId[i], candidate[i]}
           /\ UNCHANGED <<toStop, inUse, candidate, lastCandidate, wrapped>>
<1>1. candidate[i] \in UblkIds
  BY DEF StartDisk, UblkStartDisk, TypeOK
<1>2. QED
  BY <1>1 DEF StartDisk, UblkStartDisk, Remember, Moves, TypeOK, process

-----------------------------------------------------------------------------
(***************************************************************************)
(* One disk per bdev.                                                      *)
(***************************************************************************)
Cleared == {"stoppingOwn", "relisting", "picking", "creating", "starting"}

\* Where an operation may be after a step, and what it has then read.
LEMMA PcStep ==
    ASSUME TypeOK, Next, NEW i \in Initiators
    PROVE  /\ pc'[i] = "stopping" =>
                \/ pc[i] = "stopping" /\ toStop'[i] = toStop[i]
                \/ StopOwnDisk(i)
                \/ ListOwnDisks(i)
           /\ pc'[i] \in Cleared => pc[i] \in Cleared \/ OwnDisksStopped(i)
<1> USE DEF Moves, TypeOK, Cleared
<1>1. ASSUME NEW j \in Initiators,
             StartUblkInitiator(j) \/ ListOwnDisks(j) \/ OwnDisksStopped(j) \/ ListUsedIds(j)
               \/ StopWithoutLock(j) \/ StopOwnDisk(j)
      PROVE  /\ pc'[i] = "stopping" =>
                  \/ pc[i] = "stopping" /\ toStop'[i] = toStop[i]
                  \/ StopOwnDisk(i) \/ ListOwnDisks(i)
             /\ pc'[i] \in Cleared => pc[i] \in Cleared \/ OwnDisksStopped(i)
  BY <1>1 DEF StartUblkInitiator, ListOwnDisks, UblkGetDisks, OwnDisksStopped, ListUsedIds,
     StopWithoutLock, StopOwnDisk
<1>2. ASSUME NEW j \in Initiators,
             GetAvailableId(j) \/ CreateTarget(j) \/ StartDisk(j) \/ Stop(j) \/ Return(j)
      PROVE  /\ pc'[i] = "stopping" => pc[i] = "stopping" /\ toStop'[i] = toStop[i]
             /\ pc'[i] \in Cleared => pc[i] \in Cleared
  BY <1>2 DEF GetAvailableId, CreateTarget, UblkCreateTarget, StartDisk, UblkStartDisk, Stop,
     Return
<1>3. ASSUME SpdkRestart \/ ProcessRestart
      PROVE  pc'[i] = "idle"
  BY <1>3 DEF SpdkRestart, ProcessRestart, AbortOperations
<1>4. QED
  BY <1>1, <1>2, <1>3 DEF Next

LEMMA BdevNext ==
    ASSUME TypeOK, BdevInv, OneDiskPerBdev, Next
    PROVE  BdevInv' /\ OneDiskPerBdev'
<1>1. ASSUME NEW s \in Initiators, StartDisk(s)
      PROVE  BdevInv' /\ OneDiskPerBdev'
  <2>1. \A u \in UblkIds : disks[u] # s
    BY <1>1, Started DEF BdevInv
  <2>2. OneDiskPerBdev'
    BY <1>1, <2>1, Started, UblkAssumption DEF OneDiskPerBdev
  <2>3. BdevInv'
    BY <1>1, Started DEF BdevInv
  <2>4. QED
    BY <2>2, <2>3
<1>2. ASSUME \A s \in Initiators : ~StartDisk(s)
      PROVE  BdevInv' /\ OneDiskPerBdev'
  <2>1. \A u \in UblkIds : disks'[u] \in {disks[u], NoBdev}
    BY <1>2, OnlyStartMakes
  <2>2. OneDiskPerBdev'
    BY <2>1 DEF OneDiskPerBdev
  <2>3. ASSUME NEW i \in Initiators, pc'[i] = "stopping", NEW u \in UblkIds, disks'[u] = i
        PROVE  u \in toStop'[i]
    <3>1. disks[u] = i
      BY <2>1, <2>3, UblkAssumption
    <3>2. CASE pc[i] = "stopping" /\ toStop'[i] = toStop[i]
      BY <3>1, <3>2 DEF BdevInv
    <3>3. CASE StopOwnDisk(i)
      <4>1. PICK v \in toStop[i] : UblkStopDisk(v) /\ toStop' = [toStop EXCEPT ![i] = @ \ {v}]
        BY <3>3 DEF StopOwnDisk
      <4>2. u # v
        BY <2>3, <4>1, Stopped, UblkAssumption
      <4>3. u \in toStop[i]
        BY <3>1, <3>3 DEF BdevInv, StopOwnDisk
      <4>4. QED
        BY <4>1, <4>2, <4>3 DEF TypeOK
    <3>4. CASE ListOwnDisks(i)
      BY <3>1, <3>4, UblkAssumption DEF ListOwnDisks, UblkGetDisks, TypeOK
    <3>5. QED
      BY <2>3, <3>2, <3>3, <3>4, PcStep
  <2>4. ASSUME NEW i \in Initiators, pc'[i] \in Cleared, NEW u \in UblkIds
        PROVE  disks'[u] # i
    <3>1. disks[u] # i
      BY <2>4, PcStep DEF BdevInv, Cleared, OwnDisksStopped, Moves
    <3>2. QED
      BY <2>1, <3>1, UblkAssumption
  <2>5. QED
    BY <2>2, <2>3, <2>4 DEF BdevInv, Cleared
<1>3. QED
  BY <1>1, <1>2

\* A bdev never has two ublk disks at a time, for any number of volumes, of ids
\* (wrapped or not), of failures, of lost answers and of restarts on either side.
THEOREM OneDiskEach == Spec => []OneDiskPerBdev
<1>1. Init => BdevInv /\ OneDiskPerBdev
  BY DEF Init, BdevInv, OneDiskPerBdev
<1>2. TypeOK /\ BdevInv /\ OneDiskPerBdev /\ [Next]_vars => BdevInv' /\ OneDiskPerBdev'
  <2>1. CASE UNCHANGED vars
    BY <2>1 DEF vars, spdk, BdevInv, OneDiskPerBdev
  <2>2. QED
    BY <2>1, BdevNext
<1>3. QED
  BY <1>1, <1>2, TypeCorrect, PTL DEF Spec

\* Which steps change what an initiator knows.
LEMMA KnownStep ==
    ASSUME TypeOK, Next, \A s \in Initiators : ~StartDisk(s), NEW i \in Initiators \ orphaned'
    PROVE  \/ i \notin orphaned /\ ublkId'[i] = ublkId[i]
           \/ OwnDisksStopped(i)
<1> USE DEF spdk, process
<1>1. ASSUME NEW j \in Initiators, OwnDisksStopped(j)
      PROVE  ublkId' = ublkId /\ (i \notin orphaned \/ i = j)
  BY <1>1 DEF OwnDisksStopped
<1>2. ASSUME NEW j \in Initiators,
             \/ StartUblkInitiator(j) \/ ListOwnDisks(j) \/ StopOwnDisk(j) \/ StopWithoutLock(j)
             \/ ListUsedIds(j) \/ GetAvailableId(j) \/ CreateTarget(j) \/ Stop(j) \/ Return(j)
      PROVE  UNCHANGED <<ublkId, orphaned>>
  BY <1>2 DEF StartUblkInitiator, ListOwnDisks, StopOwnDisk, StopWithoutLock, ListUsedIds,
     GetAvailableId, CreateTarget, Stop, Return
<1>3. ASSUME SpdkRestart PROVE UNCHANGED <<ublkId, orphaned>>
  BY <1>3 DEF SpdkRestart
<1>4. ~ProcessRestart
  BY DEF ProcessRestart
<1>5. QED
  BY <1>1, <1>2, <1>3, <1>4 DEF Next

LEMMA KnownNext ==
    ASSUME TypeOK, BdevInv, DiskIsKnown, Next
    PROVE  DiskIsKnown'
<1>1. ASSUME NEW s \in Initiators, StartDisk(s)
      PROVE  DiskIsKnown'
  <2>1. \A u \in UblkIds : disks[u] # s
    BY <1>1, Started DEF BdevInv
  <2>2. s \in orphaned' \/ ublkId'[s] = candidate[s]
    BY <1>1 DEF StartDisk, Remember, TypeOK
  <2>3. orphaned \subseteq orphaned'
    BY <1>1 DEF StartDisk
  <2>4. QED
    BY <1>1, <2>1, <2>2, <2>3, Started DEF DiskIsKnown
<1>2. ASSUME \A s \in Initiators : ~StartDisk(s), NEW i \in Initiators \ orphaned',
             NEW u \in UblkIds, disks'[u] = i
      PROVE  ublkId'[i] = u
  <2>1. disks[u] = i
    BY <1>2, OnlyStartMakes, UblkAssumption
  <2>2. CASE OwnDisksStopped(i)
    BY <2>1, <2>2 DEF OwnDisksStopped, Moves, BdevInv
  <2>3. QED
    BY <1>2, <2>1, <2>2, KnownStep DEF DiskIsKnown
<1>3. QED
  BY <1>1, <1>2 DEF DiskIsKnown

\* An initiator knows the disk of its volume, unless the answer to the start was lost or the
\* process has restarted since it last stopped all disks of the bdev.
THEOREM DisksAreKnown == Spec => []DiskIsKnown
<1>1. Init => BdevInv /\ OneDiskPerBdev /\ DiskIsKnown
  BY UblkAssumption DEF Init, BdevInv, OneDiskPerBdev, DiskIsKnown
<1>2. TypeOK /\ BdevInv /\ OneDiskPerBdev /\ DiskIsKnown /\ [Next]_vars
        => BdevInv' /\ OneDiskPerBdev' /\ DiskIsKnown'
  <2>1. CASE UNCHANGED vars
    BY <2>1 DEF vars, spdk, BdevInv, OneDiskPerBdev, DiskIsKnown
  <2>2. QED
    BY <2>1, BdevNext, KnownNext
<1>3. QED
  BY <1>1, <1>2, TypeCorrect, PTL DEF Spec
-----------------------------------------------------------------------------
(***************************************************************************)
(* Ids.                                                                    *)
(***************************************************************************)
LEMMA IdInit == Init => IdInv
<1> SUFFICES ASSUME Init PROVE IdsOk
  BY DEF IdInv
<1>1. \A i \in Initiators : pc[i] = "idle" /\ toStop[i] = {} /\ ublkId[i] \notin UblkIds
  <2>1. \A i \in Initiators : ublkId[i] \in Unset
    BY DEF Init
  <2>2. \A u \in Unset : u \notin UblkIds
    BY UblkAssumption DEF Unset, UnInitializedUblkId, UblkIds
  <2>3. QED
    BY <2>1, <2>2 DEF Init
<1>2. QED
  BY <1>1 DEF IdsOk, Reserving

\* Steps of one initiator that leave the disks and the generator alone.
LEMMA IdQuiet ==
    ASSUME TypeOK, IdsOk, NEW i \in Initiators,
           StartUblkInitiator(i) \/ OwnDisksStopped(i) \/ CreateTarget(i) \/ Stop(i)
             \/ Return(i)
    PROVE  IdsOk'
<1> USE DEF Moves, Reserving
<1>1. UNCHANGED <<disks, lastCandidate, ublkId>>
  BY DEF StartUblkInitiator, OwnDisksStopped, CreateTarget, UblkCreateTarget, Stop, Return,
     spdk, process
<1>2. \A j \in Initiators \ {i} : pc'[j] = pc[j] /\ toStop'[j] = toStop[j]
                                  /\ inUse'[j] = inUse[j] /\ candidate'[j] = candidate[j]
  BY DEF StartUblkInitiator, OwnDisksStopped, CreateTarget, UblkCreateTarget, Stop, Return,
     TypeOK
<1>3. toStop'[i] = {}
  BY DEF StartUblkInitiator, OwnDisksStopped, CreateTarget, UblkCreateTarget, Stop, Return,
     TypeOK, IdsOk
<1>4. pc'[i] # "picking" /\ (pc'[i] \in Reserving => pc[i] \in Reserving /\ candidate'[i] = candidate[i])
  BY DEF StartUblkInitiator, OwnDisksStopped, CreateTarget, UblkCreateTarget, Stop, Return,
     TypeOK
<1>5. QED
  BY <1>1, <1>2, <1>3, <1>4 DEF IdsOk

\* Steps that read a list of disks.
LEMMA IdList ==
    ASSUME TypeOK, IdsOk, NEW i \in Initiators, ListOwnDisks(i) \/ ListUsedIds(i)
    PROVE  IdsOk'
<1> USE DEF Moves, Reserving
<1>1. UNCHANGED <<disks, lastCandidate, ublkId, candidate>>
  BY DEF ListOwnDisks, UblkGetDisks, ListUsedIds, spdk, process
<1>2. \A j \in Initiators \ {i} : pc'[j] = pc[j] /\ toStop'[j] = toStop[j] /\ inUse'[j] = inUse[j]
  BY DEF ListOwnDisks, UblkGetDisks, ListUsedIds, TypeOK
<1>3. CASE ListOwnDisks(i)
  <2>1. pc'[i] = "stopping" /\ \A u \in toStop'[i] : disks[u] = i
    BY <1>3 DEF ListOwnDisks, UblkGetDisks, TypeOK
  <2>2. QED
    BY <1>1, <1>2, <2>1 DEF IdsOk
<1>4. CASE ListUsedIds(i)
  <2>1. /\ pc[i] = "relisting" /\ pc'[i] = "picking" /\ toStop'[i] = toStop[i]
        /\ \A u \in UblkIds : disks[u] # NoBdev => u \in inUse'[i]
    BY <1>4 DEF ListUsedIds, UblkGetDisks, TypeOK
  <2>2. QED
    BY <1>1, <1>2, <2>1 DEF IdsOk
<1>5. QED
  BY <1>3, <1>4

\* Steps that stop a disk: it is of the own bdev.
LEMMA IdStop ==
    ASSUME TypeOK, IdsOk, NEW i \in Initiators, StopOwnDisk(i) \/ StopWithoutLock(i)
    PROVE  IdsOk'
<1> USE DEF Moves, Reserving
<1>1. UNCHANGED <<lastCandidate, ublkId, inUse, candidate>>
  BY DEF StopOwnDisk, StopWithoutLock, process
<1>2. \A j \in Initiators \ {i} : pc'[j] = pc[j] /\ toStop'[j] = toStop[j]
  BY DEF StopOwnDisk, StopWithoutLock, TypeOK
<1>3. \A u \in UblkIds : disks'[u] = disks[u] \/ (disks'[u] = NoBdev /\ disks[u] = i)
  <2>1. CASE StopOwnDisk(i)
    BY <2>1, Stopped DEF StopOwnDisk, IdsOk
  <2>2. CASE StopWithoutLock(i)
    BY <2>2, Stopped DEF StopWithoutLock, IdsOk
  <2>3. QED
    BY <2>1, <2>2
<1>4. \A u \in toStop'[i] : pc'[i] = "stopping" /\ disks'[u] = i
  <2>1. CASE StopOwnDisk(i)
    <3>1. PICK v \in toStop[i] : UblkStopDisk(v) /\ toStop' = [toStop EXCEPT ![i] = @ \ {v}]
      BY <2>1 DEF StopOwnDisk
    <3>2. toStop'[i] = toStop[i] \ {v} /\ toStop[i] \subseteq UblkIds /\ pc'[i] = "stopping"
      BY <2>1, <3>1 DEF TypeOK, StopOwnDisk
    <3>3. QED
      BY <3>1, <3>2, Stopped DEF IdsOk
  <2>2. CASE StopWithoutLock(i)
    BY <2>2 DEF StopWithoutLock, IdsOk
  <2>3. QED
    BY <2>1, <2>2
<1>5. pc'[i] \notin Reserving \cup {"picking"}
  BY DEF StopOwnDisk, StopWithoutLock, TypeOK
<1>6. \A j \in Initiators \ {i} : \A u \in toStop[j] : disks'[u] = j
  BY <1>3, UblkAssumption DEF IdsOk, TypeOK
<1>7. \A j \in Initiators : pc[j] \in Reserving => candidate[j] \in UblkIds
  BY DEF TypeOK
<1>8. QED
  BY <1>1, <1>2, <1>3, <1>4, <1>5, <1>6, <1>7 DEF IdsOk

\* The id handed out is above all those that are reserved or remembered, and it is
\* not in the list.
LEMMA IdPick ==
    ASSUME TypeOK, IdsOk, NEW i \in Initiators, GetAvailableId(i), ~wrapped'
    PROVE  IdsOk'
<1> USE DEF Moves, Reserving
<1>1. PICK k \in UblkIds : /\ Available(i, k)
                           /\ candidate' = [candidate EXCEPT ![i] = Candidate(k)]
                           /\ lastCandidate' = Candidate(k)
                           /\ wrapped' = (wrapped \/ lastCandidate + k > MaxUblkId)
  BY DEF GetAvailableId
<1>2. Candidate(k) = lastCandidate + k /\ Candidate(k) > lastCandidate /\ Candidate(k) \in UblkIds
  <2>0. ~(lastCandidate + k > MaxUblkId)
    BY <1>1, Zenon
  <2>1. lastCandidate + k <= MaxUblkId /\ lastCandidate \in Nat /\ k \in Nat \ {0} /\ MaxUblkId \in Nat
    <3>1. lastCandidate \in 0 .. MaxUblkId
      BY DEF TypeOK
    <3>2. QED
      BY <2>0, <3>1, UblkAssumption DEF UblkIds
  <2>2. (lastCandidate + k) % (MaxUblkId + 1) = lastCandidate + k
    BY <2>1
  <2>3. QED
    BY <2>1, <2>2 DEF Candidate, UblkIds
<1> DEFINE new == lastCandidate'
<1>3. /\ UNCHANGED <<disks, ublkId, toStop>>
      /\ pc[i] = "picking" /\ pc'[i] = "creating" /\ candidate'[i] = new
      /\ \A j \in Initiators \ {i} : pc'[j] = pc[j] /\ inUse'[j] = inUse[j]
                                       /\ candidate'[j] = candidate[j]
  BY <1>1 DEF GetAvailableId, TypeOK, spdk
<1>4. new \in UblkIds /\ new > lastCandidate /\ new \notin inUse[i]
  BY <1>1, <1>2 DEF Available
<1>5. disks[new] = NoBdev
  BY <1>3, <1>4 DEF IdsOk
<1>6. \A j \in Initiators : pc[j] \in Reserving => candidate[j] \in UblkIds
  BY DEF TypeOK
<1>7. /\ \A j \in Initiators : /\ (ublkId[j] \in UblkIds => ublkId[j] <= lastCandidate)
                               /\ (pc[j] \in Reserving => candidate[j] <= lastCandidate)
      /\ lastCandidate \in Nat
  BY DEF IdsOk, TypeOK
<1> HIDE DEF new
<1>8. \A j \in Initiators : ublkId[j] # new /\ (pc[j] \in Reserving => candidate[j] # new)
  <2>1. \A u \in UblkIds : u <= lastCandidate => u # new
    BY <1>4, <1>7 DEF UblkIds
  <2>2. ASSUME NEW j \in Initiators PROVE ublkId[j] # new
    <3>1. ublkId[j] \in UblkIds => ublkId[j] <= lastCandidate
      BY DEF IdsOk
    <3>2. QED
      BY <1>4, <2>1, <3>1, Zenon
  <2>3. ASSUME NEW j \in Initiators, pc[j] \in Reserving PROVE candidate[j] # new
    <3>1. candidate[j] \in UblkIds /\ candidate[j] <= lastCandidate
      BY <2>3 DEF IdsOk, TypeOK
    <3>2. QED
      BY <2>1, <3>1, Zenon
  <2>4. QED
    BY <2>2, <2>3
<1>9. \A u \in UblkIds : u <= lastCandidate => u <= new
  BY <1>4, <1>7 DEF UblkIds
<1>10. \A u \in UblkIds : u > new => u > lastCandidate
  BY <1>4, <1>7 DEF UblkIds
<1>11. new = lastCandidate' /\ new <= new
  BY <1>4 DEF new, UblkIds
<1>12. QED
  BY <1>3, <1>4, <1>5, <1>6, <1>7, <1>8, <1>9, <1>10, <1>11 DEF IdsOk

\* The id that is used was reserved by its initiator alone.
LEMMA IdStart ==
    ASSUME TypeOK, IdsOk, NEW i \in Initiators, StartDisk(i)
    PROVE  IdsOk'
<1> USE DEF Reserving
<1>1. /\ candidate[i] \in UblkIds /\ candidate[i] <= lastCandidate
      /\ \A j \in Initiators \ {i} : /\ pc[j] \in Reserving => candidate[j] # candidate[i]
                                      /\ ublkId[j] # candidate[i]
      /\ \A j \in Initiators : \A u \in toStop[j] : u # candidate[i]
  BY Started, UblkAssumption DEF IdsOk
<1>2. \A j \in Initiators : /\ pc[j] \in Reserving => candidate[j] \in UblkIds
                            /\ toStop[j] \subseteq UblkIds
  BY DEF TypeOK
<1>3. \A u \in UblkIds : u > lastCandidate => u # candidate[i]
  BY <1>1 DEF TypeOK, UblkIds
<1>4. toStop[i] = {}
  BY Started DEF IdsOk
<1>5. QED
  BY <1>1, <1>2, <1>3, <1>4, Started DEF IdsOk

LEMMA IdRestart ==
    ASSUME TypeOK, SpdkRestart \/ ProcessRestart, wrapped' \/ ProcessRestart \/ IdsOk
    PROVE  IdInv'
<1>1. \A i \in Initiators : pc'[i] = "idle" /\ toStop'[i] = {}
  BY DEF SpdkRestart, ProcessRestart, AbortOperations
<1>2. CASE ProcessRestart
  <2>1. \A i \in Initiators : ublkId'[i] \notin UblkIds
    BY <1>2, UblkAssumption DEF ProcessRestart, Unset, UnInitializedUblkId, UblkIds
  <2>2. QED
    BY <1>1, <2>1 DEF IdInv, IdsOk, Reserving
<1>3. CASE SpdkRestart /\ IdsOk
  BY <1>1, <1>3 DEF SpdkRestart, process, IdInv, IdsOk, Reserving
<1>4. CASE wrapped'
  BY <1>4 DEF IdInv
<1>5. QED
  BY <1>2, <1>3, <1>4

LEMMA IdNext == TypeOK /\ IdInv /\ [Next]_vars => IdInv'
<1> SUFFICES ASSUME TypeOK, IdInv, [Next]_vars, ~wrapped' PROVE IdInv'
  BY DEF IdInv
<1>1. CASE UNCHANGED vars
  BY <1>1 DEF vars, spdk, process, IdInv, IdsOk
<1>2. CASE SpdkRestart \/ ProcessRestart
  <2>1. SpdkRestart => ~wrapped
    BY DEF SpdkRestart, process
  <2>2. QED
    BY <1>2, <2>1, IdRestart DEF IdInv
<1>3. ASSUME NEW i \in Initiators,
             \/ StartUblkInitiator(i) \/ ListOwnDisks(i) \/ StopOwnDisk(i) \/ OwnDisksStopped(i)
             \/ StopWithoutLock(i) \/ ListUsedIds(i) \/ GetAvailableId(i)
             \/ CreateTarget(i) \/ StartDisk(i)
             \/ Stop(i) \/ Return(i)
      PROVE  IdInv'
  <2>1. ~wrapped
    BY <1>3 DEF StartUblkInitiator, ListOwnDisks, UblkGetDisks, StopOwnDisk, OwnDisksStopped,
       StopWithoutLock, ListUsedIds, GetAvailableId, CreateTarget, UblkCreateTarget,
       StartDisk, UblkStartDisk, Stop, Return, process
  <2>2. IdsOk
    BY <2>1 DEF IdInv
  <2>3. IdsOk'
    BY <1>3, <2>2, IdQuiet, IdList, IdStop, IdPick, IdStart
  <2>4. QED
    BY <2>3 DEF IdInv
<1>4. QED
  BY <1>1, <1>2, <1>3 DEF Next

\* As long as the generator has not wrapped, the id an initiator has been given is
\* free when ublk_start_disk uses it, whatever other initiators list, start and
\* stop in between, and whichever side has restarted.
THEOREM ReservedIdsAreFree == Spec => []ReservedIdIsFree
<1>1. IdInv => ReservedIdIsFree
  BY DEF IdInv, IdsOk, ReservedIdIsFree, Reserving
<1>2. QED
  BY <1>1, IdInit, IdNext, TypeCorrect, PTL DEF Spec

\* As long as the generator has not wrapped, no initiator stops the disk of another
\* volume, neither through the id it remembers nor through the list it has read.
THEOREM OnlyOwnDisksStopped == Spec => []StopsOnlyOwnDisk
<1>1. TypeOK /\ IdInv => StopsOnlyOwnDisk
  BY DEF TypeOK, IdInv, IdsOk, StopsOnlyOwnDisk
<1>2. QED
  BY <1>1, IdInit, IdNext, TypeCorrect, PTL DEF Spec
-----------------------------------------------------------------------------
(***************************************************************************)
(* The search of the generator, wrapped or not.                            *)
(***************************************************************************)

\* The remainder of a number less than twice the modulus.
LEMMA ModIs ==
    ASSUME NEW x \in Nat, NEW m \in Nat \ {0}, x < 2 * m
    PROVE  x % m = IF x < m THEN x ELSE x - m
<1>1. CASE x < m
  BY <1>1
<1>2. CASE ~(x < m)
  <2>1. x - m \in Nat /\ x - m < m
    BY <1>2
  <2>2. (x - m) % m = x - m
    BY <2>1
  <2>3. x = 1 * m + (x - m)
    BY <1>2
  <2> QED
    BY <1>2, <2>1, <2>2, <2>3
<1> QED
  BY <1>1, <1>2

LEMMA CandidateIs ==
    ASSUME TypeOK, NEW k \in UblkIds
    PROVE  Candidate(k) = IF lastCandidate + k <= MaxUblkId
                          THEN lastCandidate + k
                          ELSE lastCandidate + k - (MaxUblkId + 1)
<1>1. /\ lastCandidate \in Nat /\ lastCandidate <= MaxUblkId
      /\ k \in Nat /\ k >= 1 /\ k <= MaxUblkId
      /\ MaxUblkId \in Nat
  BY UblkAssumption DEF TypeOK, UblkIds
<1> DEFINE x == lastCandidate + k
           m == MaxUblkId + 1
<1>2. x \in Nat /\ m \in Nat \ {0} /\ x < 2 * m /\ (x < m <=> x <= MaxUblkId)
  BY <1>1
<1>3. Candidate(k) = x % m
  BY DEF Candidate
<1> HIDE DEF x, m
<1>4. x % m = IF x < m THEN x ELSE x - m
  BY <1>2, ModIs
<1>5. Candidate(k) = IF x <= MaxUblkId THEN x ELSE x - m
  BY <1>2, <1>3, <1>4
<1> QED
  BY <1>1, <1>5 DEF x, m

\* GetAvailableID tries every number but the id that it handed out last, and none twice.
\* So it gives up if that one alone is free, though it says that "1..65535 are all in
\* use", and finds an id whenever another is.
THEOREM OthersAreTried ==
    ASSUME TypeOK
    PROVE  /\ {Candidate(k) : k \in UblkIds} = (0 .. MaxUblkId) \ {lastCandidate}
           /\ \A k, l \in UblkIds : Candidate(k) = Candidate(l) => k = l
           /\ \A i \in Initiators :
                 (\E k \in UblkIds : Available(i, k))
                   <=> ~ (UblkIds \ {lastCandidate} \subseteq inUse[i])
<1>1. /\ lastCandidate \in Nat /\ lastCandidate <= MaxUblkId
      /\ MaxUblkId \in Nat
      /\ \A k \in UblkIds : k \in Nat /\ k >= 1 /\ k <= MaxUblkId
  BY UblkAssumption DEF TypeOK, UblkIds
<1>2. ASSUME NEW k \in UblkIds
      PROVE  Candidate(k) \in (0 .. MaxUblkId) \ {lastCandidate}
  BY <1>1, CandidateIs
<1>3. ASSUME NEW u \in (0 .. MaxUblkId) \ {lastCandidate}
      PROVE  \E k \in UblkIds : Candidate(k) = u
  <2>1. CASE u > lastCandidate
    <3>1. u - lastCandidate \in UblkIds
      BY <1>1, <2>1 DEF UblkIds
    <3> QED
      BY <1>1, <3>1, CandidateIs
  <2>2. CASE u < lastCandidate
    <3>1. u + (MaxUblkId + 1) - lastCandidate \in UblkIds
      BY <1>1, <2>2 DEF UblkIds
    <3> QED
      BY <1>1, <2>2, <3>1, CandidateIs
  <2> QED
    BY <1>1, <2>1, <2>2
<1>4. {Candidate(k) : k \in UblkIds} = (0 .. MaxUblkId) \ {lastCandidate}
  BY <1>2, <1>3
<1>5. ASSUME NEW k \in UblkIds, NEW l \in UblkIds, Candidate(k) = Candidate(l)
      PROVE  k = l
  BY <1>1, <1>5, CandidateIs
<1>6. ASSUME NEW i \in Initiators
      PROVE  (\E k \in UblkIds : Available(i, k))
               <=> ~ (UblkIds \ {lastCandidate} \subseteq inUse[i])
  <2>1. UblkIds \ {lastCandidate} = ((0 .. MaxUblkId) \ {lastCandidate}) \ {0}
    BY UblkAssumption DEF UblkIds
  <2>2. (\E k \in UblkIds : Available(i, k))
          <=> \E u \in UblkIds \ {lastCandidate} : u \notin inUse[i]
    BY <1>2, <1>3, <2>1 DEF Available
  <2> QED
    BY <2>2
<1> QED
  BY <1>4, <1>5, <1>6
=============================================================================
