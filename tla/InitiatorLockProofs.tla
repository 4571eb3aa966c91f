------------------------ MODULE InitiatorLockProofs ------------------------
(***************************************************************************)
(* Theorems about InitiatorLock, for any operations and any calls of Stop  *)
(* among them.                                                             *)
(***************************************************************************)
EXTENDS InitiatorLock, FiniteSetTheorems, FiniteSets, TLAPS

InLock == {"locking", "timedOut"}
HasLock == {"running", "removed", "unlocked"}

\* The goroutine of Lock is at work only as long as Lock has not returned.
LockerInv ==
    \A o \in Ops :
        /\ locker[o] \in {"opening", "flocking"} => caller[o] \in InLock
        /\ caller[o] \in HasLock => locker[o] = "locked"

\* Whoever has got the lock of its file still has it.
OwnerInv ==
    \A o \in Ops :
        locker[o] = "locked" /\ caller[o] \in InLock \cup HasLock =>
            file[o] # NoOp /\ owner[file[o]] = o

NoneRemoved ==
    \A s \in Stops : caller[s] \notin {"removed", "unlocked", "released", "crashed"}

\* Before a Stop removes the file, every open file is the one at the path.
PathInv == NoneRemoved => \A o \in Ops : file[o] \in {NoOp, path}

IInv == TypeOK /\ LockerInv /\ OwnerInv /\ NoLockLeaks /\ PathInv

\* The inductive invariant.
LEMMA IInvInit == Init => IInv
  BY OpsAssumption
  DEF Init, IInv, TypeOK, LockerInv, OwnerInv, NoLockLeaks, PathInv, InLock, HasLock

\* A step that only moves the caller, without letting it out of Lock or of the
\* operation, keeps the invariant.
LEMMA IInvMove ==
    ASSUME IInv, NEW o \in Ops, RefuseLock(o) \/ LockSucceeds(o) \/ TimeOut(o)
                                  \/ RemoveLockFile(o) \/ Unlock(o)
    PROVE  IInv'
<1> USE DEF IInv, Moves, InLock, HasLock
<1>1. UNCHANGED <<owner, locker, file>>
  BY DEF RefuseLock, LockSucceeds, TimeOut, RemoveLockFile, Unlock
<1>2. PICK from, to :
        /\ caller[o] = from
        /\ caller' = [caller EXCEPT ![o] = to]
        /\ \/ from = "idle" /\ to = "failed"
           \/ from = "locking" /\ to = "running" /\ locker[o] = "locked"
           \/ from = "locking" /\ to = "timedOut"
           \/ from = "running" /\ to = "removed"
           \/ from = "running" /\ to = "unlocked" /\ o \notin Stops
           \/ from = "removed" /\ to = "unlocked"
  BY DEF RefuseLock, LockSucceeds, TimeOut, RemoveLockFile, Unlock
<1>3. path' = path \/ (o \in Stops /\ to = "removed")
  BY <1>2 DEF RefuseLock, LockSucceeds, TimeOut, RemoveLockFile, Unlock, TypeOK
<1>4. \A p \in Ops : caller'[p] = IF p = o THEN to ELSE caller[p]
  BY <1>2 DEF TypeOK
<1>5. TypeOK'
  BY <1>1, <1>2, <1>4 DEF TypeOK, RefuseLock, LockSucceeds, TimeOut, RemoveLockFile, Unlock
<1>6. LockerInv'
  BY <1>1, <1>2, <1>4 DEF LockerInv
<1>7. OwnerInv'
  BY <1>1, <1>2, <1>4 DEF OwnerInv
<1>8. NoLockLeaks'
  BY <1>1, <1>2, <1>4 DEF NoLockLeaks, TypeOK
<1>9. PathInv'
  <2>1. NoneRemoved' => NoneRemoved /\ path' = path
    BY <1>2, <1>3, <1>4, OpsAssumption DEF NoneRemoved
  <2>2. QED
    BY <1>1, <2>1 DEF PathInv
<1>10. QED
  BY <1>5, <1>6, <1>7, <1>8, <1>9

\* A step that gives the file back keeps the invariant.
LEMMA IInvUnlockFile ==
    ASSUME IInv, NEW o \in Ops, LockFails(o) \/ ReleaseFile(o) \/ Crash(o)
    PROVE  IInv'
<1> USE DEF IInv, InLock, HasLock, Moves
<1>1. /\ UnlockFile(o) /\ UNCHANGED path
      /\ \/ UNCHANGED locker
         \/ locker' = [locker EXCEPT ![o] = "none"]
  BY DEF LockFails, ReleaseFile, Crash
<1>2. PICK to \in {"failed", "released", "crashed"} :
        /\ caller' = [caller EXCEPT ![o] = to]
        /\ to = "failed" => caller[o] = "timedOut" /\ locker[o] \in {"locked", "failed"}
        /\ to = "released" => caller[o] = "unlocked"
        /\ to = "crashed" => locker'[o] = "none"
  BY DEF LockFails, ReleaseFile, Crash, TypeOK
<1>3. \A p \in Ops \ {o} : /\ caller'[p] = caller[p] /\ locker'[p] = locker[p] /\ file'[p] = file[p]
  BY <1>1, <1>2 DEF UnlockFile, TypeOK
<1>4. caller'[o] = to /\ file'[o] = NoOp /\ locker'[o] \in {locker[o], "none"}
  BY <1>1, <1>2 DEF UnlockFile, TypeOK
<1>5. \A i \in Ops : owner'[i] = IF owner[i] = o THEN NoOp ELSE owner[i]
  BY <1>1 DEF UnlockFile
<1>6. locker'[o] \notin {"opening", "flocking"}
  BY <1>2, <1>4 DEF LockerInv
<1>7. TypeOK'
  <2>1. owner' \in [Ops -> Ops \cup {NoOp}]
    BY <1>1 DEF UnlockFile, TypeOK
  <2>2. caller' \in [Ops -> {"idle", "locking", "timedOut", "failed", "running",
                             "removed", "unlocked", "released", "crashed"}]
    BY <1>2 DEF TypeOK
  <2>3. QED
    BY <1>1, <1>3, <1>4, <1>6, <2>1, <2>2 DEF UnlockFile, TypeOK
<1>8. LockerInv'
  BY <1>3, <1>4, <1>6 DEF LockerInv
<1>9. OwnerInv'
  BY <1>3, <1>4, <1>5, OpsAssumption DEF OwnerInv, TypeOK
<1>10. NoLockLeaks'
  BY <1>3, <1>4, <1>5, OpsAssumption DEF NoLockLeaks, TypeOK
<1>11. PathInv'
  <2>1. NoneRemoved' => NoneRemoved
    BY <1>2, <1>3, <1>4, OpsAssumption DEF NoneRemoved
  <2>2. QED
    BY <1>1, <1>3, <1>4, <2>1 DEF PathInv
<1>12. QED
  BY <1>7, <1>8, <1>9, <1>10, <1>11

\* A step of the goroutine of Lock, or the call that starts it.
LEMMA IInvLocker ==
    ASSUME IInv, NEW o \in Ops, NewLock(o) \/ OpenFile(o) \/ OpenFileFails(o) \/ Flock(o)
    PROVE  IInv'
<1> USE DEF IInv, InLock, HasLock, Moves, LockerMoves
<1>1. CASE NewLock(o)
  <2>1. \A p \in Ops : /\ p # o => caller'[p] = caller[p] /\ locker'[p] = locker[p]
                       /\ caller'[o] = "locking" /\ locker'[o] = "opening" /\ caller[o] = "idle"
    BY <1>1 DEF NewLock, TypeOK
  <2>2. TypeOK' /\ UNCHANGED <<path, owner, file>>
    BY <1>1, <2>1 DEF NewLock, TypeOK
  <2>3. LockerInv' /\ OwnerInv'
    BY <2>1, <2>2 DEF LockerInv, OwnerInv
  <2>4. NoLockLeaks'
    BY <2>1, <2>2 DEF NoLockLeaks, TypeOK
  <2>5. PathInv'
    BY <2>1, <2>2, OpsAssumption DEF PathInv, NoneRemoved
  <2>6. QED
    BY <2>2, <2>3, <2>4, <2>5
<1>2. CASE OpenFile(o)
  <2>1. \A p \in Ops : /\ p # o => file'[p] = file[p] /\ locker'[p] = locker[p]
                       /\ locker'[o] = "flocking" /\ locker[o] = "opening"
                       /\ file'[o] = path' /\ path' \in Ops
    BY <1>2 DEF OpenFile, TypeOK
  <2>2. UNCHANGED <<owner, caller>> /\ (path = NoOp \/ path' = path)
    BY <1>2 DEF OpenFile
  <2>3. TypeOK'
    BY <1>2, <2>1, <2>2, OpsAssumption DEF OpenFile, TypeOK
  <2>4. LockerInv' /\ OwnerInv'
    BY <2>1, <2>2 DEF LockerInv, OwnerInv
  <2>5. NoLockLeaks'
    BY <2>2 DEF NoLockLeaks
  <2>6. PathInv'
    BY <2>1, <2>2 DEF PathInv, NoneRemoved
  <2>7. QED
    BY <2>3, <2>4, <2>5, <2>6
<1>3. CASE OpenFileFails(o)
  <2>1. \A p \in Ops : /\ p # o => locker'[p] = locker[p]
                       /\ locker'[o] = "failed" /\ locker[o] = "opening"
    BY <1>3 DEF OpenFileFails, TypeOK
  <2>2. UNCHANGED <<path, owner, caller, file>>
    BY <1>3 DEF OpenFileFails
  <2>3. TypeOK'
    BY <1>3, <2>1, <2>2 DEF OpenFileFails, TypeOK
  <2>4. LockerInv' /\ OwnerInv'
    BY <2>1, <2>2 DEF LockerInv, OwnerInv
  <2>5. NoLockLeaks' /\ PathInv'
    BY <2>2 DEF NoLockLeaks, PathInv, NoneRemoved
  <2>6. QED
    BY <2>3, <2>4, <2>5
<1>4. CASE Flock(o)
  <2>1. \A p \in Ops : /\ p # o => locker'[p] = locker[p]
                       /\ locker'[o] = "locked" /\ locker[o] = "flocking"
    BY <1>4 DEF Flock, TypeOK
  <2>2. UNCHANGED <<path, caller, file>> /\ caller[o] \in InLock /\ file[o] \in Ops
    BY <1>4, <2>1 DEF Flock, LockerInv, TypeOK
  <2>3. owner[file[o]] = NoOp /\ \A i \in Ops : owner'[i] = IF i = file[o] THEN o ELSE owner[i]
    BY <1>4 DEF Flock, TypeOK
  <2>4. TypeOK'
    BY <1>4, <2>1, <2>2 DEF Flock, TypeOK
  <2>5. LockerInv'
    BY <2>1, <2>2 DEF LockerInv
  <2>6. OwnerInv'
    BY <2>1, <2>2, <2>3, OpsAssumption DEF OwnerInv, TypeOK
  <2>7. NoLockLeaks'
    BY <2>2, <2>3 DEF NoLockLeaks
  <2>8. PathInv'
    BY <2>2 DEF PathInv, NoneRemoved
  <2>9. QED
    BY <2>4, <2>5, <2>6, <2>7, <2>8
<1>5. QED
  BY <1>1, <1>2, <1>3, <1>4

LEMMA IInvNext == IInv /\ [Next]_vars => IInv'
<1> SUFFICES ASSUME IInv, [Next]_vars PROVE IInv'
  OBVIOUS
<1>1. CASE Next
  BY <1>1, IInvMove, IInvUnlockFile, IInvLocker DEF Next, LockStep, RunStep
<1>2. CASE UNCHANGED vars
  BY <1>2 DEF vars, IInv, TypeOK, LockerInv, OwnerInv, NoLockLeaks, PathInv, NoneRemoved
<1>3. QED
  BY <1>1, <1>2

LEMMA IInvAlways == Spec => []IInv
  BY IInvInit, IInvNext, PTL DEF Spec

\* The types of the lock file's state, and that only an opened file is locked.
THEOREM TypeCorrect == Spec => []TypeOK
  BY IInvAlways, PTL DEF IInv

\* Whatever times out, fails or crashes in FileLock.Lock, an inode stays locked only
\* by an operation that is still to release it.
THEOREM NeverLeaksLock == Spec => []NoLockLeaks
  BY IInvAlways, PTL DEF IInv

\* Two operations that run at once have locked two different inodes.
LEMMA RunnersShareNoFile ==
    IInv => \A o, p \in Runners : file[o] = file[p] => o = p
  BY DEF IInv, Runners, LockerInv, OwnerInv, HasLock

\* Two operations of one volume run at once only after a Stop has removed the lock
\* file (Stop) or died: no timeout, failure or other crash breaks the lock.
THEOREM OverlapsOnlyAfterStop == Spec => []OverlapOnlyAfterStop
<1>1. IInv => OverlapOnlyAfterStop
  <2> SUFFICES ASSUME IInv, NoneRemoved PROVE Serialized
    BY DEF OverlapOnlyAfterStop, NoneRemoved
  <2>1. \A o \in Runners : file[o] = path
    BY DEF IInv, Runners, LockerInv, OwnerInv, HasLock, PathInv
  <2>2. QED
    BY <2>1, RunnersShareNoFile DEF Serialized
<1>2. QED
  BY <1>1, IInvAlways, PTL

\* Start, Suspend, Resume, the path operations and the waits are serialized among
\* themselves, whatever times out, fails or crashes: lockFilePath's promise holds
\* for a volume that nobody stops.
THEOREM SerializedWithoutStop ==
    ASSUME Stops = {}
    PROVE  Spec => []Serialized
<1>1. OverlapOnlyAfterStop => Serialized
  BY DEF OverlapOnlyAfterStop
<1>2. QED
  BY <1>1, OverlapsOnlyAfterStop, PTL
-----------------------------------------------------------------------------
(***************************************************************************)
(* How far the overlap goes: an inode that operations can still lock is    *)
(* the one at the path, or a Stop of its own has removed it.               *)
(***************************************************************************)

\* The calls of Stop that have removed the file, or died.
Removers == {s \in Stops : caller[s] \in {"removed", "unlocked", "released", "crashed"}}

\* The inodes that can be locked, now or later.
Inodes == {i \in Ops : i = path \/ \E o \in Ops : file[o] = i}

InodesInv ==
    Cardinality(Inodes) <= Cardinality(Removers) + (IF path = NoOp THEN 0 ELSE 1)

\* Of n calls of Stop that have removed the file, no more than n + 1 operations run.
OverlapBounded == Cardinality(Runners) <= Cardinality(Removers) + 1

LEMMA SetsFinite ==
    ASSUME IsFiniteSet(Ops)
    PROVE  /\ IsFiniteSet(Inodes) /\ Cardinality(Inodes) \in Nat
           /\ IsFiniteSet(Removers) /\ Cardinality(Removers) \in Nat
           /\ IsFiniteSet(Runners) /\ Cardinality(Runners) \in Nat
<1>1. Inodes \in SUBSET Ops /\ Removers \in SUBSET Ops /\ Runners \in SUBSET Ops
  BY OpsAssumption DEF Inodes, Removers, Runners
<1>2. IsFiniteSet(Inodes) /\ IsFiniteSet(Removers) /\ IsFiniteSet(Runners)
  BY <1>1, FS_Subset
<1> QED
  BY <1>2, FS_CardinalityType

LEMMA InodesInit == IsFiniteSet(Ops) /\ Init => InodesInv
<1> SUFFICES ASSUME IsFiniteSet(Ops), Init PROVE InodesInv
  OBVIOUS
<1>1. Inodes = {} /\ Removers = {}
  BY OpsAssumption DEF Init, Inodes, Removers
<1> QED
  BY <1>1, FS_EmptySet DEF InodesInv, Init

\* A call of Stop removes the file once, and whoever opens it creates no more than one.
LEMMA InodesNext ==
    ASSUME IsFiniteSet(Ops), IInv, InodesInv, [Next]_vars
    PROVE  InodesInv'
<1> USE DEF IInv
<1>0. /\ IsFiniteSet(Inodes) /\ Cardinality(Inodes) \in Nat
      /\ IsFiniteSet(Removers) /\ Cardinality(Removers) \in Nat
      /\ Removers' \in SUBSET Ops /\ IsFiniteSet(Removers')
      /\ Cardinality(Removers') \in Nat
  <2>1. Removers' \in SUBSET Ops
    BY OpsAssumption DEF Removers
  <2>2. IsFiniteSet(Removers')
    BY <2>1, FS_Subset
  <2> QED
    BY <2>1, <2>2, SetsFinite, FS_CardinalityType
<1>1. ASSUME Inodes' \subseteq Inodes, Removers \subseteq Removers', path' = path
      PROVE  InodesInv'
  <2>1. Cardinality(Inodes') <= Cardinality(Inodes) /\ IsFiniteSet(Inodes')
    BY <1>0, <1>1, FS_Subset
  <2>2. Cardinality(Removers) <= Cardinality(Removers')
    BY <1>0, <1>1, FS_Subset
  <2>3. Cardinality(Inodes') \in Nat
    BY <2>1, FS_CardinalityType
  <2> QED
    BY <1>0, <1>1, <2>1, <2>2, <2>3 DEF InodesInv
<1>2. ASSUME NEW o \in Ops, RefuseLock(o) \/ NewLock(o) \/ OpenFileFails(o) \/ Flock(o)
                              \/ LockSucceeds(o) \/ TimeOut(o) \/ Unlock(o)
      PROVE  InodesInv'
  <2>1. UNCHANGED <<path, file>>
    BY <1>2 DEF RefuseLock, NewLock, OpenFileFails, Flock, LockSucceeds, TimeOut, Unlock
  <2>2. PICK to \in {"failed", "locking", "running", "timedOut", "unlocked"} :
          \/ caller' = caller
          \/ /\ caller' = [caller EXCEPT ![o] = to]
             /\ \/ caller[o] \in {"idle", "locking"}
                \/ to = "unlocked" /\ caller[o] \in {"running", "removed"}
    BY <1>2
    DEF RefuseLock, NewLock, OpenFileFails, Flock, LockSucceeds, TimeOut, Unlock, Moves
  <2>3. ASSUME NEW s \in Removers
        PROVE  s \in Removers'
    <3>1. /\ s \in Ops /\ s \in Stops
          /\ caller[s] \in {"removed", "unlocked", "released", "crashed"}
      BY OpsAssumption DEF Removers
    <3>2. caller'[s] = caller[s] \/ caller'[s] = "unlocked"
      BY <2>2, <3>1 DEF TypeOK
    <3> QED
      BY <3>1, <3>2 DEF Removers
  <2> QED
    BY <1>1, <2>1, <2>3 DEF Inodes
<1>3. ASSUME NEW o \in Ops, LockFails(o) \/ ReleaseFile(o) \/ Crash(o)
      PROVE  InodesInv'
  <2>1. path' = path /\ file' = [file EXCEPT ![o] = NoOp]
    BY <1>3 DEF LockFails, ReleaseFile, Crash, UnlockFile
  <2>2. Inodes' \subseteq Inodes
    BY <2>1, OpsAssumption DEF Inodes, TypeOK
  <2>3. PICK to \in {"failed", "released", "crashed"} :
          /\ caller' = [caller EXCEPT ![o] = to]
          /\ to = "failed" => caller[o] = "timedOut"
    BY <1>3 DEF LockFails, ReleaseFile, Crash, Moves
  <2>4. Removers \subseteq Removers'
    BY <2>3 DEF Removers, TypeOK
  <2> QED
    BY <1>1, <2>1, <2>2, <2>4
<1>4. ASSUME NEW o \in Ops, OpenFile(o)
      PROVE  InodesInv'
  <2>1. /\ caller' = caller /\ file' = [file EXCEPT ![o] = path']
        /\ \/ path # NoOp /\ path' = path
           \/ path = NoOp /\ path' = o
    BY <1>4 DEF OpenFile
  <2>2. Removers' = Removers
    BY <2>1 DEF Removers
  <2>3. CASE path # NoOp /\ path' = path
    <3>1. Inodes' \subseteq Inodes
      BY <2>1, <2>3 DEF Inodes, TypeOK
    <3> QED
      BY <1>1, <2>2, <2>3, <3>1
  <2>4. CASE path = NoOp /\ path' = o
    <3>1. Inodes' \subseteq Inodes \cup {o}
      BY <2>1, <2>4 DEF Inodes, TypeOK
    <3>2. /\ IsFiniteSet(Inodes \cup {o})
          /\ Cardinality(Inodes \cup {o}) \in Nat
          /\ Cardinality(Inodes \cup {o}) <= Cardinality(Inodes) + 1
      <4>1. /\ IsFiniteSet(Inodes \cup {o})
            /\ Cardinality(Inodes \cup {o})
                 = IF o \in Inodes THEN Cardinality(Inodes) ELSE Cardinality(Inodes) + 1
        BY <1>0, FS_AddElement
      <4> HIDE DEF Inodes
      <4> QED
        BY <1>0, <4>1
    <3>3. /\ Cardinality(Inodes') <= Cardinality(Inodes \cup {o})
          /\ Cardinality(Inodes') \in Nat
      BY <3>1, <3>2, FS_Subset, FS_CardinalityType
    <3>4. path' # NoOp
      BY <2>4, OpsAssumption
    <3> QED
      BY <1>0, <2>2, <2>4, <3>2, <3>3, <3>4 DEF InodesInv
  <2> QED
    BY <2>1, <2>3, <2>4
<1>5. ASSUME NEW o \in Ops, RemoveLockFile(o)
      PROVE  InodesInv'
  <2>1. /\ o \in Stops /\ caller[o] = "running"
        /\ caller' = [caller EXCEPT ![o] = "removed"]
        /\ path' = NoOp /\ file' = file
    BY <1>5 DEF RemoveLockFile, Moves
  <2>2. Inodes' \subseteq Inodes
    BY <2>1, OpsAssumption DEF Inodes
  <2>3. Removers' = Removers \cup {o} /\ o \notin Removers
    BY <2>1 DEF Removers, TypeOK
  <2>4. Cardinality(Removers') = Cardinality(Removers) + 1
    BY <1>0, <2>3, FS_AddElement
  <2>5. Cardinality(Inodes') <= Cardinality(Inodes) /\ Cardinality(Inodes') \in Nat
    BY <1>0, <2>2, FS_Subset, FS_CardinalityType
  <2> QED
    BY <1>0, <2>1, <2>4, <2>5 DEF InodesInv
<1>6. CASE UNCHANGED vars
  <2>1. Inodes' = Inodes /\ Removers' = Removers /\ path' = path
    BY <1>6 DEF vars, Inodes, Removers
  <2> QED
    BY <1>1, <2>1
<1> QED
  BY <1>2, <1>3, <1>4, <1>5, <1>6 DEF Next, LockStep, RunStep

\* Every call of Stop lets at most one more operation run next to the others: without
\* it, or before it, the lock of the volume admits one.
THEOREM OverlapIsBounded ==
    ASSUME IsFiniteSet(Ops)
    PROVE  Spec => []OverlapBounded
<1>1. Init => InodesInv
  BY InodesInit
<1>2. IInv /\ InodesInv /\ [Next]_vars => InodesInv'
  BY InodesNext
<1>3. IInv /\ InodesInv => OverlapBounded
  <2> SUFFICES ASSUME IInv, InodesInv PROVE OverlapBounded
    OBVIOUS
  <2>1. /\ IsFiniteSet(Inodes) /\ Cardinality(Inodes) \in Nat
        /\ IsFiniteSet(Runners) /\ Cardinality(Runners) \in Nat
        /\ Cardinality(Removers) \in Nat
    BY SetsFinite
  <2> DEFINE f == [o \in Runners |-> file[o]]
  <2>2. f \in [Runners -> Inodes]
    BY DEF IInv, TypeOK, Runners, Inodes, LockerInv, OwnerInv, HasLock
  <2>3. \A o, p \in Runners : f[o] = f[p] => o = p
    BY RunnersShareNoFile
  <2> HIDE DEF f
  <2>4. ~ (Cardinality(Inodes) < Cardinality(Runners))
    BY <2>1, <2>2, <2>3, FS_PigeonHole
  <2> QED
    BY <2>1, <2>4 DEF InodesInv, OverlapBounded
<1> QED
  BY <1>1, <1>2, <1>3, IInvAlways, PTL DEF Spec
=============================================================================
