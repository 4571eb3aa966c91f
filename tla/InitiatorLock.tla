--------------------------- MODULE InitiatorLock ---------------------------
(***************************************************************************)
(* The per-volume file lock of pkg/initiator/initiator.go (newLock, Unlock *)
(* and the removal of the lock file in Stop), with the FileLock of         *)
(* go-common-libs it is made of.                                           *)
(*                                                                         *)
(* Every operation on a volume makes a FileLock of its own.  Lock starts a *)
(* goroutine that opens the file, creating it if there is none, and blocks *)
(* in flock, holding the mutex of the FileLock all the while; the caller   *)
(* waits for it or for LockTimeout.  Unlock only signals a third goroutine *)
(* that gives the lock back.  A lock belongs to an inode, not to a path:   *)
(* Stop unlinks the file before it unlocks, and whoever comes next creates *)
(* another inode at the same path.                                         *)
(*                                                                         *)
(* The goroutine of Lock takes the mutex before the timer, which is set to *)
(* two minutes, can fire.                                                  *)
(***************************************************************************)

CONSTANTS
    Ops,     \* operations on one volume, from any goroutines and processes
    Stops,   \* those of them that are calls of Stop
    NoOp     \* not an operation: nobody, or no inode

ASSUME OpsAssumption ==
    /\ Stops \subseteq Ops
    /\ NoOp \notin Ops

\* An operation opens the file once: an inode is named by the operation that
\* created it.
VARIABLES
    path,      \* the inode at the path of the lock file
    owner,     \* who holds the lock of an inode
    caller,    \* where the goroutine of the operation is
    locker,    \* where the goroutine of FileLock.Lock is
    file       \* the inode it has opened: lock.File once it is locked

vars == <<path, owner, caller, locker, file>>

TypeOK ==
    /\ path \in Ops \cup {NoOp}
    /\ owner \in [Ops -> Ops \cup {NoOp}]
    /\ caller \in [Ops -> {"idle", "locking", "timedOut", "failed", "running",
                           "removed", "unlocked", "released", "crashed"}]
    /\ locker \in [Ops -> {"none", "opening", "flocking", "locked", "failed"}]
    /\ file \in [Ops -> Ops \cup {NoOp}]
    /\ \A o \in Ops : locker[o] = "flocking" => file[o] # NoOp

Init ==
    /\ path = NoOp
    /\ owner = [i \in Ops |-> NoOp]
    /\ caller = [o \in Ops |-> "idle"]
    /\ locker = [o \in Ops |-> "none"]
    /\ file = [o \in Ops |-> NoOp]
-----------------------------------------------------------------------------
Moves(o, from, to) ==
    /\ caller[o] = from
    /\ caller' = [caller EXCEPT ![o] = to]

LockerMoves(o, from, to) ==
    /\ locker[o] = from
    /\ locker' = [locker EXCEPT ![o] = to]

\* newLock refuses: the host proc path is wrong, the directory cannot be made.
RefuseLock(o) ==
    /\ Moves(o, "idle", "failed")
    /\ UNCHANGED <<path, owner, locker, file>>

NewLock(o) ==
    /\ Moves(o, "idle", "locking")
    /\ LockerMoves(o, "none", "opening")
    /\ UNCHANGED <<path, owner, file>>

OpenFile(o) ==
    /\ LockerMoves(o, "opening", "flocking")
    /\ \/ path # NoOp /\ UNCHANGED path
       \/ path = NoOp /\ path' = o
    /\ file' = [file EXCEPT ![o] = path']
    /\ UNCHANGED <<owner, caller>>

\* The error goes to a channel that Lock never reads: its caller runs into the
\* timeout.
OpenFileFails(o) ==
    /\ LockerMoves(o, "opening", "failed")
    /\ UNCHANGED <<path, owner, caller, file>>

FlockShared(o) ==
    /\ LockerMoves(o, "flocking", "locked")
    /\ owner' = [owner EXCEPT ![file[o]] = o]
    /\ UNCHANGED <<path, caller, file>>

Flock(o) ==
    /\ LockerMoves(o, "flocking", "locked")
    /\ owner[file[o]] = NoOp
    /\ owner' = [owner EXCEPT ![file[o]] = o]
    /\ UNCHANGED <<path, caller, file>>

LockSucceeds(o) ==
    /\ locker[o] = "locked"
    /\ Moves(o, "locking", "running")
    /\ UNCHANGED <<path, owner, locker, file>>

TimeOut(o) ==
    /\ Moves(o, "locking", "timedOut")
    /\ UNCHANGED <<path, owner, locker, file>>

KeepFile(o) == UNCHANGED <<owner, file>>

UnlockFile(o) ==
    /\ owner' = [i \in Ops |-> IF owner[i] = o THEN NoOp ELSE owner[i]]
    /\ file' = [file EXCEPT ![o] = NoOp]

\* The caller needs the mutex, which the goroutine holds until flock returns.
LockFails(o) ==
    /\ locker[o] \in {"locked", "failed"}
    /\ Moves(o, "timedOut", "failed")
    /\ UnlockFile(o)
    /\ UNCHANGED <<path, locker>>

\* Stop: os.Remove(i.lockFilePath()), whatever file is there now.
RemoveLockFile(o) ==
    /\ o \in Stops
    /\ Moves(o, "running", "removed")
    /\ path' = NoOp
    /\ UNCHANGED <<owner, locker, file>>

\* The deferred Unlock: close(lock.done).
Unlock(o) ==
    /\ Moves(o, IF o \in Stops THEN "removed" ELSE "running", "unlocked")
    /\ UNCHANGED <<path, owner, locker, file>>

ReleaseFile(o) ==
    /\ Moves(o, "unlocked", "released")
    /\ UnlockFile(o)
    /\ UNCHANGED <<path, locker>>

\* The process of the operation dies and the kernel closes its files.
Crash(o) ==
    /\ caller[o] \notin {"idle", "crashed"}
    /\ caller' = [caller EXCEPT ![o] = "crashed"]
    /\ locker' = [locker EXCEPT ![o] = "none"]
    /\ UnlockFile(o)
    /\ UNCHANGED path

LockStep(o) ==
    \/ OpenFile(o) \/ OpenFileFails(o)
    \/ LockSucceeds(o) \/ LockFails(o) \/ ReleaseFile(o)

RunStep(o) == RemoveLockFile(o) \/ Unlock(o)

Next ==
    \E o \in Ops :
        RefuseLock(o) \/ NewLock(o) \/ LockStep(o) \/ Flock(o) \/ TimeOut(o)
          \/ RunStep(o) \/ Crash(o)

Spec == Init /\ [][Next]_vars

(***************************************************************************)
(* The goroutines of a FileLock run; the timer fires; the kernel hands the *)
(* lock of an inode to the waiters in their order, so that nobody is       *)
(* overtaken for ever.  RunFairness says that operations end: the commands *)
(* they execute have timeouts of their own.                                *)
(***************************************************************************)
LockFairness ==
    \A o \in Ops : WF_vars(LockStep(o)) /\ SF_vars(Flock(o)) /\ WF_vars(TimeOut(o))

RunFairness == \A o \in Ops : WF_vars(RunStep(o))

FairSpec == Spec /\ LockFairness /\ RunFairness
-----------------------------------------------------------------------------
\* The operations at work.  A Stop that has removed the file has done its work.
Runners == {o \in Ops : caller[o] = "running"}

\* "The lock serializes operations within the same volume" (lockFilePath), and
\* Stop removes the file while it holds the lock "to avoid an unlink race".
Serialized == \A o, p \in Runners : o = p

\* Operations of one volume overlap only after a Stop has removed the lock file:
\* timeouts, failures and crashes of any of them never let two run at once.
OverlapOnlyAfterStop ==
    Serialized \/ \E s \in Stops : caller[s] \in {"removed", "unlocked", "released", "crashed"}

\* No finished, failed or crashed operation keeps the lock of an inode: whoever
\* holds one is in Lock, running, or about to have it released by the goroutine
\* that waits for lock.done.
NoLockLeaks ==
    \A i \in Ops : owner[i] # NoOp =>
        caller[owner[i]] \in {"locking", "timedOut", "running", "removed", "unlocked"}

\* Every call of newLock returns, with the lock or with an error, if operations
\* end: timeouts and crashes lose no wake-up.
LockReturns ==
    \A o \in Ops :
        caller[o] \in {"locking", "timedOut"} ~> caller[o] \notin {"locking", "timedOut"}
=============================================================================
