----------------------------- MODULE LvolStore ------------------------------
(***************************************************************************)
(* Disks, lvstores and lvols of an SPDK target (pkg/spdk/client/basic.go,  *)
(* advanced.go).  A disk becomes an AIO bdev, with an lvstore on it, with  *)
(* lvols in the lvstore.  The client has a wrapper for every command, and  *)
(* three operations that send several: AddDevice, DeleteDevice, and        *)
(* BdevLvolGetWithFilter, which lists the lvols and then asks for two      *)
(* xattrs and a checksum of each.  Between their commands come those of    *)
(* everybody else.                                                         *)
(***************************************************************************)
EXTENDS Integers, FiniteSets

CONSTANTS
    Disks,          \* a disk, the AIO bdev made of it, and the name given to its lvstore
    StoreIds,       \* UUIDs of lvstores
    Lvols,          \* UUIDs of lvols
    LvolNames,      \* their names in an lvstore
    Checksum,       \* the checksum of a snapshot's data
    None,           \* not a member of the others
    MaxCommands     \* commands of others during an operation

ASSUME LvolAssumption ==
    /\ None \notin Disks \cup StoreIds \cup Lvols \cup LvolNames \cup {Checksum}
    /\ MaxCommands \in Nat

VARIABLES
    aio,       \* disks that have an AIO bdev
    store,     \* [Disks -> the lvstore on the disk, or None]; loaded if the bdev is there
    lvol,      \* [Lvols -> the lvol, or None]
    op,        \* the operation that runs, its arguments
    pc,        \* its next command; "idle" without an operation
    todo,      \* lvols of the list that are still to be asked about
    current,   \* the lvol that is asked about, or None
    entries,   \* [Lvols -> what the list says of the lvol, or None]
    uuid,      \* what AddDevice returned
    history,   \* what was true during the operation
    commands   \* commands of others during the operation

target == <<aio, store, lvol>>
opVars == <<op, pc, todo, current, entries, uuid>>
vars == <<aio, store, lvol, op, pc, todo, current, entries, uuid, history, commands>>

Store == [uuid : StoreIds, name : Disks]

\* The name of the AIO bdev is the disk's; an lvstore can have another (BdevLvolRenameLvstore).
Lvol ==
    [disk : Disks, name : LvolNames, snapshot : BOOLEAN,
     user_created : {"true", "false", None}, snapshot_timestamp : {"time", None},
     checksum : {Checksum, None}]

Alias == Disks \X LvolNames

\* What the list says of an lvol, None where it was not asked yet.
Entry ==
    [snapshot : BOOLEAN, user_created : {"true", "false", None},
     snapshot_timestamp : {"time", "", None}, checksum : {Checksum, None}]

NoEntries == [l \in Lvols |-> None]

NoOp == [kind |-> "none"]

Operations ==
    [kind : {"AddDevice", "DeleteDevice"}, disk : Disks]
      \cup [kind : {"BdevLvolGet"}, name : {None} \cup Lvols \cup Alias]

ASSUME NoneAssumption == None \notin Store \cup Lvol \cup Entry

NoHistory ==
    [seen |-> [l \in Lvols |-> {}], stayed |-> {}, fault |-> FALSE]
-----------------------------------------------------------------------------
(***************************************************************************)
(* What the target shows.                                                  *)
(***************************************************************************)

Loaded == {d \in aio : store[d] # None}

Visible(lvols, disks) == {l \in Lvols : lvols[l] # None /\ lvols[l].disk \in disks}

Shown == Visible(lvol, aio)

AliasOf(l) == <<store[lvol[l].disk].name, lvol[l].name>>

\* bdev_get_bdevs and GetBdevType: the lvols with that UUID or alias, or all.
Named(name) == {l \in Shown : name \in {None, l, AliasOf(l)}}

\* What a list can say of an lvol: an xattr that is not there is shown as user_created =
\* true, and as no timestamp.
Shows(v) ==
    [snapshot |-> v.snapshot,
     user_created |-> IF v.user_created = None THEN "true" ELSE v.user_created,
     snapshot_timestamp |-> IF v.snapshot_timestamp = None THEN "" ELSE "time",
     checksum |-> v.checksum]
-----------------------------------------------------------------------------
Init ==
    /\ aio = {}
    /\ store = [d \in Disks |-> None]
    /\ lvol = [l \in Lvols |-> None]
    /\ op = NoOp
    /\ pc = "idle"
    /\ todo = {}
    /\ current = None
    /\ entries = NoEntries
    /\ uuid = None
    /\ history = NoHistory
    /\ commands = 0

\* A command carried out: the new state, and what a list that is being made could have seen
\* of it.  An lvol that goes takes its checksum with it.
Carry(newAio, newStore, newLvol) ==
    LET now == Visible(newLvol, newAio)
        New(l) == CASE l \in now          -> {Shows(newLvol[l])}
                    [] l \in Shown \ now  -> {[Shows(lvol[l]) EXCEPT !.checksum = None]}
                    [] OTHER              -> {}
    IN /\ aio' = newAio
       /\ store' = newStore
       /\ lvol' = newLvol
       /\ history' =
            [history EXCEPT
                !.seen = [l \in Lvols |-> IF @[l] = {} THEN {} ELSE @[l] \cup New(l)],
                !.stayed = @ \cap now]

BdevAioCreate(d) == d \notin aio /\ Carry(aio \cup {d}, store, lvol)

BdevAioDelete(d) == d \in aio /\ Carry(aio \ {d}, store, lvol)

\* Names of lvstores are unique among those that are loaded, UUIDs in the world.
BdevLvolCreateLvstore(d, name) ==
    /\ d \in aio /\ store[d] = None
    /\ \A e \in Loaded : store[e].name # name
    /\ \E u \in StoreIds \ ({uuid} \cup {store[e].uuid : e \in {f \in Disks : store[f] # None}}) :
            Carry(aio, [store EXCEPT ![d] = [uuid |-> u, name |-> name]], lvol)

\* With all its lvols.
BdevLvolDeleteLvstore(name) ==
    \E d \in Loaded :
        /\ store[d].name = name
        /\ Carry(aio, [store EXCEPT ![d] = None],
                 [l \in Lvols |-> IF lvol[l] # None /\ lvol[l].disk = d THEN None ELSE lvol[l]])

BdevLvolRenameLvstore(d, name) ==
    /\ d \in Loaded
    /\ \A e \in Loaded : store[e].name # name
    /\ Carry(aio, [store EXCEPT ![d].name = name], lvol)

\* A UUID that no list in the making has seen.
NewLvol(d, name, snapshot, userCreated, timestamp) ==
    /\ d \in Loaded
    /\ \A l \in Shown : lvol[l].disk = d => lvol[l].name # name
    /\ \E l \in Lvols :
        /\ lvol[l] = None /\ history.seen[l] = {}
        /\ Carry(aio, store,
                 [lvol EXCEPT ![l] = [disk |-> d, name |-> name, snapshot |-> snapshot,
                                      user_created |-> userCreated,
                                      snapshot_timestamp |-> timestamp, checksum |-> None]])

BdevLvolCreate(d, name) == NewLvol(d, name, FALSE, None, None)

\* The snapshot has its xattrs from the start.
BdevLvolSnapshot(l, name, userCreated, timestamp) ==
    /\ l \in Shown /\ ~lvol[l].snapshot
    /\ NewLvol(lvol[l].disk, name, TRUE, userCreated, timestamp)

BdevLvolClone(l, name) ==
    /\ l \in Shown /\ lvol[l].snapshot
    /\ NewLvol(lvol[l].disk, name, FALSE, None, None)

\* From a bdev that is no lvol of the lvstore.
BdevLvolCloneBdev(bdev, d, name) ==
    /\ bdev \in aio \ {d}
    /\ NewLvol(d, name, FALSE, None, None)

BdevLvolDelete(l) == l \in Shown /\ Carry(aio, store, [lvol EXCEPT ![l] = None])

BdevLvolRename(l, name) ==
    /\ l \in Shown
    /\ \A m \in Shown : lvol[m].disk = lvol[l].disk => lvol[m].name # name
    /\ Carry(aio, store, [lvol EXCEPT ![l].name = name])

BdevLvolSetXattr(l, value) ==
    /\ l \in Shown /\ lvol[l].user_created # value
    /\ Carry(aio, store, [lvol EXCEPT ![l].user_created = value])

\* BdevLvolRegisterRangeChecksums stores this checksum as well.
BdevLvolRegisterSnapshotChecksum(l) ==
    /\ l \in Shown /\ lvol[l].snapshot /\ lvol[l].checksum = None
    /\ Carry(aio, store, [lvol EXCEPT ![l].checksum = Checksum])

\* The lvstores stay on their disks.
TargetRestarts == aio # {} /\ Carry({}, store, lvol)
-----------------------------------------------------------------------------
(***************************************************************************)
(* The operations.                                                         *)
(***************************************************************************)

\* Operations start with their first command.
Begin(o) ==
    /\ pc = "idle"
    /\ op' = o
    /\ pc' = CASE o.kind = "AddDevice"    -> "aioCreate"
               [] o.kind = "DeleteDevice" -> "deleteLvstore"
               [] o.kind = "BdevLvolGet"  -> "getBdevs"
    /\ UNCHANGED <<aio, store, lvol, todo, current, entries, uuid, history>>

Goto(step) == pc' = step /\ UNCHANGED <<op, todo, current, entries, uuid>>

Fault == history' = [history EXCEPT !.fault = TRUE]

\* An lvol is left out of the list if a command about it fails.
SkipLvol ==
    /\ pc \in {"userCreated", "timestamp", "checksum"}
    /\ Fault
    /\ entries' = [entries EXCEPT ![current] = None]
    /\ pc' = "next"
    /\ UNCHANGED <<aio, store, lvol, op, todo, current, uuid>>

\* A command fails for a reason of its own, and the target has not carried it out.
CommandFails ==
    /\ pc \in {"aioCreate", "getLvstore", "createLvstore", "deleteLvstore", "aioDelete",
               "getBdevs", "userCreated", "timestamp", "checksum"}
    /\ Fault
    /\ Goto("error")
    /\ UNCHANGED target

\* A command of AddDevice or DeleteDevice: carried out, and answered or not.
Or(step) == Goto(step) \/ Goto("error")

AioCreate ==
    /\ pc = "aioCreate"
    /\ BdevAioCreate(op.disk)
    /\ Or("getLvstore")

\* By name, which AddDevice gives to bdev and lvstore.
LookupByName(d) ==
    LET named == {e \in Loaded : store[e].name = d}
    IN IF named = {} THEN None ELSE store[CHOOSE e \in named : TRUE].uuid

\* The lvstore whose base bdev is the disk's, not the one with its name.
Lookup(d) == IF d \in Loaded THEN store[d].uuid ELSE None

GetLvstore ==
    /\ pc = "getLvstore"
    /\ uuid' = Lookup(op.disk)
    /\ pc' = IF uuid' = None THEN "createLvstore" ELSE "done"
    /\ UNCHANGED <<aio, store, lvol, op, todo, current, entries, history>>

CreateLvstore ==
    /\ pc = "createLvstore"
    /\ BdevLvolCreateLvstore(op.disk, op.disk)
    /\ \/ pc' = "done" /\ uuid' = store'[op.disk].uuid
       \/ pc' = "error" /\ UNCHANGED uuid
    /\ UNCHANGED <<op, todo, current, entries>>

\* DeleteDevice has the names that AddDevice returned: the same for both.
DeleteLvstore ==
    /\ pc = "deleteLvstore"
    /\ BdevLvolDeleteLvstore(op.disk)
    /\ Or("aioDelete")

AioDelete ==
    /\ pc = "aioDelete"
    /\ BdevAioDelete(op.disk)
    /\ Or("done")

\* The target refuses what it cannot do.
Refused ==
    /\ \/ pc = "aioCreate" /\ op.disk \in aio
       \/ pc = "createLvstore" /\ \/ op.disk \notin aio \/ store[op.disk] # None
                                  \/ \E d \in Loaded : store[d].name = op.disk
       \/ pc = "deleteLvstore" /\ \A d \in Loaded : store[d].name # op.disk
       \/ pc = "aioDelete" /\ op.disk \notin aio
       \/ pc = "getBdevs" /\ op.name # None /\ Named(op.name) = {}
       \/ pc \in {"userCreated", "timestamp"} /\ current \notin Shown
    /\ Goto("error")
    /\ UNCHANGED <<aio, store, lvol, history>>

GetBdevs ==
    /\ pc = "getBdevs"
    /\ op.name = None \/ Named(op.name) # {}
    /\ LET listed == Named(op.name)
       IN /\ todo' = listed
          /\ entries' =
               [l \in Lvols |->
                    IF l \in listed
                    THEN [snapshot |-> lvol[l].snapshot, user_created |-> None,
                          snapshot_timestamp |-> None, checksum |-> None]
                    ELSE None]
          /\ history' =
               [history EXCEPT
                    !.seen = [l \in Lvols |-> IF l \in listed THEN {Shows(lvol[l])} ELSE {}],
                    !.stayed = listed]
    /\ pc' = "next"
    /\ UNCHANGED <<aio, store, lvol, op, current, uuid>>

NextLvol ==
    /\ pc = "next"
    /\ \/ \E l \in todo : current' = l /\ todo' = todo \ {l} /\ pc' = "userCreated"
       \/ todo = {} /\ current' = None /\ pc' = "done" /\ UNCHANGED todo
    /\ UNCHANGED <<aio, store, lvol, op, entries, uuid, history>>

\* Who answers to the name that was asked for.
ReachedByName ==
    IF op.name = None THEN {current} \cap Shown ELSE Named(op.name)

\* The lvol that a command about the current one reaches: b.Name is its UUID.
Reached == {current} \cap Shown

\* One value of the current entry.
Learn(entry, step) ==
    /\ entries' = [entries EXCEPT ![current] = entry]
    /\ pc' = step
    /\ UNCHANGED <<aio, store, lvol, op, todo, current, uuid, history>>

GetUserCreated ==
    /\ pc = "userCreated"
    /\ \E l \in Reached :
            Learn([entries[current] EXCEPT !.user_created = Shows(lvol[l]).user_created],
                  "timestamp")

AfterTimestamp == IF entries[current].snapshot THEN "checksum" ELSE "next"

\* An lvol without the xattr is an error.
RequireTimestamp ==
    /\ pc = "timestamp"
    /\ \E l \in Reached :
            IF lvol[l].snapshot_timestamp = None
            THEN Goto("error") /\ UNCHANGED <<aio, store, lvol, history>>
            ELSE Learn([entries[current] EXCEPT !.snapshot_timestamp = "time"], AfterTimestamp)

GetTimestamp ==
    /\ pc = "timestamp"
    /\ \E l \in Reached :
            Learn([entries[current] EXCEPT
                        !.snapshot_timestamp = Shows(lvol[l]).snapshot_timestamp],
                  AfterTimestamp)

\* No such device: the checksum is not registered, or the snapshot is gone.
GetChecksum ==
    /\ pc = "checksum"
    /\ \/ \E l \in Reached : Learn([entries[current] EXCEPT !.checksum = lvol[l].checksum], "next")
       \/ Reached = {} /\ Learn(entries[current], "next")

Finish ==
    /\ pc \in {"done", "error"}
    /\ op' = NoOp
    /\ pc' = "idle"
    /\ todo' = {}
    /\ current' = None
    /\ entries' = NoEntries
    /\ uuid' = None
    /\ history' = NoHistory
    /\ commands' = 0
    /\ UNCHANGED target
-----------------------------------------------------------------------------
(***************************************************************************)
(* Everybody else: the same commands, and the target itself.               *)
(***************************************************************************)

OthersCommand ==
    \/ \E d \in Disks : BdevAioCreate(d) \/ BdevAioDelete(d)
    \/ \E d, name \in Disks :
            BdevLvolCreateLvstore(d, name) \/ BdevLvolRenameLvstore(d, name)
    \/ \E name \in Disks : BdevLvolDeleteLvstore(name)
    \/ \E d \in Disks, name \in LvolNames : BdevLvolCreate(d, name)
    \/ \E bdev, d \in Disks, name \in LvolNames : BdevLvolCloneBdev(bdev, d, name)
    \/ \E l \in Lvols, name \in LvolNames :
            BdevLvolClone(l, name) \/ BdevLvolRename(l, name)
    \/ \E l \in Lvols, name \in LvolNames, v \in {"true", "false"} :
            BdevLvolSnapshot(l, name, v, "time")
    \/ \E l \in Lvols, v \in {"true", "false"} : BdevLvolSetXattr(l, v)
    \/ \E l \in Lvols : BdevLvolDelete(l) \/ BdevLvolRegisterSnapshotChecksum(l)
    \/ TargetRestarts

OthersStep ==
    /\ pc \notin {"done", "error"}
    /\ OthersCommand
    /\ IF pc = "idle" THEN UNCHANGED commands
       ELSE commands < MaxCommands /\ commands' = commands + 1
    /\ UNCHANGED opVars

OperationStep ==
    /\ \/ \E o \in Operations : Begin(o)
       \/ CommandFails \/ Refused
       \/ AioCreate \/ GetLvstore \/ CreateLvstore
       \/ DeleteLvstore \/ AioDelete
       \/ GetBdevs \/ NextLvol \/ GetUserCreated \/ GetTimestamp \/ GetChecksum
    /\ UNCHANGED commands

Next == OperationStep \/ Finish \/ OthersStep

Spec == Init /\ [][Next]_vars
-----------------------------------------------------------------------------
TypeOK ==
    /\ aio \subseteq Disks
    /\ store \in [Disks -> Store \cup {None}]
    /\ lvol \in [Lvols -> Lvol \cup {None}]
    /\ op \in Operations \cup {NoOp}
    /\ todo \subseteq Lvols
    /\ current \in Lvols \cup {None}
    /\ entries \in [Lvols -> Entry \cup {None}]
    /\ uuid \in StoreIds \cup {None}

Listed == op.kind = "BdevLvolGet" /\ pc = "done"

\* Every value in a list that BdevLvolGetWithFilter returns was the value of that lvol, not
\* of another one that took over its name, at some time during the call: a snapshot that
\* the system has made is never shown as made by a user because of an error.
ListTellsTheTruth ==
    Listed =>
        \A l \in Lvols : entries[l] # None =>
            \A x \in {"snapshot", "user_created", "snapshot_timestamp", "checksum"} :
                \E s \in history.seen[l] : entries[l][x] = s[x]

\* An lvol that was there, under the name that was asked for, and stayed, is in the list.
ListIsComplete == Listed => \A l \in history.stayed : entries[l] # None

\* The list fails only if an lvol of it went away, or a command failed for a reason of its
\* own, or there was nothing with the name.
ListFailsForCause ==
    op.kind = "BdevLvolGet" /\ pc = "error" /\ ~history.fault =>
        \/ \A l \in Lvols : history.seen[l] = {}
        \/ \E l \in Lvols \ history.stayed : history.seen[l] # {}

\* The UUID that AddDevice returns is not that of an lvstore on another disk, whatever the
\* names of the lvstores.
AddedStoreIsOwn ==
    uuid # None => \A d \in Disks \ {op.disk} : store[d] = None \/ store[d].uuid # uuid
=============================================================================
