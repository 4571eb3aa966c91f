-------------------------- MODULE LvolStoreProofs ---------------------------
(***************************************************************************)
(* What LvolStore promises of lists and of AddDevice, for any disks, lvols *)
(* and names and any number of commands in between.                        *)
(*                                                                         *)
(* Every command, of whomever, is Carry of a new state; what is needed of  *)
(* that state is collected in CommandCarries.  While a list is made, the   *)
(* history holds what each of its lvols shows now (SeenNow), so that a     *)
(* value just read, or that is not there, is one that was true (ListInv).  *)
(***************************************************************************)
EXTENDS LvolStore, TLAPS

Stores == [Disks -> Store \cup {None}]
LvolTable == [Lvols -> Lvol \cup {None}]

Asking == {"userCreated", "timestamp", "checksum"}
Listing == Asking \cup {"next"}

Histories == [seen : [Lvols -> SUBSET Entry], stayed : SUBSET Lvols, fault : BOOLEAN]

TypeInv ==
    /\ TypeOK
    /\ pc \in Listing \cup {"idle", "aioCreate", "getLvstore", "createLvstore",
                            "deleteLvstore", "aioDelete", "getBdevs", "done", "error"}
    /\ history \in Histories

\* Only snapshots have a checksum.
Sound(lvols) ==
    \A l \in Lvols : lvols[l] # None /\ ~lvols[l].snapshot => lvols[l].checksum = None

\* No two lvstores have the same UUID, ...
Unique(stores) ==
    \A d, e \in Disks :
        d # e /\ stores[d] # None /\ stores[e] # None => stores[d].uuid # stores[e].uuid

\* ... and none on another disk has the one that was returned.
Own(stores) ==
    uuid # None => \A d \in Disks \ {op.disk} : stores[d] = None \/ stores[d].uuid # uuid

\* What is shown now has been seen, in particular that there is no checksum.
SeenNow ==
    /\ history.stayed \subseteq Shown
    /\ \A l \in Lvols : history.seen[l] # {} =>
        /\ l \in Shown => Shows(lvol[l]) \in history.seen[l]
        /\ l \notin Shown => \E s \in history.seen[l] : s.checksum = None

TargetInv == Sound(lvol) /\ Unique(store) /\ Own(store) /\ SeenNow

\* Commands belong to their operations, and before the list nothing has been seen.
OpInv ==
    /\ pc = "idle" => uuid = None
    /\ pc \in {"aioCreate", "getLvstore", "createLvstore"} => op.kind = "AddDevice"
    /\ pc \in {"deleteLvstore", "aioDelete"} => op.kind = "DeleteDevice"
    /\ pc \in {"getBdevs"} \cup Listing => op.kind = "BdevLvolGet"
    /\ pc \in {"idle", "getBdevs"} => \A l \in Lvols : history.seen[l] = {}

Fields == {"snapshot", "user_created", "snapshot_timestamp", "checksum"}

\* The fields of an entry that have been asked for.
Asked(l) ==
    CASE l \in todo \/ (l = current /\ pc = "userCreated") -> {"snapshot"}
      [] l \notin todo /\ l = current /\ pc = "timestamp" -> {"snapshot", "user_created"}
      [] l \notin todo /\ l = current /\ pc = "checksum" -> Fields \ {"checksum"}
      [] OTHER -> Fields

WasTrue(l, x) == \E s \in history.seen[l] : entries[l][x] = s[x]

EntryOK(l) ==
    /\ history.seen[l] # {}
    /\ \A x \in Asked(l) : WasTrue(l, x)
    /\ "checksum" \notin Asked(l) =>
        /\ entries[l].checksum = None
        /\ ~entries[l].snapshot => \E s \in history.seen[l] : s.checksum = None

InList == op.kind = "BdevLvolGet" /\ pc \in Listing \cup {"done"}

ListInv ==
    /\ InList => /\ \A l \in Lvols : entries[l] # None => EntryOK(l)
                 /\ \A l \in history.stayed \cup todo : entries[l] # None
                 /\ pc = "done" => todo = {}
    /\ pc \in Asking => current \in Lvols \ todo /\ entries[current] # None
    /\ pc = "checksum" => entries[current].snapshot

Inv == TypeInv /\ TargetInv /\ OpInv /\ ListInv /\ ListFailsForCause
-----------------------------------------------------------------------------
(***************************************************************************)
(* Commands.                                                               *)
(***************************************************************************)

\* The state that a command makes.
Carries(a, s, v) ==
    /\ Carry(a, s, v)
    /\ a \in SUBSET Disks /\ s \in Stores /\ v \in LvolTable
    /\ Sound(v) /\ Unique(s) /\ Own(s)

LEMMA NewLvolCarries ==
    ASSUME TypeInv, TargetInv, NEW d \in Disks, NEW name \in LvolNames, NEW b \in BOOLEAN,
           NEW u \in {"true", "false", None}, NEW t \in {"time", None}, NewLvol(d, name, b, u, t)
    PROVE  \E v \in LvolTable : Carries(aio, store, v)
<1>1. PICK l \in Lvols :
        Carry(aio, store, [lvol EXCEPT ![l] = [disk |-> d, name |-> name, snapshot |-> b,
                                   user_created |-> u, snapshot_timestamp |-> t,
                                   checksum |-> None]])
  BY DEF NewLvol
<1> DEFINE w == [disk |-> d, name |-> name, snapshot |-> b, user_created |-> u,
                 snapshot_timestamp |-> t, checksum |-> None]
           v == [lvol EXCEPT ![l] = w]
<1>2. w \in Lvol /\ w.checksum = None
  BY DEF Lvol
<1>3. v \in LvolTable /\ \A k \in Lvols : v[k] = IF k = l THEN w ELSE lvol[k]
  BY <1>2 DEF TypeInv, TypeOK, LvolTable
<1>4. Sound(v)
  BY <1>2, <1>3 DEF TargetInv, Sound
<1>5. QED
  BY <1>1, <1>3, <1>4 DEF Carries, TypeInv, TypeOK, TargetInv, Stores

LEMMA NewLvolsCarry ==
    ASSUME TypeInv, TargetInv,
           \/ \E d \in Disks, name \in LvolNames : BdevLvolCreate(d, name)
           \/ \E bdev, d \in Disks, name \in LvolNames : BdevLvolCloneBdev(bdev, d, name)
           \/ \E l \in Lvols, name \in LvolNames : BdevLvolClone(l, name)
           \/ \E l \in Lvols, name \in LvolNames, u \in {"true", "false"} :
                BdevLvolSnapshot(l, name, u, "time")
    PROVE  \E v \in LvolTable : Carries(aio, store, v)
<1>1. ASSUME NEW d \in Disks, NEW name \in LvolNames, BdevLvolCreate(d, name)
      PROVE  \E v \in LvolTable : Carries(aio, store, v)
  <2>1. NewLvol(d, name, FALSE, None, None)
    BY <1>1 DEF BdevLvolCreate
  <2>2. QED
    BY <2>1, NewLvolCarries
<1>2. ASSUME NEW bdev \in Disks, NEW d \in Disks, NEW name \in LvolNames,
             BdevLvolCloneBdev(bdev, d, name)
      PROVE  \E v \in LvolTable : Carries(aio, store, v)
  <2>1. NewLvol(d, name, FALSE, None, None)
    BY <1>2 DEF BdevLvolCloneBdev
  <2>2. QED
    BY <2>1, NewLvolCarries
<1>3. ASSUME NEW l \in Lvols, NEW name \in LvolNames, BdevLvolClone(l, name)
      PROVE  \E v \in LvolTable : Carries(aio, store, v)
  <2>1. lvol[l].disk \in Disks
    BY <1>3 DEF BdevLvolClone, Shown, Visible, TypeInv, TypeOK, Lvol
  <2>2. NewLvol(lvol[l].disk, name, FALSE, None, None)
    BY <1>3 DEF BdevLvolClone
  <2>3. QED
    BY <2>1, <2>2, NewLvolCarries
<1>4. ASSUME NEW l \in Lvols, NEW name \in LvolNames, NEW u \in {"true", "false"},
             BdevLvolSnapshot(l, name, u, "time")
      PROVE  \E v \in LvolTable : Carries(aio, store, v)
  <2>1. lvol[l].disk \in Disks
    BY <1>4 DEF BdevLvolSnapshot, Shown, Visible, TypeInv, TypeOK, Lvol
  <2>2. NewLvol(lvol[l].disk, name, TRUE, u, "time")
    BY <1>4 DEF BdevLvolSnapshot
  <2>3. QED
    BY <2>1, <2>2, NewLvolCarries
<1>5. QED
  BY <1>1, <1>2, <1>3, <1>4

\* Commands on one lvol change it, or remove it.
LEMMA LvolChanges ==
    ASSUME TypeInv, TargetInv, NEW l \in Lvols, NEW w \in Lvol \cup {None},
           w # None /\ ~w.snapshot => w.checksum = None,
           Carry(aio, store, [lvol EXCEPT ![l] = w])
    PROVE  \E v \in LvolTable : Carries(aio, store, v)
<1> DEFINE v == [lvol EXCEPT ![l] = w]
<1>1. v \in LvolTable /\ \A k \in Lvols : v[k] = IF k = l THEN w ELSE lvol[k]
  BY DEF TypeInv, TypeOK, LvolTable
<1>2. Sound(v)
  BY <1>1 DEF TargetInv, Sound
<1>3. QED
  BY <1>1, <1>2 DEF Carries, TypeInv, TypeOK, TargetInv, Stores

LEMMA LvolCommandsCarry ==
    ASSUME TypeInv, TargetInv, NEW l \in Lvols,
           \/ \E name \in LvolNames : BdevLvolRename(l, name)
           \/ \E u \in {"true", "false"} : BdevLvolSetXattr(l, u)
           \/ BdevLvolDelete(l) \/ BdevLvolRegisterSnapshotChecksum(l)
    PROVE  \E v \in LvolTable : Carries(aio, store, v)
<1>1. CASE BdevLvolDelete(l)
  BY <1>1, LvolChanges DEF BdevLvolDelete
<1>2. ASSUME ~BdevLvolDelete(l) PROVE l \in Shown
  BY <1>2 DEF BdevLvolRename, BdevLvolSetXattr, BdevLvolRegisterSnapshotChecksum
<1>3. ASSUME l \in Shown
      PROVE  /\ lvol[l] \in Lvol /\ lvol[l] # None
             /\ ~lvol[l].snapshot => lvol[l].checksum = None
  BY <1>3 DEF Shown, Visible, TypeInv, TypeOK, TargetInv, Sound
<1>4. ASSUME NEW name \in LvolNames, BdevLvolRename(l, name)
      PROVE  \E v \in LvolTable : Carries(aio, store, v)
  <2> DEFINE w == [lvol[l] EXCEPT !.name = name]
  <2>1. l \in Shown /\ Carry(aio, store, [lvol EXCEPT ![l] = w])
    BY <1>4 DEF BdevLvolRename
  <2>2. w \in Lvol /\ w.snapshot = lvol[l].snapshot /\ w.checksum = lvol[l].checksum
    BY <1>3, <2>1 DEF Lvol
  <2>3. QED
    BY <1>3, <2>1, <2>2, LvolChanges
<1>5. ASSUME NEW u \in {"true", "false"}, BdevLvolSetXattr(l, u)
      PROVE  \E v \in LvolTable : Carries(aio, store, v)
  <2> DEFINE w == [lvol[l] EXCEPT !.user_created = u]
  <2>1. l \in Shown /\ Carry(aio, store, [lvol EXCEPT ![l] = w])
    BY <1>5 DEF BdevLvolSetXattr
  <2>2. w \in Lvol /\ w.snapshot = lvol[l].snapshot /\ w.checksum = lvol[l].checksum
    BY <1>3, <2>1 DEF Lvol
  <2>3. QED
    BY <1>3, <2>1, <2>2, LvolChanges
<1>6. ASSUME BdevLvolRegisterSnapshotChecksum(l)
      PROVE  \E v \in LvolTable : Carries(aio, store, v)
  <2> DEFINE w == [lvol[l] EXCEPT !.checksum = Checksum]
  <2>1. l \in Shown /\ lvol[l].snapshot /\ Carry(aio, store, [lvol EXCEPT ![l] = w])
    BY <1>6 DEF BdevLvolRegisterSnapshotChecksum
  <2>2. w \in Lvol /\ w.snapshot
    BY <1>3, <2>1 DEF Lvol
  <2>3. QED
    BY <2>1, <2>2, LvolChanges
<1>7. QED
  BY <1>1, <1>4, <1>5, <1>6

\* Commands on disks and lvstores.
LEMMA StoreCommandsCarry ==
    ASSUME TypeInv, TargetInv, NEW d \in Disks, NEW name \in Disks,
           \/ BdevAioCreate(d) \/ BdevAioDelete(d)
           \/ BdevLvolCreateLvstore(d, name) \/ BdevLvolRenameLvstore(d, name)
           \/ BdevLvolDeleteLvstore(name) \/ TargetRestarts
    PROVE  \E a \in SUBSET Disks, s \in Stores, v \in LvolTable : Carries(a, s, v)
<1> USE DEF TypeInv, TypeOK, Stores, LvolTable
<1>1. CASE BdevAioCreate(d) \/ BdevAioDelete(d) \/ TargetRestarts
  <2>1. PICK a \in SUBSET Disks : Carry(a, store, lvol)
    BY <1>1 DEF BdevAioCreate, BdevAioDelete, TargetRestarts
  <2>2. QED
    BY <2>1 DEF Carries, TargetInv
<1>2. CASE BdevLvolCreateLvstore(d, name)
  <2>1. PICK u \in StoreIds \ ({uuid} \cup {store[e].uuid : e \in {f \in Disks : store[f] # None}}) :
            Carry(aio, [store EXCEPT ![d] = [uuid |-> u, name |-> name]], lvol)
    BY <1>2 DEF BdevLvolCreateLvstore
  <2> DEFINE s == [store EXCEPT ![d] = [uuid |-> u, name |-> name]]
  <2>2. /\ s \in Stores
        /\ \A e \in Disks : s[e] = IF e = d THEN [uuid |-> u, name |-> name] ELSE store[e]
    BY DEF Store
  <2>3. u # uuid /\ \A e \in Disks : store[e] # None => store[e].uuid # u
    BY <2>1
  <2>4. Unique(s)
    BY <2>2, <2>3 DEF Unique, TargetInv
  <2>5. Own(s)
    BY <2>2, <2>3 DEF Own, TargetInv
  <2>6. QED
    BY <2>1, <2>2, <2>4, <2>5 DEF Carries, TargetInv
<1>3. CASE BdevLvolRenameLvstore(d, name)
  <2> DEFINE w == [store[d] EXCEPT !.name = name]
             s == [store EXCEPT ![d] = w]
  <2>1. store[d] \in Store /\ store[d] # None /\ Carry(aio, s, lvol)
    BY <1>3 DEF BdevLvolRenameLvstore, Loaded
  <2>2. w \in Store /\ w.uuid = store[d].uuid
    BY <2>1 DEF Store
  <2>3. s \in Stores /\ \A e \in Disks : s[e] = IF e = d THEN w ELSE store[e]
    BY <2>2
  <2>4. Unique(s)
    BY <2>1, <2>2, <2>3 DEF Unique, TargetInv
  <2>5. Own(s)
    BY <2>1, <2>2, <2>3 DEF Own, TargetInv
  <2>6. QED
    BY <2>1, <2>3, <2>4, <2>5 DEF Carries, TargetInv
<1>4. CASE BdevLvolDeleteLvstore(name)
  <2>1. PICK e \in Loaded :
            Carry(aio, [store EXCEPT ![e] = None],
                  [l \in Lvols |-> IF lvol[l] # None /\ lvol[l].disk = e THEN None ELSE lvol[l]])
    BY <1>4 DEF BdevLvolDeleteLvstore
  <2> DEFINE s == [store EXCEPT ![e] = None]
             v == [l \in Lvols |-> IF lvol[l] # None /\ lvol[l].disk = e THEN None ELSE lvol[l]]
  <2>2. s \in Stores /\ \A f \in Disks : s[f] \in {None, store[f]}
    OBVIOUS
  <2>3. v \in LvolTable /\ \A l \in Lvols : v[l] \in {None, lvol[l]}
    OBVIOUS
  <2>4. Unique(s) /\ Own(s)
    BY <2>2 DEF Unique, Own, TargetInv
  <2>5. Sound(v)
    BY <2>3 DEF Sound, TargetInv
  <2>6. QED
    BY <2>1, <2>2, <2>3, <2>4, <2>5 DEF Carries
<1>5. QED
  BY <1>1, <1>2, <1>3, <1>4

LEMMA CommandCarries ==
    ASSUME TypeInv, TargetInv, OthersCommand
    PROVE  \E a \in SUBSET Disks, s \in Stores, v \in LvolTable : Carries(a, s, v)
<1>1. aio \in SUBSET Disks /\ store \in Stores
  BY DEF TypeInv, TypeOK, Stores
<1>2. CASE \E v \in LvolTable : Carries(aio, store, v)
  BY <1>1, <1>2
<1>3. CASE TargetRestarts
  <2>1. \E d \in Disks : TRUE
    BY <1>3 DEF TargetRestarts, TypeInv, TypeOK
  <2>2. QED
    BY <1>3, <2>1, StoreCommandsCarry
<1>4. QED
  BY <1>2, <1>3, StoreCommandsCarry, NewLvolsCarry, LvolCommandsCarry DEF OthersCommand
-----------------------------------------------------------------------------
(***************************************************************************)
(* What a command leaves true.                                             *)
(***************************************************************************)

LEMMA ShowsTyped ==
    ASSUME NEW w \in Lvol
    PROVE  Shows(w) \in Entry /\ [Shows(w) EXCEPT !.checksum = None] \in Entry
BY DEF Lvol, Entry, Shows

LEMMA CarriesTarget ==
    ASSUME TypeInv, TargetInv, NEW a, NEW s, NEW v, Carries(a, s, v)
    PROVE  /\ aio' \subseteq Disks /\ store' \in Stores /\ lvol' \in LvolTable
           /\ history' \in Histories
           /\ Sound(lvol') /\ Unique(store') /\ Own(store') /\ SeenNow'
           /\ history'.stayed \subseteq history.stayed
           /\ \A l \in Lvols : /\ history.seen[l] \subseteq history'.seen[l]
                               /\ history.seen[l] = {} => history'.seen[l] = {}
<1> DEFINE now == Visible(v, a)
           New(l) == CASE l \in now         -> {Shows(v[l])}
                       [] l \in Shown \ now -> {[Shows(lvol[l]) EXCEPT !.checksum = None]}
                       [] OTHER             -> {}
<1>1. /\ aio' = a /\ store' = s /\ lvol' = v
      /\ a \subseteq Disks /\ s \in Stores /\ v \in LvolTable
      /\ Sound(v) /\ Unique(s) /\ Own(s)
  BY DEF Carries, Carry
<1>2. history' = [history EXCEPT
                    !.seen = [l \in Lvols |-> IF @[l] = {} THEN {} ELSE @[l] \cup New(l)],
                    !.stayed = @ \cap now]
  BY DEF Carries, Carry
<1>3. history \in Histories
  BY DEF TypeInv
<1>4. \A l \in Lvols : New(l) \subseteq Entry
  <2>1. \A l \in now : v[l] \in Lvol
    BY <1>1 DEF Visible, LvolTable
  <2>2. \A l \in Shown : lvol[l] \in Lvol
    BY DEF Shown, Visible, TypeInv, TypeOK
  <2> HIDE DEF now
  <2>3. QED
    BY <2>1, <2>2, ShowsTyped
<1>5. Shown' = now
  BY <1>1 DEF Shown, Visible
<1>6. now \subseteq Lvols
  BY DEF Visible
<1>7. /\ history'.stayed = history.stayed \cap now
      /\ \A l \in Lvols :
            history'.seen[l] = IF history.seen[l] = {} THEN {} ELSE history.seen[l] \cup New(l)
  <2> HIDE DEF New, now
  <2> QED
    BY <1>2, <1>3 DEF Histories
<1>8. history' \in Histories
  <2> HIDE DEF New, now
  <2> QED
    BY <1>2, <1>3, <1>4 DEF Histories
<1>9. SeenNow'
  <2>1. history'.stayed \subseteq Shown'
    BY <1>5, <1>7
  <2>2. ASSUME NEW l \in Lvols, history'.seen[l] # {}
        PROVE  /\ l \in Shown' => Shows(lvol'[l]) \in history'.seen[l]
               /\ l \notin Shown' => \E t \in history'.seen[l] : t.checksum = None
    <3>1. history.seen[l] # {} /\ history'.seen[l] = history.seen[l] \cup New(l)
      BY <1>7, <2>2
    <3>2. CASE l \in now
      BY <1>1, <1>5, <3>1, <3>2
    <3>3. CASE l \in Shown \ now
      <4>1. Shows(lvol[l]) \in Entry
        BY <3>3, ShowsTyped DEF Shown, Visible, TypeInv, TypeOK
      <4>2. [Shows(lvol[l]) EXCEPT !.checksum = None].checksum = None
        BY <4>1 DEF Entry
      <4>3. [Shows(lvol[l]) EXCEPT !.checksum = None] \in New(l)
        BY <3>3
      <4> HIDE DEF New, now
      <4> QED
        BY <1>5, <3>1, <3>3, <4>2, <4>3
    <3>4. CASE l \notin Shown \cup now
      <4> HIDE DEF New, now
      <4> QED
        BY <1>5, <3>1, <3>4 DEF TargetInv, SeenNow
    <3>5. QED
      BY <3>2, <3>3, <3>4
  <2>3. QED
    BY <2>1, <2>2 DEF SeenNow, Shown, Visible
<1> HIDE DEF New, now
<1>10. QED
  BY <1>1, <1>7, <1>8, <1>9

\* A command of somebody else.
LEMMA OthersCarry ==
    ASSUME Inv, NEW a, NEW s, NEW v, Carries(a, s, v),
           UNCHANGED opVars, pc \notin {"done", "error"}
    PROVE  Inv'
<1>1. TypeInv /\ TargetInv
  BY DEF Inv
<1>2. /\ aio' \subseteq Disks /\ store' \in Stores /\ lvol' \in LvolTable
      /\ history' \in Histories
      /\ Sound(lvol') /\ Unique(store') /\ Own(store') /\ SeenNow'
  BY <1>1, CarriesTarget
<1>3. /\ history'.stayed \subseteq history.stayed
      /\ \A l \in Lvols : /\ history.seen[l] \subseteq history'.seen[l]
                          /\ history.seen[l] = {} => history'.seen[l] = {}
  BY <1>1, CarriesTarget
<1>4. /\ op' = op /\ pc' = pc /\ todo' = todo /\ current' = current
      /\ entries' = entries /\ uuid' = uuid
  BY DEF opVars
<1>5. TypeInv'
  BY <1>1, <1>2, <1>4 DEF TypeInv, TypeOK, Stores, LvolTable
<1>6. TargetInv'
  BY <1>2, <1>4 DEF TargetInv, Own, Sound, Unique
<1>7. OpInv'
  BY <1>3, <1>4 DEF Inv, OpInv
<1>8. ListInv'
  <2>1. ASSUME NEW l \in Lvols, EntryOK(l) PROVE EntryOK(l)'
    <3>1. Asked(l)' = Asked(l)
      BY <1>4 DEF Asked
    <3>2. history'.seen[l] # {} /\ \A x \in Asked(l) : WasTrue(l, x)'
      BY <1>3, <1>4, <2>1 DEF EntryOK, WasTrue
    <3>3. "checksum" \notin Asked(l) =>
            /\ entries'[l].checksum = None
            /\ ~entries'[l].snapshot => \E t \in history'.seen[l] : t.checksum = None
      BY <1>3, <1>4, <2>1 DEF EntryOK
    <3>4. QED
      BY <3>1, <3>2, <3>3 DEF EntryOK
  <2>2. InList' <=> InList
    BY <1>4 DEF InList
  <2>3. InList' => \A l \in Lvols : entries'[l] # None => EntryOK(l)'
    BY <1>4, <2>1, <2>2 DEF Inv, ListInv
  <2>4. InList' => \A l \in history'.stayed \cup todo' : entries'[l] # None
    BY <1>3, <1>4, <2>2 DEF Inv, ListInv
  <2>5. QED
    BY <1>4, <2>2, <2>3, <2>4 DEF Inv, ListInv
<1>9. ListFailsForCause'
  BY <1>4 DEF ListFailsForCause
<1>10. QED
  BY <1>5, <1>6, <1>7, <1>8, <1>9 DEF Inv

\* A command of AddDevice or DeleteDevice.
LEMMA OwnCarry ==
    ASSUME Inv, NEW a, NEW s, NEW v, Carries(a, s, v),
           op.kind \in {"AddDevice", "DeleteDevice"}, UNCHANGED <<op, todo, current, entries>>,
           uuid' \in StoreIds \cup {None}, Own(store)',
           \/ op.kind = "AddDevice" /\ pc' \in {"getLvstore", "createLvstore"}
           \/ op.kind = "DeleteDevice" /\ pc' = "aioDelete"
           \/ pc' \in {"done", "error"}
    PROVE  Inv'
<1>1. TypeInv /\ TargetInv
  BY DEF Inv
<1>2. /\ aio' \subseteq Disks /\ store' \in Stores /\ lvol' \in LvolTable
      /\ history' \in Histories
      /\ Sound(lvol') /\ Unique(store') /\ SeenNow'
  BY <1>1, CarriesTarget
<1>3. TypeInv'
  BY <1>1, <1>2 DEF TypeInv, TypeOK, Stores, LvolTable, Listing, Asking
<1>4. TargetInv'
  BY <1>2 DEF TargetInv, Sound, Unique
<1>5. OpInv'
  BY DEF OpInv, Listing, Asking
<1>6. ListInv' /\ ListFailsForCause'
  BY DEF ListInv, InList, ListFailsForCause, Asking
<1>7. QED
  BY <1>3, <1>4, <1>5, <1>6 DEF Inv
-----------------------------------------------------------------------------
(***************************************************************************)
(* The steps of an operation.                                              *)
(***************************************************************************)

LEMMA InitInv == Init => Inv
<1> SUFFICES ASSUME Init PROVE Inv
  OBVIOUS
<1>1. TypeInv
  BY DEF Init, TypeInv, TypeOK, NoHistory, NoEntries, Histories, NoOp
<1>2. TargetInv
  BY DEF Init, TargetInv, Sound, Unique, Own, SeenNow, NoHistory
<1>3. OpInv /\ ListInv /\ ListFailsForCause
  BY DEF Init, OpInv, ListInv, InList, ListFailsForCause, NoHistory, NoOp, Listing, Asking
<1>4. QED
  BY <1>1, <1>2, <1>3 DEF Inv

LEMMA BeginKeeps ==
    ASSUME Inv, NEW o \in Operations, Begin(o)
    PROVE  Inv'
<1>1. /\ pc = "idle" /\ op' = o /\ uuid' = uuid /\ uuid = None
      /\ \A l \in Lvols : history.seen[l] = {}
  BY DEF Begin, Inv, OpInv
<1>2. \/ o.kind = "AddDevice" /\ pc' = "aioCreate"
      \/ o.kind = "DeleteDevice" /\ pc' = "deleteLvstore"
      \/ o.kind = "BdevLvolGet" /\ pc' = "getBdevs"
  BY DEF Begin, Operations
<1>3. TypeInv'
  BY <1>1, <1>2 DEF Begin, Inv, TypeInv, TypeOK
<1>4. TargetInv'
  BY <1>1 DEF Begin, Inv, TargetInv, Sound, Unique, Own, SeenNow, Shown, Visible
<1>5. OpInv'
  BY <1>1, <1>2 DEF Begin, OpInv, Listing, Asking
<1>6. ListInv' /\ ListFailsForCause'
  BY <1>1, <1>2 DEF ListInv, InList, ListFailsForCause, Listing, Asking
<1>7. QED
  BY <1>3, <1>4, <1>5, <1>6 DEF Inv

LEMMA CommandFailsKeeps ==
    ASSUME Inv, CommandFails
    PROVE  Inv'
<1>1. /\ pc' = "error" /\ UNCHANGED <<aio, store, lvol, op, todo, current, entries, uuid>>
      /\ history' = [history EXCEPT !.fault = TRUE]
  BY DEF CommandFails, Fault, Goto, target
<1>2. /\ history' \in Histories /\ history'.fault
      /\ history'.seen = history.seen /\ history'.stayed = history.stayed
  BY <1>1 DEF Inv, TypeInv, Histories
<1>3. TypeInv'
  BY <1>1, <1>2 DEF Inv, TypeInv, TypeOK
<1>4. TargetInv'
  BY <1>1, <1>2 DEF Inv, TargetInv, Sound, Unique, Own, SeenNow, Shown, Visible
<1>5. OpInv' /\ ListInv' /\ ListFailsForCause'
  BY <1>1, <1>2 DEF OpInv, ListInv, InList, ListFailsForCause, Listing, Asking
<1>6. QED
  BY <1>3, <1>4, <1>5 DEF Inv

LEMMA RefusedKeeps ==
    ASSUME Inv, Refused
    PROVE  Inv'
<1>1. pc' = "error" /\ UNCHANGED <<aio, store, lvol, op, todo, current, entries, uuid, history>>
  BY DEF Refused, Goto
<1>2. TypeInv'
  BY <1>1 DEF Inv, TypeInv, TypeOK
<1>3. TargetInv'
  BY <1>1 DEF Inv, TargetInv, Sound, Unique, Own, SeenNow, Shown, Visible
<1>4. OpInv' /\ ListInv'
  BY <1>1 DEF OpInv, ListInv, InList, Listing, Asking
<1>5. ASSUME op.kind = "BdevLvolGet"
      PROVE  \/ \A l \in Lvols : history.seen[l] = {}
             \/ \E l \in Lvols \ history.stayed : history.seen[l] # {}
  <2>1. \/ pc = "getBdevs"
        \/ pc \in Asking /\ current \notin Shown
    BY <1>5 DEF Refused, Inv, OpInv, Asking
  <2>2. CASE pc = "getBdevs"
    BY <2>2 DEF Inv, OpInv
  <2>3. CASE pc \in Asking /\ current \notin Shown
    <3>1. current \in Lvols /\ entries[current] # None /\ InList
      BY <1>5, <2>3 DEF Inv, ListInv, InList, Listing
    <3>2. history.seen[current] # {}
      BY <3>1 DEF Inv, ListInv, EntryOK
    <3>3. current \notin history.stayed
      BY <2>3 DEF Inv, TargetInv, SeenNow
    <3>4. QED
      BY <3>1, <3>2, <3>3
  <2>4. QED
    BY <2>1, <2>2, <2>3
<1>6. ListFailsForCause'
  BY <1>1, <1>5 DEF ListFailsForCause
<1>7. QED
  BY <1>2, <1>3, <1>4, <1>6 DEF Inv

LEMMA DeviceStepKeeps ==
    ASSUME Inv, AioCreate \/ GetLvstore \/ CreateLvstore \/ DeleteLvstore \/ AioDelete
    PROVE  Inv'
<1>1. TypeInv /\ TargetInv
  BY DEF Inv
<1>2. op.kind = IF pc \in {"deleteLvstore", "aioDelete"} THEN "DeleteDevice" ELSE "AddDevice"
  BY DEF Inv, OpInv, AioCreate, GetLvstore, CreateLvstore, DeleteLvstore, AioDelete
<1>3. op.disk \in Disks
  BY <1>1, <1>2 DEF TypeInv, TypeOK, Operations, NoOp
<1>4. CASE GetLvstore
  <2>1. /\ UNCHANGED <<aio, store, lvol, op, todo, current, entries, history>>
        /\ uuid' = Lookup(op.disk) /\ pc' \in {"createLvstore", "done"}
        /\ op.kind = "AddDevice"
    BY <1>2, <1>4 DEF GetLvstore
  <2>2. /\ uuid' \in StoreIds \cup {None}
        /\ uuid' # None => store[op.disk] # None /\ store[op.disk].uuid = uuid'
    BY <1>1, <2>1 DEF Lookup, Loaded, TypeInv, TypeOK, Store
  <2>3. TypeInv'
    BY <1>1, <2>1, <2>2 DEF TypeInv, TypeOK
  <2>4. Own(store)'
    BY <1>1, <1>3, <2>1, <2>2 DEF TargetInv, Unique, Own
  <2>5. TargetInv'
    BY <1>1, <2>1, <2>4 DEF TargetInv, Sound, Unique, SeenNow, Shown, Visible
  <2>6. OpInv' /\ ListInv' /\ ListFailsForCause'
    BY <2>1 DEF OpInv, ListInv, InList, ListFailsForCause, Listing, Asking
  <2>7. QED
    BY <2>3, <2>5, <2>6 DEF Inv
<1>5. CASE CreateLvstore
  <2>1. BdevLvolCreateLvstore(op.disk, op.disk)
    BY <1>5 DEF CreateLvstore
  <2>2. PICK a \in SUBSET Disks, s \in Stores, v \in LvolTable : Carries(a, s, v)
    BY <1>1, <1>3, <2>1, StoreCommandsCarry
  <2>3. store' \in Stores /\ Unique(store') /\ Own(store')
    BY <1>1, <2>2, CarriesTarget
  <2>4. store'[op.disk] # None => store'[op.disk] \in Store
    BY <1>3, <2>3 DEF Stores
  <2>5. PICK u \in StoreIds : store' = [store EXCEPT ![op.disk] = [uuid |-> u, name |-> op.disk]]
    BY <2>1 DEF BdevLvolCreateLvstore, Carry
  <2>6. store'[op.disk] = [uuid |-> u, name |-> op.disk]
    BY <1>1, <1>3, <2>5 DEF TypeInv, TypeOK
  <2>7. [uuid |-> u, name |-> op.disk] \in Store
    BY <1>3 DEF Store
  <2>8. store'[op.disk] \in Store /\ store'[op.disk] # None
    BY <2>6, <2>7, NoneAssumption
  <2>9. UNCHANGED <<op, todo, current, entries>> /\ pc' \in {"done", "error"}
    BY <1>5 DEF CreateLvstore
  <2>10. uuid' \in StoreIds \cup {None} /\ Own(store)'
    <3>1. CASE uuid' = store'[op.disk].uuid
      BY <1>3, <2>3, <2>8, <2>9, <3>1 DEF Unique, Own, Store
    <3>2. CASE uuid' = uuid
      BY <1>1, <2>3, <2>9, <3>2 DEF Own, TypeInv, TypeOK
    <3>3. QED
      BY <1>5, <3>1, <3>2 DEF CreateLvstore
  <2>11. QED
    BY <1>2, <2>2, <2>9, <2>10, OwnCarry
<1>6. CASE AioCreate \/ DeleteLvstore \/ AioDelete
  <2>1. \/ BdevAioCreate(op.disk) \/ BdevLvolDeleteLvstore(op.disk) \/ BdevAioDelete(op.disk)
    BY <1>6 DEF AioCreate, DeleteLvstore, AioDelete
  <2>2. PICK a \in SUBSET Disks, s \in Stores, v \in LvolTable : Carries(a, s, v)
    BY <1>1, <1>3, <2>1, StoreCommandsCarry
  <2>3. Own(store')
    BY <1>1, <2>2, CarriesTarget
  <2>4. UNCHANGED <<op, todo, current, entries, uuid>>
    BY <1>6 DEF AioCreate, DeleteLvstore, AioDelete, Or, Goto
  <2>5. \/ op.kind = "AddDevice" /\ pc' = "getLvstore"
        \/ op.kind = "DeleteDevice" /\ pc' = "aioDelete"
        \/ pc' \in {"done", "error"}
    BY <1>2, <1>6 DEF AioCreate, DeleteLvstore, AioDelete, Or, Goto
  <2>6. uuid' \in StoreIds \cup {None} /\ Own(store)'
    BY <1>1, <2>3, <2>4 DEF Own, TypeInv, TypeOK
  <2>7. op.kind \in {"AddDevice", "DeleteDevice"}
    BY <1>2
  <2>8. QED
    BY <2>2, <2>4, <2>5, <2>6, <2>7, OwnCarry
<1>7. QED
  BY <1>4, <1>5, <1>6
-----------------------------------------------------------------------------
(***************************************************************************)
(* The steps of a list.                                                    *)
(***************************************************************************)

LEMMA GetBdevsKeeps ==
    ASSUME Inv, GetBdevs
    PROVE  Inv'
<1> DEFINE listed == Named(op.name)
           seen == [l \in Lvols |-> IF l \in listed THEN {Shows(lvol[l])} ELSE {}]
           First(l) == [snapshot |-> lvol[l].snapshot, user_created |-> None,
                        snapshot_timestamp |-> None, checksum |-> None]
<1>1. /\ pc = "getBdevs" /\ pc' = "next" /\ todo' = listed
      /\ UNCHANGED <<aio, store, lvol, op, current, uuid>>
      /\ entries' = [l \in Lvols |-> IF l \in listed THEN First(l) ELSE None]
      /\ history' = [history EXCEPT !.seen = seen, !.stayed = listed]
  BY DEF GetBdevs
<1>2. op.kind = "BdevLvolGet"
  BY <1>1 DEF Inv, OpInv
<1>3. listed \subseteq Shown /\ listed \subseteq Lvols
  BY DEF Named, Shown, Visible
<1>4. \A l \in listed : lvol[l] \in Lvol /\ lvol[l] # None
  BY <1>3 DEF Shown, Visible, Inv, TypeInv, TypeOK
<1>5. \A l \in listed : First(l) \in Entry /\ Shows(lvol[l]) \in Entry
  <2>1. \A l \in listed : First(l) \in Entry
    BY <1>4 DEF Lvol, Entry
  <2>2. QED
    BY <1>4, <2>1, ShowsTyped
<1> HIDE DEF listed
<1>6. /\ history' \in Histories /\ history'.stayed = listed
      /\ \A l \in Lvols : history'.seen[l] = IF l \in listed THEN {Shows(lvol[l])} ELSE {}
  <2>1. seen \in [Lvols -> SUBSET Entry]
    BY <1>5
  <2>2. \A l \in Lvols : seen[l] = IF l \in listed THEN {Shows(lvol[l])} ELSE {}
    OBVIOUS
  <2> HIDE DEF seen
  <2>3. QED
    BY <1>1, <1>3, <2>1, <2>2 DEF Inv, TypeInv, Histories
<1>7. /\ entries' \in [Lvols -> Entry \cup {None}]
      /\ \A l \in Lvols : entries'[l] = IF l \in listed THEN First(l) ELSE None
  <2> HIDE DEF First
  <2> QED
    BY <1>1, <1>5
<1>8. TypeInv'
  BY <1>1, <1>3, <1>6, <1>7 DEF Inv, TypeInv, TypeOK, Listing
<1>9. TargetInv'
  BY <1>1, <1>3, <1>6 DEF Inv, TargetInv, Sound, Unique, Own, SeenNow, Shown, Visible
<1>10. OpInv'
  BY <1>1, <1>2 DEF OpInv, Listing, Asking
<1>11. ASSUME NEW l \in listed PROVE EntryOK(l)' /\ entries'[l] # None
  <2>1. l \in Lvols /\ entries'[l] = First(l) /\ history'.seen[l] = {Shows(lvol[l])}
    BY <1>3, <1>6, <1>7
  <2>2. Asked(l)' = {"snapshot"}
    BY <1>1 DEF Asked
  <2>3. WasTrue(l, "snapshot")'
    <3>1. First(l).snapshot = Shows(lvol[l]).snapshot
      BY DEF Shows
    <3> HIDE DEF First
    <3>2. QED
      BY <2>1, <3>1 DEF WasTrue
  <2>4. ~First(l).snapshot => Shows(lvol[l]).checksum = None
    BY <1>4, <2>1 DEF Shows, Inv, TargetInv, Sound
  <2>5. First(l).checksum = None
    OBVIOUS
  <2>6. EntryOK(l)'
    <3> HIDE DEF First
    <3> QED
      BY <2>1, <2>2, <2>3, <2>4, <2>5 DEF EntryOK
  <2>7. entries'[l] # None
    BY <1>5, <2>1, NoneAssumption
  <2>8. QED
    BY <2>6, <2>7
<1> HIDE DEF First
<1>12. ListInv'
  BY <1>1, <1>6, <1>7, <1>11 DEF ListInv, InList, Listing, Asking
<1>13. ListFailsForCause'
  BY <1>1 DEF ListFailsForCause
<1>14. QED
  BY <1>8, <1>9, <1>10, <1>12, <1>13 DEF Inv

LEMMA NextLvolKeeps ==
    ASSUME Inv, NextLvol
    PROVE  Inv'
<1>1. /\ pc = "next" /\ UNCHANGED <<aio, store, lvol, op, entries, uuid, history>>
      /\ \/ /\ current' \in todo /\ todo' = todo \ {current'} /\ pc' = "userCreated"
         \/ todo = {} /\ todo' = {} /\ current' = None /\ pc' = "done"
  BY DEF NextLvol
<1>2. op.kind = "BdevLvolGet" /\ InList
  BY <1>1 DEF Inv, OpInv, InList, Listing
<1>3. TypeInv'
  BY <1>1 DEF Inv, TypeInv, TypeOK, Listing, Asking
<1>4. TargetInv'
  BY <1>1 DEF Inv, TargetInv, Sound, Unique, Own, SeenNow, Shown, Visible
<1>5. OpInv' /\ ListFailsForCause'
  BY <1>1, <1>2 DEF OpInv, ListFailsForCause, Listing, Asking
<1>6. ASSUME NEW l \in Lvols, EntryOK(l) PROVE EntryOK(l)'
  <2>1. Asked(l)' = Asked(l)
    BY <1>1 DEF Asked
  <2>2. QED
    BY <1>1, <1>6, <2>1 DEF EntryOK, WasTrue
<1>7. ListInv'
  BY <1>1, <1>2, <1>6 DEF Inv, ListInv, TypeInv, TypeOK, Asking
<1>8. QED
  BY <1>3, <1>4, <1>5, <1>7 DEF Inv

\* The fields of the current entry that have been asked for at a step.
AskedAt(step) ==
    CASE step = "userCreated" -> {"snapshot"}
      [] step = "timestamp" -> {"snapshot", "user_created"}
      [] step = "checksum" -> Fields \ {"checksum"}
      [] OTHER -> Fields

LEMMA CurrentEntry ==
    ASSUME Inv, pc \in Asking
    PROVE  /\ current \in Lvols \ todo /\ entries[current] \in Entry
           /\ op.kind = "BdevLvolGet" /\ InList
           /\ history.seen[current] # {} /\ "checksum" \notin AskedAt(pc)
           /\ \A x \in AskedAt(pc) : WasTrue(current, x)
           /\ entries[current].checksum = None
           /\ ~entries[current].snapshot =>
                \E s \in history.seen[current] : s.checksum = None
<1>1. op.kind = "BdevLvolGet" /\ InList
  BY DEF Inv, OpInv, InList, Listing
<1>2. /\ current \in Lvols \ todo /\ entries[current] # None
      /\ entries[current] \in Entry /\ EntryOK(current)
  BY <1>1 DEF Inv, ListInv, TypeInv, TypeOK
<1>3. Asked(current) = AskedAt(pc) /\ "checksum" \notin AskedAt(pc)
  BY <1>2 DEF Asked, AskedAt, Asking, Fields
<1>4. QED
  BY <1>1, <1>2, <1>3 DEF EntryOK

\* A value is learned.
LEMMA LearnKeeps ==
    ASSUME Inv, pc \in Asking, NEW e \in Entry, NEW step \in {"timestamp", "checksum", "next"},
           Learn(e, step), e.snapshot = entries[current].snapshot,
           \A x \in AskedAt(step) : \E s \in history.seen[current] : e[x] = s[x],
           step # "next" => e.checksum = None,
           step = "checksum" => e.snapshot
    PROVE  Inv'
<1>1. /\ entries' = [entries EXCEPT ![current] = e] /\ pc' = step
      /\ UNCHANGED <<aio, store, lvol, op, todo, current, uuid, history>>
  BY DEF Learn
<1>2. /\ current \in Lvols \ todo /\ op.kind = "BdevLvolGet" /\ InList
      /\ history.seen[current] # {}
      /\ ~entries[current].snapshot => \E s \in history.seen[current] : s.checksum = None
  BY CurrentEntry
<1>3. \A l \in Lvols : entries'[l] = IF l = current THEN e ELSE entries[l]
  BY <1>1 DEF Inv, TypeInv, TypeOK
<1>4. TypeInv'
  BY <1>1 DEF Inv, TypeInv, TypeOK, Listing, Asking
<1>5. TargetInv'
  BY <1>1 DEF Inv, TargetInv, Sound, Unique, Own, SeenNow, Shown, Visible
<1>6. OpInv' /\ ListFailsForCause'
  BY <1>1, <1>2 DEF OpInv, ListFailsForCause, Listing, Asking
<1>7. EntryOK(current)'
  <2>1. Asked(current)' = AskedAt(step)
    BY <1>1, <1>2 DEF Asked, AskedAt
  <2>2. \A x \in AskedAt(step) : WasTrue(current, x)'
    BY <1>1, <1>2, <1>3 DEF WasTrue
  <2>3. "checksum" \notin AskedAt(step) => step # "next"
    BY DEF AskedAt, Fields
  <2>4. QED
    BY <1>1, <1>2, <1>3, <2>1, <2>2, <2>3 DEF EntryOK
<1>8. ASSUME NEW l \in Lvols \ {current}, EntryOK(l) PROVE EntryOK(l)'
  <2>1. Asked(l)' = Asked(l)
    BY <1>1, <1>8 DEF Asked
  <2>2. QED
    BY <1>1, <1>3, <1>8, <2>1 DEF EntryOK, WasTrue
<1>9. e # None
  BY NoneAssumption
<1>10. ListInv'
  BY <1>1, <1>2, <1>3, <1>7, <1>8, <1>9 DEF Inv, ListInv, InList, Listing, Asking
<1>11. QED
  BY <1>4, <1>5, <1>6, <1>10 DEF Inv

\* What is read of an lvol has been seen.
LEMMA ReadIsSeen ==
    ASSUME Inv, pc \in Asking, NEW l \in Reached
    PROVE  l = current /\ lvol[l] \in Lvol /\ Shows(lvol[l]) \in history.seen[current]
<1>1. l = current /\ l \in Shown /\ history.seen[current] # {}
  BY CurrentEntry DEF Reached
<1>2. QED
  BY <1>1 DEF Shown, Visible, Inv, TypeInv, TypeOK, TargetInv, SeenNow

LEMMA ReadKeeps ==
    ASSUME Inv, GetUserCreated \/ GetTimestamp \/ GetChecksum
    PROVE  Inv'
<1> DEFINE entry == entries[current]
<1>1. pc \in Asking
  BY DEF GetUserCreated, GetTimestamp, GetChecksum, Asking
<1>2. /\ entry \in Entry /\ entry.checksum = None
      /\ \A x \in AskedAt(pc) : WasTrue(current, x)
      /\ ~entry.snapshot => \E s \in history.seen[current] : s.checksum = None
  BY <1>1, CurrentEntry
<1>3. history \in Histories /\ current \in Lvols
  BY <1>1, CurrentEntry DEF Inv, TypeInv
<1>4. CASE GetUserCreated
  <2>1. PICK l \in Reached :
            Learn([entry EXCEPT !.user_created = Shows(lvol[l]).user_created], "timestamp")
    BY <1>4 DEF GetUserCreated
  <2>2. lvol[l] \in Lvol /\ Shows(lvol[l]) \in history.seen[current] /\ pc = "userCreated"
    BY <1>1, <1>4, ReadIsSeen DEF GetUserCreated
  <2> DEFINE e == [entry EXCEPT !.user_created = Shows(lvol[l]).user_created]
  <2>3. Shows(lvol[l]) \in Entry
    BY <2>2, ShowsTyped
  <2>4. /\ e \in Entry /\ e.snapshot = entry.snapshot /\ e.checksum = None
        /\ e.user_created = Shows(lvol[l]).user_created
    BY <1>2, <2>3 DEF Entry
  <2> HIDE DEF e
  <2>5. \A x \in AskedAt("timestamp") : \E s \in history.seen[current] : e[x] = s[x]
    BY <1>2, <2>2, <2>4 DEF AskedAt, WasTrue
  <2>6. QED
    BY <1>1, <2>1, <2>4, <2>5, LearnKeeps DEF e
<1>5. CASE GetTimestamp
  <2> DEFINE New(l) == [entry EXCEPT !.snapshot_timestamp = Shows(lvol[l]).snapshot_timestamp]
  <2>1. PICK l \in Reached : Learn(New(l), AfterTimestamp)
    BY <1>5 DEF GetTimestamp
  <2>2. lvol[l] \in Lvol /\ Shows(lvol[l]) \in history.seen[current] /\ pc = "timestamp"
    BY <1>1, <1>5, ReadIsSeen DEF GetTimestamp
  <2> DEFINE e == New(l)
  <2>3. Shows(lvol[l]) \in Entry
    BY <2>2, ShowsTyped
  <2>4. /\ e \in Entry /\ e.snapshot = entry.snapshot /\ e.checksum = None
        /\ e.user_created = entry.user_created
        /\ e.snapshot_timestamp = Shows(lvol[l]).snapshot_timestamp
    BY <1>2, <2>3 DEF Entry
  <2> HIDE DEF e
  <2>5. AfterTimestamp = IF entry.snapshot THEN "checksum" ELSE "next"
    BY DEF AfterTimestamp
  <2>6. \A x \in {"snapshot", "user_created", "snapshot_timestamp"} :
            \E s \in history.seen[current] : e[x] = s[x]
    BY <1>2, <2>2, <2>4 DEF AskedAt, WasTrue
  <2>7. AfterTimestamp = "next" => \E s \in history.seen[current] : e.checksum = s.checksum
    BY <1>2, <2>4, <2>5
  <2>8. \A x \in AskedAt(AfterTimestamp) : \E s \in history.seen[current] : e[x] = s[x]
    BY <2>5, <2>6, <2>7 DEF AskedAt, Fields
  <2>9. QED
    BY <1>1, <2>1, <2>4, <2>5, <2>8, LearnKeeps DEF e
<1>6. CASE GetChecksum
  <2>1. PICK e :
        /\ Learn(e, "next")
        /\ \/ \E l \in Reached : e = [entry EXCEPT !.checksum = lvol[l].checksum]
           \/ Reached = {} /\ e = entry
    BY <1>6 DEF GetChecksum
  <2>2. pc = "checksum"
    BY <1>6 DEF GetChecksum
  <2>3. /\ e \in Entry /\ \A x \in Fields \ {"checksum"} : e[x] = entry[x]
        /\ \E s \in history.seen[current] : e.checksum = s.checksum
    <3>1. CASE Reached = {} /\ e = entry
      <4>1. current \notin Shown
        BY <3>1 DEF Reached
      <4>2. \E s \in history.seen[current] : s.checksum = None
        BY <1>1, <4>1, CurrentEntry DEF Inv, TargetInv, SeenNow
      <4>3. QED
        BY <1>2, <3>1, <4>2
    <3>2. ASSUME NEW l \in Reached, e = [entry EXCEPT !.checksum = lvol[l].checksum]
          PROVE  /\ e \in Entry /\ \A x \in Fields \ {"checksum"} : e[x] = entry[x]
                 /\ \E s \in history.seen[current] : e.checksum = s.checksum
      <4>1. lvol[l] \in Lvol /\ Shows(lvol[l]) \in history.seen[current]
        BY <1>1, ReadIsSeen
      <4>2. Shows(lvol[l]).checksum = lvol[l].checksum /\ lvol[l].checksum \in {Checksum, None}
        BY <4>1 DEF Shows, Lvol
      <4>3. /\ e \in Entry /\ e.checksum = lvol[l].checksum
            /\ \A x \in Fields \ {"checksum"} : e[x] = entry[x]
        BY <1>2, <3>2, <4>2 DEF Entry, Fields
      <4>4. QED
        BY <4>1, <4>2, <4>3
    <3>3. QED
      BY <2>1, <3>1, <3>2
  <2>4. \A x \in AskedAt("next") : \E s \in history.seen[current] : e[x] = s[x]
    BY <1>2, <2>2, <2>3 DEF AskedAt, WasTrue, Fields
  <2>5. e.snapshot = entry.snapshot
    BY <2>3 DEF Fields
  <2>6. QED
    BY <1>1, <2>1, <2>3, <2>4, <2>5, LearnKeeps
<1>7. QED
  BY <1>4, <1>5, <1>6

LEMMA FinishKeeps ==
    ASSUME Inv, Finish
    PROVE  Inv'
<1>1. TypeInv'
  BY DEF Finish, target, Inv, TypeInv, TypeOK, NoHistory, NoEntries, Histories
<1>2. TargetInv'
  BY DEF Finish, target, Inv, TargetInv, Sound, Unique, Own, SeenNow, Shown, Visible, NoHistory
<1>3. OpInv' /\ ListInv' /\ ListFailsForCause'
  BY DEF Finish, OpInv, ListInv, InList, ListFailsForCause, NoHistory, NoOp, Listing, Asking
<1>4. QED
  BY <1>1, <1>2, <1>3 DEF Inv
-----------------------------------------------------------------------------
(***************************************************************************)
(* The results.                                                            *)
(***************************************************************************)

LEMMA NextKeeps ==
    ASSUME Inv, [Next]_vars
    PROVE  Inv'
<1>1. CASE UNCHANGED vars
  BY <1>1 DEF vars, Inv, TypeInv, TypeOK, TargetInv, Sound, Unique, Own, SeenNow, Shown,
              Visible, OpInv, ListInv, InList, EntryOK, Asked, WasTrue, ListFailsForCause
<1>2. CASE OthersStep
  <2>1. PICK a \in SUBSET Disks, s \in Stores, v \in LvolTable : Carries(a, s, v)
    BY <1>2, CommandCarries DEF OthersStep, Inv
  <2>2. QED
    BY <1>2, <2>1, OthersCarry DEF OthersStep
<1>3. CASE OperationStep
  BY <1>3, BeginKeeps, CommandFailsKeeps, RefusedKeeps, DeviceStepKeeps, GetBdevsKeeps,
     NextLvolKeeps, ReadKeeps DEF OperationStep
<1>4. CASE Finish
  BY <1>4, FinishKeeps
<1>5. QED
  BY <1>1, <1>2, <1>3, <1>4 DEF Next

\* The inductive invariant, from which the rest follows.
THEOREM Invariance == Spec => []Inv
<1>1. Init => Inv
  BY InitInv
<1>2. Inv /\ [Next]_vars => Inv'
  BY NextKeeps
<1>3. QED
  BY <1>1, <1>2, PTL DEF Spec

\* The state has its types.
THEOREM TypeCorrect == Spec => []TypeOK
<1>1. Inv => TypeOK
  BY DEF Inv, TypeInv
<1>2. QED
  BY <1>1, Invariance, PTL

\* BdevLvolGetWithFilter never returns a value that was not that lvol's during the call.
THEOREM ListsTellTheTruth == Spec => []ListTellsTheTruth
<1>1. Inv => ListTellsTheTruth
  <2> SUFFICES ASSUME Inv, Listed, NEW l \in Lvols, entries[l] # None, NEW x \in Fields
               PROVE  \E s \in history.seen[l] : entries[l][x] = s[x]
    BY DEF ListTellsTheTruth, Fields
  <2>1. EntryOK(l) /\ todo = {} /\ pc = "done"
    BY DEF Listed, Inv, ListInv, InList
  <2>2. Asked(l) = Fields
    BY <2>1 DEF Asked
  <2>3. QED
    BY <2>1, <2>2 DEF EntryOK, WasTrue
<1>2. QED
  BY <1>1, Invariance, PTL

\* Nor does it leave out an lvol that was there all the time.
THEOREM ListsAreComplete == Spec => []ListIsComplete
<1>1. Inv => ListIsComplete
  BY DEF ListIsComplete, Listed, Inv, ListInv, InList
<1>2. QED
  BY <1>1, Invariance, PTL

\* It fails for the reasons it should, though any error about any lvol fails all of it.
THEOREM ListsFailForCause == Spec => []ListFailsForCause
<1>1. Inv => ListFailsForCause
  BY DEF Inv
<1>2. QED
  BY <1>1, Invariance, PTL

\* AddDevice never returns the UUID of an lvstore on another disk.
THEOREM AddedStoresAreOwn == Spec => []AddedStoreIsOwn
<1>1. Inv => AddedStoreIsOwn
  BY DEF AddedStoreIsOwn, Inv, TargetInv, Own
<1>2. QED
  BY <1>1, Invariance, PTL
=============================================================================
