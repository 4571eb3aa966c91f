--------------------------- MODULE NvmeScanProofs ---------------------------
(***************************************************************************)
(* What NvmeScan reports and disconnects, for any number of subsystems,    *)
(* controllers and devices and any number of changes during a call.        *)
(*                                                                         *)
(* A scan collects records of what was true one after the other.  Watched  *)
(* says that the history of the call has all of it, Collected that the     *)
(* records come from the history and that a device that stays is either    *)
(* recorded or still to be looked at, and Named that the controller that a *)
(* disconnect has looked up leads to the address, is gone, or has been     *)
(* used again.  Last, a scan that nothing disturbs is exact: NvmeInitiator *)
(* may take it for one step.                                               *)
(***************************************************************************)
EXTENDS NvmeScan, FiniteSetTheorems, TLAPS

Paths == [Controllers -> Path \cup {None}]
Disks == [Devices -> Disk \cup {None}]

Histories ==
    [paths : SUBSET Controller, gone : BOOLEAN, steadyPaths : SUBSET Controllers,
     steadyDisks : SUBSET Devices, reused : SUBSET Controllers, fault : BOOLEAN, changes : Nat]

TypeInv == TypeOK /\ history \in Histories

Scanning == {"listDevices", "scan", "listAll", "diagnose"}
Opening == {"hostIds", "discover", "connect", "verify"}

\* Functions keep to their commands.
StepInv ==
    /\ pc # "idle" => call \in Calls \cup Discovered
    /\ pc # "returned" => answer.result = "none"
    /\ pc \in Scanning => call.function # "disconnect"
    /\ pc \in Opening => Connecting
    /\ pc \in Scanning /\ Connecting => call.nqn # None
    /\ pc \in {"listPaths", "remove", "disconnect"} => call.function = "disconnect"
    /\ pc \in {"listPaths", "remove"} => call.addr # None
    /\ pc = "discover" => call.nqn = None
    /\ pc \in {"connect", "verify"} => call.nqn # None

\* The call has a subsystem to be watched, or is about all of them.
Following ==
    \/ pc \in Scanning \cup {"connect", "verify", "listPaths", "remove", "disconnect"}
    \/ pc = "hostIds" /\ call.nqn # None

\* The history knows of the present.
Watched ==
    /\ ListSubsystem(call.nqn) \subseteq history.paths
    /\ PathsOf(call.nqn) = {} => history.gone
    /\ \A c \in history.steadyPaths :
            \E p \in PathsTo(call.nqn, call.addr) : p.name = c
    /\ \A d \in history.steadyDisks : Serving(d) /\ disk[d].nqn = call.nqn

Recorded(d) == \E r \in scanned : r.device = d /\ r.nqn = call.nqn

Steady == history.steadyPaths # {} /\ history.steadyDisks # {}

Loading == call.function = "load" /\ call.nqn # None /\ ~history.fault

\* The records of a scan.
Collected ==
    /\ scanned \in SUBSET Found /\ IsFiniteSet(scanned)
    /\ \A r \in scanned : call.nqn \in {None, r.nqn} => r.controllers \subseteq history.paths
    /\ pc = "listDevices" \/ (pc \in Opening /\ call.nqn = None) => scanned = {}
    /\ pc \in {"listAll", "diagnose"} => todo = {}
    /\ pc \in {"scan", "listAll"} /\ Loading =>
            \A d \in history.steadyDisks : d \in todo \/ Recorded(d)
    /\ pc = "diagnose" /\ Loading => ~Steady

\* The controller that a disconnect has found.
Named ==
    /\ scanned \subseteq Controllers
    /\ \A c \in scanned :
            path[c] \in {None, [nqn |-> call.nqn, addr |-> call.addr]} \/ c \in history.reused

Results == ReportedPathExisted /\ SteadyPathIsFound /\ NotFoundMeansGone

Inv ==
    /\ TypeInv /\ StepInv
    /\ Following => Watched
    /\ pc \in Scanning \cup Opening => Collected
    /\ pc = "remove" => Named
    /\ Results
-----------------------------------------------------------------------------
(***************************************************************************)
(* Changes of the kernel's state.                                          *)
(***************************************************************************)

\* A call's history after a change.
LEMMA ChangeIsWatched ==
    ASSUME TypeInv, pc # "idle", UNCHANGED call,
           NEW newPath \in Paths, NEW newDisk \in Disks, Change(newPath, newDisk)
    PROVE  /\ path' \in Paths /\ disk' \in Disks /\ history' \in Histories
           /\ Watched => Watched'
           /\ history.paths \subseteq history'.paths
           /\ history'.steadyPaths \subseteq history.steadyPaths
           /\ history'.steadyDisks \subseteq history.steadyDisks
           /\ history.reused \subseteq history'.reused
           /\ \A c \in Controllers : path'[c] \in {None, path[c]} \/ c \in history'.reused
           /\ history'.fault = history.fault
<1> DEFINE kept == {c \in Controllers : newPath[c] = path[c]}
           own == {c \in Controllers : newPath[c] # None /\ call.nqn \in {None, newPath[c].nqn}}
           new == {[name |-> c, addr |-> newPath[c].addr] : c \in own}
<1>1. /\ path' = newPath /\ disk' = newDisk
      /\ history' =
            [history EXCEPT
                !.paths = @ \cup new,
                !.gone = @ \/ own = {},
                !.steadyPaths = @ \cap kept,
                !.steadyDisks = {d \in @ : /\ newDisk[d] # None
                                           /\ newDisk[d].nqn = call.nqn
                                           /\ newDisk[d].owner # None},
                !.reused = @ \cup {c \in Controllers \ kept : newPath[c] # None},
                !.changes = @ + 1]
  BY DEF Change
<1>2. history \in Histories
  BY DEF TypeInv
<1>3. new \subseteq Controller
  BY DEF Paths, Path, Controller
<1>4. /\ history'.paths = history.paths \cup new
      /\ history'.gone = (history.gone \/ own = {})
      /\ history'.steadyPaths = history.steadyPaths \cap kept
      /\ history'.steadyDisks = {d \in history.steadyDisks : /\ newDisk[d] # None
                                                             /\ newDisk[d].nqn = call.nqn
                                                             /\ newDisk[d].owner # None}
      /\ history'.reused = history.reused \cup {c \in Controllers \ kept : newPath[c] # None}
      /\ history'.fault = history.fault /\ history'.changes = history.changes + 1
  <2> HIDE DEF kept, own, new
  <2> QED
    BY <1>1, <1>2 DEF Histories
<1>5. history' \in Histories
  <2>1. history.reused \cup {c \in Controllers \ kept : newPath[c] # None} \subseteq Controllers
    BY <1>2 DEF Histories
  <2>2. (history.gone \/ own = {}) \in BOOLEAN
    OBVIOUS
  <2>3. {d \in history.steadyDisks : /\ newDisk[d] # None
                                     /\ newDisk[d].nqn = call.nqn
                                     /\ newDisk[d].owner # None} \subseteq Devices
    BY <1>2 DEF Histories
  <2>4. history.paths \cup new \subseteq Controller /\ history.steadyPaths \cap kept \subseteq Controllers
    BY <1>2, <1>3 DEF Histories
  <2>5. history.changes + 1 \in Nat
    BY <1>2 DEF Histories
  <2>6. history' = [paths |-> history'.paths, gone |-> history'.gone,
                    steadyPaths |-> history'.steadyPaths, steadyDisks |-> history'.steadyDisks,
                    reused |-> history'.reused, fault |-> history'.fault,
                    changes |-> history'.changes]
    <3> HIDE DEF kept, own, new
    <3> QED
      BY <1>1, <1>2 DEF Histories
  <2>7. history.fault \in BOOLEAN
    BY <1>2 DEF Histories
  <2> HIDE DEF kept, own, new
  <2>8. QED
    BY <1>4, <2>1, <2>2, <2>3, <2>4, <2>5, <2>6, <2>7 DEF Histories
<1>6. PathsOf(call.nqn)' = own /\ ListSubsystem(call.nqn)' = new
  BY <1>1 DEF PathsOf, ListSubsystem, Connected
<1>7. ASSUME Watched PROVE Watched'
  <2>1. /\ ListSubsystem(call.nqn)' \subseteq history'.paths
        /\ PathsOf(call.nqn)' = {} => history'.gone
    BY <1>4, <1>6, <1>7
  <2>2. ASSUME NEW c \in history'.steadyPaths
        PROVE  (\E p \in PathsTo(call.nqn, call.addr) : p.name = c)'
    <3>1. c \in kept /\ c \in history.steadyPaths
      BY <1>4
    <3>2. PICK p \in PathsTo(call.nqn, call.addr) : p.name = c
      BY <1>7, <3>1 DEF Watched
    <3>3. /\ c \in PathsOf(call.nqn) /\ p = [name |-> c, addr |-> path[c].addr]
          /\ Matches(p.addr, call.addr)
      BY <3>2 DEF PathsTo, ListSubsystem
    <3>4. c \in own
      BY <3>1, <3>3 DEF PathsOf, Connected
    <3>5. p \in new
      BY <3>1, <3>3, <3>4
    <3>6. p \in PathsTo(call.nqn, call.addr)'
      BY <1>6, <3>3, <3>5 DEF PathsTo, Matches
    <3>7. QED
      BY <3>2, <3>6
  <2>3. ASSUME NEW d \in history'.steadyDisks PROVE (Serving(d) /\ disk[d].nqn = call.nqn)'
    BY <1>1, <1>4 DEF Serving
  <2>4. QED
    BY <2>1, <2>2, <2>3 DEF Watched
<1>8. QED
  BY <1>1, <1>4, <1>5, <1>7

\* What Connection and Disconnection make is a state of the kernel.
LEMMA ConnectionChanges ==
    ASSUME TypeInv, NEW c \in Controllers, NEW nqn \in Nqns, NEW addr \in Addrs,
           Connection(c, nqn, addr)
    PROVE  /\ \E newPath \in Paths, newDisk \in Disks : Change(newPath, newDisk)
           /\ path' = [path EXCEPT ![c] = [nqn |-> nqn, addr |-> addr]]
<1> DEFINE new == [path EXCEPT ![c] = [nqn |-> nqn, addr |-> addr]]
<1>1. Change(new, disk)
  BY DEF Connection
<1>2. [nqn |-> nqn, addr |-> addr] \in Path
  BY DEF Path
<1>3. new \in Paths /\ disk \in Disks
  BY <1>2 DEF TypeInv, TypeOK, Paths, Disks
<1>4. path' = new
  BY <1>1 DEF Change
<1>5. QED
  BY <1>1, <1>3, <1>4

LEMMA DisconnectionChanges ==
    ASSUME TypeInv, NEW c \in Controllers, Disconnection(c)
    PROVE  /\ \E newPath \in Paths, newDisk \in Disks : Change(newPath, newDisk)
           /\ path' = [path EXCEPT ![c] = None]
<1>1. PICK newDisk \in Disowned(c) : Change([path EXCEPT ![c] = None], newDisk)
  BY DEF Disconnection
<1>2. newDisk \in Disks
  BY DEF Disowned, Disks
<1>3. [path EXCEPT ![c] = None] \in Paths
  BY DEF TypeInv, TypeOK, Paths
<1>4. QED
  BY <1>1, <1>2, <1>3 DEF Change

LEMMA OthersChange ==
    ASSUME TypeInv, OtherConnects \/ PathLost \/ DeviceAppears \/ DeviceGone
    PROVE  \E newPath \in Paths, newDisk \in Disks : Change(newPath, newDisk)
<1>1. path \in Paths /\ disk \in Disks
  BY DEF TypeInv, TypeOK, Paths, Disks
<1>2. CASE OtherConnects
  BY <1>2, ConnectionChanges DEF OtherConnects
<1>3. CASE PathLost
  BY <1>3, DisconnectionChanges DEF PathLost
<1>4. CASE DeviceAppears
  <2>1. PICK d \in Devices, c \in Connected :
            Change(path, [disk EXCEPT ![d] = [nqn |-> path[c].nqn, owner |-> c]])
    BY <1>4 DEF DeviceAppears
  <2>2. c \in Controllers /\ path[c] \in Path
    BY <1>1 DEF Connected, Paths
  <2>3. [nqn |-> path[c].nqn, owner |-> c] \in Disk
    BY <2>2 DEF Path, Disk
  <2>4. [disk EXCEPT ![d] = [nqn |-> path[c].nqn, owner |-> c]] \in Disks
    BY <1>1, <2>3 DEF Disks
  <2>5. QED
    BY <1>1, <2>1, <2>4
<1>5. CASE DeviceGone
  BY <1>1, <1>5 DEF DeviceGone, Disks
<1>6. QED
  BY <1>2, <1>3, <1>4, <1>5

LEMMA EnvironmentKeeps ==
    ASSUME Inv, EnvironmentStep
    PROVE  Inv'
<1>1. PICK newPath \in Paths, newDisk \in Disks : Change(newPath, newDisk)
  BY OthersChange DEF EnvironmentStep, Inv
<1>2. UNCHANGED <<call, pc, todo, scanned, answer>> /\ pc # "returned"
  BY DEF EnvironmentStep
<1>3. CASE pc = "idle"
  <2>1. path' \in Paths /\ disk' \in Disks /\ history' = history
    BY <1>1, <1>3 DEF Change
  <2>2. TypeInv'
    BY <1>2, <2>1 DEF Inv, TypeInv, TypeOK, Paths, Disks
  <2>3. StepInv' /\ Results'
    BY <1>2, <2>1 DEF Inv, StepInv, Connecting, Results, ReportedPathExisted, SteadyPathIsFound,
                      NotFoundMeansGone
  <2>4. QED
    BY <1>2, <1>3, <2>2, <2>3 DEF Inv, Following, Scanning, Opening
<1>4. CASE pc # "idle"
  <2>1. /\ path' \in Paths /\ disk' \in Disks /\ history' \in Histories
        /\ Watched => Watched'
        /\ history.paths \subseteq history'.paths
        /\ history'.steadyPaths \subseteq history.steadyPaths
        /\ history'.steadyDisks \subseteq history.steadyDisks
        /\ history.reused \subseteq history'.reused
        /\ \A c \in Controllers : path'[c] \in {None, path[c]} \/ c \in history'.reused
        /\ history'.fault = history.fault
    BY <1>1, <1>2, <1>4, ChangeIsWatched DEF Inv
  <2>2. TypeInv'
    <3>1. history'.changes \in Nat
      BY <2>1 DEF Histories
    <3>2. QED
      BY <1>2, <2>1, <3>1 DEF Inv, TypeInv, TypeOK, Paths, Disks
  <2>3. StepInv'
    BY <1>2 DEF Inv, StepInv, Connecting
  <2>4. Following' => Watched'
    BY <1>2, <2>1 DEF Inv, Following
  <2>5. pc' \in Scanning \cup Opening => Collected'
    BY <1>2, <2>1 DEF Inv, Collected, Loading, Steady, Recorded
  <2>6. pc' = "remove" => Named'
    BY <1>2, <2>1 DEF Inv, Named
  <2>7. answer'.result = "none"
    BY <1>2 DEF Inv, StepInv
  <2>8. Results'
    BY <2>7 DEF Results, ReportedPathExisted, SteadyPathIsFound, NotFoundMeansGone
  <2>9. QED
    BY <2>2, <2>3, <2>4, <2>5, <2>6, <2>8 DEF Inv
<1>5. QED
  BY <1>3, <1>4
-----------------------------------------------------------------------------
(***************************************************************************)
(* Steps that leave the kernel alone.                                      *)
(***************************************************************************)

LEMMA StillWatched ==
    ASSUME Watched, UNCHANGED <<path, disk, call>>,
           history'.paths = history.paths, history'.gone = history.gone,
           history'.steadyPaths = history.steadyPaths, history'.steadyDisks = history.steadyDisks
    PROVE  Watched'
BY DEF Watched, ListSubsystem, PathsOf, PathsTo, Connected, Serving, Matches

LEMMA FaultSets ==
    ASSUME history \in Histories, Fault
    PROVE  /\ history' \in Histories /\ history'.fault
           /\ history'.paths = history.paths /\ history'.gone = history.gone
           /\ history'.steadyPaths = history.steadyPaths
           /\ history'.steadyDisks = history.steadyDisks
BY DEF Fault, Histories

\* Between its commands a call has no result, and an error after a fault says nothing.
LEMMA NoResult ==
    ASSUME \/ answer'.result \in {"none", "done"}
           \/ answer'.result = "error" /\ history'.fault
           \/ answer'.result = "error" /\ call'.function # "load"
    PROVE  Results'
BY DEF Results, ReportedPathExisted, SteadyPathIsFound, NotFoundMeansGone

LEMMA CallTyped ==
    ASSUME call \in Calls \cup Discovered
    PROVE  /\ call.function \in {"load", "connect", "disconnect", "discoverAndConnect"}
           /\ call.nqn \in Nqns \cup {None} /\ call.addr \in Addrs \cup {None}
           /\ Connecting => call.addr \in Addrs
           /\ call.function \in {"connect", "disconnect"} => call.nqn \in Nqns
           /\ call.function = "discoverAndConnect" =>
                [call EXCEPT !.nqn = None] \in Calls
                /\ \A n \in Nqns : [call EXCEPT !.nqn = n] \in Discovered
BY DEF Calls, Discovered, Connecting

LEMMA ListingsTyped ==
    ASSUME TypeInv, NEW nqn
    PROVE  ListSubsystem(nqn) \subseteq Controller /\ PathsOf(nqn) \subseteq Controllers
BY DEF ListSubsystem, PathsOf, Connected, Controller, TypeInv, TypeOK, Path

LEMMA InitInv == Init => Inv
<1> SUFFICES ASSUME Init PROVE Inv
  OBVIOUS
<1>1. TypeInv
  <2>1. history \in Histories
    BY DEF Init, NoHistory, Histories
  <2>2. answer \in Answers
    BY DEF Init, NoAnswer, Answers
  <2>3. QED
    BY <2>1, <2>2 DEF Init, TypeInv, TypeOK, NoHistory
<1>2. StepInv
  BY DEF Init, StepInv, NoAnswer, Scanning, Opening
<1>3. Results
  BY DEF Init, NoAnswer, Results, ReportedPathExisted, SteadyPathIsFound, NotFoundMeansGone
<1>4. QED
  BY <1>1, <1>2, <1>3 DEF Init, Inv, Following, Scanning, Opening

\* What is watched from now on.
LEMMA WatchBegins ==
    ASSUME TypeInv, NEW c, NEW n \in Nat, call' = c, history' = Watch(c, n), UNCHANGED kernel
    PROVE  Watched' /\ history' \in Histories
<1>1. UNCHANGED <<path, disk>>
  BY DEF kernel
<1>2. /\ history'.paths = ListSubsystem(c.nqn)
      /\ history'.gone = (PathsOf(c.nqn) = {})
      /\ history'.steadyPaths = {p.name : p \in PathsTo(c.nqn, c.addr)}
      /\ history'.steadyDisks = {d \in Devices : Serving(d) /\ disk[d].nqn = c.nqn}
  BY DEF Watch
<1>3. Watched'
  <2>1. ListSubsystem(c.nqn)' = ListSubsystem(c.nqn) /\ PathsOf(c.nqn)' = PathsOf(c.nqn)
    BY <1>1 DEF ListSubsystem, PathsOf, Connected
  <2>2. PathsTo(c.nqn, c.addr)' = PathsTo(c.nqn, c.addr)
    BY <2>1 DEF PathsTo, Matches
  <2>3. \A d \in Devices : Serving(d)' <=> Serving(d)
    BY <1>1 DEF Serving
  <2>4. QED
    BY <1>1, <1>2, <2>1, <2>2, <2>3 DEF Watched
<1>4. history' \in Histories
  <2>1. ListSubsystem(c.nqn) \subseteq Controller
    BY ListingsTyped
  <2>2. {p.name : p \in PathsTo(c.nqn, c.addr)} \subseteq Controllers
    BY <2>1 DEF PathsTo, Controller
  <2>3. (PathsOf(c.nqn) = {}) \in BOOLEAN
    OBVIOUS
  <2>4. {d \in Devices : Serving(d) /\ disk[d].nqn = c.nqn} \subseteq Devices
    OBVIOUS
  <2>5. QED
    BY <2>1, <2>2, <2>3, <2>4 DEF Watch, Histories
<1>5. QED
  BY <1>3, <1>4

LEMMA BeginKeeps ==
    ASSUME Inv, NEW c \in Calls, Begin(c)
    PROVE  Inv'
<1>1. /\ pc = "idle" /\ call' = c /\ todo' = {} /\ scanned' = {} /\ answer' = NoAnswer
      /\ history' = Watch(c, 0) /\ UNCHANGED kernel
  BY DEF Begin
<1>2. \/ c.function = "disconnect" /\ c.addr # None /\ pc' = "listPaths"
      \/ c.function = "disconnect" /\ c.addr = None /\ pc' = "disconnect"
      \/ c.function = "discoverAndConnect" /\ c.nqn = None /\ pc' = "hostIds"
      \/ c.function = "load" /\ pc' = "listDevices"
      \/ c.function = "connect" /\ c.nqn \in Nqns /\ pc' = "listDevices"
  BY DEF Begin, Calls
<1>3. Watched' /\ history' \in Histories
  BY <1>1, WatchBegins DEF Inv
<1>4. TypeInv'
  <2>1. answer' \in Answers
    BY <1>1 DEF NoAnswer, Answers
  <2>2. UNCHANGED <<path, disk>>
    BY <1>1 DEF kernel
  <2>3. history'.changes \in Nat
    BY <1>3 DEF Histories
  <2>4. pc' \in {"listPaths", "disconnect", "hostIds", "listDevices"}
    BY <1>2
  <2>5. QED
    BY <1>1, <1>3, <2>1, <2>2, <2>3, <2>4 DEF Inv, TypeInv, TypeOK
<1>5. StepInv'
  BY <1>1, <1>2, ScanAssumption DEF StepInv, NoAnswer, Scanning, Opening, Connecting
<1>6. pc' \in Scanning \cup Opening => Collected'
  BY <1>1, <1>2, FS_EmptySet DEF Collected, Scanning, Opening
<1>7. Results'
  BY <1>1, NoResult DEF NoAnswer
<1>8. QED
  BY <1>2, <1>3, <1>4, <1>5, <1>6, <1>7 DEF Inv

LEMMA ReturnKeeps ==
    ASSUME path' \in Paths, disk' \in Disks, history' \in Histories, pc' = "returned",
           call' \in Calls \cup Discovered, todo' \subseteq Devices,
           scanned' \in (SUBSET Found) \cup (SUBSET Controllers), answer' \in Answers, Results'
    PROVE  Inv'
<1>1. TypeInv'
  <2>1. history'.changes \in Nat
    BY DEF Histories
  <2>2. QED
    BY <2>1 DEF TypeInv, TypeOK, Paths, Disks
<1>2. StepInv'
  BY DEF StepInv, Scanning, Opening
<1>3. QED
  BY <1>1, <1>2 DEF Inv, Following, Scanning, Opening

LEMMA FailureKeeps ==
    ASSUME Inv, pc \notin {"idle", "returned"}, Return([result |-> "error"]),
           UNCHANGED <<path, disk, todo, scanned>>, history' \in Histories,
           history'.fault \/ call.function # "load"
    PROVE  Inv'
<1>1. answer' \in Answers /\ answer'.result = "error" /\ pc' = "returned" /\ call' = call
  BY DEF Return, Answers
<1>2. Results'
  BY <1>1, NoResult
<1>3. path' \in Paths /\ disk' \in Disks
  BY DEF Inv, TypeInv, TypeOK, Paths, Disks
<1>4. QED
  BY <1>1, <1>2, <1>3, ReturnKeeps DEF Inv, TypeInv, TypeOK, StepInv

\* On to a command that is not the last.
LEMMA GotoKeeps ==
    ASSUME Inv, pc # "returned", UNCHANGED <<path, disk, answer>>, history' \in Histories,
           StepInv', pc' \in Scanning \cup Opening, Following' => Watched',
           todo' \subseteq Devices, call' \in Calls \cup Discovered, Collected'
    PROVE  Inv'
<1>1. TypeInv'
  <2>1. history'.changes \in Nat
    BY DEF Histories
  <2>2. QED
    BY <2>1 DEF Inv, TypeInv, TypeOK, Collected, Scanning, Opening
<1>2. Results'
  BY NoResult DEF Inv, StepInv
<1>3. QED
  BY <1>1, <1>2 DEF Inv, Scanning, Opening

\* An attempt to connect goes on when nothing was found, or the scan failed.
LEMMA GoOnKeeps ==
    ASSUME Inv, pc \in Scanning, Connecting, Goto("hostIds"),
           UNCHANGED <<path, disk, todo, scanned>>, history' \in Histories,
           history'.paths = history.paths, history'.gone = history.gone,
           history'.steadyPaths = history.steadyPaths, history'.steadyDisks = history.steadyDisks
    PROVE  Inv'
<1>1. pc' = "hostIds" /\ call' = call /\ answer' = answer /\ call.nqn # None
  BY DEF Goto, Inv, StepInv
<1>2. call \in Calls \cup Discovered
  BY DEF Inv, StepInv, Scanning
<1>3. Watched'
  BY <1>1, StillWatched DEF Inv, Following
<1>4. StepInv'
  BY <1>1, <1>2 DEF Inv, StepInv, Scanning, Opening, Connecting
<1>5. Collected'
  BY <1>1 DEF Inv, Collected, Opening
<1>6. pc # "returned" /\ todo' \subseteq Devices
  BY DEF Inv, TypeInv, TypeOK, Scanning
<1>7. QED
  BY <1>1, <1>2, <1>3, <1>4, <1>5, <1>6, GotoKeeps DEF Opening

LEMMA ScanFailsKeeps ==
    ASSUME Inv, pc \in Scanning, Fault, ScanFails, UNCHANGED kernel
    PROVE  Inv'
<1>1. /\ history' \in Histories /\ history'.fault
      /\ history'.paths = history.paths /\ history'.gone = history.gone
      /\ history'.steadyPaths = history.steadyPaths
      /\ history'.steadyDisks = history.steadyDisks
  BY FaultSets DEF Inv, TypeInv
<1>2. UNCHANGED <<path, disk, todo, scanned>>
  BY DEF ScanFails, kernel
<1>3. CASE Connecting
  BY <1>1, <1>2, <1>3, GoOnKeeps DEF ScanFails
<1>4. CASE ~Connecting
  BY <1>1, <1>2, <1>4, FailureKeeps DEF ScanFails, Scanning
<1>5. QED
  BY <1>3, <1>4

LEMMA RetryKeeps ==
    ASSUME Inv, pc \in {"hostIds", "discover", "connect"}, Retry, UNCHANGED kernel,
           history' \in Histories,
           history'.paths = history.paths, history'.gone = history.gone,
           history'.steadyPaths = history.steadyPaths, history'.steadyDisks = history.steadyDisks
    PROVE  Inv'
<1>1. todo' = {} /\ scanned' = {} /\ UNCHANGED <<path, disk>>
  BY DEF Retry, kernel
<1>2. Connecting /\ call \in Calls \cup Discovered
  BY DEF Inv, StepInv, Opening
<1>3. CASE Return([result |-> "error"])
  <2>1. answer' \in Answers /\ answer'.result = "error" /\ pc' = "returned" /\ call' = call
    BY <1>3 DEF Return, Answers
  <2>2. Results'
    BY <1>2, <2>1, NoResult DEF Connecting
  <2>3. path' \in Paths /\ disk' \in Disks
    BY <1>1 DEF Inv, TypeInv, TypeOK, Paths, Disks
  <2>4. QED
    BY <1>1, <1>2, <2>1, <2>2, <2>3, ReturnKeeps
<1>4. CASE pc' = "listDevices" /\ call.function = "connect" /\ call' = call /\ answer' = answer
  <2>1. call.nqn \in Nqns /\ call.nqn # None
    BY <1>2, <1>4, CallTyped, ScanAssumption
  <2>2. Watched'
    BY <1>1, <1>4, <2>1, StillWatched DEF Inv, Following, StepInv
  <2>3. StepInv'
    BY <1>2, <1>4, <2>1 DEF Inv, StepInv, Scanning, Opening, Connecting
  <2>4. Collected'
    BY <1>1, <1>4, FS_EmptySet DEF Collected
  <2>5. QED
    BY <1>1, <1>2, <1>4, <2>2, <2>3, <2>4, GotoKeeps DEF Scanning
<1>5. CASE /\ pc' = "hostIds" /\ call.function # "connect" /\ answer' = answer
           /\ call' = [call EXCEPT !.nqn = None]
  <2>1. call.function = "discoverAndConnect"
    BY <1>2, <1>5 DEF Connecting
  <2>2. call' \in Calls /\ call'.nqn = None /\ call'.function = "discoverAndConnect"
    <3>1. call' \in Calls
      BY <1>2, <1>5, <2>1, CallTyped
    <3>2. QED
      BY <1>2, <1>5, <2>1, <3>1 DEF Calls, Discovered
  <2>3. StepInv'
    BY <1>5, <2>2 DEF Inv, StepInv, Scanning, Opening, Connecting
  <2>4. Collected' /\ ~Following'
    BY <1>1, <1>5, <2>2, FS_EmptySet DEF Collected, Following, Scanning
  <2>5. QED
    BY <1>1, <1>5, <2>2, <2>3, <2>4, GotoKeeps DEF Opening
<1>6. QED
  BY <1>3, <1>4, <1>5 DEF Retry

LEMMA CommandFailsKeeps ==
    ASSUME Inv, CommandFails
    PROVE  Inv'
<1>1. /\ history' \in Histories /\ history'.fault
      /\ history'.paths = history.paths /\ history'.gone = history.gone
      /\ history'.steadyPaths = history.steadyPaths
      /\ history'.steadyDisks = history.steadyDisks
  BY FaultSets DEF CommandFails, Inv, TypeInv
<1>2. CASE pc \in {"listDevices", "listAll", "diagnose"} /\ ScanFails
  BY <1>2, ScanFailsKeeps DEF CommandFails, Scanning
<1>3. CASE pc \in {"hostIds", "discover", "connect"} /\ Retry
  BY <1>1, <1>3, RetryKeeps DEF CommandFails
<1>4. CASE /\ pc \in {"verify", "listPaths", "remove", "disconnect"}
           /\ Return([result |-> "error"]) /\ UNCHANGED <<todo, scanned>>
  BY <1>1, <1>4, FailureKeeps DEF CommandFails, kernel
<1>5. QED
  BY <1>2, <1>3, <1>4 DEF CommandFails
-----------------------------------------------------------------------------
(***************************************************************************)
(* The scan.                                                               *)
(***************************************************************************)

\* Without a name all paths are listed.
LEMMA ListingsGrow ==
    ASSUME NEW nqn, NEW n \in Nqns, nqn \in {None, n}
    PROVE  ListSubsystem(n) \subseteq ListSubsystem(nqn)
<1>1. PathsOf(n) \subseteq PathsOf(nqn)
  BY ScanAssumption DEF PathsOf
<1>2. QED
  BY <1>1 DEF ListSubsystem

LEMMA LookKeeps ==
    ASSUME Inv, NEW d \in Devices, Look(d)
    PROVE  Inv'
<1> DEFINE r == [device |-> d, nqn |-> disk[d].nqn, controllers |-> ListOwner(d)]
<1>1. /\ pc = "scan" /\ pc' = "scan" /\ d \in todo /\ Serving(d) /\ todo' = todo \ {d}
      /\ scanned' = scanned \cup {r} /\ UNCHANGED <<path, disk, call, answer, history>>
  BY DEF Look, Goto
<1>2. Watched /\ Collected /\ call \in Calls \cup Discovered
  BY <1>1 DEF Inv, StepInv, Following, Scanning
<1>3. disk[d].nqn \in Nqns
  BY <1>1 DEF Serving, Inv, TypeInv, TypeOK, Disk
<1>4. ListOwner(d) \subseteq ListSubsystem(disk[d].nqn) /\ ListOwner(d) \subseteq Controller
  BY ListingsTyped DEF ListOwner, Inv
<1>5. r \in Found
  BY <1>3, <1>4 DEF Found
<1>6. ASSUME call.nqn \in {None, r.nqn} PROVE r.controllers \subseteq history.paths
  <2>1. ListSubsystem(r.nqn) \subseteq ListSubsystem(call.nqn)
    BY <1>3, <1>6, ListingsGrow
  <2>2. QED
    BY <1>2, <1>4, <2>1 DEF Watched
<1>7. r.device = d /\ (d \in history.steadyDisks => r.nqn = call.nqn)
  BY <1>2 DEF Watched
<1> HIDE DEF r
<1>8. IsFiniteSet(scanned')
  BY <1>1, <1>2, FS_AddElement DEF Collected
<1>9. Collected'
  BY <1>1, <1>2, <1>5, <1>6, <1>7, <1>8 DEF Collected, Opening, Recorded, Loading
<1>10. Watched'
  BY <1>1, <1>2, StillWatched
<1>11. StepInv'
  BY <1>1 DEF Inv, StepInv, Connecting
<1>12. todo' \subseteq Devices /\ history' \in Histories
  BY <1>1 DEF Inv, TypeInv, TypeOK
<1>13. QED
  BY <1>1, <1>2, <1>9, <1>10, <1>11, <1>12, GotoKeeps DEF Scanning

LEMMA PassKeeps ==
    ASSUME Inv, \/ ListDevices
                \/ \E d \in Devices : Skip(d) \/ LookFails(d)
    PROVE  Inv'
<1>1. /\ pc \in {"listDevices", "scan"} /\ pc' = "scan"
      /\ UNCHANGED <<path, disk, call, answer, scanned>>
  BY DEF ListDevices, Skip, LookFails, Goto
<1>2. Watched /\ Collected /\ call \in Calls \cup Discovered
  BY <1>1 DEF Inv, StepInv, Following, Scanning
<1>3. history \in Histories
  BY DEF Inv, TypeInv
<1>4. /\ history' \in Histories
      /\ history'.paths = history.paths /\ history'.gone = history.gone
      /\ history'.steadyPaths = history.steadyPaths
      /\ history'.steadyDisks = history.steadyDisks
      /\ history'.fault \/ history'.fault = history.fault
  BY <1>3, FaultSets DEF ListDevices, Skip, LookFails
<1>5. todo' \subseteq Devices
  BY DEF ListDevices, Skip, LookFails, Inv, TypeInv, TypeOK
<1>6. ASSUME ~history'.fault, Loading, NEW d \in history.steadyDisks PROVE d \in todo' \/ Recorded(d)
  <2>1. Serving(d) /\ d \in Devices
    BY <1>2, <1>3, <1>6 DEF Watched, Histories
  <2>2. CASE ListDevices
    BY <2>1, <2>2 DEF ListDevices, Serving
  <2>3. ASSUME NEW e \in Devices, Skip(e) PROVE d \in todo' \/ Recorded(d)
    BY <1>2, <1>6, <2>1, <2>3 DEF Skip, Collected
  <2>4. ASSUME NEW e \in Devices, LookFails(e) PROVE FALSE
    BY <1>3, <1>6, <2>4, FaultSets DEF LookFails
  <2>5. QED
    BY <2>2, <2>3, <2>4
<1>7. Collected'
  BY <1>1, <1>2, <1>4, <1>6 DEF Collected, Opening, Recorded, Loading
<1>8. Watched'
  BY <1>1, <1>2, <1>4, StillWatched
<1>9. StepInv'
  BY <1>1 DEF Inv, StepInv, Connecting, Scanning, Opening
<1>10. pc # "returned" /\ pc' \in Scanning \cup Opening
  BY <1>1 DEF Scanning
<1>11. QED
  BY <1>1, <1>2, <1>4, <1>5, <1>7, <1>8, <1>9, <1>10, GotoKeeps

LEMMA SelectableIsFound ==
    ASSUME NEW r, NEW c \in Selectable(r)
    PROVE  /\ c \in r.controllers
           /\ AnyMatches(r.controllers, call.addr) => Matches(c.addr, call.addr)
BY DEF Selectable, AnyMatches, Matches

\* The records of the call's subsystem.
Own == {r \in scanned : r.nqn = call.nqn}

\* What a caller makes of devices whose paths have been there.
LEMMA UseKeeps ==
    ASSUME Inv, pc \in {"scan", "listAll"}, NEW devices, Use(devices),
           UNCHANGED <<path, disk, todo, scanned, history>>,
           \A r \in devices : r.controllers \subseteq history.paths,
           call.nqn # None => \A r \in devices : AnyMatches(r.controllers, call.addr),
           Cardinality(Own) <= 1 /\ call.nqn # None => Cardinality(devices) = 1
    PROVE  Inv'
<1>1. pc \in Scanning /\ call \in Calls \cup Discovered /\ call.function # "disconnect"
  BY DEF Inv, StepInv, Scanning
<1>2. history \in Histories
  BY DEF Inv, TypeInv
<1>3. pc' = "returned" /\ call' = call
  BY DEF Use, Return
<1>4. CASE call.function = "load" /\ Cardinality(devices) # 1
  <2>1. answer' = [result |-> "error"]
    BY <1>4 DEF Use, Return
  <2>2. answer' \in Answers /\ answer'.result = "error"
    BY <2>1 DEF Answers
  <2>3. Results'
    BY <1>3, <1>4, <2>2 DEF Results, ReportedPathExisted, SteadyPathIsFound, NotFoundMeansGone, Own
  <2>4. path' \in Paths /\ disk' \in Disks
    BY DEF Inv, TypeInv, TypeOK, Paths, Disks
  <2>5. QED
    BY <1>1, <1>2, <1>3, <2>2, <2>3, <2>4, ReturnKeeps DEF Inv, TypeInv, TypeOK
<1>5. ASSUME NEW r \in devices, NEW c \in r.controllers,
             answer' = [result |-> "ok", controller |-> c],
             call.function = "load" => c \in Selectable(r)
      PROVE  Inv'
  <2>1. c \in history.paths /\ c \in Controller
    BY <1>2, <1>5 DEF Histories
  <2>2. answer' \in Answers /\ answer'.result = "ok" /\ answer'.controller = c
    BY <1>5, <2>1 DEF Answers
  <2>3. call.function = "load" /\ call.nqn # None => Matches(c.addr, call.addr)
    BY <1>5, SelectableIsFound
  <2>4. Results'
    BY <1>3, <2>1, <2>2, <2>3
       DEF Results, ReportedPathExisted, SteadyPathIsFound, NotFoundMeansGone, Matches
  <2>5. path' \in Paths /\ disk' \in Disks
    BY DEF Inv, TypeInv, TypeOK, Paths, Disks
  <2>6. QED
    BY <1>1, <1>2, <1>3, <2>2, <2>4, <2>5, ReturnKeeps DEF Inv, TypeInv, TypeOK
<1>6. CASE call.function = "load" /\ Cardinality(devices) = 1
  <2>1. PICK r \in devices : \E c \in Selectable(r) :
            Return([result |-> "ok", controller |-> c])
    BY <1>6 DEF Use
  <2>2. PICK c \in Selectable(r) : Return([result |-> "ok", controller |-> c])
    BY <2>1
  <2>3. c \in r.controllers
    BY SelectableIsFound
  <2>4. QED
    BY <1>5, <2>2, <2>3 DEF Return
<1>7. CASE call.function # "load"
  BY <1>5, <1>7 DEF Use, Return
<1>8. QED
  BY <1>4, <1>6, <1>7

\* Some record of the subsystem with a path to the address, and no other of the subsystem.
LEMMA OneMatches ==
    ASSUME Collected, NEW S, S \subseteq Own, S # {}, Cardinality(Own) <= 1
    PROVE  Cardinality(S) = 1
<1>1. IsFiniteSet(Own) /\ Cardinality(Own) \in Nat
  BY FS_Subset, FS_CardinalityType DEF Collected, Own
<1>2. IsFiniteSet(S) /\ Cardinality(S) \in Nat /\ Cardinality(S) <= Cardinality(Own)
  BY <1>1, FS_Subset, FS_CardinalityType
<1>3. Cardinality(S) # 0
  BY <1>2, FS_EmptySet
<1>4. QED
  BY <1>1, <1>2, <1>3

LEMMA FilterKeeps ==
    ASSUME Inv, Filter
    PROVE  Inv'
<1> DEFINE matching == {d \in scanned : d.nqn = call.nqn /\ AnyMatches(d.controllers, call.addr)}
<1>1. /\ pc = "scan" /\ todo = {} /\ UNCHANGED <<path, disk, todo, scanned, history>>
      /\ \/ call.nqn = None /\ Use(scanned)
         \/ call.nqn # None /\ matching # {} /\ Use(matching)
         \/ Goto("listAll")
  BY DEF Filter
<1>2. Watched /\ Collected /\ call \in Calls \cup Discovered /\ history \in Histories
  BY <1>1 DEF Inv, StepInv, TypeInv, Following, Scanning
<1>3. CASE call.nqn = None /\ Use(scanned)
  <2>1. \A r \in scanned : r.controllers \subseteq history.paths
    BY <1>2, <1>3 DEF Collected
  <2>2. QED
    BY <1>1, <1>3, <2>1, UseKeeps
<1>4. CASE call.nqn # None /\ matching # {} /\ Use(matching)
  <2>1. \A r \in matching : r.controllers \subseteq history.paths
    BY <1>2 DEF Collected
  <2>2. Cardinality(Own) <= 1 => Cardinality(matching) = 1
    <3>1. matching \subseteq Own
      BY DEF Own
    <3> HIDE DEF matching
    <3>2. QED
      BY <1>2, <1>4, <3>1, OneMatches
  <2>3. \A r \in matching : AnyMatches(r.controllers, call.addr)
    OBVIOUS
  <2> HIDE DEF matching
  <2>4. QED
    BY <1>1, <1>4, <2>1, <2>2, <2>3, UseKeeps
<1>5. CASE Goto("listAll")
  <2>1. pc' = "listAll" /\ UNCHANGED <<call, answer>>
    BY <1>5 DEF Goto
  <2>2. Watched'
    BY <1>1, <1>2, <2>1, StillWatched
  <2>3. Collected'
    BY <1>1, <1>2, <2>1 DEF Collected, Opening, Recorded, Loading
  <2>4. StepInv'
    BY <1>1, <2>1 DEF Inv, StepInv, Connecting, Scanning, Opening
  <2>5. todo' \subseteq Devices /\ pc' \in Scanning
    BY <1>1, <2>1 DEF Scanning
  <2>6. QED
    BY <1>1, <1>2, <2>1, <2>2, <2>3, <2>4, <2>5, GotoKeeps
<1>6. QED
  BY <1>1, <1>3, <1>4, <1>5

\* The fallback finds a path that stays, if its subsystem has a device that stays.
LEMMA ListAllKeeps ==
    ASSUME Inv, ListAll
    PROVE  Inv'
<1> DEFINE all == ListSubsystem(call.nqn)
<1>1. /\ pc = "listAll" /\ UNCHANGED <<path, disk, todo, scanned, history>>
      /\ \/ AnyMatches(all, call.addr) /\ \E d \in Own : Use({[d EXCEPT !.controllers = all]})
         \/ ~(AnyMatches(all, call.addr) /\ Own # {}) /\ Goto("diagnose")
  BY DEF ListAll, Own
<1>2. Watched /\ Collected /\ call \in Calls \cup Discovered /\ history \in Histories
  BY <1>1 DEF Inv, StepInv, TypeInv, Following, Scanning
<1>3. all \subseteq history.paths
  BY <1>2 DEF Watched
<1>4. CASE AnyMatches(all, call.addr) /\ \E d \in Own : Use({[d EXCEPT !.controllers = all]})
  <2>1. PICK d \in Own : Use({[d EXCEPT !.controllers = all]})
    BY <1>4
  <2>2. d \in Found
    BY <1>2 DEF Collected, Own
  <2> DEFINE r == [d EXCEPT !.controllers = all]
  <2>3. r.controllers = all
    BY <2>2 DEF Found
  <2>4. Cardinality({r}) = 1
    BY FS_Singleton
  <2> HIDE DEF r, all
  <2>5. QED
    BY <1>1, <1>3, <1>4, <2>1, <2>3, <2>4, UseKeeps DEF r
<1>5. CASE ~(AnyMatches(all, call.addr) /\ Own # {}) /\ Goto("diagnose")
  <2>1. pc' = "diagnose" /\ UNCHANGED <<call, answer>>
    BY <1>5 DEF Goto
  <2>2. Loading => ~Steady
    <3> SUFFICES ASSUME Loading, Steady PROVE FALSE
      OBVIOUS
    <3>1. AnyMatches(all, call.addr)
      BY <1>2 DEF Steady, Watched, PathsTo, AnyMatches
    <3>2. Own # {}
      BY <1>1, <1>2 DEF Steady, Collected, Recorded, Own
    <3>3. QED
      BY <1>5, <3>1, <3>2
  <2>3. Watched'
    BY <1>1, <1>2, <2>1, StillWatched
  <2>4. Collected'
    BY <1>1, <1>2, <2>1, <2>2 DEF Collected, Opening, Loading, Steady
  <2>5. StepInv'
    BY <1>1, <2>1 DEF Inv, StepInv, Connecting, Scanning, Opening
  <2>6. todo' \subseteq Devices /\ pc' \in Scanning
    BY <1>1, <2>1 DEF Scanning, Inv, TypeInv, TypeOK
  <2>7. QED
    BY <1>1, <1>2, <2>1, <2>3, <2>4, <2>5, <2>6, GotoKeeps
<1>6. QED
  BY <1>1, <1>4, <1>5

LEMMA DiagnoseKeeps ==
    ASSUME Inv, Diagnose
    PROVE  Inv'
<1> DEFINE why == IF ListSubsystem(call.nqn) # {} THEN "error" ELSE "notFound"
<1>1. /\ pc = "diagnose" /\ NotFound([result |-> why])
      /\ UNCHANGED <<path, disk, todo, scanned, history>>
  BY DEF Diagnose
<1>2. Watched /\ Collected /\ call \in Calls \cup Discovered /\ history \in Histories
  BY <1>1 DEF Inv, StepInv, TypeInv, Following, Scanning
<1>3. CASE Connecting
  BY <1>1, <1>2, <1>3, GoOnKeeps DEF NotFound, Scanning
<1>4. CASE ~Connecting
  <2>1. pc' = "returned" /\ call' = call /\ answer' = [result |-> why]
    BY <1>1, <1>4 DEF NotFound, Return
  <2>2. answer' \in Answers /\ answer'.result = why
    BY <2>1 DEF Answers
  <2>3. why = "notFound" => history.gone
    BY <1>2 DEF Watched, ListSubsystem
  <2>4. Loading => ~Steady
    BY <1>1, <1>2 DEF Collected
  <2>5. Results'
    BY <1>1, <2>1, <2>2, <2>3, <2>4
       DEF Results, ReportedPathExisted, SteadyPathIsFound, NotFoundMeansGone, Loading, Steady
  <2>6. path' \in Paths /\ disk' \in Disks
    BY <1>1 DEF Inv, TypeInv, TypeOK, Paths, Disks
  <2>7. QED
    BY <1>1, <1>2, <2>1, <2>2, <2>5, <2>6, ReturnKeeps DEF Inv, TypeInv, TypeOK
<1>5. QED
  BY <1>3, <1>4
-----------------------------------------------------------------------------
(***************************************************************************)
(* Connecting and disconnecting.                                           *)
(***************************************************************************)

LEMMA OpenKeeps ==
    ASSUME Inv, HostIds \/ Discover
    PROVE  Inv'
<1>1. /\ pc \in {"hostIds", "discover"} /\ UNCHANGED <<path, disk>>
      /\ Collected /\ call \in Calls \cup Discovered /\ history \in Histories
      /\ call.function \in {"connect", "discoverAndConnect"}
  BY DEF HostIds, Discover, Inv, StepInv, TypeInv, Opening, Connecting, kernel
<1>2. CASE HostIds
  <2>1. /\ pc = "hostIds" /\ pc' = IF call.nqn = None THEN "discover" ELSE "connect"
        /\ UNCHANGED <<call, answer, todo, scanned, history>>
    BY <1>2 DEF HostIds, Goto
  <2>2. StepInv'
    BY <1>1, <2>1 DEF Inv, StepInv, Scanning, Opening, Connecting
  <2>3. Following' => Watched'
    BY <1>1, <2>1, StillWatched DEF Inv, Following, Scanning
  <2>4. Collected'
    BY <1>1, <2>1 DEF Collected, Opening
  <2>5. todo' \subseteq Devices /\ pc' \in Opening
    BY <2>1 DEF Inv, TypeInv, TypeOK, Opening
  <2>6. QED
    BY <1>1, <2>1, <2>2, <2>3, <2>4, <2>5, GotoKeeps
<1>3. CASE Discover /\ Retry /\ UNCHANGED history
  BY <1>1, <1>3, RetryKeeps DEF Discover
<1>4. ASSUME NEW nqn \in Nqns, Discover, call' = [call EXCEPT !.nqn = nqn], pc' = "listDevices",
             history' = Watch(call', history.changes), UNCHANGED <<todo, scanned, answer>>
      PROVE  Inv'
  <2>1. pc = "discover" /\ call.nqn = None /\ scanned = {}
    BY <1>1, <1>4 DEF Discover, Inv, StepInv, Collected, Opening
  <2>2. call.function = "discoverAndConnect"
    BY <1>1, <2>1, CallTyped, ScanAssumption
  <2>3. call' \in Discovered
    BY <1>1, <1>4, <2>2, CallTyped
  <2>4. call'.function = "discoverAndConnect" /\ call'.nqn # None
    BY <2>3, ScanAssumption DEF Discovered
  <2>5. history.changes \in Nat /\ UNCHANGED kernel
    BY <1>1 DEF Histories, kernel
  <2>6. Watched' /\ history' \in Histories
    BY <1>4, <2>5, WatchBegins DEF Inv
  <2>7. StepInv'
    BY <1>4, <2>1, <2>3, <2>4 DEF Inv, StepInv, Scanning, Opening, Connecting
  <2>8. Collected'
    BY <1>4, <2>1, FS_EmptySet DEF Collected
  <2>9. todo' \subseteq Devices
    BY <1>4 DEF Inv, TypeInv, TypeOK
  <2>10. QED
    BY <1>1, <1>4, <2>1, <2>3, <2>6, <2>7, <2>8, <2>9, GotoKeeps DEF Scanning
<1>5. QED
  BY <1>2, <1>3, <1>4 DEF Discover

\* The path that connect makes, or the one it finds.
LEMMA ConnectKeeps ==
    ASSUME Inv, Connect \/ Verify
    PROVE  Inv'
<1>1. /\ pc \in {"connect", "verify"} /\ Watched /\ Collected
      /\ call \in Calls \cup Discovered /\ call.function \in {"connect", "discoverAndConnect"}
      /\ call.nqn # None
  BY DEF Connect, Verify, Inv, StepInv, Following, Opening, Connecting
<1>2. call.nqn \in Nqns /\ call.addr \in Addrs
  BY <1>1, CallTyped DEF Connecting
<1>3. todo' = todo /\ scanned' = scanned /\ history \in Histories
  BY DEF Connect, Verify, Inv, TypeInv
<1>4. ASSUME NEW c \in history'.paths, history' \in Histories, path' \in Paths, disk' \in Disks,
             Return([result |-> "ok", controller |-> c])
      PROVE  Inv'
  <2>1. answer' = [result |-> "ok", controller |-> c] /\ pc' = "returned" /\ call' = call
    BY <1>4 DEF Return
  <2>2. c \in Controller
    BY <1>4 DEF Histories
  <2>3. answer' \in Answers /\ answer'.result = "ok" /\ answer'.controller = c
    BY <2>1, <2>2 DEF Answers
  <2>4. Results'
    BY <1>1, <1>4, <2>1, <2>3
       DEF Results, ReportedPathExisted, SteadyPathIsFound, NotFoundMeansGone
  <2>5. QED
    BY <1>1, <1>3, <1>4, <2>1, <2>3, <2>4, ReturnKeeps DEF Inv, TypeInv, TypeOK
<1>5. path \in Paths /\ disk \in Disks
  BY DEF Inv, TypeInv, TypeOK, Paths, Disks
<1>6. ASSUME NEW c \in Controllers, Connection(c, call.nqn, call.addr),
             Return([result |-> "ok", controller |-> [name |-> c, addr |-> call.addr]])
      PROVE  Inv'
  <2> DEFINE new == [nqn |-> call.nqn, addr |-> call.addr]
  <2>1. PICK newPath \in Paths, newDisk \in Disks : Change(newPath, newDisk)
    BY <1>2, <1>6, ConnectionChanges DEF Inv
  <2>2. path' = [path EXCEPT ![c] = new]
    BY <1>2, <1>6, ConnectionChanges DEF Inv
  <2>3. call' = call
    BY <1>6 DEF Return
  <2>4. path' \in Paths /\ disk' \in Disks /\ history' \in Histories /\ Watched'
    BY <1>1, <2>1, <2>3, ChangeIsWatched DEF Inv
  <2>5. new \in Path /\ new # None
    BY <1>2, NoneAssumption DEF Path
  <2>6. path'[c] = new
    BY <1>5, <2>2 DEF Paths
  <2>7. c \in PathsOf(call.nqn)'
    BY <2>3, <2>5, <2>6 DEF PathsOf, Connected
  <2>8. [name |-> c, addr |-> call.addr] \in ListSubsystem(call.nqn)'
    BY <2>6, <2>7 DEF ListSubsystem
  <2>9. [name |-> c, addr |-> call.addr] \in history'.paths
    BY <2>3, <2>4, <2>8 DEF Watched
  <2>10. QED
    BY <1>4, <1>6, <2>4, <2>9
<1>7. CASE Goto("verify") /\ Connect /\ UNCHANGED <<path, disk, history>>
  <2>1. pc' = "verify" /\ UNCHANGED <<call, answer>>
    BY <1>7 DEF Goto
  <2>2. Watched'
    BY <1>1, <1>7, <2>1, StillWatched
  <2>3. StepInv'
    BY <1>1, <2>1 DEF Inv, StepInv, Scanning, Opening, Connecting
  <2>4. Collected'
    BY <1>1, <1>3, <1>7, <2>1 DEF Collected, Opening
  <2>5. todo' \subseteq Devices /\ pc' \in Opening
    BY <1>3, <2>1 DEF Inv, TypeInv, TypeOK, Opening
  <2>6. QED
    BY <1>1, <1>3, <1>7, <2>1, <2>2, <2>3, <2>4, <2>5, GotoKeeps
<1>8. CASE Verify
  <2>1. UNCHANGED <<path, disk, history>>
    BY <1>8 DEF Verify
  <2>2. CASE Return([result |-> "error"])
    BY <1>1, <1>3, <2>1, <2>2, FailureKeeps
  <2>3. ASSUME NEW c \in PathsTo(call.nqn, call.addr), Return([result |-> "ok", controller |-> c])
        PROVE  Inv'
    <3>1. c \in history'.paths
      BY <1>1, <2>1, <2>3 DEF PathsTo, Watched
    <3>2. QED
      BY <1>3, <1>4, <1>5, <2>1, <2>3, <3>1
  <2>4. QED
    BY <1>8, <2>2, <2>3 DEF Verify
<1>9. QED
  BY <1>6, <1>7, <1>8 DEF Connect

LEMMA ListPathsKeeps ==
    ASSUME Inv, ListPaths
    PROVE  Inv'
<1>1. /\ pc = "listPaths" /\ Watched /\ call \in Calls \cup Discovered
      /\ call.function = "disconnect" /\ call.addr # None /\ history \in Histories
  BY DEF ListPaths, Inv, StepInv, TypeInv, Following
<1>2. UNCHANGED <<path, disk, todo>> /\ history' = [history EXCEPT !.reused = {}]
  BY DEF ListPaths
<1>3. /\ history' \in Histories
      /\ history'.paths = history.paths /\ history'.gone = history.gone
      /\ history'.steadyPaths = history.steadyPaths
      /\ history'.steadyDisks = history.steadyDisks
  BY <1>1, <1>2 DEF Histories
<1>4. path' \in Paths /\ disk' \in Disks
  BY <1>2 DEF Inv, TypeInv, TypeOK, Paths, Disks
<1>5. CASE Return([result |-> "done"]) /\ UNCHANGED scanned
  <2>1. answer' \in Answers /\ answer'.result = "done" /\ pc' = "returned" /\ call' = call
    BY <1>5 DEF Return, Answers
  <2>2. Results'
    BY <2>1, NoResult
  <2>3. QED
    BY <1>1, <1>2, <1>3, <1>4, <1>5, <2>1, <2>2, ReturnKeeps DEF Inv, TypeInv, TypeOK
<1>6. ASSUME NEW p \in PathsTo(call.nqn, call.addr), scanned' = {p.name}, Goto("remove")
      PROVE  Inv'
  <2>1. pc' = "remove" /\ UNCHANGED <<call, answer>>
    BY <1>6 DEF Goto
  <2>2. PICK c \in PathsOf(call.nqn) : p = [name |-> c, addr |-> path[c].addr]
    BY <1>6 DEF PathsTo, ListSubsystem
  <2>3. p.name = c /\ c \in Controllers /\ path[c] # None /\ path[c].addr = call.addr
    BY <1>1, <1>6, <2>2 DEF PathsTo, Matches, PathsOf, Connected
  <2>4. path[c] \in Path /\ path[c].nqn = call.nqn
    <3>1. call.nqn # None
      BY <1>1, CallTyped, ScanAssumption
    <3>2. QED
      BY <2>2, <2>3, <3>1 DEF PathsOf, Inv, TypeInv, TypeOK
  <2>5. path[c] = [nqn |-> call.nqn, addr |-> call.addr]
    BY <2>3, <2>4 DEF Path
  <2>6. Named'
    BY <1>2, <1>6, <2>1, <2>3, <2>5 DEF Named
  <2>7. TypeInv'
    <3>1. history'.changes \in Nat
      BY <1>3 DEF Histories
    <3>2. scanned' \in SUBSET Controllers
      BY <1>6, <2>3
    <3>3. UNCHANGED <<path, disk, todo, call, answer>>
      BY <1>2, <2>1
    <3>4. QED
      BY <1>3, <2>1, <3>1, <3>2, <3>3 DEF Inv, TypeInv, TypeOK
  <2>8. Watched'
    BY <1>1, <1>2, <1>3, <2>1, StillWatched
  <2>9. StepInv'
    BY <1>1, <2>1 DEF Inv, StepInv, Scanning, Opening
  <2>10. Results'
    BY <1>1, <2>1, NoResult DEF Inv, StepInv
  <2>11. QED
    BY <2>1, <2>6, <2>7, <2>8, <2>9, <2>10 DEF Inv, Scanning, Opening
<1>7. QED
  BY <1>5, <1>6 DEF ListPaths

LEMMA RemoveKeeps ==
    ASSUME Inv, Remove \/ DisconnectTarget
    PROVE  Inv'
<1>1. /\ pc \in {"remove", "disconnect"} /\ call \in Calls \cup Discovered
      /\ call.function = "disconnect" /\ UNCHANGED <<todo, scanned>> /\ history \in Histories
  BY DEF Remove, DisconnectTarget, Inv, StepInv, TypeInv
<1>2. path \in Paths /\ disk \in Disks
  BY DEF Inv, TypeInv, TypeOK, Paths, Disks
<1>3. ASSUME NEW newPath \in Paths, NEW newDisk \in Disks, Change(newPath, newDisk),
             Return([result |-> "done"])
      PROVE  Inv'
  <2>1. answer' \in Answers /\ answer'.result = "done" /\ pc' = "returned" /\ call' = call
    BY <1>3 DEF Return, Answers
  <2>2. path' \in Paths /\ disk' \in Disks /\ history' \in Histories
    BY <1>1, <1>3, <2>1, ChangeIsWatched DEF Inv
  <2>3. Results'
    BY <2>1, NoResult
  <2>4. QED
    BY <1>1, <2>1, <2>2, <2>3, ReturnKeeps DEF Inv, TypeInv, TypeOK
<1>4. CASE DisconnectTarget
  <2> DEFINE gone == PathsOf(call.nqn)
             newPath == [c \in Controllers |-> IF c \in gone THEN None ELSE path[c]]
             newDisk == [d \in Devices |-> IF disk[d] # None /\ disk[d].nqn = call.nqn
                                           THEN [disk[d] EXCEPT !.owner = None] ELSE disk[d]]
  <2>1. Change(newPath, newDisk) /\ Return([result |-> "done"])
    BY <1>4 DEF DisconnectTarget
  <2>2. newPath \in Paths
    BY <1>2 DEF Paths
  <2>3. \A d \in Devices : disk[d] # None => [disk[d] EXCEPT !.owner = None] \in Disk
    BY <1>2 DEF Disks, Disk
  <2>4. newDisk \in Disks
    BY <1>2, <2>3 DEF Disks
  <2> HIDE DEF newPath, newDisk
  <2>5. QED
    BY <1>3, <2>1, <2>2, <2>4
<1>5. CASE Remove
  <2>1. PICK c \in scanned : \/ Disconnection(c) /\ Return([result |-> "done"])
                             \/ /\ Return([result |-> "error"])
                                /\ UNCHANGED <<path, disk, history>>
    BY <1>5 DEF Remove
  <2>2. c \in Controllers
    BY <1>5, <2>1 DEF Remove, Inv, Named
  <2>3. CASE Disconnection(c) /\ Return([result |-> "done"])
    BY <1>3, <2>2, <2>3, DisconnectionChanges DEF Inv
  <2>4. CASE Return([result |-> "error"]) /\ UNCHANGED <<path, disk, history>>
    BY <1>1, <2>4, FailureKeeps
  <2>5. QED
    BY <2>1, <2>3, <2>4
<1>6. QED
  BY <1>4, <1>5

LEMMA FinishKeeps ==
    ASSUME Inv, Finish
    PROVE  Inv'
<1>1. /\ pc' = "idle" /\ call' = NoCall /\ todo' = {} /\ scanned' = {} /\ answer' = NoAnswer
      /\ history' = NoHistory /\ UNCHANGED <<path, disk>>
  BY DEF Finish, kernel
<1>2. history' \in Histories /\ history'.changes \in Nat
  BY <1>1 DEF NoHistory, Histories
<1>3. answer' \in Answers /\ answer'.result = "none"
  BY <1>1 DEF NoAnswer, Answers
<1>4. TypeInv'
  BY <1>1, <1>2, <1>3 DEF Inv, TypeInv, TypeOK
<1>5. StepInv' /\ Results'
  BY <1>1, <1>3, NoResult DEF StepInv, Scanning, Opening
<1>6. QED
  BY <1>1, <1>4, <1>5 DEF Inv, Following, Scanning, Opening
-----------------------------------------------------------------------------
(***************************************************************************)
(* The results.                                                            *)
(***************************************************************************)

LEMMA NextKeeps ==
    ASSUME Inv, [Next]_vars
    PROVE  Inv'
<1>1. CASE UNCHANGED vars
  <2>1. UNCHANGED <<path, disk, call, pc, todo, scanned, answer, history>>
    BY <1>1 DEF vars
  <2>2. TypeInv' /\ StepInv'
    BY <2>1 DEF Inv, TypeInv, TypeOK, StepInv, Connecting
  <2>3. Following' => Watched'
    BY <2>1, StillWatched DEF Inv, Following
  <2>4. pc' \in Scanning \cup Opening => Collected'
    BY <2>1 DEF Inv, Collected, Recorded, Loading, Steady
  <2>5. pc' = "remove" => Named'
    BY <2>1 DEF Inv, Named
  <2>6. Results'
    BY <2>1 DEF Inv, Results, ReportedPathExisted, SteadyPathIsFound, NotFoundMeansGone, Matches
  <2>7. QED
    BY <2>2, <2>3, <2>4, <2>5, <2>6 DEF Inv
<1>2. CASE EnvironmentStep
  BY <1>2, EnvironmentKeeps
<1>3. CASE CallStep
  <2>1. ASSUME NEW d \in Devices, LookFindsSeveral(d) PROVE Inv'
    BY <2>1, ScanFailsKeeps DEF LookFindsSeveral, Scanning
  <2>2. QED
    BY <1>3, <2>1, BeginKeeps, CommandFailsKeeps, LookKeeps, PassKeeps, FilterKeeps,
       ListAllKeeps, DiagnoseKeeps, OpenKeeps, ConnectKeeps, ListPathsKeeps, RemoveKeeps,
       FinishKeeps DEF CallStep
<1>4. QED
  BY <1>1, <1>2, <1>3 DEF Next

\* The inductive invariant, from which the rest follows.
THEOREM Invariance == Spec => []Inv
<1>1. Init => Inv
  BY InitInv
<1>2. Inv /\ [Next]_vars => Inv'
  BY NextKeeps
<1>3. QED
  BY <1>1, <1>2, PTL DEF Spec

\* The state has its types.
THEOREM TypeCorrect == Spec => []TypeOK
<1>1. Inv => TypeOK
  BY DEF Inv, TypeInv
<1>2. QED
  BY <1>1, Invariance, PTL

\* A load or a connect reports only a path that its subsystem had during the call, a load one
\* to the address it was asked for.
THEOREM ReportedPathsExisted == Spec => []ReportedPathExisted
<1>1. Inv => ReportedPathExisted
  BY DEF Inv, Results
<1>2. QED
  BY <1>1, Invariance, PTL

\* A load finds a path that stays with its device, if no command fails.
THEOREM SteadyPathsAreFound == Spec => []SteadyPathIsFound
<1>1. Inv => SteadyPathIsFound
  BY DEF Inv, Results
<1>2. QED
  BY <1>1, Invariance, PTL

\* The end of a connection is never reported while the subsystem had a path all the time.
THEOREM NotFoundOnlyIfGone == Spec => []NotFoundMeansGone
<1>1. Inv => NotFoundMeansGone
  BY DEF Inv, Results
<1>2. QED
  BY <1>1, Invariance, PTL

\* A disconnect from an address leaves all other paths alone, but for one that has taken over
\* the name of the controller.
THEOREM DisconnectsOnlyThePath == Spec => DisconnectsOnlyItsPath
<1>1. ASSUME Inv, Remove, NEW c \in Controllers, path[c] # None /\ path'[c] = None
      PROVE  path[c] = [nqn |-> call.nqn, addr |-> call.addr] \/ c \in history.reused
  <2>1. Named /\ path \in Paths
    BY <1>1 DEF Remove, Inv, TypeInv, TypeOK, Paths
  <2>2. PICK e \in scanned : Disconnection(e) \/ UNCHANGED path
    BY <1>1 DEF Remove
  <2>3. Disconnection(e)
    BY <1>1, <2>2
  <2>4. e \in Controllers /\ path' = [path EXCEPT ![e] = None]
    BY <1>1, <2>1, <2>3, DisconnectionChanges DEF Inv, Named
  <2>5. c = e
    BY <1>1, <2>1, <2>4 DEF Paths
  <2>6. QED
    BY <1>1, <2>1, <2>5 DEF Named
<1>2. Inv /\ [Next]_vars =>
        [Remove => \A c \in Controllers : path[c] # None /\ path'[c] = None =>
            path[c] = [nqn |-> call.nqn, addr |-> call.addr] \/ c \in history.reused]_vars
  BY <1>1
<1>3. QED
  BY <1>2, Invariance, PTL DEF Spec, DisconnectsOnlyItsPath
-----------------------------------------------------------------------------
(***************************************************************************)
(* A scan while nothing changes.  Faithful says that the records are those *)
(* of the devices as they are, and all of those that are no more to be     *)
(* looked at unless a command has failed; OneDevice, that the kernel keeps *)
(* one device for a subsystem, with an owner among its controllers.        *)
(***************************************************************************)

OneDevice ==
    /\ \A d \in Devices : Serving(d) => disk[d].owner \in PathsOf(disk[d].nqn)
    /\ \A d, e \in Devices :
            Serving(d) /\ Serving(e) /\ disk[d].nqn = disk[e].nqn => d = e

Still == call.function = "load" /\ call.nqn # None /\ history.changes = 0

\* The block device of the call's subsystem.
Device(d) == Serving(d) /\ disk[d].nqn = call.nqn

Present == (\E d \in Devices : Device(d)) /\ PathsTo(call.nqn, call.addr) # {}

Record(d) == [device |-> d, nqn |-> disk[d].nqn, controllers |-> ListOwner(d)]

Faithful ==
    /\ \A r \in scanned : \E d \in Devices : Serving(d) /\ r = Record(d)
    /\ ~history.fault => \A d \in Devices : Serving(d) => d \in todo \/ Record(d) \in scanned

\* What a load that nothing disturbs returns is what one look at the kernel would tell
\* (loadNVMeDeviceInfoWithoutLock in NvmeInitiator): the path to the address, or without an
\* address the one that owns the device, if there are both a device and a path; otherwise an
\* error, the one for a subsystem that is not connected exactly if it is not.  A command that
\* fails can turn an answer into an error, never into another answer.
ScanIsExact ==
    pc = "returned" /\ Still =>
        /\ answer.result = "ok" =>
                /\ Present
                /\ answer.controller \in PathsTo(call.nqn, call.addr)
                /\ call.addr = None =>
                        \E d \in Devices : Device(d) /\ answer.controller.name = disk[d].owner
        /\ answer.result = "notFound" => ListSubsystem(call.nqn) = {}
        /\ ~history.fault =>
                /\ Present => answer.result = "ok"
                /\ ListSubsystem(call.nqn) = {} => answer.result = "notFound"

StillInv ==
    /\ Still =>
        /\ pc \in {"scan", "listAll", "diagnose"} => Faithful
        /\ pc = "listAll" /\ call.addr = None => Own = {}
        /\ pc = "diagnose" /\ ~history.fault => ~Present
    /\ ScanIsExact

\* Devices that stay keep the owner they have, or get another of their subsystem.
LEMMA DevicesStay ==
    ASSUME OneDevice,
           \A d \in Devices : Serving(d)' =>
                /\ Serving(d) /\ disk'[d].nqn = disk[d].nqn
                /\ disk'[d].owner \in PathsOf(disk[d].nqn)'
    PROVE  OneDevice'
BY DEF OneDevice, PathsOf, Connected

LEMMA ConnectionKeepsDevices ==
    ASSUME TypeInv, OneDevice, NEW c \in Controllers, NEW nqn, NEW addr, Connection(c, nqn, addr)
    PROVE  OneDevice'
<1>1. path' = [path EXCEPT ![c] = [nqn |-> nqn, addr |-> addr]] /\ disk' = disk /\ path[c] = None
  BY DEF Connection, Change, Connected
<1>2. ASSUME NEW n \in Nqns PROVE PathsOf(n) \subseteq PathsOf(n)'
  <2>1. SUFFICES ASSUME NEW e \in PathsOf(n) PROVE e \in PathsOf(n)'
    OBVIOUS
  <2>2. e \in Controllers /\ path[e] # None /\ n \in {None, path[e].nqn}
    BY <2>1 DEF PathsOf, Connected
  <2>3. path'[e] = path[e]
    BY <1>1, <2>2 DEF TypeInv, TypeOK
  <2>4. QED
    BY <2>2, <2>3 DEF PathsOf, Connected
<1>3. \A d \in Devices : Serving(d) => disk[d].nqn \in Nqns /\ disk[d].owner \in PathsOf(disk[d].nqn)
  BY DEF TypeInv, TypeOK, Serving, Disk, OneDevice
<1>4. \A d \in Devices : Serving(d)' =>
                /\ Serving(d) /\ disk'[d].nqn = disk[d].nqn
                /\ disk'[d].owner \in PathsOf(disk[d].nqn)'
  BY <1>1, <1>2, <1>3 DEF Serving
<1>5. QED
  BY <1>4, DevicesStay

LEMMA DisconnectionKeepsDevices ==
    ASSUME TypeInv, OneDevice, NEW c \in Controllers, Disconnection(c)
    PROVE  OneDevice'
<1>1. PICK newDisk \in Disowned(c) : disk' = newDisk /\ path' = [path EXCEPT ![c] = None]
  BY DEF Disconnection, Change
<1>2. \A e \in Controllers : e # c => path'[e] = path[e]
  BY <1>1 DEF TypeInv, TypeOK
<1>3. ASSUME NEW d \in Devices, Serving(d)'
      PROVE  /\ Serving(d) /\ disk'[d].nqn = disk[d].nqn
             /\ disk'[d].owner \in PathsOf(disk[d].nqn)'
  <2>1. CASE disk[d] # None /\ disk[d].owner = c
    <3>1. /\ disk'[d].nqn = disk[d].nqn
          /\ disk'[d].owner \in PathsOf(disk[d].nqn) \ {c}
      BY <1>1, <1>3, <2>1 DEF Disowned, Serving
    <3>2. disk'[d].owner \in PathsOf(disk[d].nqn)'
      BY <1>2, <3>1 DEF PathsOf, Connected
    <3>3. Serving(d)
      BY <2>1, ScanAssumption DEF Serving
    <3>4. QED
      BY <3>1, <3>2, <3>3
  <2>2. CASE ~(disk[d] # None /\ disk[d].owner = c)
    <3>1. disk'[d] = disk[d]
      BY <1>1, <2>2 DEF Disowned
    <3>2. Serving(d) /\ disk[d].owner # c
      BY <1>3, <2>2, <3>1 DEF Serving
    <3>3. disk[d].owner \in PathsOf(disk[d].nqn)
      BY <3>2 DEF OneDevice
    <3>4. disk'[d].owner \in PathsOf(disk[d].nqn)'
      BY <1>2, <3>1, <3>2, <3>3 DEF PathsOf, Connected
    <3>5. QED
      BY <3>1, <3>2, <3>4
  <2>3. QED
    BY <2>1, <2>2
<1>4. QED
  BY <1>3, DevicesStay

LEMMA DisconnectTargetKeepsDevices ==
    ASSUME Inv, OneDevice, DisconnectTarget
    PROVE  OneDevice'
<1>1. call.nqn \in Nqns /\ TypeInv
  BY CallTyped DEF DisconnectTarget, Inv, StepInv
<1>2. /\ path' = [c \in Controllers |-> IF c \in PathsOf(call.nqn) THEN None ELSE path[c]]
      /\ disk' = [d \in Devices |-> IF disk[d] # None /\ disk[d].nqn = call.nqn
                                   THEN [disk[d] EXCEPT !.owner = None] ELSE disk[d]]
  BY DEF DisconnectTarget, Change
<1>3. ASSUME NEW d \in Devices, Serving(d)'
      PROVE  /\ Serving(d) /\ disk'[d].nqn = disk[d].nqn
             /\ disk'[d].owner \in PathsOf(disk[d].nqn)'
  <2>1. disk'[d] # None /\ disk'[d].owner # None
    BY <1>3 DEF Serving
  <2>2. ~(disk[d] # None /\ disk[d].nqn = call.nqn)
    <3>1. SUFFICES ASSUME disk[d] # None, disk[d].nqn = call.nqn PROVE FALSE
      OBVIOUS
    <3>2. disk[d] \in Disk
      BY <1>1, <3>1 DEF TypeInv, TypeOK
    <3>3. disk'[d] = [disk[d] EXCEPT !.owner = None]
      BY <1>2, <3>1
    <3>4. QED
      BY <2>1, <3>2, <3>3 DEF Disk
  <2>3. disk'[d] = disk[d]
    BY <1>2, <2>2
  <2>4. Serving(d) /\ disk[d].nqn # call.nqn
    BY <2>1, <2>2, <2>3 DEF Serving
  <2>5. disk[d].owner \in PathsOf(disk[d].nqn) /\ disk[d].nqn \in Nqns
    BY <1>1, <2>4 DEF OneDevice, TypeInv, TypeOK, Serving, Disk
  <2>6. disk[d].owner \in Controllers /\ path[disk[d].owner] # None
        /\ path[disk[d].owner].nqn = disk[d].nqn
    BY <2>5, ScanAssumption DEF PathsOf, Connected
  <2>7. disk[d].owner \notin PathsOf(call.nqn)
    BY <1>1, <2>4, <2>6, ScanAssumption DEF PathsOf
  <2>8. path'[disk[d].owner] = path[disk[d].owner]
    BY <1>2, <2>6, <2>7
  <2>9. disk[d].owner \in PathsOf(disk[d].nqn)'
    BY <2>3, <2>6, <2>8 DEF PathsOf, Connected
  <2>10. QED
    BY <2>3, <2>4, <2>9
<1>4. QED
  BY <1>3, DevicesStay

LEMMA DeviceAppearsKeepsOne ==
    ASSUME TypeInv, OneDevice, DeviceAppears
    PROVE  OneDevice'
<1>1. PICK d \in Devices, c \in Connected :
        /\ disk[d] = None
        /\ \A e \in Devices : Serving(e) => disk[e].nqn # path[c].nqn
        /\ Change(path, [disk EXCEPT ![d] = [nqn |-> path[c].nqn, owner |-> c]])
  BY DEF DeviceAppears
<1>2. path' = path /\ disk' = [disk EXCEPT ![d] = [nqn |-> path[c].nqn, owner |-> c]]
  BY <1>1 DEF Change
<1>3. /\ disk'[d] = [nqn |-> path[c].nqn, owner |-> c]
      /\ \A e \in Devices : e # d => disk'[e] = disk[e]
  BY <1>2 DEF TypeInv, TypeOK
<1>4. c \in PathsOf(path[c].nqn)'
  BY <1>1, <1>2 DEF PathsOf, Connected
<1>5. \A e \in Devices : Serving(e)' /\ e # d => Serving(e) /\ disk[e].owner \in PathsOf(disk[e].nqn)'
  BY <1>2, <1>3 DEF Serving, OneDevice, PathsOf, Connected
<1>6. ASSUME NEW e \in Devices, Serving(e)' PROVE disk'[e].owner \in PathsOf(disk[e].nqn)'
  BY <1>1, <1>2, <1>3, <1>5, <1>6 DEF PathsOf, Connected
<1>7. ASSUME NEW e \in Devices, NEW f \in Devices, Serving(e)', Serving(f)',
             disk'[e].nqn = disk'[f].nqn
      PROVE  e = f
  BY <1>1, <1>3, <1>5, <1>7 DEF OneDevice
<1>8. QED
  BY <1>6, <1>7 DEF OneDevice

LEMMA OneDeviceKept ==
    ASSUME Inv, OneDevice, [Next]_vars
    PROVE  OneDevice'
<1>1. CASE UNCHANGED kernel
  BY <1>1 DEF kernel, OneDevice, Serving, PathsOf, Connected
<1>2. TypeInv
  BY DEF Inv
<1>3. CASE EnvironmentStep
  <2>1. CASE DeviceGone
    <3>1. PICK d \in Devices : disk' = [disk EXCEPT ![d] = None] /\ path' = path
      BY <2>1 DEF DeviceGone, Change
    <3>2. disk'[d] = None /\ \A e \in Devices : e # d => disk'[e] = disk[e]
      BY <1>2, <3>1 DEF TypeInv, TypeOK
    <3>3. \A e \in Devices : Serving(e)' => Serving(e) /\ disk'[e] = disk[e]
      BY <3>2 DEF Serving
    <3>4. QED
      BY <3>1, <3>3, DevicesStay DEF OneDevice, PathsOf, Connected
  <2>2. QED
    BY <1>2, <1>3, <2>1, ConnectionKeepsDevices, DisconnectionKeepsDevices,
       DeviceAppearsKeepsOne DEF EnvironmentStep, OtherConnects, PathLost
<1>4. CASE Connect
  BY <1>1, <1>2, <1>4, ConnectionKeepsDevices DEF Connect, kernel
<1>5. CASE Remove
  <2>1. scanned \subseteq Controllers
    BY <1>5 DEF Remove, Inv, Named
  <2>2. QED
    BY <1>1, <1>2, <1>5, <2>1, DisconnectionKeepsDevices DEF Remove, kernel
<1>6. CASE UNCHANGED vars
  BY <1>1, <1>6 DEF vars, kernel
<1>7. CASE CallStep /\ ~Connect /\ ~Remove /\ ~DisconnectTarget
  <2>1. UNCHANGED kernel
    BY <1>7 DEF CallStep, Begin, CommandFails, ListDevices, Look, Skip, LookFails,
       LookFindsSeveral, Filter, ListAll, Diagnose, HostIds, Discover, Verify, ListPaths,
       Finish, kernel
  <2>2. QED
    BY <1>1, <2>1
<1>8. QED
  BY <1>3, <1>4, <1>5, <1>6, <1>7, DisconnectTargetKeepsDevices DEF Next

\* What is told of a kernel that stays as it is.
LEMMA KernelStays ==
    ASSUME UNCHANGED <<path, disk, call>>
    PROVE  /\ ListSubsystem(call.nqn)' = ListSubsystem(call.nqn)
           /\ PathsTo(call.nqn, call.addr)' = PathsTo(call.nqn, call.addr)
           /\ Present' <=> Present
           /\ \A d \in Devices : /\ Serving(d)' <=> Serving(d)
                                 /\ Device(d)' <=> Device(d)
                                 /\ Record(d)' = Record(d)
<1>1. ListSubsystem(call.nqn)' = ListSubsystem(call.nqn)
  BY DEF ListSubsystem, PathsOf, Connected
<1>2. PathsTo(call.nqn, call.addr)' = PathsTo(call.nqn, call.addr)
  BY <1>1 DEF PathsTo, Matches
<1>3. \A d \in Devices : /\ Serving(d)' <=> Serving(d)
                         /\ Device(d)' <=> Device(d)
                         /\ Record(d)' = Record(d)
  BY DEF Serving, Device, Record, ListOwner, ListSubsystem, PathsOf, Connected
<1>4. QED
  BY <1>1, <1>2, <1>3 DEF Present

\* A device is listed with its owner.
LEMMA OwnerListed ==
    ASSUME OneDevice, NEW d \in Devices, Serving(d)
    PROVE  /\ ListOwner(d) # {} /\ ListOwner(d) \subseteq ListSubsystem(disk[d].nqn)
           /\ \A c \in ListOwner(d) : c.name = disk[d].owner
<1> DEFINE c == [name |-> disk[d].owner, addr |-> path[disk[d].owner].addr]
<1>1. disk[d].owner \in PathsOf(disk[d].nqn)
  BY DEF OneDevice
<1>2. c \in ListSubsystem(disk[d].nqn) /\ c.name = disk[d].owner
  BY <1>1 DEF ListSubsystem
<1> HIDE DEF c
<1>3. c \in ListOwner(d)
  BY <1>2 DEF ListOwner
<1>4. QED
  BY <1>3 DEF ListOwner

\* The records of the subsystem are one, that of its device.
LEMMA OneRecord ==
    ASSUME OneDevice, Faithful, NEW r \in Own
    PROVE  /\ \E d \in Devices : Device(d) /\ r = Record(d)
           /\ Own = {r}
<1>1. \A s \in Own : \E d \in Devices : Device(d) /\ s = Record(d)
  BY DEF Faithful, Own, Record, Device
<1>2. \A d, e \in Devices : Device(d) /\ Device(e) => d = e
  BY DEF OneDevice, Device
<1>3. QED
  BY <1>1, <1>2

\* A load that may use one record with a path to the address returns that path.
LEMMA UseIsExact ==
    ASSUME call.function = "load", UNCHANGED <<path, disk, history>>, Present,
           NEW r, Use({r}), r.controllers \subseteq ListSubsystem(call.nqn),
           AnyMatches(r.controllers, call.addr),
           call.addr = None =>
                \E d \in Devices : Device(d) /\ \A c \in r.controllers : c.name = disk[d].owner
    PROVE  StillInv'
<1>1. Cardinality({r}) = 1
  BY FS_Singleton
<1>2. PICK c \in Selectable(r) : Return([result |-> "ok", controller |-> c])
  BY <1>1 DEF Use
<1>3. c \in r.controllers /\ Matches(c.addr, call.addr)
  BY SelectableIsFound
<1>4. pc' = "returned" /\ call' = call /\ answer'.result = "ok" /\ answer'.controller = c
  BY <1>2 DEF Return
<1>5. c \in PathsTo(call.nqn, call.addr)
  BY <1>3 DEF PathsTo
<1>6. ListSubsystem(call.nqn) # {}
  BY <1>5 DEF PathsTo
<1>7. ScanIsExact'
  BY <1>3, <1>4, <1>5, <1>6, KernelStays DEF ScanIsExact
<1>8. QED
  BY <1>4, <1>7 DEF StillInv

\* Calls that load nothing.
LEMMA NoLoad ==
    ASSUME pc' = "idle" \/ call'.function # "load"
    PROVE  StillInv'
BY DEF StillInv, ScanIsExact, Still

\* An error after a fault.
LEMMA FaultIsError ==
    ASSUME pc' = "returned", answer'.result = "error", history'.fault
    PROVE  StillInv'
BY DEF StillInv, ScanIsExact

LEMMA ChangesEnd ==
    ASSUME Inv, EnvironmentStep
    PROVE  StillInv'
<1>1. history.changes \in Nat /\ pc' = pc
  BY DEF Inv, TypeInv, TypeOK, EnvironmentStep
<1>2. CASE pc = "idle"
  BY <1>1, <1>2, NoLoad
<1>3. CASE pc # "idle"
  <2>1. history \in Histories
    BY DEF Inv, TypeInv
  <2>2. PICK newPath \in Paths, newDisk \in Disks : Change(newPath, newDisk)
    BY OthersChange DEF EnvironmentStep, Inv
  <2>3. history'.changes = history.changes + 1
    BY <1>3, <2>1, <2>2 DEF Change, Histories
  <2>4. ~Still'
    BY <1>1, <2>3 DEF Still
  <2>5. QED
    BY <2>4 DEF StillInv, ScanIsExact
<1>4. QED
  BY <1>2, <1>3

LEMMA BeginsStill ==
    ASSUME NEW c \in Calls, Begin(c)
    PROVE  StillInv'
BY DEF Begin, StillInv, ScanIsExact

LEMMA FailureEnds ==
    ASSUME Inv, CommandFails \/ \E d \in Devices : LookFindsSeveral(d)
    PROVE  StillInv'
<1>1. pc # "idle" /\ history'.fault
  <2>1. history \in Histories /\ Fault
    BY DEF Inv, TypeInv, CommandFails, LookFindsSeveral
  <2>2. QED
    BY <2>1, FaultSets DEF CommandFails, LookFindsSeveral
<1>2. CASE ScanFails
  BY <1>1, <1>2, NoLoad, FaultIsError DEF ScanFails, Connecting, Goto, Return
<1>3. CASE Return([result |-> "error"])
  BY <1>1, <1>3, FaultIsError DEF Return
<1>4. CASE Retry /\ pc \in Opening
  <2>1. call \in Calls \cup Discovered /\ call.function \in {"connect", "discoverAndConnect"}
    BY <1>1, <1>4 DEF Inv, StepInv, Opening, Connecting
  <2>2. \/ call' = call
        \/ call.function = "discoverAndConnect" /\ call' = [call EXCEPT !.nqn = None]
    BY <1>4, <2>1 DEF Retry, Return
  <2>3. call'.function # "load"
    <3>1. CASE call' = call
      BY <2>1, <3>1
    <3>2. CASE call.function = "discoverAndConnect" /\ call' = [call EXCEPT !.nqn = None]
      BY <2>1, <3>2 DEF Calls, Discovered
    <3>3. QED
      BY <2>2, <3>1, <3>2
  <2>4. QED
    BY <2>3, NoLoad
<1>5. QED
  BY <1>2, <1>3, <1>4 DEF CommandFails, LookFindsSeveral, Opening

\* The list has every device, and a device of the list is recorded as it is or left out.
LEMMA ScanIsFaithful ==
    ASSUME Inv, StillInv,
           ListDevices \/ \E d \in Devices : Look(d) \/ Skip(d) \/ LookFails(d)
    PROVE  StillInv'
<1>1. /\ pc \in {"listDevices", "scan"} /\ pc' = "scan" /\ UNCHANGED <<path, disk, call>>
      /\ history \in Histories
  BY DEF ListDevices, Look, Skip, LookFails, Goto, Inv, TypeInv
<1>2. ~ScanIsExact' => FALSE
  BY <1>1 DEF ScanIsExact
<1>3. ASSUME Still' PROVE Faithful'
  <2>1. CASE ListDevices
    <3>1. scanned' = {} /\ todo' = {d \in Devices : disk[d] # None}
      BY <2>1 DEF ListDevices, Inv, Collected, Scanning
    <3>2. QED
      BY <1>1, <3>1 DEF Faithful, Serving
  <2>2. ASSUME NEW d \in Devices, Look(d) \/ Skip(d) PROVE Faithful'
    <3>1. /\ pc = "scan" /\ todo' = todo \ {d} /\ history' = history
          /\ scanned' = IF Serving(d) THEN scanned \cup {Record(d)} ELSE scanned
      BY <2>2 DEF Look, Skip, Record
    <3>2. Faithful
      BY <1>1, <1>3, <3>1 DEF StillInv, Still
    <3>3. QED
      BY <1>1, <3>1, <3>2, KernelStays DEF Faithful
  <2>3. ASSUME NEW d \in Devices, LookFails(d) PROVE Faithful'
    <3>1. pc = "scan" /\ scanned' = scanned /\ history'.fault /\ history'.changes = history.changes
      BY <1>1, <2>3 DEF LookFails, Fault, Histories
    <3>2. Faithful
      BY <1>1, <1>3, <3>1 DEF StillInv, Still
    <3>3. QED
      BY <1>1, <3>1, <3>2, KernelStays DEF Faithful
  <2>4. QED
    BY <2>1, <2>2, <2>3
<1>4. QED
  BY <1>1, <1>2, <1>3 DEF StillInv

LEMMA FilterIsExact ==
    ASSUME Inv, OneDevice, StillInv, Filter
    PROVE  StillInv'
<1> DEFINE matching == {r \in scanned : r.nqn = call.nqn /\ AnyMatches(r.controllers, call.addr)}
<1>1. /\ pc = "scan" /\ UNCHANGED <<path, disk, todo, scanned, history>>
      /\ call.nqn # None => \/ matching # {} /\ Use(matching)
                            \/ matching = {} /\ Goto("listAll")
  BY DEF Filter
<1>2. call' = call
  BY DEF Filter, Use, Goto, Return
<1>3. CASE ~Still
  BY <1>1, <1>2, <1>3 DEF StillInv, ScanIsExact, Still
<1>4. CASE Still
  <2>1. Faithful /\ call.function = "load" /\ call.nqn # None
    BY <1>1, <1>4 DEF StillInv, Still
  <2>2. CASE matching # {} /\ Use(matching)
    <3>1. PICK r \in matching : TRUE
      BY <2>2
    <3>2. r \in Own /\ AnyMatches(r.controllers, call.addr) /\ matching \subseteq Own
      BY <3>1 DEF Own
    <3>3. matching = {r}
      BY <2>1, <3>1, <3>2, OneRecord
    <3>4. PICK d \in Devices : Device(d) /\ r = Record(d)
      BY <2>1, <3>2, OneRecord
    <3>5. /\ r.controllers \subseteq ListSubsystem(call.nqn)
          /\ \A c \in r.controllers : c.name = disk[d].owner
      BY <3>4, OwnerListed DEF Device, Record
    <3>6. Present
      BY <3>2, <3>4, <3>5 DEF Present, AnyMatches, PathsTo
    <3>7. Use({r})
      BY <2>2, <3>3
    <3> HIDE DEF matching
    <3>8. QED
      BY <1>1, <2>1, <3>2, <3>4, <3>5, <3>6, <3>7, UseIsExact
  <2>3. CASE matching = {} /\ Goto("listAll")
    <3>1. pc' = "listAll"
      BY <2>3 DEF Goto
    <3>2. ASSUME call.addr = None, NEW r \in Own PROVE FALSE
      <4>1. PICK d \in Devices : Device(d) /\ r = Record(d)
        BY <2>1, OneRecord
      <4>2. r.controllers # {}
        BY <4>1, OwnerListed DEF Device, Record
      <4>3. r \in matching
        BY <3>2, <4>2 DEF AnyMatches, Matches, Own
      <4>4. QED
        BY <2>3, <4>3
    <3>3. Own' = Own
      BY <1>1, <1>2 DEF Own
    <3>4. Faithful'
      BY <1>1, <1>2, <2>1, KernelStays DEF Faithful
    <3>5. QED
      BY <1>2, <3>1, <3>2, <3>3, <3>4 DEF StillInv, ScanIsExact
  <2>4. QED
    BY <1>1, <2>1, <2>2, <2>3
<1>5. QED
  BY <1>3, <1>4

LEMMA ListAllIsExact ==
    ASSUME Inv, OneDevice, StillInv, ListAll
    PROVE  StillInv'
<1> DEFINE all == ListSubsystem(call.nqn)
<1>1. /\ pc = "listAll" /\ UNCHANGED <<path, disk, todo, scanned, history>>
      /\ \/ AnyMatches(all, call.addr) /\ \E r \in Own : Use({[r EXCEPT !.controllers = all]})
         \/ ~(AnyMatches(all, call.addr) /\ Own # {}) /\ Goto("diagnose")
  BY DEF ListAll, Own
<1>2. call' = call /\ Collected
  BY <1>1 DEF ListAll, Use, Goto, Return, Inv, Scanning
<1>3. CASE ~Still
  BY <1>1, <1>2, <1>3 DEF StillInv, ScanIsExact, Still
<1>4. CASE Still
  <2>1. /\ Faithful /\ call.function = "load" /\ call.nqn # None
        /\ call.addr = None => Own = {}
    BY <1>1, <1>4 DEF StillInv, Still
  <2>2. CASE AnyMatches(all, call.addr) /\ \E r \in Own : Use({[r EXCEPT !.controllers = all]})
    <3>1. PICK r \in Own : Use({[r EXCEPT !.controllers = all]})
      BY <2>2
    <3>2. PICK d \in Devices : Device(d) /\ r = Record(d)
      BY <2>1, OneRecord
    <3> DEFINE s == [r EXCEPT !.controllers = all]
    <3>3. s.controllers = all
      BY <3>2 DEF Record
    <3>4. Present
      BY <2>2, <3>2 DEF Present, PathsTo, AnyMatches
    <3>5. call.addr # None
      BY <2>1
    <3> HIDE DEF s, all
    <3>6. QED
      BY <1>1, <2>1, <2>2, <3>1, <3>3, <3>4, <3>5, UseIsExact DEF s, all
  <2>3. CASE ~(AnyMatches(all, call.addr) /\ Own # {}) /\ Goto("diagnose")
    <3>1. pc' = "diagnose"
      BY <2>3 DEF Goto
    <3>2. ASSUME ~history.fault, Present PROVE FALSE
      <4>1. AnyMatches(all, call.addr)
        BY <3>2 DEF Present, PathsTo, AnyMatches
      <4>2. PICK d \in Devices : Device(d)
        BY <3>2 DEF Present
      <4>3. Record(d) \in scanned
        BY <1>1, <1>2, <2>1, <3>2, <4>2 DEF Faithful, Device, Collected
      <4>4. Record(d) \in Own
        BY <4>2, <4>3 DEF Own, Record, Device
      <4>5. QED
        BY <2>3, <4>1, <4>4
    <3>3. Faithful' /\ (Present' <=> Present)
      BY <1>1, <1>2, <2>1, KernelStays DEF Faithful
    <3>4. QED
      BY <1>1, <3>1, <3>2, <3>3 DEF StillInv, ScanIsExact
  <2>4. QED
    BY <1>1, <2>2, <2>3
<1>5. QED
  BY <1>3, <1>4

LEMMA DiagnoseIsExact ==
    ASSUME Inv, StillInv, Diagnose
    PROVE  StillInv'
<1> DEFINE why == IF ListSubsystem(call.nqn) # {} THEN "error" ELSE "notFound"
<1>1. /\ pc = "diagnose" /\ NotFound([result |-> why]) /\ UNCHANGED <<path, disk, history>>
  BY DEF Diagnose
<1>2. CASE Connecting
  BY <1>1, <1>2, NoLoad DEF NotFound, Goto, Connecting
<1>3. CASE ~Connecting
  <2>1. pc' = "returned" /\ call' = call /\ answer'.result = why
    BY <1>1, <1>3 DEF NotFound, Return
  <2>2. Still' => Still
    BY <1>1, <2>1 DEF Still
  <2>3. Still /\ ~history.fault => ~Present
    BY <1>1 DEF StillInv
  <2>4. ScanIsExact'
    BY <1>1, <2>1, <2>2, <2>3, KernelStays DEF ScanIsExact
  <2>5. QED
    BY <2>1, <2>4 DEF StillInv
<1>4. QED
  BY <1>2, <1>3

\* The commands of the other functions.
LEMMA OthersLoadNothing ==
    ASSUME Inv, HostIds \/ Discover \/ Connect \/ Verify \/ ListPaths \/ Remove \/ DisconnectTarget
    PROVE  StillInv'
<1>1. /\ pc # "idle" /\ call \in Calls \cup Discovered
      /\ call.function \in {"connect", "discoverAndConnect", "disconnect"}
  BY DEF HostIds, Discover, Connect, Verify, ListPaths, Remove, DisconnectTarget,
         Inv, StepInv, Opening, Connecting
<1>2. \/ call' = call
      \/ call' = [call EXCEPT !.nqn = None]
      \/ \E nqn \in Nqns : call' = [call EXCEPT !.nqn = nqn]
  BY DEF HostIds, Discover, Connect, Verify, ListPaths, Remove, DisconnectTarget, Retry,
         Goto, Return
<1>3. call'.function = call.function
  BY <1>1, <1>2 DEF Calls, Discovered
<1>4. QED
  BY <1>1, <1>3, NoLoad

LEMMA StillInvKept ==
    ASSUME Inv, OneDevice, StillInv, [Next]_vars
    PROVE  StillInv'
<1>1. CASE UNCHANGED vars
  <2>1. UNCHANGED <<path, disk, call, pc, todo, scanned, answer, history>>
    BY <1>1 DEF vars
  <2>2. (Faithful => Faithful') /\ Own' = Own /\ (Still' <=> Still)
    BY <2>1, KernelStays DEF Faithful, Own, Still
  <2>3. ScanIsExact'
    BY <2>1, <2>2, KernelStays DEF StillInv, ScanIsExact
  <2>4. QED
    BY <2>1, <2>2, <2>3, KernelStays DEF StillInv
<1>2. CASE EnvironmentStep
  BY <1>2, ChangesEnd
<1>3. CASE CallStep
  <2>1. CASE Finish
    BY <2>1, NoLoad DEF Finish
  <2>2. QED
    BY <1>3, <2>1, BeginsStill, FailureEnds, ScanIsFaithful, FilterIsExact, ListAllIsExact,
       DiagnoseIsExact, OthersLoadNothing DEF CallStep
<1>4. QED
  BY <1>1, <1>2, <1>3 DEF Next

\* A load during which no path and no device comes or goes answers what NvmeInitiator, for
\* which it is one step, takes it to answer; when commands fail as well, it says nothing that
\* is not so.
THEOREM UndisturbedScansAreExact == Spec => []ScanIsExact
<1>1. Init => OneDevice /\ StillInv
  BY DEF Init, OneDevice, Serving, StillInv, ScanIsExact
<1>2. Inv /\ OneDevice /\ StillInv /\ [Next]_vars => OneDevice' /\ StillInv'
  BY OneDeviceKept, StillInvKept
<1>3. StillInv => ScanIsExact
  BY DEF StillInv
<1>4. QED
  BY <1>1, <1>2, <1>3, Invariance, PTL DEF Spec
=============================================================================
