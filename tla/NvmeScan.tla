------------------------------ MODULE NvmeScan ------------------------------
(***************************************************************************)
(* How an initiator finds, connects and disconnects NVMe/TCP paths         *)
(* (pkg/initiator/nvme.go, nvmecli.go, and their callers in initiator.go). *)
(*                                                                         *)
(* The kernel is asked with commands of nvme-cli, one after the other:     *)
(* which block devices there are, then for each of them which subsystem    *)
(* and paths it has, then for all subsystems at once.  Every answer is     *)
(* true when it is given; in between, the initiators of other volumes      *)
(* connect and disconnect, paths are lost, and block devices come and go.  *)
(* NvmeInitiator takes the whole scan for one step; here it is taken       *)
(* apart.                                                                  *)
(***************************************************************************)
EXTENDS Integers, FiniteSets

CONSTANTS
    Nqns,           \* subsystems
    Addrs,          \* addresses of targets: records [ip, port]
    Controllers,    \* names that the kernel gives to controllers: nvme0, ...
    Devices,        \* names of block devices: nvme0n1, ...
    None,           \* not a member of the others
    MaxChanges      \* changes of the kernel's state during a call

ASSUME ScanAssumption ==
    /\ None \notin Nqns \cup Addrs \cup Controllers \cup Devices
    /\ MaxChanges \in Nat

VARIABLES
    path,      \* [Controllers -> what the controller is connected to, or None]
    disk,      \* [Devices -> the subsystem and the controller that owns it, or None]
    call,      \* the function that runs, its arguments
    pc,        \* its next command; "idle" without a call
    todo,      \* devices of the list that are still to be looked at
    scanned,   \* what has been found on the others
    answer,    \* what the function returned
    history    \* what was true during the call

kernel == <<path, disk>>
vars == <<path, disk, call, pc, todo, scanned, answer, history>>

Path == [nqn : Nqns, addr : Addrs]

ASSUME NoneAssumption == None \notin Path

\* A device without an owner has lost its last path and is being torn down.
Disk == [nqn : Nqns, owner : Controllers \cup {None}]

Controller == [name : Controllers, addr : Addrs]

\* A Device that GetDevices builds.
Found == [device : Devices, nqn : Nqns, controllers : SUBSET Controller]

\* The functions with their arguments: loadNVMeDeviceInfo may know a controller from earlier
\* but not the name of the subsystem or the address; discoverAndConnectNVMeTCPTarget, which
\* connects to the subsystem it knows or to the one it discovers; DisconnectController, and
\* DisconnectTarget for all paths of the subsystem.
Calls ==
    [function : {"load"}, nqn : Nqns \cup {None}, addr : Addrs \cup {None},
     recorded : Controllers \cup {None}]
      \cup [function : {"connect"}, nqn : Nqns, addr : Addrs]
      \cup [function : {"disconnect"}, nqn : Nqns, addr : Addrs \cup {None}]
      \cup [function : {"discoverAndConnect"}, nqn : {None}, addr : Addrs]

\* A call that has discovered its subsystem.
Discovered == [function : {"discoverAndConnect"}, nqn : Nqns, addr : Addrs]

Connecting == call.function \in {"connect", "discoverAndConnect"}

NoCall == [function |-> "none"]

Answers ==
    [result : {"none", "done", "error", "notFound"}] \cup [result : {"ok"}, controller : Controller]

NoAnswer == [result |-> "none"]

NoHistory ==
    [paths |-> {}, gone |-> FALSE, steadyPaths |-> {}, steadyDisks |-> {}, reused |-> {},
     fault |-> FALSE, changes |-> 0]
-----------------------------------------------------------------------------
(***************************************************************************)
(* What the commands tell.                                                 *)
(***************************************************************************)

Connected == {c \in Controllers : path[c] # None}

\* Without a name, those of all subsystems.
PathsOf(nqn) == {c \in Connected : nqn \in {None, path[c].nqn}}

\* A device whose subsystem has a path.
Serving(d) == disk[d] # None /\ disk[d].owner # None

\* list-subsys without a device: all paths of the subsystem.
ListSubsystem(nqn) == {[name |-> c, addr |-> path[c].addr] : c \in PathsOf(nqn)}

\* list-subsys of a device tells only the path through the controller that owns it.
ListOwner(d) == {p \in ListSubsystem(disk[d].nqn) : p.name = disk[d].owner}

\* Another port of the same address is taken for the path.
MatchesIp(addr, wanted) == wanted # None => addr.ip = wanted.ip

\* An empty address or port in the arguments matches all.
Matches(addr, wanted) == wanted = None \/ addr = wanted

AnyMatches(controllers, wanted) == \E c \in controllers : Matches(c.addr, wanted)

\* Exactly the address, in DisconnectController and findControllerBySubsystem.
PathsTo(nqn, addr) == {c \in ListSubsystem(nqn) : Matches(c.addr, addr)}
-----------------------------------------------------------------------------
Init ==
    /\ path = [c \in Controllers |-> None]
    /\ disk = [d \in Devices |-> None]
    /\ call = NoCall
    /\ pc = "idle"
    /\ todo = {}
    /\ scanned = {}
    /\ answer = NoAnswer
    /\ history = NoHistory

\* What is true when a call begins, or learns which subsystem it is about.
Watch(c, changes) ==
    [paths |-> ListSubsystem(c.nqn),
     gone |-> PathsOf(c.nqn) = {},
     steadyPaths |-> {p.name : p \in PathsTo(c.nqn, c.addr)},
     steadyDisks |-> {d \in Devices : Serving(d) /\ disk[d].nqn = c.nqn},
     reused |-> {}, fault |-> FALSE, changes |-> changes]

Begin(c) ==
    /\ pc = "idle"
    /\ call' = c
    /\ pc' = CASE c.function = "disconnect" /\ c.addr # None -> "listPaths"
              [] c.function = "disconnect" /\ c.addr = None -> "disconnect"
              [] c.function = "discoverAndConnect" -> "hostIds"
              [] OTHER -> "listDevices"
    /\ todo' = {}
    /\ scanned' = {}
    /\ answer' = NoAnswer
    /\ history' = Watch(c, 0)
    /\ UNCHANGED kernel

Goto(step) == pc' = step /\ UNCHANGED <<call, answer>>

Return(a) == pc' = "returned" /\ answer' = a /\ UNCHANGED call

\* A command fails, whatever it would have told.
Fault == history' = [history EXCEPT !.fault = TRUE]

\* An attempt to connect has failed: the function gives up or tries again from the start,
\* with the discovery if it did not know the subsystem.
Retry ==
    /\ \/ Return([result |-> "error"])
       \/ /\ pc' = IF call.function = "connect" THEN "listDevices" ELSE "hostIds"
          /\ call' = IF call.function = "connect" THEN call ELSE [call EXCEPT !.nqn = None]
          /\ UNCHANGED answer
    /\ todo' = {}
    /\ scanned' = {}

\* GetDevices fails: load fails as well, but an attempt to connect goes on.
ScanFails ==
    /\ IF Connecting THEN Goto("hostIds") ELSE Return([result |-> "error"])
    /\ UNCHANGED <<todo, scanned>>

CommandFails ==
    /\ Fault
    /\ \/ pc \in {"listDevices", "listAll", "diagnose"} /\ ScanFails
       \/ pc \in {"hostIds", "discover", "connect"} /\ Retry
       \/ /\ pc \in {"verify", "listPaths", "remove", "disconnect"}
          /\ Return([result |-> "error"])
          /\ UNCHANGED <<todo, scanned>>
    /\ UNCHANGED kernel

\* listRecognizedNvmeDevices
ListDevices ==
    /\ pc = "listDevices"
    /\ todo' = {d \in Devices : disk[d] # None}
    /\ Goto("scan")
    /\ UNCHANGED <<path, disk, scanned, history>>

\* One device of the list, with one subsystem.
Look(d) ==
    /\ pc = "scan"
    /\ d \in todo
    /\ Serving(d)
    /\ todo' = todo \ {d}
    /\ scanned' = scanned \cup {[device |-> d, nqn |-> disk[d].nqn, controllers |-> ListOwner(d)]}
    /\ Goto("scan")
    /\ UNCHANGED <<path, disk, history>>

\* As before transient errors were told apart: the scan ends.
GiveUp(d) ==
    /\ pc = "scan"
    /\ d \in todo
    /\ ~Serving(d)
    /\ todo' = todo \ {d}
    /\ Return([result |-> "error"])
    /\ UNCHANGED <<path, disk, scanned, history>>

\* A device in cleanup: no such file or directory, or no subsystem.
Skip(d) ==
    /\ pc = "scan"
    /\ d \in todo
    /\ ~Serving(d)
    /\ todo' = todo \ {d}
    /\ Goto("scan")
    /\ UNCHANGED <<path, disk, scanned, history>>

\* The command fails otherwise: the device is left out as well, with a warning.
LookFails(d) ==
    /\ pc = "scan"
    /\ d \in todo
    /\ todo' = todo \ {d}
    /\ Fault
    /\ Goto("scan")
    /\ UNCHANGED <<path, disk, scanned>>

\* nvme-cli tells of several subsystems for one device.
LookFindsSeveral(d) ==
    /\ pc = "scan"
    /\ d \in todo
    /\ Fault
    /\ ScanFails
    /\ UNCHANGED kernel

\* The first controller, whatever its address.
FirstController(device) == device.controllers

\* selectControllerForNVMeDevice: by address, else by the recorded name, else the first.
Selectable(device) ==
    LET ByAddress == {c \in device.controllers : c.addr = call.addr}
        ByName    == {c \in device.controllers : c.name = call.recorded}
    IN CASE ByAddress # {} -> ByAddress
         [] ByAddress = {} /\ ByName # {} -> ByName
         [] OTHER -> device.controllers

\* What the caller makes of the devices that GetDevices returns: load wants one, and selects
\* a controller; connect takes the first controller of the first device.
Use(devices) ==
    IF call.function = "load" THEN
        IF Cardinality(devices) = 1
        THEN \E d \in devices : \E c \in Selectable(d) :
                Return([result |-> "ok", controller |-> c])
        ELSE Return([result |-> "error"])
    ELSE \E d \in devices : \E c \in d.controllers :
            Return([result |-> "ok", controller |-> c])

\* GetDevices has found nothing: connect goes on, load fails.
NotFound(a) ==
    IF Connecting THEN Goto("hostIds") ELSE Return(a)

\* The devices with the NQN and a path to the address; without an NQN all, whatever the
\* address.
Filter ==
    /\ pc = "scan"
    /\ todo = {}
    /\ LET matching == {d \in scanned : d.nqn = call.nqn /\ AnyMatches(d.controllers, call.addr)}
       IN CASE call.nqn = None -> Use(scanned)
            [] call.nqn # None /\ matching # {} -> Use(matching)
            [] OTHER -> Goto("listAll")
    /\ UNCHANGED <<path, disk, todo, scanned, history>>

\* The fallback: a path that owns no device, and a scanned device of its subsystem.
ListAll ==
    /\ pc = "listAll"
    /\ LET all == ListSubsystem(call.nqn)
           own == {d \in scanned : d.nqn = call.nqn}
       IN IF AnyMatches(all, call.addr) /\ own # {}
          THEN \E d \in own : Use({[d EXCEPT !.controllers = all]})
          ELSE Goto("diagnose")
    /\ UNCHANGED <<path, disk, todo, scanned, history>>

\* A subsystem without a path to the address is taken for none.
DiagnoseAddress ==
    /\ pc = "diagnose"
    /\ NotFound([result |-> IF AnyMatches(ListSubsystem(call.nqn), call.addr)
                            THEN "error" ELSE "notFound"])
    /\ UNCHANGED <<path, disk, todo, scanned, history>>

\* Which error: that a path of the subsystem has no device, or that there is no path.
Diagnose ==
    /\ pc = "diagnose"
    /\ NotFound([result |-> IF ListSubsystem(call.nqn) # {} THEN "error" ELSE "notFound"])
    /\ UNCHANGED <<path, disk, todo, scanned, history>>

\* showHostNQN and getHostID, before the discovery and before connect.
HostIds ==
    /\ pc = "hostIds"
    /\ Goto(IF call.nqn = None THEN "discover" ELSE "connect")
    /\ UNCHANGED <<path, disk, todo, scanned, history>>

\* DiscoverTarget: some subsystem is served at the port, or none.
Discover ==
    /\ pc = "discover"
    /\ \/ \E nqn \in Nqns :
            /\ call' = [call EXCEPT !.nqn = nqn]
            /\ pc' = "listDevices"
            /\ history' = Watch(call', history.changes)
            /\ UNCHANGED <<todo, scanned, answer>>
       \/ Retry /\ UNCHANGED history
    /\ UNCHANGED kernel
-----------------------------------------------------------------------------
(***************************************************************************)
(* Changes of the kernel's state, and what the running call is told of     *)
(* them.                                                                   *)
(***************************************************************************)

Change(newPath, newDisk) ==
    LET kept == {c \in Controllers : newPath[c] = path[c]}
        own  == {c \in Controllers : newPath[c] # None /\ call.nqn \in {None, newPath[c].nqn}}
    IN /\ path' = newPath
       /\ disk' = newDisk
       /\ history' =
            IF pc = "idle" THEN history
            ELSE [history EXCEPT
                    !.paths = @ \cup {[name |-> c, addr |-> newPath[c].addr] : c \in own},
                    !.gone = @ \/ own = {},
                    !.steadyPaths = @ \cap kept,
                    !.steadyDisks = {d \in @ : /\ newDisk[d] # None
                                               /\ newDisk[d].nqn = call.nqn
                                               /\ newDisk[d].owner # None},
                    !.reused = @ \cup {c \in Controllers \ kept : newPath[c] # None},
                    !.changes = @ + 1]

Connection(c, nqn, addr) ==
    /\ c \notin Connected
    /\ \A other \in PathsOf(nqn) : path[other].addr # addr
    /\ Change([path EXCEPT ![c] = [nqn |-> nqn, addr |-> addr]], disk)

\* The devices of a subsystem that loses controller c go over to another of its controllers,
\* or begin to be torn down.
Disowned(c) ==
    {new \in [Devices -> Disk \cup {None}] :
        \A d \in Devices :
            IF disk[d] # None /\ disk[d].owner = c
            THEN LET rest == PathsOf(disk[d].nqn) \ {c}
                 IN /\ new[d] # None
                    /\ new[d].nqn = disk[d].nqn
                    /\ IF rest = {} THEN new[d].owner = None ELSE new[d].owner \in rest
            ELSE new[d] = disk[d]}

Disconnection(c) ==
    /\ c \in Connected
    /\ \E newDisk \in Disowned(c) : Change([path EXCEPT ![c] = None], newDisk)

\* connect: a new controller, unless the path is there.
Connect ==
    /\ pc = "connect"
    /\ \/ \E c \in Controllers :
            /\ Connection(c, call.nqn, call.addr)
            /\ Return([result |-> "ok", controller |-> [name |-> c, addr |-> call.addr]])
       \/ /\ PathsTo(call.nqn, call.addr) # {}
          /\ Goto("verify")
          /\ UNCHANGED <<path, disk, history>>
    /\ UNCHANGED <<todo, scanned>>

\* findControllerBySubsystem, after "already connected".
Verify ==
    /\ pc = "verify"
    /\ \/ \E c \in PathsTo(call.nqn, call.addr) : Return([result |-> "ok", controller |-> c])
       \/ /\ PathsTo(call.nqn, call.addr) = {}
          /\ Return([result |-> "error"])
    /\ UNCHANGED <<path, disk, todo, scanned, history>>

\* DisconnectController: the path with the address, ...
ListPaths ==
    /\ pc = "listPaths"
    /\ \/ \E c \in PathsTo(call.nqn, call.addr) :
            /\ scanned' = {c.name}
            /\ Goto("remove")
       \/ /\ PathsTo(call.nqn, call.addr) = {}
          /\ Return([result |-> "done"])
          /\ UNCHANGED scanned
    /\ history' = [history EXCEPT !.reused = {}]
    /\ UNCHANGED <<path, disk, todo>>

\* ... by the name of its controller.
Remove ==
    /\ pc = "remove"
    /\ \E c \in scanned :
        \/ Disconnection(c) /\ Return([result |-> "done"])
        \/ /\ c \notin Connected
           /\ Return([result |-> "error"])
           /\ UNCHANGED <<path, disk, history>>
    /\ UNCHANGED <<todo, scanned>>

\* nvme disconnect with the name of the subsystem.
DisconnectTarget ==
    /\ pc = "disconnect"
    /\ Change([c \in Controllers |-> IF c \in PathsOf(call.nqn) THEN None ELSE path[c]],
              [d \in Devices |-> IF disk[d] # None /\ disk[d].nqn = call.nqn
                                THEN [disk[d] EXCEPT !.owner = None] ELSE disk[d]])
    /\ Return([result |-> "done"])
    /\ UNCHANGED <<todo, scanned>>

\* The caller has what it wants.
Finish ==
    /\ pc = "returned"
    /\ pc' = "idle"
    /\ call' = NoCall
    /\ todo' = {}
    /\ scanned' = {}
    /\ answer' = NoAnswer
    /\ history' = NoHistory
    /\ UNCHANGED kernel
-----------------------------------------------------------------------------
(***************************************************************************)
(* The kernel, and the initiators of other volumes.                        *)
(***************************************************************************)

OtherConnects ==
    \E c \in Controllers, nqn \in Nqns, addr \in Addrs : Connection(c, nqn, addr)

PathLost == \E c \in Controllers : Disconnection(c)

\* The first controller of a subsystem gets its block device; the others get none.
DeviceAppears ==
    \E d \in Devices, c \in Connected :
        /\ disk[d] = None
        /\ \A e \in Devices : Serving(e) => disk[e].nqn # path[c].nqn
        /\ Change(path, [disk EXCEPT ![d] = [nqn |-> path[c].nqn, owner |-> c]])

DeviceGone ==
    \E d \in Devices :
        /\ disk[d] # None /\ ~Serving(d)
        /\ Change(path, [disk EXCEPT ![d] = None])

EnvironmentStep ==
    /\ history.changes < MaxChanges
    /\ pc # "returned"
    /\ OtherConnects \/ PathLost \/ DeviceAppears \/ DeviceGone
    /\ UNCHANGED <<call, pc, todo, scanned, answer>>

CallStep ==
    \/ \E c \in Calls : Begin(c)
    \/ CommandFails \/ ListDevices
    \/ \E d \in Devices : Look(d) \/ Skip(d) \/ LookFails(d) \/ LookFindsSeveral(d)
    \/ Filter \/ ListAll \/ Diagnose \/ HostIds \/ Discover
    \/ Connect \/ Verify
    \/ ListPaths \/ Remove \/ DisconnectTarget
    \/ Finish

Next == CallStep \/ EnvironmentStep

Spec == Init /\ [][Next]_vars
-----------------------------------------------------------------------------
TypeOK ==
    /\ path \in [Controllers -> Path \cup {None}]
    /\ disk \in [Devices -> Disk \cup {None}]
    /\ call \in Calls \cup Discovered \cup {NoCall}
    /\ pc \in {"idle", "listDevices", "scan", "listAll", "diagnose", "hostIds", "discover",
              "connect", "verify", "listPaths", "remove", "disconnect", "returned"}
    /\ todo \subseteq Devices
    /\ scanned \in (SUBSET Found) \cup (SUBSET Controllers)
    /\ answer \in Answers
    /\ history.changes \in Nat

\* The path that is reported to load (selectControllerForNVMeDevice) is one that the
\* subsystem really had during the call, and leads to the address that was asked for; the
\* one reported to connect is at least one of the subsystem.
ReportedPathExisted ==
    answer.result = "ok" =>
        /\ answer.controller \in history.paths
        /\ call.function = "load" /\ call.nqn # None =>
                Matches(answer.controller.addr, call.addr)

\* A path that is there from the beginning to the end of the call, with its block device, is
\* found, whatever happens to other paths and devices: "the live frontend" is not "falsely
\* treated as missing" (nvme.go:111-114).  The caller gets an error only if a command failed.
\* Load also fails if it finds a second device, one that is about to be torn down.
SteadyPathIsFound ==
    /\ answer.result \in {"error", "notFound"}
    /\ call.function = "load" /\ call.nqn # None
    /\ ~history.fault
    /\ Cardinality({d \in scanned : d.nqn = call.nqn}) <= 1
    => history.steadyPaths = {} \/ history.steadyDisks = {}

\* The error that WaitForNVMeTCPTargetDisconnect takes for the end of the connection is
\* returned only if at some time during the call the subsystem had no path at all.
NotFoundMeansGone == answer.result = "notFound" => history.gone

\* DisconnectController removes no path but the one to its address ("without affecting other
\* controllers for the same subsystem", nvme.go:74-75), unless the name of the controller
\* went to another connection after it was looked up.
DisconnectsOnlyItsPath ==
    [][Remove => \A c \in Controllers : path[c] # None /\ path'[c] = None =>
            path[c] = [nqn |-> call.nqn, addr |-> call.addr] \/ c \in history.reused]_vars
=============================================================================
