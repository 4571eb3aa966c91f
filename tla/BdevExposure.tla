---------------------------- MODULE BdevExposure ----------------------------
(***************************************************************************)
(* What hosts see of the bdev of a volume, and what the user of            *)
(* StartExposeBdev, StartExposeBdevWithANAState and StopExposeBdev is told,*)
(* without subsystems, lists or the order of commands:                     *)
(*                                                                         *)
(*   - a bdev is hidden, or served with an audience and an ANA state;      *)
(*   - it appears at once, to the whole audience of the start that exposes *)
(*     it, and it vanishes at once: its audience never changes;            *)
(*   - only a start exposes a hidden bdev, and only a stop, or the death   *)
(*     of the target, hides an exposed one;                                *)
(*   - an operation that nothing from outside has disturbed returns        *)
(*     without an error only when its promise is fulfilled, and an         *)
(*     undisturbed stop returns no error at all.                           *)
(***************************************************************************)

CONSTANTS
    Volumes,
    Starts,      \* the calls that expose a bdev
    Stops,       \* the calls that hide it
    Promise,     \* the service a start promises: [audience, ana, readable]
    Optimized,   \* the ANA state in which a bdev appears
    Hidden,      \* no service
    NoOp         \* no call

VARIABLES
    service,     \* what hosts see of the bdev of a volume
    request,     \* the call that runs for it
    outcome,     \* how far that call is, or what it has returned
    disturbed    \* the volumes whose call something from outside has hit

vars == <<service, request, outcome, disturbed>>

Init ==
    /\ service = [v \in Volumes |-> Hidden]
    /\ request = [v \in Volumes |-> NoOp]
    /\ outcome = [v \in Volumes |-> "idle"]
    /\ disturbed = {}

Becomes(v, s) == service' = [service EXCEPT ![v] = s]

Returns(v, result) == outcome' = [outcome EXCEPT ![v] = result]

Disturb(v) == disturbed' = disturbed \cup {v}

Promised(v) == IF request[v] \in Starts THEN Promise[request[v]] ELSE Hidden

\* The call goes on, loses an answer, or returns with its promise fulfilled.
Proceeds(v) ==
    \/ UNCHANGED <<outcome, disturbed>>
    \/ Returns(v, "error") /\ Disturb(v)
    \/ /\ Returns(v, "ok")
       /\ v \in disturbed \/ service'[v] = Promised(v)
       /\ UNCHANGED disturbed

Running(v, calls) == outcome[v] = "running" /\ request[v] \in calls

Begin(v) ==
    /\ request[v] = NoOp
    /\ \E o \in Starts \cup Stops : request' = [request EXCEPT ![v] = o]
    /\ outcome' = [outcome EXCEPT ![v] = "running"]
    /\ UNCHANGED <<service, disturbed>>

\* The call returns, or its process dies.
Leave(v) ==
    /\ request[v] # NoOp
    /\ request' = [request EXCEPT ![v] = NoOp]
    /\ outcome' = [outcome EXCEPT ![v] = "idle"]
    /\ disturbed' = disturbed \ {v}
    /\ UNCHANGED service

\* Without its data only if its bdev went away under the start.
Expose(v) ==
    /\ Running(v, Starts)
    /\ service[v] = Hidden
    /\ \E readable \in BOOLEAN :
          /\ readable \/ v \in disturbed
          /\ Becomes(v, [audience |-> Promised(v).audience, ana |-> Optimized,
                         readable |-> readable])
    /\ Proceeds(v)
    /\ UNCHANGED request

\* The start that has exposed the bdev sets the state it was asked for.
SetAnaState(v) ==
    /\ Running(v, Starts)
    /\ service[v] # Hidden
    /\ service[v].audience = Promised(v).audience
    /\ Becomes(v, [service[v] EXCEPT !.ana = Promised(v).ana])
    /\ Proceeds(v)
    /\ UNCHANGED request

Hide(v) ==
    /\ Running(v, Stops)
    /\ Becomes(v, Hidden)
    /\ Proceeds(v)
    /\ UNCHANGED request

\* A step that hosts do not see.
Work(v) ==
    /\ Running(v, Starts \cup Stops)
    /\ Proceeds(v)
    /\ UNCHANGED <<service, request>>

Fail(v) ==
    /\ Running(v, Starts)
    /\ Returns(v, "error")
    /\ UNCHANGED <<service, request, disturbed>>

BdevGoes(v) ==
    /\ IF service[v] = Hidden THEN UNCHANGED service
                              ELSE Becomes(v, [service[v] EXCEPT !.readable = FALSE])
    /\ IF request[v] = NoOp THEN UNCHANGED disturbed ELSE Disturb(v)
    /\ UNCHANGED <<request, outcome>>

TargetDies ==
    /\ service' = [v \in Volumes |-> Hidden]
    /\ disturbed' = disturbed \cup {v \in Volumes : request[v] # NoOp}
    /\ UNCHANGED <<request, outcome>>

Next ==
    \/ \E v \in Volumes :
          \/ Begin(v) \/ Leave(v)
          \/ Expose(v) \/ SetAnaState(v) \/ Hide(v) \/ Work(v) \/ Fail(v)
          \/ BdevGoes(v)
    \/ TargetDies

Spec == Init /\ [][Next]_vars
=============================================================================
