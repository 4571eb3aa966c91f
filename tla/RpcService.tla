----------------------------- MODULE RpcService -----------------------------
(***************************************************************************)
(* What a user of pkg/jsonrpc is promised about one call of SendCommand or *)
(* SendCommandWithLongTimeout, without queues, goroutines or sockets:      *)
(*                                                                         *)
(*   - the target carries the command of a call out at most once;          *)
(*   - a call that was refused (it failed before its message was queued)   *)
(*     is never carried out;                                               *)
(*   - a call that returns an answer returns the answer to its own         *)
(*     command, so its command was carried out;                            *)
(*   - a call that fails after its message was queued says nothing about   *)
(*     its command, which may have been carried out before the failure or  *)
(*     may still be carried out after it.                                  *)
(***************************************************************************)
EXTENDS Integers

CONSTANTS Calls     \* the calls made through one client during its lifetime

CONSTANTS NoCall    \* not a call

VARIABLES phase,    \* how far each call has come
          executed, \* how often the target has carried out the command of a call
          answer    \* the call whose command was answered by what a call returned

vars == <<phase, executed, answer>>

Phases == {"idle", "called", "submitted", "refused", "answered", "failed"}

TypeOK ==
    /\ phase \in [Calls -> Phases]
    /\ executed \in [Calls -> 0 .. 1]
    /\ answer \in [Calls -> Calls \cup {NoCall}]

Init ==
    /\ phase = [c \in Calls |-> "idle"]
    /\ executed = [c \in Calls |-> 0]
    /\ answer = [c \in Calls |-> NoCall]

Move(c, from, to) ==
    /\ phase[c] = from
    /\ phase' = [phase EXCEPT ![c] = to]

Call(c) == Move(c, "idle", "called") /\ UNCHANGED <<executed, answer>>

Refuse(c) == Move(c, "called", "refused") /\ UNCHANGED <<executed, answer>>

Submit(c) == Move(c, "called", "submitted") /\ UNCHANGED <<executed, answer>>

Execute(c) ==
    /\ phase[c] \in {"submitted", "failed"}
    /\ executed[c] = 0
    /\ executed' = [executed EXCEPT ![c] = 1]
    /\ UNCHANGED <<phase, answer>>

Answer(c) ==
    /\ executed[c] = 1
    /\ Move(c, "submitted", "answered")
    /\ answer' = [answer EXCEPT ![c] = c]
    /\ UNCHANGED executed

Fail(c) == Move(c, "submitted", "failed") /\ UNCHANGED <<executed, answer>>

Next ==
    \E c \in Calls :
        Call(c) \/ Refuse(c) \/ Submit(c) \/ Execute(c) \/ Answer(c) \/ Fail(c)

Spec == Init /\ [][Next]_vars
=============================================================================
