-------------------------- MODULE MCJsonRpcClient --------------------------
(* Instances of JsonRpcClient for TLC. *)
EXTENDS JsonRpcClient, TLC

\* Calls differ only in their names.
CallSymmetry == Permutations(Calls)

(***************************************************************************)
(* Back-pressure needs as many calls as there are places where a message   *)
(* can be stuck.  The instance that looks at it is a single goroutine that *)
(* makes one call after the other and leaves out the two events that end   *)
(* all back-pressure: the context is done, the socket closes.              *)
(***************************************************************************)
OneByOne ==
    \A c, d \in Calls : c < d /\ caller[d] # "idle" => caller[c] \in Returned

OpenNext == Next /\ ~ctxDone' /\ conn' = "up" /\ OneByOne'

OpenFairSpec == Init /\ [][OpenNext]_vars /\ Fairness
=============================================================================
