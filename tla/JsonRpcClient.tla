--------------------------- MODULE JsonRpcClient ---------------------------
(***************************************************************************)
(* The JSON-RPC client of pkg/jsonrpc/client.go.                           *)
(*                                                                         *)
(* A call of SendMsgAsyncWithTimeout runs in the goroutine of its caller:  *)
(* it takes a semaphore slot, puts a message wrapper into msgWrapperQueue  *)
(* and waits for a response on an unbuffered channel of its own.  The      *)
(* dispatcher goroutine writes the messages to the socket, remembers the   *)
(* channel of each under a fresh id in responseChans, and hands the        *)
(* responses that the read goroutine has put into respReceiverQueue to     *)
(* those channels.  The SPDK target at the other end of the socket is the  *)
(* environment: it takes requests in order, answers them in any order, and *)
(* stops taking them while its answers are not read.                       *)
(*                                                                         *)
(* Every select of the code is one action per case.  Timers fire at any    *)
(* moment at which the code waits on them.                                 *)
(***************************************************************************)
EXTENDS Integers, Sequences, FiniteSets

CONSTANTS
    Calls,            \* the calls made during the lifetime of one client
    NoCall,           \* not a call: an absent entry or wrapper
    NoMsg,            \* not a message: the read goroutine holds none
    IdSpace,          \* ids are 0 .. IdSpace - 1 (2^32 in the code)
    FirstIds,         \* the ids NewClient may start from (0 .. 9999 in the code)
    ConcurrentLimit,  \* slots of the semaphore and of both queues (1024)
    WireLimit,        \* messages that fit into one direction of the socket
    ServiceLimit      \* requests the target works on at a time

ASSUME ConstantsAssumption ==
    /\ IsFiniteSet(Calls)
    /\ NoCall \notin Calls
    /\ NoMsg \notin [id : Nat, of : Calls]
    /\ IdSpace \in Nat \ {0}
    /\ FirstIds \subseteq 0 .. IdSpace - 1
    /\ FirstIds # {}
    /\ ConcurrentLimit \in Nat \ {0}
    /\ WireLimit \in Nat \ {0}
    /\ ServiceLimit \in Nat \ {0}

VARIABLES
    ctxDone,            \* the context of NewClient has been cancelled
    conn,               \* "up", or "down" once either end has closed the socket
    caller,             \* where the goroutine of each call is, or how it returned
    got,                \* the call whose command the response answers, if any
    sem,                \* slots taken in c.sem
    msgWrapperQueue,    \* message wrappers, named by their calls
    responseChans,      \* the call whose channel is kept under an id, or NoCall
    closed,             \* the calls whose response channel has been closed
    idCounter,
    dispatcher,         \* program counter of the dispatcher goroutine
    sending,            \* the wrapper it is encoding
    reader,             \* program counter of the read goroutine
    held,               \* the response it is trying to queue
    respReceiverQueue,
    requests,           \* requests in the socket
    responses,          \* responses in the socket
    service,            \* requests the target is working on
    executed            \* how often the target carried out the command of a call

callerVars     == <<caller, got, sem>>
dispatcherVars == <<dispatcher, sending, responseChans, closed, idCounter>>
readerVars     == <<reader, held>>
queueVars      == <<msgWrapperQueue, respReceiverQueue>>
targetVars     == <<requests, responses, service, executed>>
vars == <<ctxDone, conn, callerVars, dispatcherVars, readerVars, queueVars, targetVars>>

Ids == 0 .. IdSpace - 1

\* A request and the response to it carry the id; "of" tells whose command it is.
Message == [id : Ids, of : Calls]

Waiting  == {"acquiring", "acquired", "enqueued", "awaiting"}
Returned == {"refused", "answered", "nilResponse", "timeout", "cancelled"}

\* The calls whose channel is kept in responseChans.
Registered == {c \in Calls : \E i \in Ids : responseChans[i] = c}

\* The calls whose deferred release of the semaphore is still to run.
Holders == {c \in Calls : caller[c] \in Waiting \ {"acquiring"}}

TypeOK ==
    /\ ctxDone \in BOOLEAN
    /\ conn \in {"up", "down"}
    /\ caller \in [Calls -> {"idle"} \cup Waiting \cup Returned]
    /\ got \in [Calls -> Calls \cup {NoCall}]
    /\ sem \in 0 .. ConcurrentLimit
    /\ msgWrapperQueue \in Seq(Calls)
    /\ responseChans \in [Ids -> Calls \cup {NoCall}]
    /\ closed \in SUBSET Calls
    /\ idCounter \in Ids
    /\ dispatcher \in {"selecting", "encoding", "done", "panicked"}
    /\ sending \in Calls \cup {NoCall}
    /\ reader \in {"ticking", "peeking", "holding", "done"}
    /\ held \in Message \cup {NoMsg}
    /\ respReceiverQueue \in Seq(Message)
    /\ requests \in Seq(Message)
    /\ responses \in Seq(Message)
    /\ service \in SUBSET Message
    /\ executed \in [Calls -> Nat]

Init ==
    /\ ctxDone = FALSE
    /\ conn = "up"
    /\ caller = [c \in Calls |-> "idle"]
    /\ got = [c \in Calls |-> NoCall]
    /\ sem = 0
    /\ msgWrapperQueue = <<>>
    /\ responseChans = [i \in Ids |-> NoCall]
    /\ closed = {}
    /\ idCounter \in FirstIds
    /\ dispatcher = "selecting"
    /\ sending = NoCall
    /\ reader = "ticking"
    /\ held = NoMsg
    /\ respReceiverQueue = <<>>
    /\ requests = <<>>
    /\ responses = <<>>
    /\ service = {}
    /\ executed = [c \in Calls |-> 0]
-----------------------------------------------------------------------------
(***************************************************************************)
(* The caller.  A return runs the deferred <-c.sem when the slot is held.  *)
(***************************************************************************)
CallerMoves(c, from, to) ==
    /\ caller[c] = from
    /\ caller' = [caller EXCEPT ![c] = to]

Call(c) ==
    /\ CallerMoves(c, "idle", "acquiring")
    /\ UNCHANGED <<ctxDone, conn, got, sem, dispatcherVars, readerVars, queueVars, targetVars>>

AcquireSemBeyondLimit(c) ==
    /\ sem <= ConcurrentLimit
    /\ CallerMoves(c, "acquiring", "acquired")
    /\ sem' = sem + 1
    /\ UNCHANGED <<ctxDone, conn, got, dispatcherVars, readerVars, queueVars, targetVars>>

AcquireSem(c) ==
    /\ sem < ConcurrentLimit
    /\ CallerMoves(c, "acquiring", "acquired")
    /\ sem' = sem + 1
    /\ UNCHANGED <<ctxDone, conn, got, dispatcherVars, readerVars, queueVars, targetVars>>

RefuseWithoutSlot(c) ==
    /\ CallerMoves(c, "acquiring", "refused")
    /\ UNCHANGED <<ctxDone, conn, got, sem, dispatcherVars, readerVars, queueVars, targetVars>>

RefuseWithSlot(c) ==
    /\ CallerMoves(c, "acquired", "refused")
    /\ sem' = sem - 1
    /\ UNCHANGED <<ctxDone, conn, got, dispatcherVars, readerVars, queueVars, targetVars>>

RefuseOnCtxDone(c) == ctxDone /\ (RefuseWithoutSlot(c) \/ RefuseWithSlot(c))

RefuseOnTimeout(c) == RefuseWithoutSlot(c) \/ RefuseWithSlot(c)

\* json.Marshal rejects the parameters.
RefuseOnMarshalError(c) == RefuseWithSlot(c)

EnqueueMessage(c) ==
    /\ Len(msgWrapperQueue) < ConcurrentLimit
    /\ CallerMoves(c, "acquired", "enqueued")
    /\ msgWrapperQueue' = Append(msgWrapperQueue, c)
    /\ UNCHANGED <<ctxDone, conn, got, sem, dispatcherVars, readerVars, respReceiverQueue, targetVars>>

\* Only from here on is the goroutine a receiver of its unbuffered channel.
AwaitResponse(c) ==
    /\ CallerMoves(c, "enqueued", "awaiting")
    /\ UNCHANGED <<ctxDone, conn, got, sem, dispatcherVars, readerVars, queueVars, targetVars>>

ReturnWithoutRelease(c, outcome) ==
    /\ CallerMoves(c, "awaiting", outcome)
    /\ UNCHANGED <<ctxDone, conn, got, sem, dispatcherVars, readerVars, queueVars, targetVars>>

ReturnWith(c, outcome) ==
    /\ CallerMoves(c, "awaiting", outcome)
    /\ sem' = sem - 1
    /\ UNCHANGED <<ctxDone, conn, got, dispatcherVars, readerVars, queueVars, targetVars>>

ReceiveNil(c) == c \in closed /\ ReturnWith(c, "nilResponse")

ReturnOnCtxDoneIfClosed(c) == c \in closed /\ ctxDone /\ ReturnWith(c, "cancelled")

ReturnOnCtxDone(c) == ctxDone /\ ReturnWith(c, "cancelled")

ReturnOnTimeout(c) == ReturnWith(c, "timeout")

CallerStep(c) ==
    \/ AcquireSem(c)
    \/ EnqueueMessage(c)
    \/ AwaitResponse(c)
    \/ ReceiveNil(c)
    \/ RefuseOnCtxDone(c)
    \/ ReturnOnCtxDone(c)
-----------------------------------------------------------------------------
(***************************************************************************)
(* The dispatcher goroutine.                                               *)
(***************************************************************************)
PeekMessage ==
    /\ dispatcher = "selecting"
    /\ msgWrapperQueue # <<>>
    /\ dispatcher' = "encoding"
    /\ sending' = Head(msgWrapperQueue)
    /\ UNCHANGED <<ctxDone, conn, callerVars, responseChans, closed, idCounter,
                   readerVars, queueVars, targetVars>>

TakeMessage ==
    /\ dispatcher = "selecting"
    /\ msgWrapperQueue # <<>>
    /\ dispatcher' = "encoding"
    /\ sending' = Head(msgWrapperQueue)
    /\ msgWrapperQueue' = Tail(msgWrapperQueue)
    /\ UNCHANGED <<ctxDone, conn, callerVars, responseChans, closed, idCounter,
                   readerVars, respReceiverQueue, targetVars>>

SameId(i) == i

NextId(i) == (i + 1) % IdSpace

RegisterUnderNextId(i, c) == responseChans' = [responseChans EXCEPT ![NextId(i)] = c]

Register(i, c) == responseChans' = [responseChans EXCEPT ![i] = c]

\* handleSend: Encode blocks while the socket is full.
HandleSend ==
    /\ dispatcher = "encoding"
    /\ conn = "up"
    /\ Len(requests) < WireLimit
    /\ requests' = Append(requests, [id |-> idCounter, of |-> sending])
    /\ idCounter' = NextId(idCounter)
    /\ Register(idCounter, sending)
    /\ dispatcher' = "selecting"
    /\ sending' = NoCall
    /\ UNCHANGED <<ctxDone, conn, callerVars, closed, readerVars, queueVars,
                   responses, service, executed>>

RetrySend ==
    /\ dispatcher = "encoding"
    /\ conn = "down"
    /\ UNCHANGED vars

\* handleSend when Encode fails: nothing is registered and nobody is told.
HandleSendError ==
    /\ dispatcher = "encoding"
    /\ conn = "down"
    /\ dispatcher' = "selecting"
    /\ sending' = NoCall
    /\ UNCHANGED <<ctxDone, conn, callerVars, responseChans, closed, idCounter,
                   readerVars, queueVars, targetVars>>

UnregisterNothing(i) == UNCHANGED responseChans

Unregister(i) == responseChans' = [responseChans EXCEPT ![i] = NoCall]

\* ch <- resp succeeds: the caller is blocked in its receive, and returns.
Deliver(c, resp) ==
    /\ caller[c] = "awaiting"
    /\ caller' = [caller EXCEPT ![c] = "answered"]
    /\ got' = [got EXCEPT ![c] = resp.of]
    /\ sem' = sem - 1
    /\ closed' = closed \cup {c}

LeaveOpen(c) == caller[c] # "awaiting" /\ UNCHANGED <<callerVars, closed>>

\* The default case: nobody receives at this moment, the channel is closed.
Drop(c) ==
    /\ caller[c] # "awaiting"
    /\ closed' = closed \cup {c}
    /\ UNCHANGED callerVars

HandleRecv ==
    LET resp == Head(respReceiverQueue)
        c    == responseChans[resp.id]
    IN  /\ dispatcher = "selecting"
        /\ respReceiverQueue # <<>>
        /\ respReceiverQueue' = Tail(respReceiverQueue)
        /\ \/ c = NoCall /\ UNCHANGED <<callerVars, closed, responseChans, dispatcher>>
           \/ /\ c \in Calls \ closed
              /\ Unregister(resp.id)
              /\ Deliver(c, resp) \/ Drop(c)
              /\ UNCHANGED dispatcher
           \/ /\ c \in closed
              /\ Unregister(resp.id)
              /\ dispatcher' = "panicked"
              /\ UNCHANGED <<callerVars, closed>>
        /\ UNCHANGED <<ctxDone, conn, sending, idCounter, readerVars, msgWrapperQueue, targetVars>>

\* handleShutdown closes every channel that is registered, one after the other.
HandleShutdown ==
    LET twice == \/ Registered \cap closed # {}
                 \/ \E i, j \in Ids : i # j /\ responseChans[i] = responseChans[j]
                                            /\ responseChans[i] # NoCall
    IN  /\ dispatcher = "selecting"
        /\ ctxDone
        /\ closed' = closed \cup Registered
        /\ dispatcher' = IF twice THEN "panicked" ELSE "done"
        /\ UNCHANGED <<ctxDone, conn, callerVars, sending, responseChans, idCounter,
                       readerVars, queueVars, targetVars>>

DispatcherStep ==
    TakeMessage \/ HandleSend \/ HandleSendError \/ HandleRecv \/ HandleShutdown
-----------------------------------------------------------------------------
(***************************************************************************)
(* The read goroutine.                                                     *)
(***************************************************************************)
ReaderMoves(from, to) ==
    /\ reader = from
    /\ reader' = to

ReadTick ==
    /\ ReaderMoves("ticking", "peeking")
    /\ UNCHANGED <<ctxDone, conn, callerVars, dispatcherVars, held, queueVars, targetVars>>

\* decoder.More blocks until there is data; a closed socket makes it false.
ReadNothing ==
    /\ conn = "down"
    /\ responses = <<>>
    /\ ReaderMoves("peeking", "ticking")
    /\ UNCHANGED <<ctxDone, conn, callerVars, dispatcherVars, held, queueVars, targetVars>>

ReadResponse ==
    /\ responses # <<>>
    /\ ReaderMoves("peeking", "holding")
    /\ held' = Head(responses)
    /\ responses' = Tail(responses)
    /\ UNCHANGED <<ctxDone, conn, callerVars, dispatcherVars, queueVars,
                   requests, service, executed>>

\* The socket was closed in the middle of the last message.
ReadDecodeError ==
    /\ conn = "down"
    /\ Len(responses) = 1
    /\ ReaderMoves("peeking", "ticking")
    /\ responses' = <<>>
    /\ UNCHANGED <<ctxDone, conn, callerVars, dispatcherVars, held, queueVars,
                   requests, service, executed>>

QueueResponse ==
    /\ Len(respReceiverQueue) < ConcurrentLimit
    /\ ReaderMoves("holding", "ticking")
    /\ respReceiverQueue' = Append(respReceiverQueue, held)
    /\ held' = NoMsg
    /\ UNCHANGED <<ctxDone, conn, callerVars, dispatcherVars, msgWrapperQueue, targetVars>>

HoldForever ==
    /\ Len(respReceiverQueue) = ConcurrentLimit
    /\ reader = "holding"
    /\ UNCHANGED vars

\* queueTimer: the queue has been full for DefaultQueueBlockingTimeout.
DropResponse ==
    /\ Len(respReceiverQueue) = ConcurrentLimit
    /\ ReaderMoves("holding", "ticking")
    /\ held' = NoMsg
    /\ UNCHANGED <<ctxDone, conn, callerVars, dispatcherVars, queueVars, targetVars>>

ReaderShutdown ==
    /\ ctxDone
    /\ ReaderMoves("ticking", "done")
    /\ UNCHANGED <<ctxDone, conn, callerVars, dispatcherVars, held, queueVars, targetVars>>

ReaderStep ==
    \/ ReadTick \/ ReadNothing \/ ReadResponse \/ ReadDecodeError
    \/ QueueResponse \/ DropResponse \/ ReaderShutdown
-----------------------------------------------------------------------------
(***************************************************************************)
(* The environment: the SPDK target, the socket and the context.           *)
(***************************************************************************)
TargetAccepts ==
    /\ requests # <<>>
    /\ requests' = Tail(requests)
    /\ \/ /\ conn = "up"
          /\ Cardinality(service) < ServiceLimit
          /\ service' = service \cup {Head(requests)}
       \/ /\ conn = "down"
          /\ UNCHANGED service
    /\ executed' = [executed EXCEPT ![Head(requests).of] = @ + 1]
    /\ UNCHANGED <<ctxDone, conn, callerVars, dispatcherVars, readerVars, queueVars, responses>>

TargetAnswers ==
    /\ conn = "up"
    /\ Len(responses) < WireLimit
    /\ \E m \in service :
          /\ responses' = Append(responses, m)
          /\ service' = service \ {m}
    /\ UNCHANGED <<ctxDone, conn, callerVars, dispatcherVars, readerVars, queueVars,
                   requests, executed>>

\* Client.Close closes the socket, or the target dies.  A target that is alive
\* still reads what was on its way; a dead one has lost it.  What was on its way
\* back may still be readable.
ConnectionDown ==
    /\ conn = "up"
    /\ conn' = "down"
    /\ requests' \in {requests, <<>>}
    /\ service' = {}
    /\ responses' \in {responses, <<>>}
    /\ UNCHANGED <<ctxDone, callerVars, dispatcherVars, readerVars, queueVars, executed>>

ContextDone ==
    /\ ~ctxDone
    /\ ctxDone' = TRUE
    /\ UNCHANGED <<conn, callerVars, dispatcherVars, readerVars, queueVars, targetVars>>

TargetStep == TargetAccepts \/ TargetAnswers
-----------------------------------------------------------------------------
CallerTimer(c) == RefuseOnTimeout(c) \/ RefuseOnMarshalError(c) \/ ReturnOnTimeout(c)

Next ==
    \/ \E c \in Calls : Call(c) \/ CallerStep(c) \/ CallerTimer(c)
    \/ DispatcherStep
    \/ ReaderStep
    \/ TargetStep
    \/ ConnectionDown
    \/ ContextDone

Spec == Init /\ [][Next]_vars

(***************************************************************************)
(* The goroutines of the client run, and so does the target.  Nothing is   *)
(* assumed of a caller's own timer, which may be set to 24 hours.  The     *)
(* read goroutine passes its select again and again while the socket is    *)
(* closed, and select takes each ready case with positive probability:     *)
(* hence the strong fairness of its shutdown case.                         *)
(***************************************************************************)
Fairness ==
    /\ \A c \in Calls : WF_vars(CallerStep(c))
    /\ WF_vars(DispatcherStep)
    /\ WF_vars(ReaderStep)
    /\ SF_vars(ReaderShutdown)
    /\ WF_vars(TargetStep)

FairSpec == Spec /\ Fairness
-----------------------------------------------------------------------------
(***************************************************************************)
(* Safety.                                                                 *)
(***************************************************************************)

Elems(s) == {s[k] : k \in DOMAIN s}

\* The messages between the dispatcher's Encode and its handleRecv.
InFlight == Elems(requests) \cup service \cup Elems(responses)
              \cup ({held} \ {NoMsg}) \cup Elems(respReceiverQueue)

\* The dispatcher never sends on, or closes, a channel that is already closed,
\* though handleRecv and handleShutdown both close channels of responseChans.
NoPanic == dispatcher # "panicked"

\* The id handleSend would use next belongs to no request that is unanswered:
\* neither to a message under way nor to an entry that a timed-out call left.
IdUnused ==
    /\ responseChans[idCounter] = NoCall
    /\ \A m \in InFlight : m.id # idCounter

\* A caller that gets an answer gets the answer to its own command, whatever the
\* order of the answers and however many calls gave up before (handleRecv).
AnswerIsOwn == \A c \in Calls : caller[c] = "answered" => got[c] = c

\* The slots taken in c.sem are those of the calls between getting a slot and
\* returning: no return path of SendMsgAsyncWithTimeout leaks or doubles one.
SemaphoreExact == sem = Cardinality(Holders)

GaveUp == {c \in Calls : caller[c] \in {"timeout", "cancelled"}}

\* As long as no call has given up and the socket is open, read never finds
\* respReceiverQueue full and every registered call has its message under way:
\* the semaphore keeps the number of responses within the capacity of the queue.
ResponsesAreKept ==
    conn = "up" /\ GaveUp = {} =>
        /\ reader = "holding" => Len(respReceiverQueue) < ConcurrentLimit
        /\ \A i \in Ids : responseChans[i] \in Calls \ closed =>
              [id |-> i, of |-> responseChans[i]] \in InFlight

\* A caller blocked on its channel can still be woken by something other than
\* its timer: its wrapper is queued or being encoded, its channel is registered
\* or closed.  Only a failed Encode (the socket is closed) breaks this chain.
WaiterIsReachable ==
    \A c \in Calls : caller[c] = "awaiting" /\ conn = "up" =>
        \/ c \in Elems(msgWrapperQueue)
        \/ sending = c
        \/ c \in Registered \cup closed

\* The client implements RpcService: commands are carried out at most once and
\* never for a refused call, and answers are to the call's own command.
PhaseOf(pc) ==
    CASE pc = "idle"                                 -> "idle"
      [] pc \in {"acquiring", "acquired"}            -> "called"
      [] pc \in {"enqueued", "awaiting"}             -> "submitted"
      [] pc = "refused"                              -> "refused"
      [] pc = "answered"                             -> "answered"
      [] pc \in {"nilResponse", "timeout", "cancelled"} -> "failed"

Service == INSTANCE RpcService WITH
    phase  <- [c \in Calls |-> PhaseOf(caller[c])],
    answer <- got

ImplementsService == Service!Spec
-----------------------------------------------------------------------------
(***************************************************************************)
(* Liveness, under FairSpec.                                               *)
(***************************************************************************)

\* With the socket open and no call giving up, every call whose message is queued
\* returns without the help of its timer.
CallsReturnUnaided ==
    [](conn = "up" /\ GaveUp = {}) =>
        \A c \in Calls : caller[c] = "enqueued" ~> caller[c] \in Returned

\* Cancelling the context releases every caller, whatever the target, the queues
\* and the other goroutines do.
CancelReleasesCallers ==
    \A c \in Calls : ctxDone /\ caller[c] \in Waiting ~> caller[c] \in Returned

\* The dispatcher never stays in Encode: even if the socket is full in both
\* directions and both queues are full, read's queueTimer makes room.
EncodeEnds == (dispatcher = "encoding") ~> (dispatcher # "encoding")

\* Once the context is cancelled and the socket closed, both goroutines end.
GoroutinesEnd ==
    ctxDone /\ conn = "down" ~> dispatcher = "done" /\ reader = "done"
=============================================================================
