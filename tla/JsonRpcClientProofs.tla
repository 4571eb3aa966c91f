------------------------ MODULE JsonRpcClientProofs ------------------------
(***************************************************************************)
(* Theorems about JsonRpcClient, for every value of its constants.         *)
(***************************************************************************)
EXTENDS JsonRpcClient, FiniteSetTheorems, SequenceTheorems, TLAPS

(***************************************************************************)
(* Facts about the elements of a sequence.                                 *)
(***************************************************************************)
LEMMA ElemsOfAppend ==
    ASSUME NEW S, NEW s \in Seq(S), NEW e \in S
    PROVE  Elems(Append(s, e)) = Elems(s) \cup {e}
  BY AppendProperties, LenProperties DEF Elems

LEMMA ElemsOfTail ==
    ASSUME NEW S, NEW s \in Seq(S), s # <<>>
    PROVE  /\ Head(s) \in Elems(s)
           /\ Elems(Tail(s)) \subseteq Elems(s)
<1>1. /\ Len(s) \in Nat \ {0}
      /\ DOMAIN s = 1 .. Len(s)
      /\ Tail(s) \in Seq(S)
      /\ Len(Tail(s)) = Len(s) - 1
      /\ \A i \in 1 .. Len(Tail(s)) : Tail(s)[i] = s[i + 1]
  BY EmptySeq, LenProperties, HeadTailProperties
<1>2. DOMAIN Tail(s) = 1 .. Len(Tail(s))
  BY <1>1, LenProperties
<1>3. Head(s) = s[1]
  BY <1>1
<1>4. Head(s) \in Elems(s)
  BY <1>1, <1>3 DEF Elems
<1>5. ASSUME NEW i \in DOMAIN Tail(s) PROVE Tail(s)[i] \in Elems(s)
  <2>1. i \in 1 .. Len(Tail(s)) /\ i + 1 \in DOMAIN s
    BY <1>1, <1>2
  <2>2. Tail(s)[i] = s[i + 1]
    BY <1>1, <2>1
  <2>3. QED
    BY <2>1, <2>2 DEF Elems
<1>6. QED
  BY <1>4, <1>5 DEF Elems

LEMMA HeadOrTail ==
    ASSUME NEW S, NEW s \in Seq(S), s # <<>>, NEW x \in Elems(s)
    PROVE  x = Head(s) \/ x \in Elems(Tail(s))
<1>1. /\ Len(s) \in Nat \ {0}
      /\ DOMAIN s = 1 .. Len(s)
      /\ Tail(s) \in Seq(S)
      /\ Len(Tail(s)) = Len(s) - 1
      /\ \A i \in 1 .. Len(Tail(s)) : Tail(s)[i] = s[i + 1]
      /\ Head(s) = s[1]
  BY EmptySeq, LenProperties, HeadTailProperties
<1>2. DOMAIN Tail(s) = 1 .. Len(Tail(s))
  BY <1>1, LenProperties
<1>3. PICK k \in 1 .. Len(s) : x = s[k]
  BY <1>1 DEF Elems
<1>4. CASE k > 1
  <2>1. k - 1 \in 1 .. Len(Tail(s)) /\ s[(k - 1) + 1] = x
    BY <1>1, <1>3, <1>4
  <2>2. QED
    BY <1>1, <1>2, <2>1 DEF Elems
<1>5. QED
  BY <1>1, <1>3, <1>4

Distinct(s) == \A k, l \in DOMAIN s : s[k] = s[l] => k = l

LEMMA DistinctAppend ==
    ASSUME NEW S, NEW s \in Seq(S), NEW e \in S, Distinct(s), e \notin Elems(s)
    PROVE  Distinct(Append(s, e))
<1>1. /\ Len(s) \in Nat
      /\ DOMAIN s = 1 .. Len(s)
      /\ DOMAIN Append(s, e) = 1 .. Len(s) + 1
      /\ \A i \in 1 .. Len(s) : Append(s, e)[i] = s[i]
      /\ Append(s, e)[Len(s) + 1] = e
  BY AppendProperties, LenProperties
<1>2. QED
  BY <1>1 DEF Distinct, Elems

LEMMA DistinctTail ==
    ASSUME NEW S, NEW s \in Seq(S), s # <<>>, Distinct(s)
    PROVE  Distinct(Tail(s)) /\ Head(s) \notin Elems(Tail(s))
<1>1. /\ Len(s) \in Nat \ {0}
      /\ DOMAIN s = 1 .. Len(s)
      /\ Tail(s) \in Seq(S)
      /\ Len(Tail(s)) = Len(s) - 1
      /\ \A i \in 1 .. Len(Tail(s)) : Tail(s)[i] = s[i + 1]
  BY EmptySeq, LenProperties, HeadTailProperties
<1>2. DOMAIN Tail(s) = 1 .. Len(s) - 1
  BY <1>1, LenProperties
<1>3. Head(s) = s[1]
  BY <1>1
<1>4. ASSUME NEW k \in DOMAIN Tail(s)
      PROVE  Tail(s)[k] = s[k + 1] /\ k + 1 \in DOMAIN s /\ k + 1 # 1 /\ 1 \in DOMAIN s
  BY <1>1, <1>2
<1>5. Head(s) \notin Elems(Tail(s))
  BY <1>3, <1>4 DEF Distinct, Elems
<1>6. ASSUME NEW k \in DOMAIN Tail(s), NEW l \in DOMAIN Tail(s), Tail(s)[k] = Tail(s)[l]
      PROVE  k = l
  <2>1. k + 1 = l + 1
    BY <1>4, <1>6 DEF Distinct
  <2>2. QED
    BY <1>2, <2>1
<1>7. QED
  BY <1>5, <1>6 DEF Distinct
-----------------------------------------------------------------------------
(***************************************************************************)
(* Type correctness.  The slots of the semaphore stay within their bound   *)
(* because they are exactly those of the holders, and what a goroutine     *)
(* appends is a message because its program counter says it holds one.     *)
(***************************************************************************)
ControlInv ==
    /\ dispatcher = "encoding" => sending \in Calls
    /\ reader = "holding" => held \in Message

BaseInv == TypeOK /\ SemaphoreExact /\ ControlInv

LEMMA HoldersFinite == IsFiniteSet(Holders) /\ Cardinality(Holders) \in Nat
<1>1. Holders \subseteq Calls
  BY DEF Holders
<1>2. IsFiniteSet(Holders)
  BY <1>1, ConstantsAssumption, FS_Subset
<1>3. QED
  BY <1>2, FS_CardinalityType

LEMMA BaseInit == Init => BaseInv
<1> SUFFICES ASSUME Init PROVE BaseInv
  OBVIOUS
<1>1. Holders = {}
  BY DEF Init, Holders, Waiting
<1>2. SemaphoreExact
  BY <1>1, FS_EmptySet DEF SemaphoreExact, Init
<1>3. /\ msgWrapperQueue \in Seq(Calls)
      /\ respReceiverQueue \in Seq(Message)
      /\ requests \in Seq(Message)
      /\ responses \in Seq(Message)
  BY EmptySeq DEF Init
<1>4. idCounter \in Ids /\ sem \in 0 .. ConcurrentLimit
  BY ConstantsAssumption DEF Init, Ids
<1>5. /\ caller \in [Calls -> {"idle"} \cup Waiting \cup Returned]
      /\ got \in [Calls -> Calls \cup {NoCall}]
      /\ responseChans \in [Ids -> Calls \cup {NoCall}]
      /\ executed \in [Calls -> Nat]
  BY DEF Init
<1>6. TypeOK
  BY <1>3, <1>4, <1>5 DEF Init, TypeOK
<1>7. ControlInv
  BY DEF Init, ControlInv
<1>8. QED
  BY <1>2, <1>6, <1>7 DEF BaseInv

(***************************************************************************)
(* The three ways in which a step moves a caller: it neither takes nor     *)
(* gives back a slot, it takes one, it gives one back.                     *)
(***************************************************************************)
LEMMA KeepSlot ==
    ASSUME TypeOK, SemaphoreExact, Holders' = Holders, sem' = sem
    PROVE  SemaphoreExact' /\ sem' \in 0 .. ConcurrentLimit
  BY DEF SemaphoreExact, TypeOK

LEMMA TakeSlot ==
    ASSUME TypeOK, SemaphoreExact, NEW c \in Calls, sem < ConcurrentLimit, sem' = sem + 1,
           c \notin Holders, Holders' = Holders \cup {c}
    PROVE  SemaphoreExact' /\ sem' \in 0 .. ConcurrentLimit
<1>1. Cardinality(Holders \cup {c}) = Cardinality(Holders) + 1
  BY HoldersFinite, FS_AddElement
<1>2. QED
  BY <1>1, ConstantsAssumption DEF SemaphoreExact, TypeOK

LEMMA GiveSlot ==
    ASSUME TypeOK, SemaphoreExact, NEW c \in Calls, sem' = sem - 1,
           c \in Holders, Holders' = Holders \ {c}
    PROVE  SemaphoreExact' /\ sem' \in 0 .. ConcurrentLimit
<1>1. Cardinality(Holders \ {c}) = Cardinality(Holders) - 1
  BY HoldersFinite, FS_RemoveElement
<1>2. Cardinality(Holders \ {c}) \in Nat
  BY HoldersFinite, FS_RemoveElement, FS_CardinalityType
<1>3. QED
  BY <1>1, <1>2, ConstantsAssumption DEF SemaphoreExact, TypeOK

\* What a move of one caller does to the set of holders.
LEMMA MoveOfCaller ==
    ASSUME TypeOK, NEW c \in Calls, NEW from, NEW to \in {"idle"} \cup Waiting \cup Returned,
           CallerMoves(c, from, to)
    PROVE  /\ caller' \in [Calls -> {"idle"} \cup Waiting \cup Returned]
           /\ c \in Holders <=> from \in Waiting \ {"acquiring"}
           /\ Holders' = IF to \in Waiting \ {"acquiring"} THEN Holders \cup {c} ELSE Holders \ {c}
  BY DEF CallerMoves, TypeOK, Holders

(***************************************************************************)
(* One lemma per process.                                                  *)
(***************************************************************************)
LEMMA BaseCaller ==
    ASSUME BaseInv, NEW c \in Calls, Call(c) \/ CallerStep(c) \/ CallerTimer(c)
    PROVE  BaseInv'
<1> USE DEF BaseInv, callerVars, dispatcherVars, readerVars, queueVars, targetVars
<1>1. CASE Call(c)
  <2>1. SemaphoreExact' /\ sem' \in 0 .. ConcurrentLimit /\ caller' \in [Calls -> {"idle"} \cup Waiting \cup Returned]
    BY <1>1, MoveOfCaller, KeepSlot DEF Call, Waiting
  <2>2. QED
    BY <1>1, <2>1 DEF Call, TypeOK, ControlInv
<1>2. CASE AcquireSem(c)
  <2>1. SemaphoreExact' /\ sem' \in 0 .. ConcurrentLimit /\ caller' \in [Calls -> {"idle"} \cup Waiting \cup Returned]
    BY <1>2, MoveOfCaller, TakeSlot DEF AcquireSem, Waiting
  <2>2. QED
    BY <1>2, <2>1 DEF AcquireSem, TypeOK, ControlInv
<1>3. CASE RefuseWithoutSlot(c)
  <2>1. SemaphoreExact' /\ sem' \in 0 .. ConcurrentLimit /\ caller' \in [Calls -> {"idle"} \cup Waiting \cup Returned]
    BY <1>3, MoveOfCaller, KeepSlot DEF RefuseWithoutSlot, Waiting, Returned
  <2>2. QED
    BY <1>3, <2>1 DEF RefuseWithoutSlot, TypeOK, ControlInv
<1>4. CASE RefuseWithSlot(c)
  <2>1. SemaphoreExact' /\ sem' \in 0 .. ConcurrentLimit /\ caller' \in [Calls -> {"idle"} \cup Waiting \cup Returned]
    BY <1>4, MoveOfCaller, GiveSlot DEF RefuseWithSlot, Waiting, Returned
  <2>2. QED
    BY <1>4, <2>1 DEF RefuseWithSlot, TypeOK, ControlInv
<1>5. CASE EnqueueMessage(c)
  <2>0. /\ caller' \in [Calls -> {"idle"} \cup Waiting \cup Returned]
        /\ c \in Holders
        /\ Holders' = Holders \cup {c}
    BY <1>5, MoveOfCaller DEF EnqueueMessage, Waiting
  <2>1. SemaphoreExact' /\ sem' \in 0 .. ConcurrentLimit
    <3>1. Holders' = Holders
      BY <2>0
    <3>2. QED
      BY <1>5, <3>1, KeepSlot DEF EnqueueMessage
  <2>2. msgWrapperQueue' \in Seq(Calls)
    BY <1>5, AppendProperties DEF EnqueueMessage, TypeOK
  <2>3. QED
    BY <1>5, <2>0, <2>1, <2>2 DEF EnqueueMessage, TypeOK, ControlInv
<1>6. CASE AwaitResponse(c)
  <2>1. SemaphoreExact' /\ sem' \in 0 .. ConcurrentLimit /\ caller' \in [Calls -> {"idle"} \cup Waiting \cup Returned]
    BY <1>6, MoveOfCaller, KeepSlot DEF AwaitResponse, Waiting
  <2>2. QED
    BY <1>6, <2>1 DEF AwaitResponse, TypeOK, ControlInv
<1>7. ASSUME NEW outcome \in Returned, ReturnWith(c, outcome) PROVE BaseInv'
  <2>1. SemaphoreExact' /\ sem' \in 0 .. ConcurrentLimit /\ caller' \in [Calls -> {"idle"} \cup Waiting \cup Returned]
    BY <1>7, MoveOfCaller, GiveSlot DEF ReturnWith, Waiting, Returned
  <2>2. QED
    BY <1>7, <2>1 DEF ReturnWith, TypeOK, ControlInv
<1>8. QED
  BY <1>1, <1>2, <1>3, <1>4, <1>5, <1>6, <1>7
  DEF CallerStep, CallerTimer, RefuseOnCtxDone, RefuseOnTimeout, RefuseOnMarshalError,
      ReceiveNil, ReturnOnCtxDone, ReturnOnTimeout, Returned

LEMMA BaseDispatcher == BaseInv /\ DispatcherStep => BaseInv'
<1> SUFFICES ASSUME BaseInv, DispatcherStep PROVE BaseInv'
  OBVIOUS
<1> USE DEF BaseInv, callerVars, dispatcherVars, readerVars, queueVars, targetVars
<1>1. CASE TakeMessage
  <2>1. Head(msgWrapperQueue) \in Calls /\ Tail(msgWrapperQueue) \in Seq(Calls)
    BY <1>1, HeadTailProperties DEF TakeMessage, TypeOK
  <2>2. Holders' = Holders
    BY <1>1 DEF TakeMessage, Holders
  <2>3. QED
    BY <1>1, <2>1, <2>2, KeepSlot DEF TakeMessage, TypeOK, ControlInv
<1>2. CASE HandleSend
  <2>1. sending \in Calls /\ [id |-> idCounter, of |-> sending] \in Message
    BY <1>2 DEF HandleSend, ControlInv, TypeOK, Message
  <2>2. requests' \in Seq(Message)
    BY <1>2, <2>1, AppendProperties DEF HandleSend, TypeOK
  <2>3. NextId(idCounter) \in Ids
    BY ConstantsAssumption DEF NextId, Ids, TypeOK
  <2>4. responseChans' \in [Ids -> Calls \cup {NoCall}]
    BY <1>2, <2>1 DEF HandleSend, Register, TypeOK
  <2>5. Holders' = Holders
    BY <1>2 DEF HandleSend, Holders
  <2>6. QED
    BY <1>2, <2>2, <2>3, <2>4, <2>5, KeepSlot DEF HandleSend, TypeOK, ControlInv
<1>3. CASE HandleSendError
  <2>1. Holders' = Holders
    BY <1>3 DEF HandleSendError, Holders
  <2>2. QED
    BY <1>3, <2>1, KeepSlot DEF HandleSendError, TypeOK, ControlInv
<1>4. CASE HandleRecv
  <2> DEFINE resp == Head(respReceiverQueue)
             c    == responseChans[resp.id]
  <2>1. /\ resp \in Message
        /\ respReceiverQueue' \in Seq(Message)
    BY <1>4, HeadTailProperties DEF HandleRecv, TypeOK
  <2>2. resp.id \in Ids /\ resp.of \in Calls /\ c \in Calls \cup {NoCall}
    BY <2>1 DEF TypeOK, Message
  <2> HIDE DEF resp, c
  <2>3. responseChans' \in [Ids -> Calls \cup {NoCall}]
    BY <1>4, <2>2 DEF HandleRecv, Unregister, TypeOK, resp, c
  <2>4. ASSUME UNCHANGED <<caller, sem>> PROVE SemaphoreExact' /\ sem' \in 0 .. ConcurrentLimit
    <3>1. Holders' = Holders
      BY <2>4 DEF Holders
    <3>2. QED
      BY <2>4, <3>1, KeepSlot
  <2>5. /\ ctxDone' \in BOOLEAN
        /\ conn' \in {"up", "down"}
        /\ msgWrapperQueue' \in Seq(Calls)
        /\ idCounter' \in Ids
        /\ sending' \in Calls \cup {NoCall}
        /\ reader' \in {"ticking", "peeking", "holding", "done"}
        /\ held' \in Message \cup {NoMsg}
        /\ requests' \in Seq(Message)
        /\ responses' \in Seq(Message)
        /\ service' \in SUBSET Message
        /\ executed' \in [Calls -> Nat]
        /\ dispatcher' \in {"selecting", "panicked"}
    BY <1>4 DEF HandleRecv, TypeOK
  <2>6. ControlInv'
    BY <1>4 DEF HandleRecv, ControlInv
  <2>7. CASE c = NoCall /\ UNCHANGED <<callerVars, closed>>
    BY <2>1, <2>3, <2>4, <2>5, <2>6, <2>7 DEF TypeOK
  <2>8. CASE c \in closed /\ UNCHANGED <<callerVars, closed>>
    BY <2>1, <2>3, <2>4, <2>5, <2>6, <2>8 DEF TypeOK
  <2>9. CASE c \in Calls /\ Drop(c)
    BY <2>1, <2>3, <2>4, <2>5, <2>6, <2>9 DEF TypeOK, Drop
  <2>10. CASE c \in Calls /\ Deliver(c, resp)
    <3>1. CallerMoves(c, "awaiting", "answered")
      BY <2>10 DEF Deliver, CallerMoves
    <3>2. SemaphoreExact' /\ sem' \in 0 .. ConcurrentLimit /\ caller' \in [Calls -> {"idle"} \cup Waiting \cup Returned]
      BY <2>10, <3>1, MoveOfCaller, GiveSlot DEF Deliver, Waiting, Returned
    <3>3. got' \in [Calls -> Calls \cup {NoCall}] /\ closed' \in SUBSET Calls
      BY <2>2, <2>10 DEF Deliver, TypeOK
    <3>4. QED
      BY <2>1, <2>3, <2>5, <2>6, <3>2, <3>3 DEF TypeOK
  <2>11. QED
    BY <1>4, <2>7, <2>8, <2>9, <2>10 DEF HandleRecv, resp, c
<1>5. CASE HandleShutdown
  <2>1. Holders' = Holders
    BY <1>5 DEF HandleShutdown, Holders
  <2>2. Registered \subseteq Calls
    BY DEF Registered
  <2>3. QED
    BY <1>5, <2>1, <2>2, KeepSlot DEF HandleShutdown, TypeOK, ControlInv
<1>6. QED
  BY <1>1, <1>2, <1>3, <1>4, <1>5 DEF DispatcherStep

LEMMA BaseReader == BaseInv /\ ReaderStep => BaseInv'
<1> SUFFICES ASSUME BaseInv, ReaderStep PROVE BaseInv'
  OBVIOUS
<1> USE DEF BaseInv, callerVars, dispatcherVars, readerVars, queueVars, targetVars
<1>1. UNCHANGED <<caller, sem>>
  BY DEF ReaderStep, ReadTick, ReadNothing, ReadResponse, ReadDecodeError, QueueResponse,
         DropResponse, ReaderShutdown
<1>2. SemaphoreExact' /\ sem' \in 0 .. ConcurrentLimit
  BY <1>1, KeepSlot DEF Holders
<1>3. CASE ReadTick \/ ReadNothing \/ DropResponse \/ ReaderShutdown
  BY <1>2, <1>3 DEF ReadTick, ReadNothing, DropResponse, ReaderShutdown, ReaderMoves, TypeOK, ControlInv
<1>4. CASE ReadResponse
  <2>1. Head(responses) \in Message /\ Tail(responses) \in Seq(Message)
    BY <1>4, HeadTailProperties DEF ReadResponse, TypeOK
  <2>2. QED
    BY <1>2, <1>4, <2>1 DEF ReadResponse, ReaderMoves, TypeOK, ControlInv
<1>5. CASE ReadDecodeError
  <2>1. responses' \in Seq(Message)
    BY <1>5, EmptySeq DEF ReadDecodeError
  <2>2. QED
    BY <1>2, <1>5, <2>1 DEF ReadDecodeError, ReaderMoves, TypeOK, ControlInv
<1>6. CASE QueueResponse
  <2>1. held \in Message
    BY <1>6 DEF QueueResponse, ReaderMoves, ControlInv
  <2>2. respReceiverQueue' \in Seq(Message)
    BY <1>6, <2>1, AppendProperties DEF QueueResponse, TypeOK
  <2>3. QED
    BY <1>2, <1>6, <2>2 DEF QueueResponse, ReaderMoves, TypeOK, ControlInv
<1>7. QED
  BY <1>3, <1>4, <1>5, <1>6 DEF ReaderStep

LEMMA BaseEnvironment == BaseInv /\ (TargetStep \/ ConnectionDown \/ ContextDone) => BaseInv'
<1> SUFFICES ASSUME BaseInv, TargetStep \/ ConnectionDown \/ ContextDone PROVE BaseInv'
  OBVIOUS
<1> USE DEF BaseInv, callerVars, dispatcherVars, readerVars, queueVars, targetVars
<1>1. UNCHANGED <<caller, sem>>
  BY DEF TargetStep, TargetAccepts, TargetAnswers, ConnectionDown, ContextDone
<1>2. SemaphoreExact' /\ sem' \in 0 .. ConcurrentLimit
  BY <1>1, KeepSlot DEF Holders
<1>3. CASE TargetAccepts
  <2>1. Head(requests) \in Message /\ Tail(requests) \in Seq(Message)
    BY <1>3, HeadTailProperties DEF TargetAccepts, TypeOK
  <2>2. executed' \in [Calls -> Nat]
    BY <1>3, <2>1 DEF TargetAccepts, TypeOK, Message
  <2>3. service' \in SUBSET Message
    BY <1>3, <2>1 DEF TargetAccepts, TypeOK
  <2>4. QED
    BY <1>2, <1>3, <2>1, <2>2, <2>3 DEF TargetAccepts, TypeOK, ControlInv
<1>4. CASE TargetAnswers
  <2>1. PICK m \in service : responses' = Append(responses, m) /\ service' = service \ {m}
    BY <1>4 DEF TargetAnswers
  <2>2. responses' \in Seq(Message)
    BY <2>1, AppendProperties DEF TypeOK
  <2>3. QED
    BY <1>2, <1>4, <2>1, <2>2 DEF TargetAnswers, TypeOK, ControlInv
<1>5. CASE ConnectionDown
  <2>1. requests' \in Seq(Message) /\ responses' \in Seq(Message)
    BY <1>5, EmptySeq DEF ConnectionDown, TypeOK
  <2>2. QED
    BY <1>2, <1>5, <2>1 DEF ConnectionDown, TypeOK, ControlInv
<1>6. CASE ContextDone
  BY <1>2, <1>6 DEF ContextDone, TypeOK, ControlInv
<1>7. QED
  BY <1>3, <1>4, <1>5, <1>6 DEF TargetStep

LEMMA BaseNext == BaseInv /\ [Next]_vars => BaseInv'
<1>1. ASSUME BaseInv, UNCHANGED vars PROVE BaseInv'
  BY <1>1 DEF BaseInv, TypeOK, SemaphoreExact, ControlInv, Holders,
     vars, callerVars, dispatcherVars, readerVars, queueVars, targetVars
<1>2. ASSUME BaseInv, Next PROVE BaseInv'
  BY <1>2, BaseCaller, BaseDispatcher, BaseReader, BaseEnvironment DEF Next
<1>3. QED
  BY <1>1, <1>2

LEMMA BaseAlways == Spec => []BaseInv
  BY BaseInit, BaseNext, PTL DEF Spec

\* Every variable keeps its type; in particular the semaphore never holds more
\* than DefaultConcurrentLimit slots and no release finds it empty.
THEOREM TypeCorrect == Spec => []TypeOK
<1>1. BaseInv => TypeOK
  BY DEF BaseInv
<1>2. QED
  BY <1>1, BaseAlways, PTL

\* No return path of SendMsgAsyncWithTimeout leaks a slot or gives one back twice.
THEOREM SemaphoreCorrect == Spec => []SemaphoreExact
<1>1. BaseInv => SemaphoreExact
  BY DEF BaseInv
<1>2. QED
  BY <1>1, BaseAlways, PTL
-----------------------------------------------------------------------------
(***************************************************************************)
(* No channel is closed twice.  The response channel of a call passes from *)
(* the queue to the dispatcher, to responseChans and, once it has left     *)
(* responseChans, to the closed channels; it is never at two of these      *)
(* places, nor twice at one.  Only the shutdown closes channels without    *)
(* taking them out of responseChans, and the dispatcher ends with it.  No  *)
(* assumption on the ids is needed: an id that is used again merely drops  *)
(* the older channel from responseChans.                                   *)
(***************************************************************************)
Unqueued == {"idle", "acquiring", "acquired", "refused"}

QueueInv ==
    /\ Distinct(msgWrapperQueue)
    /\ \A c \in Elems(msgWrapperQueue) : c # sending /\ c \notin Registered \cup closed

EntryInv ==
    /\ sending \notin Registered \cup closed
    /\ dispatcher # "done" => Registered \cap closed = {}
    /\ \A i, j \in Ids :
          responseChans[i] = responseChans[j] /\ responseChans[i] # NoCall => i = j

UnqueuedInv ==
    \A c \in Calls : caller[c] \in Unqueued =>
        c \notin Elems(msgWrapperQueue) \cup {sending} \cup Registered \cup closed

ChannelInv == NoPanic /\ QueueInv /\ EntryInv /\ UnqueuedInv

LEMMA ChannelInit == Init => ChannelInv
<1> SUFFICES ASSUME Init PROVE ChannelInv
  OBVIOUS
<1>1. Elems(msgWrapperQueue) = {} /\ Distinct(msgWrapperQueue)
  BY DEF Init, Elems, Distinct
<1>2. Registered = {}
  BY ConstantsAssumption DEF Init, Registered
<1>3. QED
  BY <1>1, <1>2, ConstantsAssumption
  DEF Init, ChannelInv, NoPanic, QueueInv, EntryInv, UnqueuedInv

LEMMA ChannelCaller ==
    ASSUME TypeOK, ChannelInv, NEW c \in Calls, Call(c) \/ CallerStep(c) \/ CallerTimer(c)
    PROVE  ChannelInv'
<1> USE DEF callerVars, dispatcherVars, readerVars, queueVars, targetVars
<1>1. CASE EnqueueMessage(c)
  <2>1. Elems(msgWrapperQueue') = Elems(msgWrapperQueue) \cup {c}
    BY <1>1, ElemsOfAppend DEF EnqueueMessage, TypeOK
  <2>2. c \notin Elems(msgWrapperQueue) \cup {sending} \cup Registered \cup closed
    BY <1>1 DEF EnqueueMessage, CallerMoves, ChannelInv, UnqueuedInv, Unqueued
  <2>3. Distinct(msgWrapperQueue')
    BY <1>1, <2>2, DistinctAppend DEF EnqueueMessage, TypeOK, ChannelInv, QueueInv
  <2>4. UNCHANGED <<dispatcher, sending, responseChans, closed>> /\ Registered' = Registered
    BY <1>1 DEF EnqueueMessage, Registered
  <2>5. NoPanic' /\ QueueInv' /\ EntryInv'
    BY <2>1, <2>2, <2>3, <2>4 DEF ChannelInv, NoPanic, QueueInv, EntryInv
  <2>6. \A d \in Calls : caller'[d] \in Unqueued => d # c /\ caller[d] \in Unqueued
    BY <1>1 DEF EnqueueMessage, CallerMoves, TypeOK, Unqueued
  <2>7. UnqueuedInv'
    BY <2>1, <2>4, <2>6 DEF ChannelInv, UnqueuedInv
  <2>8. QED
    BY <2>5, <2>7 DEF ChannelInv
<1>2. ASSUME UNCHANGED <<dispatcher, sending, responseChans, closed, msgWrapperQueue>>,
             NEW from \in Unqueued \cup {"enqueued", "awaiting"}, NEW to, CallerMoves(c, from, to),
             to \in Unqueued => from \in Unqueued
      PROVE  ChannelInv'
  <2>1. Registered' = Registered
    BY <1>2 DEF Registered
  <2>2. \A d \in Calls : caller'[d] \in Unqueued => caller[d] \in Unqueued
    BY <1>2 DEF CallerMoves, TypeOK
  <2>3. QED
    BY <1>2, <2>1, <2>2 DEF ChannelInv, NoPanic, QueueInv, EntryInv, UnqueuedInv
<1>3. CASE Call(c) \/ AcquireSem(c) \/ RefuseWithoutSlot(c) \/ RefuseWithSlot(c) \/ AwaitResponse(c)
  BY <1>2, <1>3 DEF Call, AcquireSem, RefuseWithoutSlot, RefuseWithSlot, AwaitResponse, Unqueued
<1>4. ASSUME NEW outcome \in {"nilResponse", "cancelled", "timeout"}, ReturnWith(c, outcome)
      PROVE  ChannelInv'
  BY <1>2, <1>4 DEF ReturnWith, Unqueued
<1>5. QED
  BY <1>1, <1>3, <1>4
  DEF CallerStep, CallerTimer, RefuseOnCtxDone, RefuseOnTimeout, RefuseOnMarshalError,
      ReceiveNil, ReturnOnCtxDone, ReturnOnTimeout

LEMMA ChannelDispatcher == TypeOK /\ ControlInv /\ ChannelInv /\ DispatcherStep => ChannelInv'
<1> SUFFICES ASSUME TypeOK, ControlInv, ChannelInv, DispatcherStep PROVE ChannelInv'
  OBVIOUS
<1> USE DEF callerVars, dispatcherVars, readerVars, queueVars, targetVars
<1>1. CASE TakeMessage
  <2>1. /\ Head(msgWrapperQueue) \in Elems(msgWrapperQueue)
        /\ Elems(msgWrapperQueue') \subseteq Elems(msgWrapperQueue)
        /\ Distinct(msgWrapperQueue')
        /\ sending' \notin Elems(msgWrapperQueue')
    BY <1>1, ElemsOfTail, DistinctTail DEF TakeMessage, TypeOK, ChannelInv, QueueInv
  <2>2. UNCHANGED <<caller, responseChans, closed>> /\ Registered' = Registered
    BY <1>1 DEF TakeMessage, Registered
  <2>3. sending' = Head(msgWrapperQueue) /\ dispatcher' = "encoding" /\ dispatcher # "done"
    BY <1>1 DEF TakeMessage
  <2>4. QED
    BY <2>1, <2>2, <2>3 DEF ChannelInv, NoPanic, QueueInv, EntryInv, UnqueuedInv
<1>2. CASE HandleSend
  <2>1. sending \in Calls /\ dispatcher = "encoding" /\ dispatcher' = "selecting" /\ sending' = NoCall
    BY <1>2 DEF HandleSend, ControlInv
  <2>2. UNCHANGED <<caller, closed, msgWrapperQueue>>
    BY <1>2 DEF HandleSend
  <2>3. responseChans' = [responseChans EXCEPT ![idCounter] = sending] /\ idCounter \in Ids
    BY <1>2 DEF HandleSend, Register, TypeOK
  <2>4. Registered' \subseteq Registered \cup {sending}
    BY <2>3 DEF Registered, TypeOK
  <2>5. NoCall \notin Elems(msgWrapperQueue) \cup Registered' \cup closed
    BY ConstantsAssumption DEF TypeOK, Registered, Elems
  <2>6. \A i \in Ids : responseChans[i] # sending
    BY <2>1 DEF ChannelInv, EntryInv, Registered
  <2>7. \A i, j \in Ids :
           responseChans'[i] = responseChans'[j] /\ responseChans'[i] # NoCall => i = j
    BY <2>3, <2>6 DEF TypeOK, ChannelInv, EntryInv
  <2>8. EntryInv'
    BY <2>1, <2>2, <2>4, <2>5, <2>7 DEF ChannelInv, EntryInv
  <2>9. NoPanic' /\ QueueInv' /\ UnqueuedInv'
    BY <2>1, <2>2, <2>4, <2>5, ConstantsAssumption DEF ChannelInv, NoPanic, QueueInv, UnqueuedInv
  <2>10. QED
    BY <2>8, <2>9 DEF ChannelInv
<1>3. CASE HandleSendError
  <2>1. NoCall \notin Elems(msgWrapperQueue) \cup Registered \cup closed
    BY ConstantsAssumption DEF TypeOK, Registered, Elems
  <2>2. /\ UNCHANGED <<caller, closed, msgWrapperQueue, responseChans>> /\ Registered' = Registered
        /\ sending' = NoCall /\ dispatcher = "encoding" /\ dispatcher' = "selecting"
    BY <1>3 DEF HandleSendError, Registered
  <2>3. QED
    BY <2>1, <2>2, ConstantsAssumption DEF ChannelInv, NoPanic, QueueInv, EntryInv, UnqueuedInv
<1>4. CASE HandleRecv
  <2> DEFINE resp == Head(respReceiverQueue)
             c    == responseChans[resp.id]
  <2>0. resp \in Message
    BY <1>4, HeadTailProperties DEF HandleRecv, TypeOK
  <2>1. resp.id \in Ids /\ c \in Calls \cup {NoCall}
    BY <2>0 DEF TypeOK, Message
  <2> HIDE DEF resp, c
  <2>2. dispatcher = "selecting" /\ UNCHANGED <<sending, msgWrapperQueue>>
    BY <1>4 DEF HandleRecv
  <2>3. CASE c = NoCall /\ UNCHANGED <<callerVars, closed, responseChans, dispatcher>>
    BY <2>2, <2>3 DEF ChannelInv, NoPanic, QueueInv, EntryInv, UnqueuedInv, Registered
  <2>4. CASE c \in Calls /\ c \notin closed /\ Unregister(resp.id) /\ (Deliver(c, resp) \/ Drop(c))
             /\ UNCHANGED dispatcher
    <3>1. c \in Registered
      BY <2>1, <2>4 DEF Registered, c
    <3>0. responseChans' = [responseChans EXCEPT ![resp.id] = NoCall] /\ closed' = closed \cup {c}
      BY <2>4 DEF Unregister, Deliver, Drop
    <3>2. Registered' = Registered \ {c}
      <4>1. \A i \in Ids : responseChans'[i] = IF i = resp.id THEN NoCall ELSE responseChans[i]
        BY <2>1, <3>0 DEF TypeOK
      <4>2. \A i \in Ids : responseChans[i] = c <=> i = resp.id
        BY <2>1, <2>4, ConstantsAssumption DEF ChannelInv, EntryInv, c
      <4>3. QED
        BY <2>1, <4>1, <4>2, ConstantsAssumption DEF Registered
    <3>3. \A i, j \in Ids :
             responseChans'[i] = responseChans'[j] /\ responseChans'[i] # NoCall => i = j
      BY <2>1, <2>4 DEF Unregister, TypeOK, ChannelInv, EntryInv
    <3>4. EntryInv'
      BY <2>2, <2>4, <3>0, <3>1, <3>2, <3>3 DEF ChannelInv, EntryInv
    <3>5. NoPanic' /\ QueueInv'
      BY <2>2, <2>4, <3>0, <3>1, <3>2 DEF ChannelInv, NoPanic, QueueInv
    <3>6. \A d \in Calls : caller'[d] \in Unqueued => d # c /\ caller[d] \in Unqueued
      BY <2>4, <3>1 DEF Deliver, Drop, callerVars, TypeOK, Unqueued, ChannelInv, UnqueuedInv
    <3>7. UnqueuedInv'
      BY <2>2, <3>0, <3>2, <3>6 DEF ChannelInv, UnqueuedInv
    <3>8. QED
      BY <3>4, <3>5, <3>7 DEF ChannelInv
  <2>5. CASE c \in closed
    <3>1. c \in Registered
      BY <2>1, <2>5 DEF TypeOK, Registered, c
    <3>2. QED
      BY <2>2, <2>5, <3>1 DEF ChannelInv, EntryInv
  <2>6. QED
    BY <1>4, <2>3, <2>4, <2>5 DEF HandleRecv, resp, c
<1>5. CASE HandleShutdown
  <2>1. /\ dispatcher = "selecting" /\ closed' = closed \cup Registered
        /\ UNCHANGED <<caller, sending, responseChans, msgWrapperQueue>> /\ Registered' = Registered
    BY <1>5 DEF HandleShutdown, Registered
  <2>2. dispatcher' = "done"
    BY <1>5, <2>1 DEF HandleShutdown, ChannelInv, EntryInv
  <2>3. QED
    BY <2>1, <2>2 DEF ChannelInv, NoPanic, QueueInv, EntryInv, UnqueuedInv
<1>6. QED
  BY <1>1, <1>2, <1>3, <1>4, <1>5 DEF DispatcherStep

LEMMA ChannelNext == TypeOK /\ ControlInv /\ ChannelInv /\ [Next]_vars => ChannelInv'
<1> SUFFICES ASSUME TypeOK, ControlInv, ChannelInv, [Next]_vars PROVE ChannelInv'
  OBVIOUS
<1>1. CASE \E c \in Calls : Call(c) \/ CallerStep(c) \/ CallerTimer(c)
  BY <1>1, ChannelCaller
<1>2. CASE DispatcherStep
  BY <1>2, ChannelDispatcher
<1>3. CASE ReaderStep \/ TargetStep \/ ConnectionDown \/ ContextDone \/ UNCHANGED vars
  <2>1. UNCHANGED <<caller, dispatcher, sending, responseChans, closed, msgWrapperQueue>>
    BY <1>3 DEF ReaderStep, ReadTick, ReadNothing, ReadResponse, ReadDecodeError, QueueResponse,
       DropResponse, ReaderShutdown, TargetStep, TargetAccepts, TargetAnswers, ConnectionDown,
       ContextDone, vars, callerVars, dispatcherVars, queueVars
  <2>2. QED
    BY <2>1 DEF ChannelInv, NoPanic, QueueInv, EntryInv, UnqueuedInv, Registered
<1>4. QED
  BY <1>1, <1>2, <1>3 DEF Next

\* The dispatcher never closes a closed channel and never sends on one, so it
\* never panics, even when ids wrap around or the context ends at any moment.
THEOREM NeverPanics == Spec => []NoPanic
<1>1. BaseInv /\ ChannelInv /\ [Next]_vars => ChannelInv'
  BY ChannelNext DEF BaseInv
<1>2. ChannelInv => NoPanic
  BY DEF ChannelInv
<1>3. QED
  BY <1>1, <1>2, BaseAlways, ChannelInit, PTL DEF Spec
-----------------------------------------------------------------------------
(***************************************************************************)
(* Answers reach the call they belong to, provided that an id is not used  *)
(* again while a request with it is unanswered (IdUnused; an id is 32 bits *)
(* wide).  An entry of responseChans either is gone or names the call      *)
(* whose message travels under its id.                                     *)
(***************************************************************************)
EntryMatches == \A m \in InFlight : responseChans[m.id] \in {m.of, NoCall}

LEMMA InFlightTyped ==
    ASSUME TypeOK, NEW m \in InFlight
    PROVE  m \in Message /\ m.id \in Ids /\ m.of \in Calls
<1>1. /\ Elems(requests) \subseteq Message /\ Elems(responses) \subseteq Message
      /\ Elems(respReceiverQueue) \subseteq Message
  BY DEF Elems, TypeOK
<1>2. m \in Message
  BY <1>1 DEF InFlight, TypeOK
<1>3. QED
  BY <1>2 DEF Message

\* Only handleSend puts a message under way.
LEMMA InFlightStep ==
    ASSUME BaseInv, Next
    PROVE  \/ InFlight' \subseteq InFlight
           \/ HandleSend /\ InFlight' \subseteq InFlight \cup {[id |-> idCounter, of |-> sending]}
<1> USE DEF BaseInv, callerVars, dispatcherVars, readerVars, queueVars, targetVars
<1>1. CASE \E c \in Calls : Call(c) \/ CallerStep(c) \/ CallerTimer(c)
  <2>1. UNCHANGED <<requests, service, responses, held, respReceiverQueue>>
    BY <1>1 DEF CallerStep, CallerTimer, Call, AcquireSem, RefuseOnCtxDone, RefuseOnTimeout,
       RefuseOnMarshalError, RefuseWithoutSlot, RefuseWithSlot, EnqueueMessage, AwaitResponse,
       ReceiveNil, ReturnOnCtxDone, ReturnOnTimeout, ReturnWith
  <2>2. QED
    BY <2>1 DEF InFlight
<1>2. CASE TakeMessage \/ HandleSendError \/ HandleShutdown \/ ReadTick \/ ReadNothing
           \/ ReaderShutdown \/ ContextDone
  <2>1. UNCHANGED <<requests, service, responses, held, respReceiverQueue>>
    BY <1>2 DEF TakeMessage, HandleSendError, HandleShutdown, ReadTick, ReadNothing,
       ReaderShutdown, ContextDone
  <2>2. QED
    BY <2>1 DEF InFlight
<1>3. CASE HandleSend
  <2>1. [id |-> idCounter, of |-> sending] \in Message
    BY <1>3 DEF HandleSend, ControlInv, TypeOK, Message
  <2>2. Elems(requests') = Elems(requests) \cup {[id |-> idCounter, of |-> sending]}
    BY <1>3, <2>1, ElemsOfAppend DEF HandleSend, TypeOK
  <2>3. QED
    BY <1>3, <2>2 DEF HandleSend, InFlight
<1>4. CASE HandleRecv
  <2>1. Elems(respReceiverQueue') \subseteq Elems(respReceiverQueue)
    BY <1>4, ElemsOfTail DEF HandleRecv, TypeOK
  <2>2. QED
    BY <1>4, <2>1 DEF HandleRecv, InFlight
<1>5. CASE ReadResponse
  <2>1. Head(responses) \in Elems(responses) /\ Elems(responses') \subseteq Elems(responses)
    BY <1>5, ElemsOfTail DEF ReadResponse, TypeOK
  <2>2. QED
    BY <1>5, <2>1 DEF ReadResponse, InFlight
<1>6. CASE ReadDecodeError
  <2>1. Elems(responses') = {}
    BY <1>6 DEF ReadDecodeError, Elems
  <2>2. QED
    BY <1>6, <2>1 DEF ReadDecodeError, InFlight
<1>7. CASE QueueResponse
  <2>1. held \in Message
    BY <1>7 DEF QueueResponse, ReaderMoves, ControlInv
  <2>2. held # NoMsg
    BY <2>1, ConstantsAssumption DEF Message, Ids
  <2>3. Elems(respReceiverQueue') = Elems(respReceiverQueue) \cup {held}
    BY <1>7, <2>1, ElemsOfAppend DEF QueueResponse, TypeOK
  <2>4. QED
    BY <1>7, <2>2, <2>3 DEF QueueResponse, InFlight
<1>8. CASE DropResponse
  BY <1>8 DEF DropResponse, InFlight
<1>9. CASE TargetAccepts
  <2>1. Head(requests) \in Elems(requests) /\ Elems(requests') \subseteq Elems(requests)
    BY <1>9, ElemsOfTail DEF TargetAccepts, TypeOK
  <2>2. service' \subseteq service \cup {Head(requests)}
    BY <1>9 DEF TargetAccepts
  <2>3. QED
    BY <1>9, <2>1, <2>2 DEF TargetAccepts, InFlight
<1>10. CASE TargetAnswers
  <2>1. PICK m \in service : responses' = Append(responses, m) /\ service' = service \ {m}
    BY <1>10 DEF TargetAnswers
  <2>2. Elems(responses') = Elems(responses) \cup {m}
    BY <2>1, ElemsOfAppend DEF TypeOK
  <2>3. QED
    BY <1>10, <2>1, <2>2 DEF TargetAnswers, InFlight
<1>11. CASE ConnectionDown
  <2>1. Elems(requests') \subseteq Elems(requests) /\ Elems(responses') \subseteq Elems(responses)
    BY <1>11 DEF ConnectionDown, Elems
  <2>2. QED
    BY <1>11, <2>1 DEF ConnectionDown, InFlight
<1>12. QED
  BY <1>1, <1>2, <1>3, <1>4, <1>5, <1>6, <1>7, <1>8, <1>9, <1>10, <1>11
  DEF Next, DispatcherStep, ReaderStep, TargetStep

LEMMA EntryMatchesNext == BaseInv /\ IdUnused /\ EntryMatches /\ [Next]_vars => EntryMatches'
<1> SUFFICES ASSUME BaseInv, IdUnused, EntryMatches, [Next]_vars PROVE EntryMatches'
  OBVIOUS
<1> USE DEF callerVars, dispatcherVars, readerVars, queueVars, targetVars
<1>1. TypeOK /\ ControlInv
  BY DEF BaseInv
<1>2. CASE HandleSend
  <2>1. InFlight' \subseteq InFlight \cup {[id |-> idCounter, of |-> sending]}
    BY <1>2, InFlightStep DEF Next, DispatcherStep
  <2>2. responseChans' = [responseChans EXCEPT ![idCounter] = sending] /\ idCounter \in Ids
    BY <1>1, <1>2 DEF HandleSend, Register, TypeOK
  <2>3. ASSUME NEW m \in InFlight PROVE responseChans'[m.id] \in {m.of, NoCall}
    BY <1>1, <2>2, <2>3, InFlightTyped DEF IdUnused, EntryMatches, TypeOK
  <2>4. responseChans'[idCounter] = sending
    BY <1>1, <2>2 DEF TypeOK
  <2>5. QED
    BY <2>1, <2>3, <2>4 DEF EntryMatches
<1>3. CASE HandleRecv
  <2>1. InFlight' \subseteq InFlight
    BY <1>3, InFlightStep DEF Next, DispatcherStep, HandleRecv, HandleSend
  <2>2. \A i \in Ids : responseChans'[i] \in {responseChans[i], NoCall}
    BY <1>1, <1>3 DEF HandleRecv, Unregister, TypeOK
  <2>3. QED
    BY <1>1, <2>1, <2>2, InFlightTyped DEF EntryMatches
<1>4. CASE Next /\ ~HandleSend /\ ~HandleRecv
  <2>1. InFlight' \subseteq InFlight
    BY <1>4, InFlightStep
  <2>2. UNCHANGED responseChans
    BY <1>4 DEF Next, CallerStep, CallerTimer, Call, AcquireSem, RefuseOnCtxDone, RefuseOnTimeout,
       RefuseOnMarshalError, RefuseWithoutSlot, RefuseWithSlot, EnqueueMessage, AwaitResponse,
       ReceiveNil, ReturnOnCtxDone, ReturnOnTimeout, ReturnWith,
       DispatcherStep, TakeMessage, HandleSendError, HandleShutdown, ReaderStep, ReadTick,
       ReadNothing, ReadResponse, ReadDecodeError, QueueResponse, DropResponse, ReaderShutdown,
       TargetStep, TargetAccepts, TargetAnswers, ConnectionDown, ContextDone
  <2>3. QED
    BY <2>1, <2>2 DEF EntryMatches
<1>5. CASE UNCHANGED vars
  BY <1>5 DEF vars, EntryMatches, InFlight
<1>6. QED
  BY <1>2, <1>3, <1>4, <1>5

LEMMA AnswerIsOwnNext ==
    BaseInv /\ EntryMatches /\ AnswerIsOwn /\ [Next]_vars => AnswerIsOwn'
<1> SUFFICES ASSUME BaseInv, EntryMatches, AnswerIsOwn, [Next]_vars PROVE AnswerIsOwn'
  OBVIOUS
<1> USE DEF callerVars, dispatcherVars, readerVars, queueVars, targetVars
<1>1. TypeOK
  BY DEF BaseInv
<1>2. CASE HandleRecv
  <2> DEFINE resp == Head(respReceiverQueue)
             c    == responseChans[resp.id]
  <2>1. resp \in InFlight
    BY <1>1, <1>2, ElemsOfTail DEF HandleRecv, TypeOK, InFlight
  <2>2. c \in {resp.of, NoCall}
    BY <2>1 DEF EntryMatches
  <2> HIDE DEF resp, c
  <2>3. CASE UNCHANGED callerVars
    BY <2>3 DEF AnswerIsOwn
  <2>4. CASE c \in Calls /\ Deliver(c, resp)
    <3>1. resp.of = c
      BY <2>2, <2>4, ConstantsAssumption
    <3>2. QED
      BY <1>1, <2>4, <3>1 DEF Deliver, TypeOK, AnswerIsOwn
  <2>5. QED
    BY <1>2, <2>3, <2>4 DEF HandleRecv, Drop, resp, c
<1>3. ASSUME NEW c \in Calls, Call(c) \/ CallerStep(c) \/ CallerTimer(c)
      PROVE  AnswerIsOwn'
  <2>1. UNCHANGED got /\ \E from, to : CallerMoves(c, from, to) /\ to # "answered"
    BY <1>3 DEF CallerStep, CallerTimer, Call, AcquireSem, RefuseOnCtxDone, RefuseOnTimeout,
       RefuseOnMarshalError, RefuseWithoutSlot, RefuseWithSlot, EnqueueMessage, AwaitResponse,
       ReceiveNil, ReturnOnCtxDone, ReturnOnTimeout, ReturnWith
  <2>2. QED
    BY <1>1, <2>1 DEF CallerMoves, TypeOK, AnswerIsOwn
<1>4. CASE ReaderStep \/ TargetStep \/ ConnectionDown \/ ContextDone \/ UNCHANGED vars
           \/ TakeMessage \/ HandleSend \/ HandleSendError \/ HandleShutdown
  <2>1. UNCHANGED callerVars
    BY <1>4 DEF ReaderStep, ReadTick, ReadNothing, ReadResponse, ReadDecodeError, QueueResponse,
       DropResponse, ReaderShutdown, TargetStep, TargetAccepts, TargetAnswers, ConnectionDown,
       ContextDone, vars, TakeMessage, HandleSend, HandleSendError, HandleShutdown
  <2>2. QED
    BY <2>1 DEF AnswerIsOwn
<1>5. QED
  BY <1>2, <1>3, <1>4 DEF Next, DispatcherStep

\* As long as handleSend finds its next id unused, a call that returns an answer
\* returns the answer to its own command: late answers of calls that timed out,
\* answers in another order and dropped answers never reach another caller.
THEOREM AnswersAreOwn == Spec /\ []IdUnused => []AnswerIsOwn
<1>1. Init => EntryMatches /\ AnswerIsOwn
  <2>1. Init => InFlight = {}
    BY DEF Init, InFlight, Elems
  <2>2. Init => AnswerIsOwn
    BY DEF Init, AnswerIsOwn
  <2>3. QED
    BY <2>1, <2>2 DEF EntryMatches
<1>2. BaseInv /\ IdUnused /\ EntryMatches /\ AnswerIsOwn /\ [Next]_vars
        => EntryMatches' /\ AnswerIsOwn'
  BY EntryMatchesNext, AnswerIsOwnNext
<1>3. QED
  BY <1>1, <1>2, BaseAlways, PTL DEF Spec
-----------------------------------------------------------------------------
(***************************************************************************)
(* Ids are not used again within the first IdSpace calls.  The dispatcher  *)
(* takes them in order and takes one for a call at most once, so the ids   *)
(* in use are among the last k, where k is the number of messages it has   *)
(* written; and the calls that have entered the queue pay for these k, for *)
(* the messages that are queued and for the one that is being encoded.     *)
(***************************************************************************)
UsedIds == {i \in Ids : responseChans[i] # NoCall} \cup {m.id : m \in InFlight}

\* Going back by d from the next id, around the end of the ids once, gives i.
Behind(i, d) == i = idCounter - d \/ i = idCounter - d + IdSpace

Entered == {c \in Calls : caller[c] \notin Unqueued}

Pending == Len(msgWrapperQueue) + (IF dispatcher = "encoding" THEN 1 ELSE 0)

LastIds(k) ==
    /\ k + Pending <= Cardinality(Entered)
    /\ \A i \in UsedIds : \E d \in 1 .. k : Behind(i, d)

IdInv == \E k \in Nat : LastIds(k)

LEMMA NextIdIs ==
    ASSUME NEW i \in Ids
    PROVE  NextId(i) = IF i + 1 = IdSpace THEN 0 ELSE i + 1
  BY ConstantsAssumption DEF NextId, Ids

LEMMA EnteredFinite ==
    /\ IsFiniteSet(Entered)
    /\ Cardinality(Entered) \in Nat
    /\ Cardinality(Entered) <= Cardinality(Calls)
<1>1. Entered \subseteq Calls
  BY DEF Entered
<1>2. QED
  BY <1>1, ConstantsAssumption, FS_Subset, FS_CardinalityType

LEMMA UsedIdsTyped == TypeOK => UsedIds \subseteq Ids
  BY InFlightTyped DEF UsedIds

\* A move of a caller: only entering the queue adds to Pending, by one.
LEMMA IdCaller ==
    ASSUME BaseInv, IdInv, NEW c \in Calls, Call(c) \/ CallerStep(c) \/ CallerTimer(c)
    PROVE  IdInv'
<1> USE DEF callerVars, dispatcherVars, readerVars, queueVars, targetVars
<1>1. TypeOK
  BY DEF BaseInv
<1>2. PICK k \in Nat : LastIds(k)
  BY DEF IdInv
<1>3. UNCHANGED <<dispatcher, responseChans, idCounter, requests, service, responses, held,
                  respReceiverQueue>>
  BY DEF CallerStep, CallerTimer, Call, AcquireSem, RefuseOnCtxDone, RefuseOnTimeout,
     RefuseOnMarshalError, RefuseWithoutSlot, RefuseWithSlot, EnqueueMessage, AwaitResponse,
     ReceiveNil, ReturnOnCtxDone, ReturnOnTimeout, ReturnWith
<1>4. \A i \in UsedIds' : \E d \in 1 .. k : Behind(i, d)'
  BY <1>2, <1>3 DEF LastIds, UsedIds, InFlight, Behind
<1>5. CASE EnqueueMessage(c)
  <2>1. c \notin Entered /\ Entered' = Entered \cup {c}
    BY <1>1, <1>5 DEF EnqueueMessage, CallerMoves, TypeOK, Entered, Unqueued
  <2>2. Cardinality(Entered') = Cardinality(Entered) + 1
    BY <2>1, EnteredFinite, FS_AddElement
  <2>3. Len(msgWrapperQueue') = Len(msgWrapperQueue) + 1 /\ Len(msgWrapperQueue) \in Nat
    BY <1>1, <1>5, AppendProperties, LenProperties DEF EnqueueMessage, TypeOK
  <2>4. k + Pending' <= Cardinality(Entered')
    BY <1>2, <1>3, <2>2, <2>3, EnteredFinite DEF LastIds, Pending
  <2>5. QED
    BY <1>4, <2>4 DEF IdInv, LastIds
<1>6. CASE ~EnqueueMessage(c)
  <2>1. /\ UNCHANGED msgWrapperQueue
        /\ \E from, to : CallerMoves(c, from, to) /\ (to \in Unqueued <=> from \in Unqueued)
    BY <1>6 DEF CallerStep, CallerTimer, Call, AcquireSem, RefuseOnCtxDone, RefuseOnTimeout,
       RefuseOnMarshalError, RefuseWithoutSlot, RefuseWithSlot, AwaitResponse,
       ReceiveNil, ReturnOnCtxDone, ReturnOnTimeout, ReturnWith, Unqueued
  <2>2. Entered' = Entered
    BY <1>1, <2>1 DEF CallerMoves, TypeOK, Entered
  <2>3. QED
    BY <1>2, <1>3, <1>4, <2>1, <2>2 DEF IdInv, LastIds, Pending
<1>7. QED
  BY <1>5, <1>6

\* Writing a message moves every id in use one further back.
LEMMA IdSend ==
    ASSUME BaseInv, IdInv, Cardinality(Calls) < IdSpace, HandleSend
    PROVE  IdInv'
<1> USE DEF callerVars, dispatcherVars, readerVars, queueVars, targetVars
<1>1. TypeOK
  BY DEF BaseInv
<1>2. PICK k \in Nat : LastIds(k)
  BY DEF IdInv
<1>3. Len(msgWrapperQueue) \in Nat /\ idCounter \in Ids /\ IdSpace \in Nat \ {0}
  BY <1>1, LenProperties, ConstantsAssumption DEF TypeOK
<1>4. idCounter' = IF idCounter + 1 = IdSpace THEN 0 ELSE idCounter + 1
  BY <1>3, NextIdIs DEF HandleSend
<1>5. k + 1 + Pending' <= Cardinality(Entered') /\ k < IdSpace
  <2>1. /\ dispatcher = "encoding" /\ dispatcher' = "selecting"
        /\ UNCHANGED <<caller, msgWrapperQueue>>
    BY DEF HandleSend
  <2>2. Entered' = Entered
    BY <2>1 DEF Entered
  <2>3. Cardinality(Calls) \in Nat
    BY ConstantsAssumption, FS_CardinalityType
  <2>4. QED
    BY <1>2, <1>3, <2>1, <2>2, <2>3, EnteredFinite DEF LastIds, Pending
<1>6. UsedIds' \subseteq UsedIds \cup {idCounter}
  <2>1. responseChans' = [responseChans EXCEPT ![idCounter] = sending]
    BY DEF HandleSend, Register
  <2>2. \A i \in Ids : responseChans'[i] # NoCall => i = idCounter \/ responseChans[i] # NoCall
    BY <1>1, <2>1 DEF TypeOK
  <2>3. InFlight' \subseteq InFlight \cup {[id |-> idCounter, of |-> sending]}
    BY InFlightStep DEF Next, DispatcherStep
  <2>4. QED
    BY <2>2, <2>3 DEF UsedIds
<1>7. ASSUME NEW i \in UsedIds' PROVE \E d \in 1 .. k + 1 : Behind(i, d)'
  <2>1. CASE i = idCounter
    <3>1. Behind(i, 1)'
      BY <1>3, <1>4, <2>1 DEF Behind, Ids
    <3>2. QED
      BY <3>1
  <2>2. CASE i # idCounter
    <3>1. i \in UsedIds /\ i \in Ids
      BY <1>1, <1>6, <2>2, UsedIdsTyped
    <3>2. PICK d \in 1 .. k : Behind(i, d)
      BY <1>2, <3>1 DEF LastIds
    <3>3. Behind(i, d + 1)'
      BY <1>3, <1>4, <1>5, <3>1, <3>2 DEF Behind, Ids
    <3>4. QED
      BY <3>2, <3>3
  <2>3. QED
    BY <2>1, <2>2
<1>8. QED
  BY <1>5, <1>7 DEF IdInv, LastIds

LEMMA IdNext == BaseInv /\ IdInv /\ Cardinality(Calls) < IdSpace /\ [Next]_vars => IdInv'
<1> SUFFICES ASSUME BaseInv, IdInv, Cardinality(Calls) < IdSpace, [Next]_vars PROVE IdInv'
  OBVIOUS
<1> USE DEF callerVars, dispatcherVars, readerVars, queueVars, targetVars
<1>1. TypeOK
  BY DEF BaseInv
<1>2. PICK k \in Nat : LastIds(k)
  BY DEF IdInv
<1>3. Len(msgWrapperQueue) \in Nat
  BY <1>1, LenProperties DEF TypeOK
\* A step that writes no message and takes no caller out of the queue.
<1>4. ASSUME InFlight' \subseteq InFlight, UNCHANGED idCounter, Entered' = Entered,
             \A i \in Ids : responseChans'[i] \in {responseChans[i], NoCall},
             Pending' <= Pending, Pending' \in Nat
      PROVE  IdInv'
  <2>1. UsedIds' \subseteq UsedIds
    BY <1>4 DEF UsedIds
  <2>2. \A i \in UsedIds' : \E d \in 1 .. k : Behind(i, d)'
    BY <1>2, <1>4, <2>1 DEF LastIds, Behind
  <2>3. Pending \in Nat
    BY <1>3 DEF Pending
  <2>4. QED
    BY <1>2, <1>4, <2>2, <2>3, EnteredFinite DEF IdInv, LastIds
<1>5. CASE \E c \in Calls : Call(c) \/ CallerStep(c) \/ CallerTimer(c)
  BY <1>5, IdCaller
<1>6. CASE HandleSend
  BY <1>6, IdSend
<1>7. CASE TakeMessage
  <2>1. Len(msgWrapperQueue') = Len(msgWrapperQueue) - 1 /\ Len(msgWrapperQueue') \in Nat
    BY <1>1, <1>7, HeadTailProperties, LenProperties DEF TakeMessage, TypeOK
  <2>2. Pending' = Pending /\ Pending' \in Nat
    BY <1>3, <1>7, <2>1 DEF TakeMessage, Pending
  <2>3. /\ UNCHANGED <<idCounter, responseChans>>
        /\ InFlight' \subseteq InFlight
        /\ Entered' = Entered
    BY <1>7 DEF TakeMessage, InFlight, Entered
  <2>4. QED
    BY <1>3, <1>4, <2>2, <2>3 DEF Pending
<1>8. CASE HandleRecv
  <2>1. InFlight' \subseteq InFlight
    BY <1>8, InFlightStep DEF Next, DispatcherStep, HandleRecv, HandleSend
  <2>2. \A i \in Ids : responseChans'[i] \in {responseChans[i], NoCall}
    BY <1>1, <1>8 DEF HandleRecv, Unregister, TypeOK
  <2>3. Pending' = Pending /\ UNCHANGED idCounter
    BY <1>8 DEF HandleRecv, Pending
  <2>4. Entered' = Entered
    BY <1>1, <1>8 DEF HandleRecv, Deliver, Drop, Entered, Unqueued, TypeOK
  <2>5. QED
    BY <1>3, <1>4, <2>1, <2>2, <2>3, <2>4 DEF Pending
<1>9. CASE HandleSendError \/ HandleShutdown \/ ReaderStep \/ TargetStep \/ ConnectionDown
           \/ ContextDone \/ UNCHANGED vars
  <2>1. /\ UNCHANGED <<caller, msgWrapperQueue, idCounter, responseChans>>
        /\ dispatcher' = "encoding" => dispatcher = "encoding"
    BY <1>9 DEF HandleSendError, HandleShutdown, ReaderStep, ReadTick, ReadNothing, ReadResponse,
       ReadDecodeError, QueueResponse, DropResponse, ReaderShutdown, TargetStep, TargetAccepts,
       TargetAnswers, ConnectionDown, ContextDone, vars
  <2>2. InFlight' \subseteq InFlight
    <3>1. CASE UNCHANGED vars
      BY <3>1 DEF vars, InFlight
    <3>2. CASE Next /\ ~UNCHANGED vars
      <4>1. ~HandleSend
        BY <1>9, <3>2 DEF HandleSend, HandleSendError, HandleShutdown, ReaderStep, ReadTick,
           ReadNothing, ReadResponse, ReadDecodeError, QueueResponse, DropResponse, ReaderShutdown,
           TargetStep, TargetAccepts, TargetAnswers, ConnectionDown, ContextDone
      <4>2. QED
        BY <3>2, <4>1, InFlightStep
    <3>3. QED
      BY <3>1, <3>2
  <2>3. Pending' <= Pending /\ Pending' \in Nat /\ Entered' = Entered
    BY <1>3, <2>1 DEF Pending, Entered
  <2>4. QED
    BY <1>4, <2>1, <2>2, <2>3
<1>10. QED
  BY <1>5, <1>6, <1>7, <1>8, <1>9 DEF Next, DispatcherStep

LEMMA IdInit == Init => IdInv
<1> SUFFICES ASSUME Init PROVE IdInv
  OBVIOUS
<1>1. UsedIds = {}
  BY ConstantsAssumption DEF Init, UsedIds, InFlight, Elems
<1>2. Pending = 0
  BY DEF Init, Pending
<1>3. LastIds(0)
  BY <1>1, <1>2, EnteredFinite DEF LastIds
<1>4. QED
  BY <1>3 DEF IdInv

LEMMA IdInvUnused == TypeOK /\ IdInv /\ Cardinality(Calls) < IdSpace => IdUnused
<1> SUFFICES ASSUME TypeOK, IdInv, Cardinality(Calls) < IdSpace PROVE IdUnused
  OBVIOUS
<1>1. PICK k \in Nat : LastIds(k)
  BY DEF IdInv
<1>2. k < IdSpace /\ IdSpace \in Nat /\ idCounter \in Ids
  <2>1. Pending \in Nat /\ Cardinality(Calls) \in Nat
    BY LenProperties, ConstantsAssumption, FS_CardinalityType DEF Pending, TypeOK
  <2>2. QED
    BY <1>1, <2>1, EnteredFinite, ConstantsAssumption DEF LastIds, TypeOK
<1>3. idCounter \notin UsedIds
  BY <1>1, <1>2 DEF LastIds, Behind, Ids
<1>4. QED
  BY <1>2, <1>3 DEF IdUnused, UsedIds

\* While a client makes fewer calls than there are ids (2^32), the id handleSend
\* takes next is neither under way nor kept in responseChans, although entries
\* of calls that timed out are never removed.
THEOREM IdsAreUnused ==
    ASSUME Cardinality(Calls) < IdSpace
    PROVE  Spec => []IdUnused
<1>1. BaseInv /\ IdInv /\ [Next]_vars => IdInv'
  BY IdNext
<1>2. BaseInv /\ IdInv => IdUnused
  BY IdInvUnused DEF BaseInv
<1>3. QED
  BY <1>1, <1>2, BaseAlways, IdInit, PTL DEF Spec
-----------------------------------------------------------------------------
(***************************************************************************)
(* Refinement of RpcService.  A command is carried out at most once since  *)
(* its message is written at most once: a call that is not queued yet, is  *)
(* queued, or is being encoded has no message under way, and the messages  *)
(* that wait in the socket are of different calls, none carried out yet.   *)
(***************************************************************************)
OneEach(s) == \A k, l \in DOMAIN s : s[k].of = s[l].of => k = l

LEMMA OneEachAppend ==
    ASSUME NEW s \in Seq(Message), NEW e \in Message, OneEach(s),
           \A m \in Elems(s) : m.of # e.of
    PROVE  OneEach(Append(s, e))
<1>1. /\ Len(s) \in Nat
      /\ DOMAIN s = 1 .. Len(s)
      /\ DOMAIN Append(s, e) = 1 .. Len(s) + 1
      /\ \A i \in 1 .. Len(s) : Append(s, e)[i] = s[i]
      /\ Append(s, e)[Len(s) + 1] = e
  BY AppendProperties, LenProperties
<1>2. QED
  BY <1>1 DEF OneEach, Elems

LEMMA OneEachTail ==
    ASSUME NEW s \in Seq(Message), s # <<>>, OneEach(s)
    PROVE  OneEach(Tail(s)) /\ \A m \in Elems(Tail(s)) : m.of # Head(s).of
<1>1. /\ Len(s) \in Nat \ {0}
      /\ DOMAIN s = 1 .. Len(s)
      /\ Tail(s) \in Seq(Message)
      /\ Len(Tail(s)) = Len(s) - 1
      /\ \A i \in 1 .. Len(Tail(s)) : Tail(s)[i] = s[i + 1]
  BY EmptySeq, LenProperties, HeadTailProperties
<1>2. DOMAIN Tail(s) = 1 .. Len(s) - 1
  BY <1>1, LenProperties
<1>3. Head(s) = s[1]
  BY <1>1
<1>4. ASSUME NEW k \in DOMAIN Tail(s)
      PROVE  Tail(s)[k] = s[k + 1] /\ k + 1 \in DOMAIN s /\ k + 1 # 1 /\ 1 \in DOMAIN s
  BY <1>1, <1>2
<1>5. \A m \in Elems(Tail(s)) : m.of # Head(s).of
  BY <1>3, <1>4 DEF OneEach, Elems
<1>6. ASSUME NEW k \in DOMAIN Tail(s), NEW l \in DOMAIN Tail(s), Tail(s)[k].of = Tail(s)[l].of
      PROVE  k = l
  <2>1. k + 1 = l + 1
    BY <1>4, <1>6 DEF OneEach
  <2>2. QED
    BY <1>2, <2>1
<1>7. QED
  BY <1>5, <1>6 DEF OneEach

NotSent(c) == executed[c] = 0 /\ \A m \in Elems(requests) : m.of # c

\* The messages the target has taken.
Accepted == service \cup Elems(responses) \cup ({held} \ {NoMsg}) \cup Elems(respReceiverQueue)

RequestInv ==
    /\ \A c \in Calls : executed[c] \in {0, 1}
    /\ \A c \in Calls :
          caller[c] \in Unqueued \/ c \in Elems(msgWrapperQueue) \/ c = sending => NotSent(c)
    /\ OneEach(requests)
    /\ \A m \in Elems(requests) : executed[m.of] = 0

AcceptedInv == \A m \in Accepted : executed[m.of] = 1

AnsweredInv == \A c \in Calls : caller[c] = "answered" => executed[c] = 1

ExecInv == RequestInv /\ AcceptedInv /\ AnsweredInv

LEMMA ExecInit == Init => ExecInv
<1> SUFFICES ASSUME Init PROVE ExecInv
  OBVIOUS
<1>1. /\ Elems(requests) = {} /\ Elems(responses) = {} /\ Elems(respReceiverQueue) = {}
      /\ OneEach(requests)
  BY DEF Init, Elems, OneEach
<1>2. QED
  BY <1>1 DEF Init, ExecInv, RequestInv, AcceptedInv, AnsweredInv, NotSent, Accepted

LEMMA ExecCaller ==
    ASSUME BaseInv, ChannelInv, ExecInv, NEW c \in Calls, Call(c) \/ CallerStep(c) \/ CallerTimer(c)
    PROVE  ExecInv'
<1> USE DEF callerVars, dispatcherVars, readerVars, queueVars, targetVars
<1>1. TypeOK
  BY DEF BaseInv
<1>2. UNCHANGED <<requests, service, responses, held, respReceiverQueue, executed, sending>>
  BY DEF CallerStep, CallerTimer, Call, AcquireSem, RefuseOnCtxDone, RefuseOnTimeout,
     RefuseOnMarshalError, RefuseWithoutSlot, RefuseWithSlot, EnqueueMessage, AwaitResponse,
     ReceiveNil, ReturnOnCtxDone, ReturnOnTimeout, ReturnWith
<1>3. AcceptedInv'
  BY <1>2 DEF ExecInv, AcceptedInv, Accepted
<1>4. CASE EnqueueMessage(c)
  <2>1. Elems(msgWrapperQueue') = Elems(msgWrapperQueue) \cup {c} /\ NotSent(c)
    BY <1>1, <1>4, ElemsOfAppend
    DEF EnqueueMessage, CallerMoves, TypeOK, ExecInv, RequestInv, Unqueued
  <2>2. \A d \in Calls : caller'[d] \in Unqueued => caller[d] \in Unqueued
    BY <1>1, <1>4 DEF EnqueueMessage, CallerMoves, TypeOK, Unqueued
  <2>3. RequestInv'
    BY <1>2, <2>1, <2>2 DEF ExecInv, RequestInv, NotSent
  <2>4. AnsweredInv'
    BY <1>1, <1>2, <1>4 DEF EnqueueMessage, CallerMoves, TypeOK, ExecInv, AnsweredInv
  <2>5. QED
    BY <1>3, <2>3, <2>4 DEF ExecInv
<1>5. CASE ~EnqueueMessage(c)
  <2>1. /\ UNCHANGED msgWrapperQueue
        /\ \E from, to : /\ CallerMoves(c, from, to) /\ to # "answered"
                         /\ to \in Unqueued => from \in Unqueued
    BY <1>5 DEF CallerStep, CallerTimer, Call, AcquireSem, RefuseOnCtxDone, RefuseOnTimeout,
       RefuseOnMarshalError, RefuseWithoutSlot, RefuseWithSlot, AwaitResponse,
       ReceiveNil, ReturnOnCtxDone, ReturnOnTimeout, ReturnWith, Unqueued
  <2>2. \A d \in Calls : /\ caller'[d] \in Unqueued => caller[d] \in Unqueued
                         /\ caller'[d] = "answered" => caller[d] = "answered"
    BY <1>1, <2>1 DEF CallerMoves, TypeOK
  <2>3. QED
    BY <1>2, <1>3, <2>1, <2>2 DEF ExecInv, RequestInv, AnsweredInv, NotSent
<1>6. QED
  BY <1>4, <1>5

LEMMA ExecDispatcher ==
    BaseInv /\ ChannelInv /\ EntryMatches /\ ExecInv /\ DispatcherStep => ExecInv'
<1> SUFFICES ASSUME BaseInv, ChannelInv, EntryMatches, ExecInv, DispatcherStep PROVE ExecInv'
  OBVIOUS
<1> USE DEF callerVars, dispatcherVars, readerVars, queueVars, targetVars
<1>1. TypeOK /\ ControlInv
  BY DEF BaseInv
<1>2. CASE TakeMessage
  <2>1. sending' \in Elems(msgWrapperQueue) /\ Elems(msgWrapperQueue') \subseteq Elems(msgWrapperQueue)
    BY <1>1, <1>2, ElemsOfTail DEF TakeMessage, TypeOK
  <2>2. UNCHANGED <<caller, requests, service, responses, held, respReceiverQueue, executed>>
    BY <1>2 DEF TakeMessage
  <2>3. QED
    BY <2>1, <2>2 DEF ExecInv, RequestInv, AcceptedInv, AnsweredInv, NotSent, Accepted
<1>3. CASE HandleSend
  <2> DEFINE msg == [id |-> idCounter, of |-> sending]
  <2>1. sending \in Calls /\ msg \in Message /\ msg.of = sending
    BY <1>1, <1>3 DEF HandleSend, ControlInv, TypeOK, Message
  <2> HIDE DEF msg
  <2>2. UNCHANGED <<caller, service, responses, held, respReceiverQueue, executed, msgWrapperQueue>>
        /\ sending' = NoCall /\ requests' = Append(requests, msg)
    BY <1>3 DEF HandleSend, msg
  <2>3. Elems(requests') = Elems(requests) \cup {msg}
    BY <1>1, <2>1, <2>2, ElemsOfAppend DEF TypeOK
  <2>4. NotSent(sending)
    BY <2>1 DEF ExecInv, RequestInv
  <2>5. OneEach(requests')
    BY <1>1, <2>1, <2>2, <2>4, OneEachAppend DEF TypeOK, ExecInv, RequestInv, NotSent
  <2>6. ASSUME NEW c \in Calls, caller[c] \in Unqueued \/ c \in Elems(msgWrapperQueue)
        PROVE  c # sending
    BY <2>1, <2>6 DEF ChannelInv, UnqueuedInv, QueueInv
  <2>7. RequestInv'
    BY <2>1, <2>2, <2>3, <2>4, <2>5, <2>6, ConstantsAssumption DEF ExecInv, RequestInv, NotSent
  <2>8. AcceptedInv' /\ AnsweredInv'
    BY <2>2 DEF ExecInv, AcceptedInv, AnsweredInv, Accepted
  <2>9. QED
    BY <2>7, <2>8 DEF ExecInv
<1>4. CASE HandleSendError
  <2>1. UNCHANGED <<caller, requests, service, responses, held, respReceiverQueue, executed, msgWrapperQueue>>
        /\ sending' = NoCall
    BY <1>4 DEF HandleSendError
  <2>2. QED
    BY <2>1, ConstantsAssumption DEF ExecInv, RequestInv, AcceptedInv, AnsweredInv, NotSent, Accepted
<1>5. CASE HandleRecv
  <2> DEFINE resp == Head(respReceiverQueue)
             c    == responseChans[resp.id]
  <2>1. resp \in Elems(respReceiverQueue) /\ Elems(respReceiverQueue') \subseteq Elems(respReceiverQueue)
    BY <1>1, <1>5, ElemsOfTail DEF HandleRecv, TypeOK
  <2>2. c \in {resp.of, NoCall} /\ executed[resp.of] = 1
    BY <2>1 DEF InFlight, EntryMatches, ExecInv, AcceptedInv, Accepted
  <2> HIDE DEF resp, c
  <2>3. UNCHANGED <<requests, service, responses, held, executed, sending, msgWrapperQueue>>
    BY <1>5 DEF HandleRecv
  <2>4. \A d \in Calls : /\ caller'[d] \in Unqueued => caller[d] \in Unqueued
                         /\ caller'[d] = "answered" => caller[d] = "answered" \/ executed[d] = 1
    <3>1. CASE UNCHANGED callerVars
      BY <3>1
    <3>2. CASE c \in Calls /\ Deliver(c, resp)
      BY <1>1, <2>2, <3>2, ConstantsAssumption DEF Deliver, TypeOK, Unqueued
    <3>3. QED
      BY <1>5, <3>1, <3>2 DEF HandleRecv, Drop, resp, c
  <2>5. QED
    BY <2>1, <2>3, <2>4 DEF ExecInv, RequestInv, AcceptedInv, AnsweredInv, NotSent, Accepted
<1>6. CASE HandleShutdown
  <2>1. UNCHANGED <<caller, requests, service, responses, held, respReceiverQueue, executed, msgWrapperQueue, sending>>
    BY <1>6 DEF HandleShutdown
  <2>2. QED
    BY <2>1 DEF ExecInv, RequestInv, AcceptedInv, AnsweredInv, NotSent, Accepted
<1>7. QED
  BY <1>2, <1>3, <1>4, <1>5, <1>6 DEF DispatcherStep

LEMMA ExecReader == BaseInv /\ ExecInv /\ ReaderStep => ExecInv'
<1> SUFFICES ASSUME BaseInv, ExecInv, ReaderStep PROVE ExecInv'
  OBVIOUS
<1> USE DEF callerVars, dispatcherVars, readerVars, queueVars, targetVars
<1>1. TypeOK /\ ControlInv
  BY DEF BaseInv
<1>2. UNCHANGED <<caller, requests, executed, sending, msgWrapperQueue>>
  BY DEF ReaderStep, ReadTick, ReadNothing, ReadResponse, ReadDecodeError, QueueResponse,
     DropResponse, ReaderShutdown
<1>3. Accepted' \subseteq Accepted
  <2>1. CASE ReadTick \/ ReadNothing \/ ReaderShutdown \/ DropResponse
    BY <2>1 DEF ReadTick, ReadNothing, ReaderShutdown, DropResponse, Accepted
  <2>2. CASE ReadResponse
    BY <1>1, <2>2, ElemsOfTail DEF ReadResponse, TypeOK, Accepted
  <2>3. CASE ReadDecodeError
    <3>1. Elems(responses') = {}
      BY <2>3 DEF ReadDecodeError, Elems
    <3>2. QED
      BY <2>3, <3>1 DEF ReadDecodeError, Accepted
  <2>4. CASE QueueResponse
    <3>1. held \in Message /\ held # NoMsg
      BY <1>1, <2>4, ConstantsAssumption DEF QueueResponse, ReaderMoves, ControlInv, Message, Ids
    <3>2. Elems(respReceiverQueue') = Elems(respReceiverQueue) \cup {held}
      BY <1>1, <2>4, <3>1, ElemsOfAppend DEF QueueResponse, TypeOK
    <3>3. QED
      BY <2>4, <3>1, <3>2 DEF QueueResponse, Accepted
  <2>5. QED
    BY <2>1, <2>2, <2>3, <2>4 DEF ReaderStep
<1>4. QED
  BY <1>2, <1>3 DEF ExecInv, RequestInv, AcceptedInv, AnsweredInv, NotSent

LEMMA ExecTargetAccepts == BaseInv /\ ExecInv /\ TargetAccepts => ExecInv'
<1> SUFFICES ASSUME BaseInv, ExecInv, TargetAccepts PROVE ExecInv'
  OBVIOUS
<1> USE DEF callerVars, dispatcherVars, readerVars, queueVars, targetVars
<1> DEFINE h == Head(requests)
<1>1. TypeOK
  BY DEF BaseInv
<1>2. /\ h \in Elems(requests) /\ Elems(requests') \subseteq Elems(requests)
      /\ h.of \in Calls /\ Elems(requests) \subseteq Message
  <2>1. h \in Elems(requests) /\ Elems(requests') \subseteq Elems(requests)
    BY <1>1, ElemsOfTail DEF TargetAccepts, TypeOK
  <2>2. Elems(requests) \subseteq Message
    BY <1>1, LenProperties DEF TypeOK, Elems
  <2>3. QED
    BY <2>1, <2>2 DEF Message
<1>3. OneEach(requests') /\ \A m \in Elems(requests') : m.of # h.of
  BY <1>1, OneEachTail DEF TargetAccepts, TypeOK, ExecInv, RequestInv
<1> HIDE DEF h
<1>4. /\ UNCHANGED <<caller, sending, msgWrapperQueue, responses, held, respReceiverQueue>>
      /\ executed' = [executed EXCEPT ![h.of] = @ + 1]
      /\ service' \subseteq service \cup {h}
  BY DEF TargetAccepts, h
<1>5. /\ executed[h.of] = 0
      /\ executed'[h.of] = 1
      /\ \A d \in Calls : d # h.of => executed'[d] = executed[d]
  BY <1>1, <1>2, <1>4 DEF TypeOK, ExecInv, RequestInv
<1>6. RequestInv'
  <2>1. \A d \in Calls : executed'[d] \in {0, 1}
    BY <1>5 DEF ExecInv, RequestInv
  <2>2. ASSUME NEW d \in Calls, NotSent(d) PROVE NotSent(d)'
    BY <1>2, <1>5, <2>2 DEF NotSent
  <2>3. \A m \in Elems(requests') : executed'[m.of] = 0
    BY <1>2, <1>3, <1>5 DEF ExecInv, RequestInv, Message
  <2>4. QED
    BY <1>3, <1>4, <2>1, <2>2, <2>3 DEF ExecInv, RequestInv
<1>7. AcceptedInv'
  <2>1. Accepted' \subseteq Accepted \cup {h}
    BY <1>4 DEF Accepted
  <2>2. Accepted \subseteq InFlight
    BY DEF Accepted, InFlight
  <2>3. \A m \in Accepted : m.of \in Calls
    BY <1>1, <2>2, InFlightTyped DEF Message
  <2>4. QED
    BY <1>5, <2>1, <2>3 DEF ExecInv, AcceptedInv
<1>8. AnsweredInv'
  BY <1>4, <1>5 DEF ExecInv, AnsweredInv
<1>9. QED
  BY <1>6, <1>7, <1>8 DEF ExecInv

LEMMA ExecEnvironment ==
    BaseInv /\ ExecInv /\ (TargetStep \/ ConnectionDown \/ ContextDone) => ExecInv'
<1> SUFFICES ASSUME BaseInv, ExecInv, TargetAnswers \/ ConnectionDown \/ ContextDone PROVE ExecInv'
  BY ExecTargetAccepts DEF TargetStep
<1> USE DEF callerVars, dispatcherVars, readerVars, queueVars, targetVars
<1>1. UNCHANGED <<caller, executed, sending, msgWrapperQueue, held, respReceiverQueue>>
  BY DEF TargetAnswers, ConnectionDown, ContextDone
<1>2. requests' = requests \/ requests' = <<>>
  BY DEF TargetAnswers, ConnectionDown, ContextDone
<1>3. Elems(requests') \subseteq Elems(requests) /\ OneEach(requests')
  BY <1>2 DEF ExecInv, RequestInv, OneEach, Elems
<1>4. Accepted' \subseteq Accepted
  <2>1. CASE TargetAnswers
    <3>1. PICK m \in service : responses' = Append(responses, m) /\ service' = service \ {m}
      BY <2>1 DEF TargetAnswers
    <3>2. Elems(responses') = Elems(responses) \cup {m}
      BY <3>1, ElemsOfAppend DEF BaseInv, TypeOK
    <3>3. QED
      BY <1>1, <3>1, <3>2 DEF Accepted
  <2>2. CASE ConnectionDown
    <3>1. service' = {} /\ Elems(responses') \subseteq Elems(responses)
      BY <2>2 DEF ConnectionDown, Elems
    <3>2. QED
      BY <1>1, <3>1 DEF Accepted
  <2>3. CASE ContextDone
    BY <2>3 DEF ContextDone, Accepted
  <2>4. QED
    BY <2>1, <2>2, <2>3
<1>5. QED
  BY <1>1, <1>3, <1>4 DEF ExecInv, RequestInv, AcceptedInv, AnsweredInv, NotSent

LEMMA ExecNext ==
    BaseInv /\ ChannelInv /\ EntryMatches /\ ExecInv /\ [Next]_vars => ExecInv'
<1> SUFFICES ASSUME BaseInv, ChannelInv, EntryMatches, ExecInv, [Next]_vars PROVE ExecInv'
  OBVIOUS
<1>1. CASE UNCHANGED vars
  BY <1>1 DEF vars, callerVars, dispatcherVars, readerVars, queueVars, targetVars, ExecInv,
     RequestInv, AcceptedInv, AnsweredInv, NotSent, Accepted
<1>2. QED
  BY <1>1, ExecCaller, ExecDispatcher, ExecReader, ExecEnvironment DEF Next

(***************************************************************************)
(* Each step of the client is a step of the service or leaves it alone.    *)
(***************************************************************************)
LEMMA ServicePhase ==
    ASSUME TypeOK, NEW c \in Calls, NEW from, NEW to, CallerMoves(c, from, to)
    PROVE  /\ PhaseOf(from) = PhaseOf(to) =>
                [d \in Calls |-> PhaseOf(caller'[d])] = [d \in Calls |-> PhaseOf(caller[d])]
           /\ Service!Move(c, PhaseOf(from), PhaseOf(to))
<1>1. \A d \in Calls : caller'[d] = IF d = c THEN to ELSE caller[d]
  BY DEF CallerMoves, TypeOK
<1>2. caller[c] = from
  BY DEF CallerMoves
<1> DEFINE P  == [d \in Calls |-> PhaseOf(caller[d])]
           Pn == [d \in Calls |-> PhaseOf(caller'[d])]
<1>3. Pn = [P EXCEPT ![c] = PhaseOf(to)]
  <2>1. \A d \in Calls : Pn[d] = [P EXCEPT ![c] = PhaseOf(to)][d]
    BY <1>1
  <2>2. QED
    BY <2>1
<1>4. P[c] = PhaseOf(from)
  BY <1>2
<1>5. PhaseOf(from) = PhaseOf(to) => Pn = P
  <2>1. ASSUME PhaseOf(from) = PhaseOf(to), NEW d \in Calls PROVE Pn[d] = P[d]
    BY <1>1, <1>2, <2>1
  <2>2. QED
    BY <2>1
<1>6. QED
  BY <1>3, <1>4, <1>5 DEF Service!Move

LEMMA ServiceCaller ==
    ASSUME TypeOK, NEW c \in Calls, Call(c) \/ CallerStep(c) \/ CallerTimer(c)
    PROVE  Service!Next \/ UNCHANGED Service!vars
<1> USE DEF callerVars, targetVars
<1>1. UNCHANGED <<got, executed>>
  BY DEF CallerStep, CallerTimer, Call, AcquireSem, RefuseOnCtxDone, RefuseOnTimeout,
     RefuseOnMarshalError, RefuseWithoutSlot, RefuseWithSlot, EnqueueMessage, AwaitResponse,
     ReceiveNil, ReturnOnCtxDone, ReturnOnTimeout, ReturnWith
<1>2. CASE CallerMoves(c, "acquiring", "acquired") \/ CallerMoves(c, "enqueued", "awaiting")
  <2>1. PhaseOf("acquiring") = PhaseOf("acquired") /\ PhaseOf("enqueued") = PhaseOf("awaiting")
    BY DEF PhaseOf
  <2>2. QED
    BY <1>1, <1>2, <2>1, ServicePhase DEF Service!vars
<1>3. CASE CallerMoves(c, "idle", "acquiring")
  <2>1. PhaseOf("idle") = "idle" /\ PhaseOf("acquiring") = "called"
    BY DEF PhaseOf
  <2>2. Service!Move(c, "idle", "called")
    BY <1>3, <2>1, ServicePhase
  <2>3. QED
    BY <1>1, <2>2 DEF Service!Next, Service!Call
<1>4. CASE CallerMoves(c, "acquired", "enqueued")
  <2>1. PhaseOf("acquired") = "called" /\ PhaseOf("enqueued") = "submitted"
    BY DEF PhaseOf
  <2>2. Service!Move(c, "called", "submitted")
    BY <1>4, <2>1, ServicePhase
  <2>3. QED
    BY <1>1, <2>2 DEF Service!Next, Service!Submit
<1>5. CASE CallerMoves(c, "acquiring", "refused") \/ CallerMoves(c, "acquired", "refused")
  <2>1. PhaseOf("acquiring") = "called" /\ PhaseOf("acquired") = "called"
        /\ PhaseOf("refused") = "refused"
    BY DEF PhaseOf
  <2>2. Service!Move(c, "called", "refused")
    BY <1>5, <2>1, ServicePhase
  <2>3. QED
    BY <1>1, <2>2 DEF Service!Next, Service!Refuse
<1>6. ASSUME NEW to \in {"nilResponse", "timeout", "cancelled"}, CallerMoves(c, "awaiting", to)
      PROVE  Service!Next
  <2>1. PhaseOf("awaiting") = "submitted" /\ PhaseOf(to) = "failed"
    BY DEF PhaseOf
  <2>2. Service!Move(c, "submitted", "failed")
    BY <1>6, <2>1, ServicePhase
  <2>3. QED
    BY <1>1, <2>2 DEF Service!Next, Service!Fail
<1>7. QED
  BY <1>2, <1>3, <1>4, <1>5, <1>6 DEF CallerStep, CallerTimer, Call, AcquireSem, RefuseOnCtxDone,
     RefuseOnTimeout, RefuseOnMarshalError, RefuseWithoutSlot, RefuseWithSlot, EnqueueMessage,
     AwaitResponse, ReceiveNil, ReturnOnCtxDone, ReturnOnTimeout, ReturnWith

LEMMA ServiceRecv ==
    ASSUME TypeOK, EntryMatches, ExecInv, HandleRecv
    PROVE  Service!Next \/ UNCHANGED Service!vars
<1> USE DEF callerVars, targetVars
<1> DEFINE resp == Head(respReceiverQueue)
           c    == responseChans[resp.id]
<1>1. resp \in Elems(respReceiverQueue)
  BY ElemsOfTail DEF HandleRecv, TypeOK
<1>2. c \in {resp.of, NoCall} /\ executed[resp.of] = 1
  BY <1>1 DEF InFlight, EntryMatches, ExecInv, AcceptedInv, Accepted
<1>3. UNCHANGED executed
  BY DEF HandleRecv
<1> HIDE DEF resp, c
<1>4. CASE UNCHANGED callerVars
  BY <1>3, <1>4 DEF Service!vars
<1>5. CASE c \in Calls /\ Deliver(c, resp)
  <2>1. resp.of = c
    BY <1>2, <1>5, ConstantsAssumption
  <2>2. CallerMoves(c, "awaiting", "answered")
    BY <1>5 DEF Deliver, CallerMoves
  <2>3. PhaseOf("awaiting") = "submitted" /\ PhaseOf("answered") = "answered"
    BY DEF PhaseOf
  <2>4. Service!Move(c, "submitted", "answered")
    BY <1>5, <2>2, <2>3, ServicePhase
  <2>5. Service!Answer(c)
    BY <1>2, <1>3, <1>5, <2>1, <2>4 DEF Service!Answer, Deliver
  <2>6. QED
    BY <1>5, <2>5 DEF Service!Next
<1>6. QED
  BY <1>4, <1>5 DEF HandleRecv, Drop, resp, c

LEMMA ServiceAccept ==
    ASSUME TypeOK, ExecInv, TargetAccepts
    PROVE  Service!Next
<1> USE DEF callerVars, targetVars
<1> DEFINE h == Head(requests)
<1>1. h \in Elems(requests) /\ h.of \in Calls
  <2>1. h \in Elems(requests)
    BY ElemsOfTail DEF TargetAccepts, TypeOK
  <2>2. h \in Message
    BY <2>1, LenProperties DEF TypeOK, Elems
  <2>3. QED
    BY <2>1, <2>2 DEF Message
<1>2. UNCHANGED <<caller, got>> /\ executed' = [executed EXCEPT ![h.of] = @ + 1]
  BY DEF TargetAccepts
<1> HIDE DEF h
<1>3. executed[h.of] = 0
  BY <1>1 DEF ExecInv, RequestInv
<1>4. caller[h.of] \in {"enqueued", "awaiting", "nilResponse", "timeout", "cancelled"}
  <2>1. caller[h.of] \notin Unqueued
    BY <1>1 DEF ExecInv, RequestInv, NotSent
  <2>2. caller[h.of] # "answered"
    BY <1>1, <1>3 DEF ExecInv, AnsweredInv
  <2>3. QED
    BY <1>1, <2>1, <2>2 DEF TypeOK, Unqueued, Waiting, Returned
<1>5. PhaseOf(caller[h.of]) \in {"submitted", "failed"}
  BY <1>4 DEF PhaseOf
<1>6. executed' = [executed EXCEPT ![h.of] = 1]
  BY <1>1, <1>2, <1>3 DEF TypeOK
<1>7. Service!Execute(h.of)
  BY <1>1, <1>2, <1>3, <1>5, <1>6 DEF Service!Execute
<1>8. QED
  BY <1>1, <1>7 DEF Service!Next

LEMMA ServiceNext ==
    BaseInv /\ EntryMatches /\ ExecInv /\ [Next]_vars => [Service!Next]_(Service!vars)
<1> SUFFICES ASSUME BaseInv, EntryMatches, ExecInv, [Next]_vars
             PROVE  Service!Next \/ UNCHANGED Service!vars
  OBVIOUS
<1>1. TypeOK
  BY DEF BaseInv
<1>2. CASE \E c \in Calls : Call(c) \/ CallerStep(c) \/ CallerTimer(c)
  BY <1>1, <1>2, ServiceCaller
<1>3. CASE HandleRecv
  BY <1>1, <1>3, ServiceRecv
<1>4. CASE TargetAccepts
  BY <1>1, <1>4, ServiceAccept
<1>5. CASE UNCHANGED vars \/ TakeMessage \/ HandleSend \/ HandleSendError \/ HandleShutdown
           \/ ReaderStep \/ TargetAnswers \/ ConnectionDown \/ ContextDone
  <2>1. UNCHANGED <<caller, got, executed>>
    BY <1>5 DEF vars, callerVars, targetVars, TakeMessage, HandleSend, HandleSendError,
       HandleShutdown, ReaderStep, ReadTick, ReadNothing, ReadResponse, ReadDecodeError,
       QueueResponse, DropResponse, ReaderShutdown, TargetAnswers, ConnectionDown, ContextDone
  <2>2. QED
    BY <2>1 DEF Service!vars
<1>6. QED
  BY <1>2, <1>3, <1>4, <1>5 DEF Next, DispatcherStep, TargetStep

LEMMA ServiceInit == Init => Service!Init
  BY DEF Init, Service!Init, PhaseOf

\* The client implements RpcService as long as ids do not wrap onto unanswered
\* ones: each command is carried out at most once, never for a refused call, and
\* whoever gets an answer gets the answer to a command that was carried out.
THEOREM ClientImplementsService == Spec /\ []IdUnused => ImplementsService
<1>1. Init => EntryMatches
  BY DEF Init, EntryMatches, InFlight, Elems
<1>2. BaseInv /\ IdUnused /\ ChannelInv /\ EntryMatches /\ ExecInv /\ [Next]_vars
        => ChannelInv' /\ EntryMatches' /\ ExecInv' /\ [Service!Next]_(Service!vars)
  BY ChannelNext, EntryMatchesNext, ExecNext, ServiceNext DEF BaseInv
<1>3. QED
  BY <1>1, <1>2, BaseAlways, ChannelInit, ExecInit, ServiceInit, PTL
  DEF Spec, ImplementsService, Service!Spec
-----------------------------------------------------------------------------
(***************************************************************************)
(* Nobody waits who cannot be woken.  A call that was enqueued passes from *)
(* the queue to the dispatcher, to responseChans and to the closed         *)
(* channels, and leaves none of these places but for the next one.  Only a *)
(* failed Encode forgets it, and an id that is used again while an entry   *)
(* is left under it.                                                       *)
(***************************************************************************)
ReachInv ==
    \A c \in Calls : caller[c] \in {"enqueued", "awaiting"} /\ conn = "up" =>
        \/ c \in Elems(msgWrapperQueue)
        \/ dispatcher = "encoding" /\ sending = c
        \/ c \in Registered \cup closed

LEMMA ReachNext == BaseInv /\ IdUnused /\ ReachInv /\ [Next]_vars => ReachInv'
<1> SUFFICES ASSUME BaseInv, IdUnused, ReachInv, [Next]_vars,
                    NEW d \in Calls, caller'[d] \in {"enqueued", "awaiting"}, conn' = "up"
             PROVE  \/ d \in Elems(msgWrapperQueue')
                    \/ dispatcher' = "encoding" /\ sending' = d
                    \/ d \in Registered' \cup closed'
  BY DEF ReachInv
<1> USE DEF callerVars, dispatcherVars, readerVars, queueVars, targetVars
<1> DEFINE Reached == \/ d \in Elems(msgWrapperQueue)
                      \/ dispatcher = "encoding" /\ sending = d
                      \/ d \in Registered \cup closed
<1>1. TypeOK /\ ControlInv
  BY DEF BaseInv
<1>2. ASSUME caller[d] \in {"enqueued", "awaiting"}, conn = "up" PROVE Reached
  BY <1>2 DEF ReachInv
<1> HIDE DEF Reached
<1>3. CASE \E c \in Calls : Call(c) \/ CallerStep(c) \/ CallerTimer(c)
  <2>1. PICK c \in Calls : Call(c) \/ CallerStep(c) \/ CallerTimer(c)
    BY <1>3
  <2>2. CASE EnqueueMessage(c)
    <3>1. Elems(msgWrapperQueue') = Elems(msgWrapperQueue) \cup {c}
      BY <1>1, <2>2, ElemsOfAppend DEF EnqueueMessage, TypeOK
    <3>2. d # c => caller[d] \in {"enqueued", "awaiting"} /\ conn = "up"
      BY <1>1, <2>2 DEF EnqueueMessage, CallerMoves, TypeOK
    <3>3. UNCHANGED <<dispatcher, sending, closed>> /\ Registered' = Registered
      BY <2>2 DEF EnqueueMessage, Registered
    <3>4. QED
      BY <1>2, <3>1, <3>2, <3>3 DEF Reached
  <2>3. CASE ~EnqueueMessage(c)
    <3>1. /\ UNCHANGED <<conn, dispatcher, sending, closed, responseChans, msgWrapperQueue>>
          /\ \E from, to : CallerMoves(c, from, to)
                           /\ (to = "awaiting" => from = "enqueued") /\ to # "enqueued"
      BY <2>1, <2>3 DEF CallerStep, CallerTimer, Call, AcquireSem, RefuseOnCtxDone,
         RefuseOnTimeout, RefuseOnMarshalError, RefuseWithoutSlot, RefuseWithSlot, AwaitResponse,
         ReceiveNil, ReturnOnCtxDone, ReturnOnTimeout, ReturnWith
    <3>2. caller[d] \in {"enqueued", "awaiting"} /\ conn = "up"
      BY <1>1, <3>1 DEF CallerMoves, TypeOK
    <3>3. Registered' = Registered
      BY <3>1 DEF Registered
    <3>4. QED
      BY <1>2, <3>1, <3>2, <3>3 DEF Reached
  <2>4. QED
    BY <2>2, <2>3
<1>4. CASE TakeMessage
  <2>1. \A x \in Elems(msgWrapperQueue) : x = Head(msgWrapperQueue) \/ x \in Elems(msgWrapperQueue')
    BY <1>1, <1>4, HeadOrTail DEF TakeMessage, TypeOK
  <2>2. /\ UNCHANGED <<conn, caller, closed, responseChans>> /\ Registered' = Registered
        /\ sending' = Head(msgWrapperQueue) /\ dispatcher = "selecting" /\ dispatcher' = "encoding"
    BY <1>4 DEF TakeMessage, Registered
  <2>3. QED
    BY <1>2, <2>1, <2>2 DEF Reached
<1>5. CASE HandleSend
  <2>1. /\ UNCHANGED <<conn, caller, closed, msgWrapperQueue>> /\ idCounter \in Ids
        /\ responseChans' = [responseChans EXCEPT ![idCounter] = sending]
    BY <1>1, <1>5 DEF HandleSend, Register, TypeOK
  <2>2. sending = d => d \in Registered'
    BY <1>1, <2>1 DEF Registered, TypeOK
  <2>3. d \in Registered => d \in Registered'
    BY <1>1, <2>1, ConstantsAssumption DEF Registered, TypeOK, IdUnused
  <2>4. QED
    BY <1>2, <2>1, <2>2, <2>3 DEF Reached
<1>6. CASE HandleSendError
  BY <1>6 DEF HandleSendError
<1>7. CASE HandleRecv
  <2> DEFINE resp == Head(respReceiverQueue)
             c    == responseChans[resp.id]
  <2>1. resp \in Message
    BY <1>1, <1>7, HeadTailProperties DEF HandleRecv, TypeOK
  <2>2. resp.id \in Ids
    BY <2>1 DEF Message
  <2> HIDE DEF resp, c
  <2>3. UNCHANGED <<conn, sending, msgWrapperQueue>> /\ dispatcher = "selecting"
    BY <1>7 DEF HandleRecv
  <2>4. CASE UNCHANGED <<callerVars, closed, responseChans>>
    BY <1>2, <2>3, <2>4 DEF Reached, Registered
  <2>5. CASE Unregister(resp.id) /\ (c \in closed \/ Deliver(c, resp) \/ Drop(c))
             /\ (c \in closed => UNCHANGED <<callerVars, closed>>)
    <3>1. caller[d] \in {"enqueued", "awaiting"}
      BY <1>1, <2>5 DEF Deliver, Drop, TypeOK
    <3>2. c \in closed' /\ closed \subseteq closed'
      BY <2>5 DEF Deliver, Drop
    <3>3. d \in Registered => d \in Registered' \/ d = c
      BY <1>1, <2>2, <2>5 DEF Registered, Unregister, TypeOK, c
    <3>4. QED
      BY <1>2, <2>3, <3>1, <3>2, <3>3 DEF Reached
  <2>6. QED
    BY <1>7, <2>4, <2>5 DEF HandleRecv, resp, c
<1>8. CASE HandleShutdown
  <2>1. /\ UNCHANGED <<conn, caller, sending, responseChans, msgWrapperQueue>>
        /\ closed' = closed \cup Registered /\ Registered' = Registered
        /\ dispatcher = "selecting"
    BY <1>8 DEF HandleShutdown, Registered
  <2>2. QED
    BY <1>2, <2>1 DEF Reached
<1>9. CASE ReaderStep \/ TargetStep \/ ConnectionDown \/ ContextDone \/ UNCHANGED vars
  <2>1. /\ UNCHANGED <<caller, dispatcher, sending, responseChans, closed, msgWrapperQueue>>
        /\ conn = "up" \/ conn' = "down"
    BY <1>9 DEF ReaderStep, ReadTick, ReadNothing, ReadResponse, ReadDecodeError, QueueResponse,
       DropResponse, ReaderShutdown, TargetStep, TargetAccepts, TargetAnswers, ConnectionDown,
       ContextDone, vars
  <2>2. QED
    BY <1>2, <2>1 DEF Reached, Registered
<1>10. QED
  BY <1>3, <1>4, <1>5, <1>6, <1>7, <1>8, <1>9 DEF Next, DispatcherStep

\* As long as handleSend finds its next id unused and the socket is open, a caller
\* blocked on its channel is known to the dispatcher, or its channel is closed: it
\* does not depend on its timer, which may be 24 hours long.
THEOREM WaitersAreReachable == Spec /\ []IdUnused => []WaiterIsReachable
<1>1. Init => ReachInv
  BY DEF Init, ReachInv
<1>2. ReachInv => WaiterIsReachable
  BY DEF ReachInv, WaiterIsReachable
<1>3. QED
  BY <1>1, <1>2, ReachNext, BaseAlways, PTL DEF Spec
-----------------------------------------------------------------------------
(***************************************************************************)
(* The semaphore keeps the responses within the capacity of the queue.  A  *)
(* message is at one place between Encode and handleRecv, once (OnceInv),  *)
(* its channel is registered under its id (EntryExact), and as long as no  *)
(* call gives up, a call whose channel is registered still has its slot    *)
(* (WaitInv).  So there are no more messages than slots; once the          *)
(* dispatcher has closed the channels the calls return, but no message is  *)
(* added (FewInv).  Hence read finds a free place and drops nothing, and   *)
(* what is registered stays under way (EntryKept).                         *)
(***************************************************************************)
Held == {held} \ {NoMsg}

OnceInv ==
    /\ Distinct(requests) /\ Distinct(responses) /\ Distinct(respReceiverQueue)
    /\ Elems(requests) \cap (service \cup Elems(responses) \cup Held \cup Elems(respReceiverQueue)) = {}
    /\ service \cap (Elems(responses) \cup Held \cup Elems(respReceiverQueue)) = {}
    /\ Elems(responses) \cap (Held \cup Elems(respReceiverQueue)) = {}
    /\ Held \cap Elems(respReceiverQueue) = {}

HeldInv == reader # "holding" => held = NoMsg

EntryExact == \A m \in InFlight : responseChans[m.id] = m.of

WaitInv ==
    GaveUp = {} /\ dispatcher # "done" =>
        \A c \in Calls : c \in Elems(msgWrapperQueue) \cup {sending} \cup Registered =>
            caller[c] \in {"enqueued", "awaiting"}

FewInv == dispatcher = "done" /\ GaveUp = {} => Cardinality(InFlight) <= ConcurrentLimit

EntryKept ==
    conn = "up" /\ GaveUp = {} =>
        \A i \in Ids : responseChans[i] # NoCall =>
            [id |-> i, of |-> responseChans[i]] \in InFlight

KeptInv == HeldInv /\ OnceInv /\ EntryExact /\ WaitInv /\ FewInv /\ EntryKept

LEMMA InFlightIsHeld ==
    InFlight = Elems(requests) \cup service \cup Elems(responses) \cup Held \cup Elems(respReceiverQueue)
  BY DEF InFlight, Held

\* A call that has given up never comes back.
LEMMA GaveUpStays == TypeOK /\ [Next]_vars => GaveUp \subseteq GaveUp'
<1> SUFFICES ASSUME TypeOK, [Next]_vars, NEW d \in Calls, caller[d] \in {"timeout", "cancelled"}
             PROVE  caller'[d] = caller[d]
  BY DEF GaveUp
<1> USE DEF callerVars, dispatcherVars, readerVars, queueVars, targetVars
<1>1. ASSUME NEW c \in Calls, Call(c) \/ CallerStep(c) \/ CallerTimer(c)
      PROVE  caller'[d] = caller[d]
  <2>1. \E from, to : CallerMoves(c, from, to) /\ from \notin {"timeout", "cancelled"}
    BY <1>1 DEF CallerStep, CallerTimer, Call, AcquireSem, RefuseOnCtxDone, RefuseOnTimeout,
       RefuseOnMarshalError, RefuseWithoutSlot, RefuseWithSlot, EnqueueMessage, AwaitResponse,
       ReceiveNil, ReturnOnCtxDone, ReturnOnTimeout, ReturnWith
  <2>2. QED
    BY <2>1 DEF CallerMoves, TypeOK
<1>2. CASE HandleRecv
  <2>1. UNCHANGED caller \/ \E c : caller[c] = "awaiting" /\ caller' = [caller EXCEPT ![c] = "answered"]
    BY <1>2 DEF HandleRecv, Deliver, Drop
  <2>2. QED
    BY <2>1 DEF TypeOK
<1>3. CASE ReaderStep \/ TargetStep \/ ConnectionDown \/ ContextDone \/ UNCHANGED vars
           \/ TakeMessage \/ HandleSend \/ HandleSendError \/ HandleShutdown
  BY <1>3 DEF ReaderStep, ReadTick, ReadNothing, ReadResponse, ReadDecodeError, QueueResponse,
     DropResponse, ReaderShutdown, TargetStep, TargetAccepts, TargetAnswers, ConnectionDown,
     ContextDone, vars, TakeMessage, HandleSend, HandleSendError, HandleShutdown
<1>4. QED
  BY <1>1, <1>2, <1>3 DEF Next, DispatcherStep

\* There are no more messages under way than slots taken.
LEMMA InFlightCount ==
    ASSUME BaseInv, ChannelInv, EntryExact
    PROVE  /\ IsFiniteSet(InFlight)
           /\ WaitInv /\ GaveUp = {} /\ dispatcher # "done" => Cardinality(InFlight) <= ConcurrentLimit
<1> DEFINE f == [m \in InFlight |-> m.of]
<1>1. TypeOK /\ SemaphoreExact
  BY DEF BaseInv
<1>2. ASSUME NEW m \in InFlight, NEW n \in InFlight, m.of = n.of PROVE m = n
  <2>1. /\ m \in Message /\ m.id \in Ids /\ m.of \in Calls
        /\ n \in Message /\ n.id \in Ids /\ n.of \in Calls
    BY <1>1, InFlightTyped
  <2>2. responseChans[m.id] = responseChans[n.id] /\ responseChans[m.id] # NoCall
    BY <1>2, <2>1, ConstantsAssumption DEF EntryExact
  <2>3. m.id = n.id
    BY <2>1, <2>2 DEF ChannelInv, EntryInv
  <2>4. QED
    BY <1>2, <2>1, <2>3 DEF Message
<1>3. ASSUME NEW T, \A m \in InFlight : m.of \in T PROVE f \in Injection(InFlight, T)
  BY <1>2, <1>3 DEF Injection, IsInjective
<1>4. IsFiniteSet(InFlight)
  <2>1. \A m \in InFlight : m.of \in Calls
    BY <1>1, InFlightTyped
  <2>2. f \in Injection(InFlight, Calls)
    BY <1>3, <2>1
  <2>3. QED
    BY <2>2, FS_Injection, ConstantsAssumption
<1>5. ASSUME WaitInv, GaveUp = {}, dispatcher # "done" PROVE Cardinality(InFlight) <= ConcurrentLimit
  <2>1. ASSUME NEW m \in InFlight PROVE m.of \in Holders
    <3>1. m.id \in Ids /\ m.of \in Calls /\ responseChans[m.id] = m.of
      BY <1>1, InFlightTyped DEF EntryExact
    <3>2. m.of \in Registered
      BY <3>1 DEF Registered
    <3>3. QED
      BY <1>5, <3>1, <3>2 DEF WaitInv, Holders, Waiting
  <2>2. f \in Injection(InFlight, Holders)
    BY <1>3, <2>1
  <2>3. Cardinality(InFlight) <= Cardinality(Holders)
    BY <2>2, FS_Injection, HoldersFinite
  <2>4. Cardinality(Holders) <= ConcurrentLimit /\ Cardinality(Holders) \in Nat
    BY <1>1, HoldersFinite, ConstantsAssumption DEF SemaphoreExact, TypeOK
  <2>5. Cardinality(InFlight) \in Nat
    BY <1>4, FS_CardinalityType
  <2>6. QED
    BY <2>3, <2>4, <2>5, ConstantsAssumption
<1>6. QED
  BY <1>4, <1>5

\* So the queue has a place for the response that read holds.
LEMMA QueueHasRoom ==
    ASSUME BaseInv, ChannelInv, OnceInv, EntryExact, WaitInv, FewInv, GaveUp = {}, reader = "holding"
    PROVE  Len(respReceiverQueue) < ConcurrentLimit
<1> DEFINE n == Len(respReceiverQueue)
           g == [k \in 0 .. n |-> IF k = 0 THEN held ELSE respReceiverQueue[k]]
<1>1. /\ respReceiverQueue \in Seq(Message) /\ n \in Nat
      /\ DOMAIN respReceiverQueue = 1 .. n
  BY LenProperties DEF BaseInv, TypeOK
<1>2. IsFiniteSet(InFlight) /\ Cardinality(InFlight) <= ConcurrentLimit
  BY InFlightCount DEF FewInv
<1>3. held \in Message /\ held # NoMsg
  BY ConstantsAssumption DEF BaseInv, ControlInv, Message, Ids
<1>4. held \in InFlight /\ held \notin Elems(respReceiverQueue)
  BY <1>3 DEF InFlight, OnceInv, Held
<1>5. \A k \in 1 .. n : respReceiverQueue[k] \in Elems(respReceiverQueue)
  BY <1>1 DEF Elems
<1>6. Elems(respReceiverQueue) \subseteq InFlight
  BY DEF InFlight
<1>7. \A k, l \in 1 .. n : respReceiverQueue[k] = respReceiverQueue[l] => k = l
  BY <1>1 DEF OnceInv, Distinct
<1>8. g \in Injection(0 .. n, InFlight)
  <2> HIDE DEF n
  <2>1. g \in [0 .. n -> InFlight]
    BY <1>1, <1>4, <1>5, <1>6
  <2>2. \A k, l \in 0 .. n : g[k] = g[l] => k = l
    BY <1>1, <1>4, <1>5, <1>7
  <2>3. QED
    BY <2>1, <2>2 DEF Injection, IsInjective
<1>9. IsFiniteSet(0 .. n) /\ Cardinality(0 .. n) = n + 1
  BY <1>1, FS_Interval
<1> HIDE DEF n, g
<1>10. n + 1 <= Cardinality(InFlight)
  BY <1>2, <1>8, <1>9, FS_Injection
<1>11. Cardinality(InFlight) \in Nat
  BY <1>2, FS_CardinalityType
<1>12. n < ConcurrentLimit
  BY <1>1, <1>2, <1>10, <1>11, ConstantsAssumption
<1>13. QED
  BY <1>12 DEF n

\* A message goes from place to place and is never in two of them.
LEMMA OnceNext == BaseInv /\ IdUnused /\ OnceInv /\ [Next]_vars => OnceInv'
<1> SUFFICES ASSUME BaseInv, IdUnused, OnceInv, [Next]_vars PROVE OnceInv'
  OBVIOUS
<1> USE DEF callerVars, dispatcherVars, readerVars, queueVars, targetVars
<1>1. TypeOK /\ ControlInv
  BY DEF BaseInv
<1>2. CASE HandleSend
  <2> DEFINE m == [id |-> idCounter, of |-> sending]
  <2>1. m \in Message /\ m \notin InFlight
    BY <1>1, <1>2 DEF HandleSend, ControlInv, TypeOK, Message, IdUnused
  <2>2. requests' = Append(requests, m) /\ UNCHANGED <<service, responses, held, respReceiverQueue>>
    BY <1>2 DEF HandleSend
  <2> HIDE DEF m
  <2>3. Elems(requests') = Elems(requests) \cup {m} /\ Distinct(requests')
    BY <1>1, <2>1, <2>2, ElemsOfAppend, DistinctAppend DEF TypeOK, OnceInv, InFlight
  <2>4. m \notin service \cup Elems(responses) \cup Held \cup Elems(respReceiverQueue)
    BY <2>1, InFlightIsHeld
  <2>5. QED
    BY <2>2, <2>3, <2>4 DEF OnceInv, Held
<1>3. CASE HandleRecv
  <2>1. /\ Elems(respReceiverQueue') \subseteq Elems(respReceiverQueue)
        /\ Distinct(respReceiverQueue')
    BY <1>1, <1>3, ElemsOfTail, DistinctTail DEF HandleRecv, TypeOK, OnceInv
  <2>2. UNCHANGED <<requests, service, responses, held>>
    BY <1>3 DEF HandleRecv
  <2>3. QED
    BY <2>1, <2>2 DEF OnceInv, Held
<1>4. CASE ReadResponse
  <2> DEFINE m == Head(responses)
  <2>1. /\ m \in Elems(responses) /\ Elems(responses') \subseteq Elems(responses)
        /\ Distinct(responses') /\ m \notin Elems(responses')
    BY <1>1, <1>4, ElemsOfTail, DistinctTail DEF ReadResponse, TypeOK, OnceInv
  <2>2. UNCHANGED <<requests, service, respReceiverQueue>> /\ held' = m
    BY <1>4 DEF ReadResponse
  <2> HIDE DEF m
  <2>3. Held' \subseteq {m}
    BY <2>2 DEF Held
  <2>4. QED
    BY <2>1, <2>2, <2>3 DEF OnceInv
<1>5. CASE ReadDecodeError \/ DropResponse \/ ConnectionDown
  <2>1. /\ Elems(requests') \subseteq Elems(requests) /\ Elems(responses') \subseteq Elems(responses)
        /\ Distinct(requests') /\ Distinct(responses')
    BY <1>5 DEF ReadDecodeError, DropResponse, ConnectionDown, Elems, Distinct, OnceInv
  <2>2. service' \subseteq service /\ Held' \subseteq Held /\ UNCHANGED respReceiverQueue
    BY <1>5 DEF ReadDecodeError, DropResponse, ConnectionDown, Held
  <2>3. QED
    BY <2>1, <2>2 DEF OnceInv
<1>6. CASE QueueResponse
  <2>1. held \in Message /\ held # NoMsg
    BY <1>1, <1>6, ConstantsAssumption DEF QueueResponse, ReaderMoves, ControlInv, Message, Ids
  <2>2. held \in Held
    BY <2>1 DEF Held
  <2>3. /\ Elems(respReceiverQueue') = Elems(respReceiverQueue) \cup {held}
        /\ Distinct(respReceiverQueue')
    BY <1>1, <1>6, <2>1, <2>2, ElemsOfAppend, DistinctAppend DEF QueueResponse, TypeOK, OnceInv
  <2>4. UNCHANGED <<requests, service, responses>> /\ held' = NoMsg
    BY <1>6 DEF QueueResponse
  <2>5. Held' = {}
    BY <2>4 DEF Held
  <2>6. QED
    BY <2>2, <2>3, <2>4, <2>5 DEF OnceInv
<1>7. CASE TargetAccepts
  <2> DEFINE m == Head(requests)
  <2>1. /\ m \in Elems(requests) /\ Elems(requests') \subseteq Elems(requests)
        /\ Distinct(requests') /\ m \notin Elems(requests')
    BY <1>1, <1>7, ElemsOfTail, DistinctTail DEF TargetAccepts, TypeOK, OnceInv
  <2>2. service' \subseteq service \cup {m} /\ UNCHANGED <<responses, held, respReceiverQueue>>
    BY <1>7 DEF TargetAccepts
  <2> HIDE DEF m
  <2>3. QED
    BY <2>1, <2>2 DEF OnceInv, Held
<1>8. CASE TargetAnswers
  <2>1. PICK m \in service : responses' = Append(responses, m) /\ service' = service \ {m}
    BY <1>8 DEF TargetAnswers
  <2>2. Elems(responses') = Elems(responses) \cup {m} /\ Distinct(responses')
    BY <1>1, <2>1, ElemsOfAppend, DistinctAppend DEF TypeOK, OnceInv
  <2>3. UNCHANGED <<requests, held, respReceiverQueue>>
    BY <1>8 DEF TargetAnswers
  <2>4. QED
    BY <2>1, <2>2, <2>3 DEF OnceInv, Held
<1>9. CASE (\E c \in Calls : Call(c) \/ CallerStep(c) \/ CallerTimer(c)) \/ TakeMessage
           \/ HandleSendError \/ HandleShutdown \/ ReadTick \/ ReadNothing \/ ReaderShutdown
           \/ ContextDone \/ UNCHANGED vars
  <2>1. UNCHANGED <<requests, service, responses, held, respReceiverQueue>>
    BY <1>9 DEF CallerStep, CallerTimer, Call, AcquireSem, RefuseOnCtxDone, RefuseOnTimeout,
       RefuseOnMarshalError, RefuseWithoutSlot, RefuseWithSlot, EnqueueMessage, AwaitResponse,
       ReceiveNil, ReturnOnCtxDone, ReturnOnTimeout, ReturnWith, TakeMessage, HandleSendError,
       HandleShutdown, ReadTick, ReadNothing, ReaderShutdown, ContextDone, vars
  <2>2. QED
    BY <2>1 DEF OnceInv, Held
<1>10. QED
  BY <1>2, <1>3, <1>4, <1>5, <1>6, <1>7, <1>8, <1>9
  DEF Next, DispatcherStep, ReaderStep, TargetStep

\* What handleRecv takes from the queue is nowhere else.
LEMMA RecvTakes ==
    ASSUME BaseInv, OnceInv, HandleRecv
    PROVE  /\ Head(respReceiverQueue) \in InFlight
           /\ InFlight' = InFlight \ {Head(respReceiverQueue)}
<1> DEFINE m == Head(respReceiverQueue)
<1>1. /\ m \in Elems(respReceiverQueue) /\ m \notin Elems(respReceiverQueue')
      /\ Elems(respReceiverQueue') \subseteq Elems(respReceiverQueue)
      /\ \A x \in Elems(respReceiverQueue) : x = m \/ x \in Elems(respReceiverQueue')
  BY ElemsOfTail, HeadOrTail, DistinctTail DEF HandleRecv, BaseInv, TypeOK, OnceInv
<1>2. UNCHANGED <<requests, service, responses, held>>
  BY DEF HandleRecv, readerVars, targetVars
<1> HIDE DEF m
<1>3. m \notin Elems(requests) \cup service \cup Elems(responses) \cup Held
  BY <1>1 DEF OnceInv
<1>4. Elems(respReceiverQueue') = Elems(respReceiverQueue) \ {m}
  BY <1>1
<1>5. InFlight' = InFlight \ {m} /\ m \in InFlight
  BY <1>1, <1>2, <1>3, <1>4, InFlightIsHeld DEF InFlight, Held
<1>6. QED
  BY <1>5 DEF m

LEMMA EntryExactNext == BaseInv /\ IdUnused /\ OnceInv /\ EntryExact /\ [Next]_vars => EntryExact'
<1> SUFFICES ASSUME BaseInv, IdUnused, OnceInv, EntryExact, [Next]_vars PROVE EntryExact'
  OBVIOUS
<1> USE DEF callerVars, dispatcherVars, readerVars, queueVars, targetVars
<1>1. TypeOK
  BY DEF BaseInv
<1>2. CASE HandleSend
  <2>1. InFlight' \subseteq InFlight \cup {[id |-> idCounter, of |-> sending]}
    BY <1>2, InFlightStep DEF Next, DispatcherStep
  <2>2. responseChans' = [responseChans EXCEPT ![idCounter] = sending] /\ idCounter \in Ids
    BY <1>1, <1>2 DEF HandleSend, Register, TypeOK
  <2>3. ASSUME NEW m \in InFlight PROVE responseChans'[m.id] = m.of
    BY <1>1, <2>2, InFlightTyped DEF IdUnused, EntryExact, TypeOK
  <2>4. responseChans'[idCounter] = sending
    BY <1>1, <2>2 DEF TypeOK
  <2>5. QED
    BY <2>1, <2>3, <2>4 DEF EntryExact
<1>3. CASE HandleRecv
  <2> DEFINE resp == Head(respReceiverQueue)
  <2>1. resp \in InFlight /\ InFlight' = InFlight \ {resp}
    BY <1>3, RecvTakes
  <2>2. resp.id \in Ids /\ (UNCHANGED responseChans
                            \/ responseChans' = [responseChans EXCEPT ![resp.id] = NoCall])
    BY <1>1, <1>3, <2>1, InFlightTyped DEF HandleRecv, Unregister
  <2> HIDE DEF resp
  <2>3. ASSUME NEW m \in InFlight, m # resp PROVE m.id \in Ids /\ m.id # resp.id
    <3>1. m \in Message /\ m.id \in Ids /\ resp \in Message
      BY <1>1, <2>1, InFlightTyped
    <3>2. m.id = resp.id => m.of = resp.of
      BY <2>1 DEF EntryExact
    <3>3. QED
      BY <2>3, <3>1, <3>2 DEF Message
  <2>4. QED
    BY <1>1, <2>1, <2>2, <2>3 DEF EntryExact, TypeOK
<1>4. CASE Next /\ ~HandleSend /\ ~HandleRecv
  <2>1. InFlight' \subseteq InFlight
    BY <1>4, InFlightStep
  <2>2. UNCHANGED responseChans
    BY <1>4 DEF Next, CallerStep, CallerTimer, Call, AcquireSem, RefuseOnCtxDone, RefuseOnTimeout,
       RefuseOnMarshalError, RefuseWithoutSlot, RefuseWithSlot, EnqueueMessage, AwaitResponse,
       ReceiveNil, ReturnOnCtxDone, ReturnOnTimeout, ReturnWith,
       DispatcherStep, TakeMessage, HandleSendError, HandleShutdown, ReaderStep, ReadTick,
       ReadNothing, ReadResponse, ReadDecodeError, QueueResponse, DropResponse, ReaderShutdown,
       TargetStep, TargetAccepts, TargetAnswers, ConnectionDown, ContextDone
  <2>3. QED
    BY <2>1, <2>2 DEF EntryExact
<1>5. CASE UNCHANGED vars
  BY <1>5 DEF vars, EntryExact, InFlight
<1>6. QED
  BY <1>2, <1>3, <1>4, <1>5

\* A call that is known to the dispatcher has its slot, as long as no call gives up
\* and no channel is closed without an answer.
LEMMA WaitNext == BaseInv /\ ChannelInv /\ WaitInv /\ [Next]_vars => WaitInv'
<1> SUFFICES ASSUME BaseInv, ChannelInv, WaitInv, [Next]_vars, GaveUp' = {}, dispatcher' # "done",
                    NEW d \in Calls,
                    d \in Elems(msgWrapperQueue') \cup {sending'} \cup Registered'
             PROVE  caller'[d] \in {"enqueued", "awaiting"}
  BY DEF WaitInv
<1> USE DEF callerVars, dispatcherVars, readerVars, queueVars, targetVars
<1> DEFINE Known == Elems(msgWrapperQueue) \cup {sending} \cup Registered
<1>1. TypeOK
  BY DEF BaseInv
<1>2. GaveUp = {}
  BY <1>1, GaveUpStays
<1>3. ASSUME dispatcher # "done", d \in Known
      PROVE  caller[d] \in {"enqueued", "awaiting"} /\ d \notin closed
  BY <1>2, <1>3 DEF WaitInv, ChannelInv, QueueInv, EntryInv
<1> HIDE DEF Known
<1>4. CASE \E c \in Calls : Call(c) \/ CallerStep(c) \/ CallerTimer(c)
  <2>1. PICK c \in Calls : Call(c) \/ CallerStep(c) \/ CallerTimer(c)
    BY <1>4
  <2>2. CASE EnqueueMessage(c)
    <3>1. Elems(msgWrapperQueue') = Elems(msgWrapperQueue) \cup {c}
      BY <1>1, <2>2, ElemsOfAppend DEF EnqueueMessage, TypeOK
    <3>2. UNCHANGED <<dispatcher, sending>> /\ Registered' = Registered
      BY <2>2 DEF EnqueueMessage, Registered
    <3>3. caller' = [caller EXCEPT ![c] = "enqueued"]
      BY <2>2 DEF EnqueueMessage, CallerMoves
    <3>4. QED
      BY <1>1, <1>3, <3>1, <3>2, <3>3 DEF Known, TypeOK
  <2>3. CASE ~EnqueueMessage(c)
    <3>1. /\ UNCHANGED <<dispatcher, sending, responseChans, msgWrapperQueue>>
          /\ \E from, to : /\ CallerMoves(c, from, to)
                           /\ from = "enqueued" => to = "awaiting"
                           /\ from = "awaiting" => c \in closed \/ to \in {"timeout", "cancelled"}
      BY <2>1, <2>3 DEF CallerStep, CallerTimer, Call, AcquireSem, RefuseOnCtxDone,
         RefuseOnTimeout, RefuseOnMarshalError, RefuseWithoutSlot, RefuseWithSlot, AwaitResponse,
         ReceiveNil, ReturnOnCtxDone, ReturnOnTimeout, ReturnWith
    <3>2. d \in Known
      BY <3>1 DEF Known, Registered
    <3>3. caller[d] \in {"enqueued", "awaiting"} /\ d \notin closed
      BY <1>3, <3>1, <3>2
    <3>4. caller'[d] \notin {"timeout", "cancelled"}
      BY DEF GaveUp
    <3>5. QED
      BY <1>1, <3>1, <3>3, <3>4 DEF CallerMoves, TypeOK
  <2>4. QED
    BY <2>2, <2>3
<1>5. CASE TakeMessage
  <2>1. Head(msgWrapperQueue) \in Elems(msgWrapperQueue)
        /\ Elems(msgWrapperQueue') \subseteq Elems(msgWrapperQueue)
    BY <1>1, <1>5, ElemsOfTail DEF TakeMessage, TypeOK
  <2>2. /\ UNCHANGED <<caller, responseChans>> /\ sending' = Head(msgWrapperQueue)
        /\ dispatcher = "selecting" /\ Registered' = Registered
    BY <1>5 DEF TakeMessage, Registered
  <2>3. QED
    BY <1>3, <2>1, <2>2 DEF Known
<1>6. CASE HandleSend \/ HandleSendError
  <2>1. /\ UNCHANGED <<caller, msgWrapperQueue>> /\ sending' = NoCall /\ dispatcher = "encoding"
        /\ Registered' \subseteq Registered \cup {sending}
    BY <1>1, <1>6 DEF HandleSend, Register, HandleSendError, Registered, TypeOK
  <2>2. QED
    BY <1>3, <2>1, ConstantsAssumption DEF Known
<1>7. CASE HandleRecv
  <2> DEFINE resp == Head(respReceiverQueue)
             c    == responseChans[resp.id]
  <2>1. resp \in Message
    BY <1>1, <1>7, HeadTailProperties DEF HandleRecv, TypeOK
  <2>2. resp.id \in Ids
    BY <2>1 DEF Message
  <2> HIDE DEF resp, c
  <2>3. UNCHANGED <<sending, msgWrapperQueue>> /\ dispatcher = "selecting"
    BY <1>7 DEF HandleRecv
  <2>4. CASE UNCHANGED <<caller, responseChans>>
    BY <1>3, <2>3, <2>4 DEF Known, Registered
  <2>5. CASE Unregister(resp.id) /\ c # NoCall
             /\ (UNCHANGED callerVars \/ caller' = [caller EXCEPT ![c] = "answered"])
    <3>1. c \in Registered /\ Registered' \subseteq Registered \ {c}
      BY <1>1, <2>2, <2>5, ConstantsAssumption
      DEF Unregister, Registered, TypeOK, ChannelInv, EntryInv, c
    <3>2. c \notin Elems(msgWrapperQueue) \cup {sending}
      BY <3>1 DEF ChannelInv, QueueInv, EntryInv
    <3>3. d # c /\ d \in Known
      BY <2>3, <3>1, <3>2 DEF Known
    <3>4. QED
      BY <1>1, <1>3, <2>3, <2>5, <3>3 DEF TypeOK
  <2>6. CASE c \in Calls /\ Unregister(resp.id) /\ (Deliver(c, resp) \/ Drop(c))
    BY <2>5, <2>6, ConstantsAssumption DEF Deliver, Drop
  <2>7. CASE c \in closed /\ Unregister(resp.id) /\ UNCHANGED callerVars
    BY <1>1, <2>5, <2>7, ConstantsAssumption DEF TypeOK
  <2>8. QED
    BY <1>7, <2>4, <2>6, <2>7 DEF HandleRecv, resp, c
<1>8. CASE HandleShutdown
  <2>1. dispatcher' \in {"panicked", "done"} /\ dispatcher = "selecting"
        /\ UNCHANGED <<caller, sending, responseChans, msgWrapperQueue>>
    BY <1>8 DEF HandleShutdown
  <2>2. QED
    BY <1>3, <2>1 DEF Known, Registered
<1>9. CASE ReaderStep \/ TargetStep \/ ConnectionDown \/ ContextDone \/ UNCHANGED vars
  <2>1. UNCHANGED <<caller, dispatcher, sending, responseChans, msgWrapperQueue>>
    BY <1>9 DEF ReaderStep, ReadTick, ReadNothing, ReadResponse, ReadDecodeError, QueueResponse,
       DropResponse, ReaderShutdown, TargetStep, TargetAccepts, TargetAnswers, ConnectionDown,
       ContextDone, vars
  <2>2. QED
    BY <1>3, <2>1 DEF Known, Registered
<1>10. QED
  BY <1>4, <1>5, <1>6, <1>7, <1>8, <1>9 DEF Next, DispatcherStep

\* The dispatcher ends with no more messages under way than slots, and adds none.
LEMMA FewNext ==
    BaseInv /\ ChannelInv /\ EntryExact /\ WaitInv /\ FewInv /\ [Next]_vars => FewInv'
<1> SUFFICES ASSUME BaseInv, ChannelInv, EntryExact, WaitInv, FewInv, [Next]_vars,
                    dispatcher' = "done", GaveUp' = {}
             PROVE  Cardinality(InFlight') <= ConcurrentLimit
  BY DEF FewInv
<1>1. GaveUp = {}
  BY GaveUpStays DEF BaseInv
<1>2. IsFiniteSet(InFlight) /\ Cardinality(InFlight) <= ConcurrentLimit
  BY <1>1, InFlightCount DEF FewInv
<1>3. InFlight' \subseteq InFlight
  <2>1. CASE Next
    BY <2>1, InFlightStep DEF HandleSend
  <2>2. CASE UNCHANGED vars
    BY <2>2 DEF vars, readerVars, queueVars, targetVars, InFlight
  <2>3. QED
    BY <2>1, <2>2
<1>4. Cardinality(InFlight') <= Cardinality(InFlight) /\ Cardinality(InFlight) \in Nat
      /\ Cardinality(InFlight') \in Nat
  BY <1>2, <1>3, FS_Subset, FS_CardinalityType
<1>5. QED
  BY <1>2, <1>4, ConstantsAssumption

\* While the socket is open a message leaves its way only to its call, or is dropped
\* because the queue is full.
LEMMA InFlightLasts ==
    ASSUME BaseInv, HeldInv, Next, conn' = "up", ~HandleRecv, ~DropResponse
    PROVE  InFlight \subseteq InFlight'
<1> USE DEF callerVars, dispatcherVars, readerVars, queueVars, targetVars
<1>1. TypeOK /\ ControlInv
  BY DEF BaseInv
<1>2. CASE HandleSend
  <2>1. [id |-> idCounter, of |-> sending] \in Message
    BY <1>1, <1>2 DEF HandleSend, ControlInv, TypeOK, Message
  <2>2. Elems(requests) \subseteq Elems(requests')
    BY <1>1, <1>2, <2>1, ElemsOfAppend DEF HandleSend, TypeOK
  <2>3. QED
    BY <1>2, <2>2 DEF HandleSend, InFlight
<1>3. CASE ReadResponse
  <2>1. \A x \in Elems(responses) : x = Head(responses) \/ x \in Elems(responses')
    BY <1>1, <1>3, HeadOrTail DEF ReadResponse, TypeOK
  <2>2. Head(responses) \in Message
    BY <1>1, <1>3, HeadTailProperties DEF ReadResponse, TypeOK
  <2>3. Head(responses) # NoMsg
    <3>1. \A m \in Message : m # NoMsg
      BY ConstantsAssumption DEF Message, Ids
    <3>2. QED
      BY <2>2, <3>1
  <2>4. held = NoMsg /\ held' = Head(responses) /\ UNCHANGED <<requests, service, respReceiverQueue>>
    BY <1>3 DEF ReadResponse, ReaderMoves, HeldInv
  <2>5. QED
    BY <2>1, <2>3, <2>4 DEF InFlight
<1>4. CASE QueueResponse
  <2>1. held \in Message
    BY <1>1, <1>4 DEF QueueResponse, ReaderMoves, ControlInv
  <2>2. Elems(respReceiverQueue') = Elems(respReceiverQueue) \cup {held}
    BY <1>1, <1>4, <2>1, ElemsOfAppend DEF QueueResponse, TypeOK
  <2>3. QED
    BY <1>4, <2>2 DEF QueueResponse, InFlight
<1>5. CASE TargetAccepts
  <2>1. \A x \in Elems(requests) : x = Head(requests) \/ x \in Elems(requests')
    BY <1>1, <1>5, HeadOrTail DEF TargetAccepts, TypeOK
  <2>2. service' = service \cup {Head(requests)} /\ UNCHANGED <<responses, held, respReceiverQueue>>
    BY <1>5 DEF TargetAccepts
  <2>3. QED
    BY <2>1, <2>2 DEF InFlight
<1>6. CASE TargetAnswers
  <2>1. PICK m \in service : responses' = Append(responses, m) /\ service' = service \ {m}
    BY <1>6 DEF TargetAnswers
  <2>2. Elems(responses') = Elems(responses) \cup {m}
    BY <1>1, <2>1, ElemsOfAppend DEF TypeOK
  <2>3. UNCHANGED <<requests, held, respReceiverQueue>>
    BY <1>6 DEF TargetAnswers
  <2>4. QED
    BY <2>1, <2>2, <2>3 DEF InFlight
<1>7. CASE ReadDecodeError \/ ConnectionDown
  BY <1>7 DEF ReadDecodeError, ConnectionDown
<1>8. CASE (\E c \in Calls : Call(c) \/ CallerStep(c) \/ CallerTimer(c)) \/ TakeMessage
           \/ HandleSendError \/ HandleShutdown \/ ReadTick \/ ReadNothing \/ ReaderShutdown
           \/ ContextDone
  <2>1. UNCHANGED <<requests, service, responses, held, respReceiverQueue>>
    BY <1>8 DEF CallerStep, CallerTimer, Call, AcquireSem, RefuseOnCtxDone, RefuseOnTimeout,
       RefuseOnMarshalError, RefuseWithoutSlot, RefuseWithSlot, EnqueueMessage, AwaitResponse,
       ReceiveNil, ReturnOnCtxDone, ReturnOnTimeout, ReturnWith, TakeMessage, HandleSendError,
       HandleShutdown, ReadTick, ReadNothing, ReaderShutdown, ContextDone
  <2>2. QED
    BY <2>1 DEF InFlight
<1>9. QED
  BY <1>2, <1>3, <1>4, <1>5, <1>6, <1>7, <1>8
  DEF Next, DispatcherStep, ReaderStep, TargetStep

LEMMA HeldNext == HeldInv /\ [Next]_vars => HeldInv'
<1> SUFFICES ASSUME HeldInv, [Next]_vars PROVE HeldInv'
  OBVIOUS
<1> USE DEF callerVars, dispatcherVars, readerVars, queueVars, targetVars
<1>1. CASE ReaderStep
  BY <1>1 DEF HeldInv, ReaderStep, ReaderMoves, ReadTick, ReadNothing, ReadResponse,
     ReadDecodeError, QueueResponse, DropResponse, ReaderShutdown
<1>2. CASE (\E c \in Calls : Call(c) \/ CallerStep(c) \/ CallerTimer(c)) \/ DispatcherStep
           \/ TargetStep \/ ConnectionDown \/ ContextDone \/ UNCHANGED vars
  <2>1. UNCHANGED <<reader, held>>
    BY <1>2 DEF CallerStep, CallerTimer, Call, AcquireSem, RefuseOnCtxDone, RefuseOnTimeout,
       RefuseOnMarshalError, RefuseWithoutSlot, RefuseWithSlot, EnqueueMessage, AwaitResponse,
       ReceiveNil, ReturnOnCtxDone, ReturnOnTimeout, ReturnWith, DispatcherStep, TakeMessage,
       HandleSend, HandleSendError, HandleRecv, HandleShutdown, TargetStep, TargetAccepts,
       TargetAnswers, ConnectionDown, ContextDone, vars
  <2>2. QED
    BY <2>1 DEF HeldInv
<1>3. QED
  BY <1>1, <1>2 DEF Next

LEMMA EntryKeptNext ==
    BaseInv /\ ChannelInv /\ IdUnused /\ KeptInv /\ [Next]_vars => EntryKept'
<1> SUFFICES ASSUME BaseInv, ChannelInv, KeptInv, [Next]_vars, conn' = "up", GaveUp' = {},
                    NEW i \in Ids, responseChans'[i] # NoCall
             PROVE  [id |-> i, of |-> responseChans'[i]] \in InFlight'
  BY DEF EntryKept
<1> USE DEF callerVars, dispatcherVars, readerVars, queueVars, targetVars
<1> DEFINE e == [id |-> i, of |-> responseChans[i]]
<1>1. TypeOK
  BY DEF BaseInv
<1>2. GaveUp = {}
  BY <1>1, GaveUpStays
<1>3. ASSUME conn = "up", responseChans[i] # NoCall PROVE e \in InFlight
  BY <1>2, <1>3 DEF KeptInv, EntryKept
<1> HIDE DEF e
<1>4. CASE HandleSend
  <2>1. InFlight \subseteq InFlight' /\ conn = "up"
    BY <1>4, InFlightLasts DEF KeptInv, Next, DispatcherStep, HandleSend, HandleRecv, DropResponse, ReaderMoves
  <2>2. requests' = Append(requests, [id |-> idCounter, of |-> sending])
    BY <1>4 DEF HandleSend
  <2>3. [id |-> idCounter, of |-> sending] \in Message
    BY <1>1, <1>4 DEF HandleSend, BaseInv, ControlInv, TypeOK, Message
  <2>4. [id |-> idCounter, of |-> sending] \in InFlight'
    BY <1>1, <2>2, <2>3, ElemsOfAppend DEF TypeOK, InFlight
  <2>5. responseChans' = [responseChans EXCEPT ![idCounter] = sending] /\ idCounter \in Ids
    BY <1>1, <1>4 DEF HandleSend, Register, TypeOK
  <2>6. QED
    BY <1>1, <1>3, <2>1, <2>4, <2>5 DEF e, TypeOK
<1>5. CASE HandleRecv
  <2> DEFINE resp == Head(respReceiverQueue)
  <2>1. resp \in InFlight /\ InFlight' = InFlight \ {resp}
    BY <1>5, RecvTakes DEF KeptInv
  <2>2. resp.id \in Ids /\ conn = "up"
    BY <1>1, <1>5, <2>1, InFlightTyped DEF HandleRecv
  <2>3. \/ responseChans[resp.id] = NoCall /\ UNCHANGED responseChans
        \/ responseChans' = [responseChans EXCEPT ![resp.id] = NoCall]
    BY <1>5 DEF HandleRecv, Unregister
  <2> HIDE DEF resp
  <2>4. i # resp.id /\ responseChans'[i] = responseChans[i]
    BY <1>1, <2>2, <2>3 DEF TypeOK
  <2>5. e \in InFlight /\ e # resp
    BY <1>3, <2>2, <2>4 DEF e
  <2>6. QED
    BY <2>1, <2>4, <2>5 DEF e
<1>6. CASE Next /\ ~HandleSend /\ ~HandleRecv
  <2>1. ~DropResponse
    <3>1. ASSUME reader = "holding" PROVE Len(respReceiverQueue) < ConcurrentLimit
      BY <1>2, <3>1, QueueHasRoom DEF KeptInv
    <3>2. Len(respReceiverQueue) \in Nat
      BY <1>1, LenProperties DEF TypeOK
    <3>3. QED
      BY <3>1, <3>2, ConstantsAssumption DEF DropResponse, ReaderMoves
  <2>2. InFlight \subseteq InFlight'
    BY <1>6, <2>1, InFlightLasts DEF KeptInv
  <2>3. UNCHANGED responseChans /\ conn = "up"
    BY <1>6 DEF Next, CallerStep, CallerTimer, Call, AcquireSem, RefuseOnCtxDone, RefuseOnTimeout,
       RefuseOnMarshalError, RefuseWithoutSlot, RefuseWithSlot, EnqueueMessage, AwaitResponse,
       ReceiveNil, ReturnOnCtxDone, ReturnOnTimeout, ReturnWith,
       DispatcherStep, TakeMessage, HandleSendError, HandleShutdown, ReaderStep, ReadTick,
       ReadNothing, ReadResponse, ReadDecodeError, QueueResponse, DropResponse, ReaderShutdown,
       TargetStep, TargetAccepts, TargetAnswers, ConnectionDown, ContextDone
  <2>4. QED
    BY <1>3, <2>2, <2>3 DEF e
<1>7. CASE UNCHANGED vars
  BY <1>3, <1>7 DEF vars, InFlight, e
<1>8. QED
  BY <1>4, <1>5, <1>6, <1>7

\* As long as handleSend finds its next id unused, no call has given up and the socket
\* is open, read finds a place for every response and drops none, and every call whose
\* channel is registered has its message under way.
THEOREM ResponsesKept == Spec /\ []IdUnused => []ResponsesAreKept
<1>1. Init => KeptInv
  <2>1. Init => /\ Elems(requests) = {} /\ Elems(responses) = {} /\ Elems(respReceiverQueue) = {}
                /\ Distinct(requests) /\ Distinct(responses) /\ Distinct(respReceiverQueue)
    BY DEF Init, Elems, Distinct
  <2>2. Init => InFlight = {} /\ Held = {} /\ Registered = {} /\ Elems(msgWrapperQueue) = {}
    BY ConstantsAssumption DEF Init, InFlight, Held, Elems, Registered
  <2>3. QED
    BY <2>1, <2>2, ConstantsAssumption
    DEF Init, KeptInv, HeldInv, OnceInv, EntryExact, WaitInv, FewInv, EntryKept
<1>2. BaseInv /\ ChannelInv /\ IdUnused /\ KeptInv /\ [Next]_vars => KeptInv'
  BY HeldNext, OnceNext, EntryExactNext, WaitNext, FewNext, EntryKeptNext DEF KeptInv
<1>3. BaseInv /\ ChannelInv /\ KeptInv => ResponsesAreKept
  BY QueueHasRoom, ConstantsAssumption DEF KeptInv, EntryKept, ResponsesAreKept
<1>4. BaseInv /\ ChannelInv /\ [Next]_vars => ChannelInv'
  BY ChannelNext DEF BaseInv
<1>5. QED
  BY <1>1, <1>2, <1>3, <1>4, BaseAlways, ChannelInit, PTL DEF Spec
-----------------------------------------------------------------------------
\* A client that makes fewer calls than there are ids keeps all its promises with
\* no condition on the run: answers are to the caller's own command, nobody
\* blocks beyond reach, no response is dropped before someone gives up, and
\* every command is carried out at most once.
THEOREM FewCallsAreServed ==
    ASSUME Cardinality(Calls) < IdSpace
    PROVE  Spec => /\ []AnswerIsOwn
                   /\ []WaiterIsReachable
                   /\ []ResponsesAreKept
                   /\ ImplementsService
  BY IdsAreUnused, AnswersAreOwn, WaitersAreReachable, ResponsesKept, ClientImplementsService, PTL
=============================================================================
