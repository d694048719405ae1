-------------------------- MODULE SafeCallProofs --------------------------
(***************************************************************************)
(* Proofs about SafeCall: type correctness for every choice of the         *)
(* constants; the suspension of the main loop for programs that do not     *)
(* flush the calls between begin and end; the queue of calls: none is left *)
(* behind, an order is not used after it was freed, sync returns only when *)
(* its callback has run, and the whole implements MainLoopService.         *)
(***************************************************************************)
EXTENDS SafeCall, SequenceTheorems, TLAPS

-----------------------------------------------------------------------------
(* Type correctness needs to know what the program counters say about the  *)
(* order a thread works on.                                                *)
SyncStates    == {"syncSleep", "syncWait", "syncClean"}
BeginStates   == {"beginPost", "beginWait", "define"}
SuspendStates == {"suspend", "gate", "reclaim", "feedback"}

OrderOK == \A o \in Orders :
  /\ order[o].kind # "none" => o < next
  /\ order[o].kind = "suspend" => order[o].id \in 1 .. IdMax

CallOK == \A a \in Actors :
  /\ pc[a] \in SyncStates => call[a] \in Orders /\ order[call[a]].kind \in {"sync", "cleanup"}
  /\ pc[a] \in BeginStates => call[a] \in Orders /\ order[call[a]].kind = "suspend"

FrameOK == \A a \in Actors :
  /\ pc[a] \in FlushStates \ {"swap"} => frames[a] # <<>>
  /\ pc[a] \in SuspendStates => Top(a).cur \in Orders /\ order[Top(a).cur].kind = "suspend"

EndOK == \A a \in Actors : pc[a] = "endUpdate" => held[a] > 0

TypeInv == TypeOK /\ OrderOK /\ CallOK /\ FrameOK /\ EndOK

(* Replacing the first element of a sequence.                              *)
LEMMA SetFirst ==
  ASSUME NEW S, NEW s \in Seq(S), s # <<>>, NEW e \in S
  PROVE  /\ [s EXCEPT ![1] = e] \in Seq(S)
         /\ [s EXCEPT ![1] = e] # <<>>
         /\ Head([s EXCEPT ![1] = e]) = e
         /\ Head(s) \in S /\ s[1] = Head(s)
<1>1. 1 \in 1 .. Len(s)
  BY EmptySeq
<1>2. /\ [s EXCEPT ![1] = e] \in Seq(S)
      /\ Len([s EXCEPT ![1] = e]) = Len(s)
      /\ [s EXCEPT ![1] = e][1] = e
  BY <1>1, ExceptSeq
<1>3. Head(s) \in S /\ s[1] = Head(s)
  BY <1>1
<1> QED BY <1>1, <1>2, <1>3

LEMMA TypeInit == Init => TypeInv
<1> SUFFICES ASSUME Init PROVE TypeInv
  OBVIOUS
<1> USE ActorsAssumption, BoundsAssumption DEF Init, Actors, Orders
<1>1. TypeOK
  BY DEF TypeOK, HeapTypeOK, LoopTypeOK, ThreadTypeOK, NewOrder, Order, Kinds, Frame, PcStates
<1>2. OrderOK /\ CallOK /\ FrameOK /\ EndOK
  BY DEF OrderOK, CallOK, FrameOK, EndOK, NewOrder, SyncStates, BeginStates, SuspendStates, FlushStates
<1> QED BY <1>1, <1>2 DEF TypeInv
(* Allocating an order changes no order that is in use.                    *)
LEMMA AllocateKeeps ==
  ASSUME HeapTypeOK, OrderOK, NEW r \in Order, Allocate(next, r),
         r.kind = "suspend" => r.id \in 1 .. IdMax
  PROVE  /\ order' \in [Orders -> Order] /\ next' \in 1 .. MaxCalls + 1
         /\ next \in Orders /\ order'[next] = r
         /\ \A o \in Orders : order[o].kind # "none" => order'[o] = order[o]
         /\ OrderOK'
<1> USE BoundsAssumption DEF HeapTypeOK, OrderOK, Allocate, Orders
<1>1. /\ next \in Orders /\ order' \in [Orders -> Order]
      /\ next' \in 1 .. MaxCalls + 1
      /\ \A o \in Orders : order'[o] = IF o = next THEN r ELSE order[o]
  OBVIOUS
<1>2. \A o \in Orders : order[o].kind # "none" => o # next
  OBVIOUS
<1>3. ASSUME NEW o \in Orders
      PROVE  /\ order'[o].kind # "none" => o < next'
             /\ order'[o].kind = "suspend" => order'[o].id \in 1 .. IdMax
  BY <1>1, <1>3
<1> QED BY <1>1, <1>2, <1>3

(* Assigning one field of an order.                                        *)
LEMMA SetKind ==
  ASSUME order \in [Orders -> Order], NEW o \in Orders,
         order' = [order EXCEPT ![o].kind = "cleanup"]
  PROVE  /\ order' \in [Orders -> Order]
         /\ \A p \in Orders : /\ order'[p].id = order[p].id
                              /\ order'[p].kind = IF p = o THEN "cleanup" ELSE order[p].kind
BY DEF Order, Kinds

SameOrders == \A p \in Orders : order'[p].id = order[p].id /\ order'[p].kind = order[p].kind

LEMMA SetFreed ==
  ASSUME order \in [Orders -> Order], NEW o, order' = [order EXCEPT ![o].freed = TRUE]
  PROVE  order' \in [Orders -> Order] /\ SameOrders
BY DEF Order, SameOrders

LEMMA SetRan ==
  ASSUME order \in [Orders -> Order], NEW o \in Orders, NEW n \in Nat,
         order' = [order EXCEPT ![o].ran = n]
  PROVE  order' \in [Orders -> Order] /\ SameOrders
BY DEF Order, SameOrders

LEMMA SameOrdersOK ==
  ASSUME SameOrders, OrderOK, next' = next PROVE OrderOK'
BY DEF SameOrders, OrderOK

(* Appending to the queue.                                                 *)
LEMMA EnqueueType ==
  ASSUME HeapTypeOK, NEW o \in Orders, Enqueue(o)
  PROVE  threadCb' \in Seq(Orders) /\ wakeups' \in Nat
BY DEF HeapTypeOK, Enqueue

(* Moving one thread's program counter.                                    *)
LEMMA GotoType ==
  ASSUME pc \in [Actors -> PcStates], NEW a \in Actors, NEW l \in PcStates, Goto(a, l)
  PROVE  /\ pc' \in [Actors -> PcStates] /\ pc'[a] = l
         /\ \A b \in Actors : b # a => pc'[b] = pc[b]
BY DEF Goto

-----------------------------------------------------------------------------
(* The heap and the queue.                                                 *)
LEMMA HeapStep ==
  ASSUME TypeInv, NEW a \in Actors, Step(a)
  PROVE  HeapTypeOK' /\ OrderOK'
<1> USE BoundsAssumption DEF TypeInv, TypeOK
<1>1. CASE Async(a)
  <2>1. NewOrder("async", a, 0) \in Order
    BY DEF NewOrder, Order, Kinds
  <2>2. NewOrder("async", a, 0).kind # "suspend"
    BY DEF NewOrder
  <2> QED BY <1>1, <2>1, <2>2, AllocateKeeps, EnqueueType DEF Async, HeapTypeOK
<1>2. CASE Sync(a)
  <2>1. NewOrder("sync", a, 0) \in Order
    BY DEF NewOrder, Order, Kinds
  <2>2. NewOrder("sync", a, 0).kind # "suspend"
    BY DEF NewOrder
  <2> QED BY <1>2, <2>1, <2>2, AllocateKeeps, EnqueueType DEF Sync, HeapTypeOK
<1>3. CASE Begin(a)
  <2>1. FreshId \in 1 .. IdMax
    BY DEF LoopTypeOK, FreshId
  <2>2. NewOrder("suspend", a, FreshId) \in Order /\ NewOrder("suspend", a, FreshId).id = FreshId
    BY <2>1 DEF NewOrder, Order, Kinds
  <2> QED BY <1>3, <2>1, <2>2, AllocateKeeps DEF Begin, HeapTypeOK
<1>4. CASE SyncWake(a)
  <2>1. call[a] \in Orders /\ order[call[a]].kind \in {"sync", "cleanup"}
    BY <1>4 DEF SyncWake, At, CallOK, SyncStates
  <2>2. order' = [order EXCEPT ![call[a]].kind = "cleanup"] /\ UNCHANGED <<next, threadCb, wakeups>>
    BY <1>4 DEF SyncWake
  <2>3. /\ order' \in [Orders -> Order]
        /\ \A p \in Orders : /\ order'[p].id = order[p].id
                             /\ order'[p].kind = IF p = call[a] THEN "cleanup" ELSE order[p].kind
    BY <2>1, <2>2, SetKind DEF HeapTypeOK
  <2>4. \A p \in Orders : order'[p].kind = "suspend" => order[p].kind = "suspend"
    BY <2>1, <2>3
  <2>5. \A p \in Orders : order'[p].kind # "none" => order[p].kind # "none"
    BY <2>1, <2>3
  <2> QED BY <2>2, <2>3, <2>4, <2>5 DEF HeapTypeOK, OrderOK
<1>5. CASE SyncClean(a)
  <2>1. call[a] \in Orders /\ Enqueue(call[a]) /\ UNCHANGED <<order, next>>
    BY <1>5 DEF SyncClean, At, CallOK, SyncStates
  <2> QED BY <2>1, EnqueueType DEF HeapTypeOK, OrderOK
<1>6. CASE BeginPost(a)
  <2>1. call[a] \in Orders /\ Enqueue(call[a]) /\ UNCHANGED <<order, next>>
    BY <1>6 DEF BeginPost, At, CallOK, BeginStates
  <2> QED BY <2>1, EnqueueType DEF HeapTypeOK, OrderOK
<1>7. CASE FlushFromPipe(a)
  BY <1>7 DEF FlushFromPipe, HeapTypeOK, OrderOK
<1>8. CASE FlushSwap(a)
  BY <1>8 DEF FlushSwap, HeapTypeOK, OrderOK
<1>9. CASE FlushNext(a)
  <2> DEFINE o == Head(Top(a).rest)
  <2>1. Top(a) \in Frame
    BY <1>9, SetFirst DEF FlushNext, At, FrameOK, FlushStates, CondStates, ThreadTypeOK, Top
  <2>2. o \in Orders
    BY <1>9, <2>1 DEF FlushNext, Frame
  <2>3. order[o].ran \in Nat /\ order[o].ran + 1 \in Nat
    BY <2>2 DEF HeapTypeOK, Order
  <2>4. \E n \in Nat : order' = [order EXCEPT ![o].ran = n]
    BY <1>9, <2>2, <2>3 DEF FlushNext
  <2>5. UNCHANGED <<next, threadCb, wakeups>>
    BY <1>9 DEF FlushNext
  <2> HIDE DEF o
  <2>6. order' \in [Orders -> Order] /\ SameOrders
    BY <2>2, <2>4, SetRan DEF HeapTypeOK
  <2> QED BY <2>5, <2>6, SameOrdersOK DEF HeapTypeOK
<1>10. CASE CallbackReturn(a)
  <2>1. UNCHANGED <<next, threadCb, wakeups>>
    BY <1>10 DEF CallbackReturn
  <2>2. UNCHANGED order \/ order' = [order EXCEPT ![Top(a).cur].freed = TRUE]
    BY <1>10 DEF CallbackReturn
  <2>3. order' \in [Orders -> Order] /\ SameOrders
    BY <2>2, SetFreed DEF HeapTypeOK, SameOrders
  <2> QED BY <2>1, <2>3, SameOrdersOK DEF HeapTypeOK
<1>11. CASE Feedback(a)
  <2>1. UNCHANGED <<next, threadCb, wakeups>>
    BY <1>11 DEF Feedback
  <2>2. order' = [order EXCEPT ![Top(a).cur].freed = TRUE]
    BY <1>11 DEF Feedback
  <2>3. order' \in [Orders -> Order] /\ SameOrders
    BY <2>2, SetFreed DEF HeapTypeOK
  <2> QED BY <2>1, <2>3, SameOrdersOK DEF HeapTypeOK
<1>12. CASE UNCHANGED queue
  BY <1>12 DEF queue, HeapTypeOK, OrderOK
<1> QED
  BY <1>1, <1>2, <1>3, <1>4, <1>5, <1>6, <1>7, <1>8, <1>9, <1>10, <1>11, <1>12
  DEF Step, User, End, SyncStep, BeginStep, EndStep, FlushStep, SyncSleep, BeginNested,
      BeginSleep, BeginAdopt, BeginDefine, EndRefused, EndNested, EndOutermost, EndUpdate,
      EndSleep, EndReturn, FlushDirect, FlushDone, WakeCaller, HandOver, GateSleep, GateOpen,
      Reclaim, SpuriousWakeup

-----------------------------------------------------------------------------
(* The variables of the handshake.                                         *)
LEMMA LoopStep ==
  ASSUME TypeInv, NEW a \in Actors, Step(a)
  PROVE  LoopTypeOK'
<1> USE BoundsAssumption DEF TypeInv, TypeOK, LoopTypeOK
<1>1. CASE BeginNested(a) \/ EndNested(a) \/ EndOutermost(a)
  BY <1>1 DEF BeginNested, EndNested, EndOutermost
<1>2. CASE Begin(a)
  BY <1>2 DEF Begin, FreshId
<1>3. CASE BeginAdopt(a) \/ BeginDefine(a)
  BY <1>3 DEF BeginAdopt, BeginDefine, Actors
<1>4. CASE EndUpdate(a)
  BY <1>4 DEF EndUpdate
<1>5. CASE HandOver(a)
  <2>1. order[Top(a).cur].id \in 1 .. IdMax
    BY <1>5 DEF HandOver, At, FrameOK, SuspendStates, OrderOK
  <2> QED BY <1>5, <2>1 DEF HandOver, Actors
<1>6. CASE GateSleep(a) \/ GateOpen(a) \/ Reclaim(a) \/ Feedback(a)
  BY <1>6 DEF GateSleep, GateOpen, Reclaim, Feedback, Actors
<1>7. CASE UNCHANGED handshake \/ EndRefused(a)
  BY <1>7 DEF handshake, EndRefused
<1> QED
  BY <1>1, <1>2, <1>3, <1>4, <1>5, <1>6, <1>7
  DEF Step, User, End, SyncStep, BeginStep, EndStep, FlushStep, Async, Sync, SyncSleep,
      SyncWake, SyncClean, BeginPost, BeginSleep, EndSleep, EndReturn, FlushFromPipe,
      FlushDirect, FlushSwap, FlushDone, FlushNext, CallbackReturn, WakeCaller, SpuriousWakeup

-----------------------------------------------------------------------------
(* The threads' own variables.                                             *)
LEMMA FrameType ==
  ASSUME TypeInv, NEW a \in Actors, frames[a] # <<>>
  PROVE  Top(a) \in Frame /\ frames[a][1] = Top(a) /\ Tail(frames[a]) \in Seq(Frame)
BY SetFirst, HeadTailProperties DEF TypeInv, TypeOK, ThreadTypeOK, Top

(* The flush in progress forgets its order, or takes another one.          *)
LEMMA SetFrame ==
  ASSUME TypeInv, NEW a \in Actors, frames[a] # <<>>, NEW f \in Frame,
         frames' = [frames EXCEPT ![a][1] = f]
  PROVE  /\ frames' \in [Actors -> Seq(Frame)]
         /\ frames'[a] # <<>> /\ Head(frames'[a]) = f
         /\ \A b \in Actors : b # a => frames'[b] = frames[b]
<1>1. [frames[a] EXCEPT ![1] = f] \in Seq(Frame) /\ [frames[a] EXCEPT ![1] = f] # <<>>
      /\ Head([frames[a] EXCEPT ![1] = f]) = f
  BY SetFirst DEF TypeInv, TypeOK, ThreadTypeOK
<1>2. frames' = [frames EXCEPT ![a] = [frames[a] EXCEPT ![1] = f]]
  OBVIOUS
<1> QED BY <1>1, <1>2 DEF TypeInv, TypeOK, ThreadTypeOK

LEMMA SetCur ==
  ASSUME TypeInv, NEW a \in Actors, frames[a] # <<>>,
         frames' = [frames EXCEPT ![a][1].cur = 0]
  PROVE  /\ frames' \in [Actors -> Seq(Frame)]
         /\ frames'[a] # <<>>
         /\ \A b \in Actors : b # a => frames'[b] = frames[b]
<1>1. [Top(a) EXCEPT !.cur = 0] \in Frame
  BY FrameType DEF Frame
<1>2. frames' = [frames EXCEPT ![a][1] = [Top(a) EXCEPT !.cur = 0]]
  BY FrameType
<1> QED BY <1>1, <1>2, SetFrame

(* The order a flush takes next.                                           *)
NextFrame(a) == LET o == Head(Top(a).rest) IN
                [cur |-> o, sync |-> order[o].kind = "sync", rest |-> Tail(Top(a).rest)]

LEMMA FlushNextFrame ==
  ASSUME TypeInv, NEW a \in Actors, FlushNext(a)
  PROVE  /\ frames[a] # <<>> /\ Head(Top(a).rest) \in Orders
         /\ NextFrame(a) \in Frame
         /\ frames' = [frames EXCEPT ![a][1] = NextFrame(a)]
<1>1. frames[a] # <<>>
  BY DEF FlushNext, At, TypeInv, FrameOK, FlushStates, CondStates
<1>2. Top(a) \in Frame /\ Top(a).rest # <<>> /\ frames[a][1] = Top(a)
  BY <1>1, FrameType DEF FlushNext
<1>3. Top(a).rest \in Seq(Orders)
  BY <1>2 DEF Frame
<1>4. Head(Top(a).rest) \in Orders /\ Tail(Top(a).rest) \in Seq(Orders)
  BY <1>2, <1>3, HeadTailProperties
<1>5. NextFrame(a) \in Frame
  BY <1>4 DEF NextFrame, Frame
<1>6. frames' = [frames EXCEPT ![a][1] = NextFrame(a)]
  BY <1>2 DEF FlushNext, NextFrame
<1> QED BY <1>1, <1>4, <1>5, <1>6

LEMMA FramesType ==
  ASSUME TypeInv, NEW a \in Actors, Step(a)
  PROVE  frames' \in [Actors -> Seq(Frame)]
<1>1. CASE FlushSwap(a)
  <2>1. <<[cur |-> 0, sync |-> FALSE, rest |-> threadCb]>> \in Seq(Frame)
    BY DEF TypeInv, TypeOK, HeapTypeOK, Frame
  <2>2. frames[a] \in Seq(Frame)
    BY DEF TypeInv, TypeOK, ThreadTypeOK
  <2>3. <<[cur |-> 0, sync |-> FALSE, rest |-> threadCb]>> \o frames[a] \in Seq(Frame)
    BY <2>1, <2>2, ConcatProperties
  <2> QED BY <1>1, <2>3 DEF FlushSwap, TypeInv, TypeOK, ThreadTypeOK
<1>2. CASE FlushDone(a)
  <2>1. Tail(frames[a]) \in Seq(Frame)
    BY <1>2, FrameType DEF FlushDone, At, TypeInv, FrameOK, FlushStates, CondStates
  <2> QED BY <1>2, <2>1 DEF FlushDone, TypeInv, TypeOK, ThreadTypeOK
<1>3. CASE FlushNext(a)
  BY <1>3, FlushNextFrame, SetFrame
<1>4. CASE CallbackReturn(a) \/ WakeCaller(a) \/ Feedback(a)
  <2>1. frames[a] # <<>>
    BY <1>4 DEF CallbackReturn, WakeCaller, Feedback, At, TypeInv, FrameOK, FlushStates, CondStates
  <2>2. UNCHANGED frames \/ frames' = [frames EXCEPT ![a][1].cur = 0]
    BY <1>4 DEF CallbackReturn, WakeCaller, Feedback
  <2> QED BY <2>1, <2>2, SetCur DEF TypeInv, TypeOK, ThreadTypeOK
<1>5. CASE UNCHANGED frames
  BY <1>5 DEF TypeInv, TypeOK, ThreadTypeOK
<1> QED
  BY <1>1, <1>2, <1>3, <1>4, <1>5
  DEF Step, User, End, SyncStep, BeginStep, EndStep, FlushStep, Async, Sync, SyncSleep,
      SyncWake, SyncClean, BeginNested, Begin, BeginPost, BeginSleep, BeginAdopt, BeginDefine,
      EndRefused, EndNested, EndOutermost, EndUpdate, EndSleep, EndReturn, FlushFromPipe,
      FlushDirect, HandOver, GateSleep, GateOpen, Reclaim, SpuriousWakeup

LEMMA HeldType ==
  ASSUME TypeInv, NEW a \in Actors, Step(a)
  PROVE  held' \in [Actors -> Nat]
<1> USE DEF TypeInv, TypeOK, ThreadTypeOK
<1>1. held[a] \in Nat /\ held[a] + 1 \in Nat /\ (held[a] > 0 => held[a] - 1 \in Nat)
  OBVIOUS
<1>2. CASE BeginNested(a) \/ BeginDefine(a)
  <2>1. held' = [held EXCEPT ![a] = held[a] + 1]
    BY <1>2 DEF BeginNested, BeginDefine
  <2> QED BY <1>1, <2>1
<1>3. CASE EndRefused(a) \/ EndNested(a) \/ EndUpdate(a)
  <2>1. held' = [held EXCEPT ![a] = held[a] - 1] /\ held[a] > 0
    BY <1>3 DEF EndRefused, EndNested, EndUpdate, At, EndOK
  <2> QED BY <1>1, <2>1
<1>4. CASE UNCHANGED held
  BY <1>4
<1> QED
  BY <1>2, <1>3, <1>4
  DEF Step, User, End, SyncStep, BeginStep, EndStep, FlushStep, Async, Sync, SyncSleep,
      SyncWake, SyncClean, Begin, BeginPost, BeginSleep, BeginAdopt, EndOutermost, EndSleep,
      EndReturn, FlushFromPipe, FlushDirect, FlushSwap, FlushDone, FlushNext, CallbackReturn,
      WakeCaller, HandOver, GateSleep, GateOpen, Reclaim, Feedback, SpuriousWakeup, handshake

(* The states between which a thread moves.                                *)
LEMMA ThreadStep ==
  ASSUME TypeInv, NEW a \in Actors, Step(a)
  PROVE  ThreadTypeOK'
<1> USE DEF TypeInv, TypeOK, ThreadTypeOK
<1>1. \/ UNCHANGED pc
      \/ \E l \in PcStates : pc' = [pc EXCEPT ![a] = l]
  BY DEF Step, User, End, SyncStep, BeginStep, EndStep, FlushStep, Async, Sync, SyncSleep,
      SyncWake, SyncClean, BeginNested, Begin, BeginPost, BeginSleep, BeginAdopt, BeginDefine,
      EndRefused, EndNested, EndOutermost, EndUpdate, EndSleep, EndReturn, FlushFromPipe,
      FlushDirect, FlushSwap, FlushDone, FlushNext, CallbackReturn, WakeCaller, HandOver,
      GateSleep, GateOpen, Reclaim, Feedback, SpuriousWakeup, Goto, PcStates, CondStates, FlushStates
<1>2. sleeping' \subseteq Actors
  BY DEF Step, User, End, SyncStep, BeginStep, EndStep, FlushStep, Async, Sync, SyncSleep,
      SyncWake, SyncClean, BeginNested, Begin, BeginPost, BeginSleep, BeginAdopt, BeginDefine,
      EndRefused, EndNested, EndOutermost, EndUpdate, EndSleep, EndReturn, FlushFromPipe,
      FlushDirect, FlushSwap, FlushDone, FlushNext, CallbackReturn, WakeCaller, HandOver,
      GateSleep, GateOpen, Reclaim, Feedback, SpuriousWakeup, WakeAll, WakeOrder
<1>3. \/ UNCHANGED call
      \/ \E o \in Orders \cup {0} : call' = [call EXCEPT ![a] = o]
  BY DEF Step, User, End, SyncStep, BeginStep, EndStep, FlushStep, Async, Sync, SyncSleep,
      SyncWake, SyncClean, BeginNested, Begin, BeginPost, BeginSleep, BeginAdopt, BeginDefine,
      EndRefused, EndNested, EndOutermost, EndUpdate, EndSleep, EndReturn, FlushFromPipe,
      FlushDirect, FlushSwap, FlushDone, FlushNext, CallbackReturn, WakeCaller, HandOver,
      GateSleep, GateOpen, Reclaim, Feedback, SpuriousWakeup, Allocate
<1>4. \/ UNCHANGED curId
      \/ curId' = [curId EXCEPT ![a] = threadId]
  BY DEF Step, User, End, SyncStep, BeginStep, EndStep, FlushStep, Async, Sync, SyncSleep,
      SyncWake, SyncClean, BeginNested, Begin, BeginPost, BeginSleep, BeginAdopt, BeginDefine,
      EndRefused, EndNested, EndOutermost, EndUpdate, EndSleep, EndReturn, FlushFromPipe,
      FlushDirect, FlushSwap, FlushDone, FlushNext, CallbackReturn, WakeCaller, HandOver,
      GateSleep, GateOpen, Reclaim, Feedback, SpuriousWakeup, handshake
<1>5. threadId \in -1 .. IdMax
  BY BoundsAssumption DEF LoopTypeOK
<1>6. pc' \in [Actors -> PcStates]
  BY <1>1
<1>7. call' \in [Actors -> Orders \cup {0}]
  BY <1>3
<1>8. curId' \in [Actors -> -1 .. IdMax]
  BY <1>4, <1>5
<1>9. frames' \in [Actors -> Seq(Frame)] /\ held' \in [Actors -> Nat]
  BY FramesType, HeldType
<1> QED
  BY <1>2, <1>6, <1>7, <1>8, <1>9

-----------------------------------------------------------------------------
(* A step keeps the ids and the kinds of the orders in use ...             *)
LEMMA OrdersKept ==
  ASSUME TypeInv, NEW a \in Actors, Step(a)
  PROVE  \A o \in Orders : order[o].kind # "none" =>
           /\ order'[o].id = order[o].id
           /\ order[o].kind = "suspend" => order'[o].kind = "suspend"
           /\ order[o].kind \in {"sync", "cleanup"} => order'[o].kind \in {"sync", "cleanup"}
<1> USE DEF TypeInv, TypeOK
<1>1. CASE \E r \in Order : Allocate(next, r)
  <2>1. PICK r : order' = [order EXCEPT ![next] = r]
    BY <1>1 DEF Allocate
  <2>2. \A o \in Orders : order[o].kind # "none" => o # next
    BY DEF OrderOK, Orders, HeapTypeOK
  <2> QED BY <2>1, <2>2 DEF HeapTypeOK
<1>2. CASE SyncWake(a)
  <2>1. call[a] \in Orders /\ order[call[a]].kind \in {"sync", "cleanup"}
    BY <1>2 DEF SyncWake, At, CallOK, SyncStates
  <2>2. /\ \A p \in Orders : /\ order'[p].id = order[p].id
                             /\ order'[p].kind = IF p = call[a] THEN "cleanup" ELSE order[p].kind
    BY <1>2, <2>1, SetKind DEF SyncWake, HeapTypeOK
  <2> QED BY <2>1, <2>2
<1>3. CASE FlushNext(a)
  <2> DEFINE o == Head(Top(a).rest)
  <2>1. o \in Orders /\ order[o].ran \in Nat /\ order[o].ran + 1 \in Nat
    BY <1>3, FlushNextFrame DEF HeapTypeOK, Order
  <2>2. \E n \in Nat : order' = [order EXCEPT ![o].ran = n]
    BY <1>3, <2>1 DEF FlushNext
  <2> HIDE DEF o
  <2>3. SameOrders
    BY <2>1, <2>2, SetRan DEF HeapTypeOK
  <2> QED BY <2>3 DEF SameOrders
<1>4. CASE CallbackReturn(a) \/ Feedback(a)
  <2>1. UNCHANGED order \/ order' = [order EXCEPT ![Top(a).cur].freed = TRUE]
    BY <1>4 DEF CallbackReturn, Feedback
  <2>2. SameOrders
    BY <2>1, SetFreed DEF HeapTypeOK, SameOrders
  <2> QED BY <2>2 DEF SameOrders
<1>5. CASE UNCHANGED order
  BY <1>5
<1>6. CASE Async(a) \/ Sync(a) \/ Begin(a)
  <2>1. FreshId \in Nat
    BY BoundsAssumption DEF LoopTypeOK, FreshId
  <2>2. NewOrder("async", a, 0) \in Order /\ NewOrder("sync", a, 0) \in Order
        /\ NewOrder("suspend", a, FreshId) \in Order
    BY <2>1 DEF NewOrder, Order, Kinds
  <2> QED BY <1>1, <1>6, <2>2 DEF Async, Sync, Begin
<1> QED
  BY <1>2, <1>3, <1>4, <1>5, <1>6
  DEF Step, User, End, SyncStep, BeginStep, EndStep, FlushStep, SyncSleep, SyncClean,
      BeginNested, BeginPost, BeginSleep, BeginAdopt, BeginDefine, EndRefused, EndNested,
      EndOutermost, EndUpdate, EndSleep, EndReturn, FlushFromPipe, FlushDirect, FlushSwap,
      FlushDone, WakeCaller, HandOver, GateSleep, GateOpen, Reclaim, SpuriousWakeup, queue

(* ... and touches no other thread's variables.                            *)
OthersKept(a) == \A b \in Actors \ {a} :
  /\ pc'[b] = pc[b] /\ call'[b] = call[b] /\ curId'[b] = curId[b]
  /\ frames'[b] = frames[b] /\ held'[b] = held[b]

LEMMA OthersKeep ==
  ASSUME TypeInv, NEW a \in Actors, Step(a)
  PROVE  OthersKept(a)
<1> USE DEF TypeInv, TypeOK, ThreadTypeOK, OthersKept
<1>1. \A b \in Actors \ {a} : pc'[b] = pc[b] /\ call'[b] = call[b] /\ curId'[b] = curId[b]
  BY DEF Step, User, End, SyncStep, BeginStep, EndStep, FlushStep, Async, Sync, SyncSleep,
      SyncWake, SyncClean, BeginNested, Begin, BeginPost, BeginSleep, BeginAdopt, BeginDefine,
      EndRefused, EndNested, EndOutermost, EndUpdate, EndSleep, EndReturn, FlushFromPipe,
      FlushDirect, FlushSwap, FlushDone, FlushNext, CallbackReturn, WakeCaller, HandOver,
      GateSleep, GateOpen, Reclaim, Feedback, SpuriousWakeup, handshake, Goto
<1>2. \A b \in Actors \ {a} : held'[b] = held[b] /\ frames'[b] = frames[b]
  BY DEF Step, User, End, SyncStep, BeginStep, EndStep, FlushStep, Async, Sync, SyncSleep,
      SyncWake, SyncClean, BeginNested, Begin, BeginPost, BeginSleep, BeginAdopt, BeginDefine,
      EndRefused, EndNested, EndOutermost, EndUpdate, EndSleep, EndReturn, FlushFromPipe,
      FlushDirect, FlushSwap, FlushDone, FlushNext, CallbackReturn, WakeCaller, HandOver,
      GateSleep, GateOpen, Reclaim, Feedback, SpuriousWakeup, handshake
<1> QED BY <1>1, <1>2

LEMMA CallStep ==
  ASSUME TypeInv, NEW a \in Actors, Step(a)
  PROVE  CallOK'
<1> DEFINE OK(b) == /\ pc[b] \in SyncStates => call[b] \in Orders /\ order[call[b]].kind \in {"sync", "cleanup"}
                    /\ pc[b] \in BeginStates => call[b] \in Orders /\ order[call[b]].kind = "suspend"
<1>1. ASSUME NEW b \in Actors, b # a PROVE OK(b)'
  BY <1>1, OrdersKept, OthersKeep DEF OthersKept, TypeInv, CallOK
<1>2. OK(a)'
  <2> USE DEF TypeInv, TypeOK, ThreadTypeOK, SyncStates, BeginStates, Goto, At
  <2>1. CASE Sync(a)
    <3>1. NewOrder("sync", a, 0) \in Order /\ NewOrder("sync", a, 0).kind = "sync"
      BY DEF NewOrder, Order, Kinds
    <3>2. next \in Orders /\ order'[next] = NewOrder("sync", a, 0)
      BY <2>1, <3>1, AllocateKeeps DEF Sync
    <3> QED BY <2>1, <3>1, <3>2 DEF Sync
  <2>2. CASE Begin(a)
    <3>1. FreshId \in 1 .. IdMax
      BY BoundsAssumption DEF LoopTypeOK, FreshId
    <3>2. NewOrder("suspend", a, FreshId) \in Order /\ NewOrder("suspend", a, FreshId).kind = "suspend"
          /\ NewOrder("suspend", a, FreshId).id = FreshId
      BY <3>1 DEF NewOrder, Order, Kinds
    <3>3. next \in Orders /\ order'[next] = NewOrder("suspend", a, FreshId)
      BY <2>2, <3>1, <3>2, AllocateKeeps DEF Begin
    <3> QED BY <2>2, <3>2, <3>3 DEF Begin
  <2>3. CASE SyncStep(a) \/ BeginStep(a)
    <3>1. UNCHANGED call \/ pc'[a] = "run"
      BY <2>3 DEF SyncStep, BeginStep, SyncSleep, SyncWake, SyncClean, BeginPost, BeginSleep,
                  BeginAdopt, BeginDefine
    <3>2. /\ pc'[a] \in SyncStates => pc[a] \in SyncStates
          /\ pc'[a] \in BeginStates => pc[a] \in BeginStates
      BY <2>3 DEF SyncStep, BeginStep, SyncSleep, SyncWake, SyncClean, BeginPost, BeginSleep,
                  BeginAdopt, BeginDefine
    <3> QED BY <3>1, <3>2, OrdersKept DEF CallOK
  <2>4. CASE SpuriousWakeup(a)
    BY <2>4 DEF SpuriousWakeup, queue, CallOK
  <2>5. CASE \/ Async(a) \/ BeginNested(a) \/ End(a) \/ FlushFromPipe(a) \/ FlushDirect(a)
             \/ CallbackReturn(a) \/ EndStep(a) \/ FlushStep(a)
    BY <2>5 DEF End, EndStep, FlushStep, Async, BeginNested, EndRefused, EndNested, EndOutermost,
       EndUpdate, EndSleep, EndReturn, FlushFromPipe, FlushDirect, FlushSwap, FlushDone, FlushNext,
       CallbackReturn, WakeCaller, HandOver, GateSleep, GateOpen, Reclaim, Feedback, MayFlush
  <2> QED BY <2>1, <2>2, <2>3, <2>4, <2>5 DEF Step, User
<1> QED BY <1>1, <1>2 DEF CallOK

LEMMA FrameStep ==
  ASSUME TypeInv, NEW a \in Actors, Step(a)
  PROVE  FrameOK'
<1> DEFINE OK(b) == /\ pc[b] \in FlushStates \ {"swap"} => frames[b] # <<>>
                    /\ pc[b] \in SuspendStates => Top(b).cur \in Orders /\ order[Top(b).cur].kind = "suspend"
<1>1. ASSUME NEW b \in Actors, b # a PROVE OK(b)'
  BY <1>1, OrdersKept, OthersKeep DEF OthersKept, TypeInv, FrameOK, Top
<1>2. OK(a)'
  <2> USE DEF TypeInv, TypeOK, ThreadTypeOK, SuspendStates, FlushStates, CondStates, Goto, At
  <2>1. CASE FlushSwap(a)
    BY <2>1 DEF FlushSwap
  <2>2. CASE FlushNext(a)
    <3> DEFINE o == Head(Top(a).rest)
    <3>0. o \in Orders /\ NextFrame(a) \in Frame /\ NextFrame(a).cur = o /\ frames[a] # <<>>
          /\ frames' = [frames EXCEPT ![a][1] = NextFrame(a)]
      BY <2>2, FlushNextFrame DEF NextFrame
    <3>1. frames'[a] # <<>> /\ Head(frames'[a]) = NextFrame(a)
      BY <3>0, SetFrame
    <3>2. pc'[a] = "suspend" => order[o].kind = "suspend"
      BY <2>2 DEF FlushNext
    <3>3. pc'[a] \in {"suspend", "run"}
      BY <2>2 DEF FlushNext
    <3> HIDE DEF o
    <3> QED BY <3>0, <3>1, <3>2, <3>3, OrdersKept DEF Top
  <2>3. CASE CallbackReturn(a) \/ WakeCaller(a) \/ Feedback(a)
    <3>1. frames[a] # <<>> /\ pc'[a] \in {"wake", "next"}
      BY <2>3 DEF CallbackReturn, WakeCaller, Feedback, FrameOK
    <3>2. UNCHANGED frames \/ frames' = [frames EXCEPT ![a][1].cur = 0]
      BY <2>3 DEF CallbackReturn, WakeCaller, Feedback
    <3> QED BY <3>1, <3>2, SetCur
  <2>4. CASE HandOver(a) \/ GateSleep(a) \/ GateOpen(a) \/ Reclaim(a)
    <3>1. UNCHANGED frames /\ pc[a] \in SuspendStates
      BY <2>4 DEF HandOver, GateSleep, GateOpen, Reclaim
    <3> QED BY <3>1, OrdersKept DEF FrameOK, Top
  <2>5. CASE SpuriousWakeup(a)
    BY <2>5 DEF SpuriousWakeup, queue, FrameOK, Top
  <2>6. CASE \/ Async(a) \/ Sync(a) \/ BeginNested(a) \/ Begin(a) \/ End(a) \/ FlushFromPipe(a)
             \/ FlushDirect(a) \/ SyncStep(a) \/ BeginStep(a) \/ EndStep(a) \/ FlushDone(a)
    BY <2>6 DEF End, SyncStep, BeginStep, EndStep, Async, Sync, BeginNested, Begin, EndRefused,
       EndNested, EndOutermost, EndUpdate, EndSleep, EndReturn, FlushFromPipe, FlushDirect, FlushDone,
       SyncSleep, SyncWake, SyncClean, BeginPost, BeginSleep, BeginAdopt, BeginDefine, MayFlush
  <2> QED BY <2>1, <2>2, <2>3, <2>4, <2>5, <2>6 DEF Step, User, FlushStep
<1> QED BY <1>1, <1>2 DEF FrameOK

LEMMA TypeStep == TypeInv /\ [Next]_vars => TypeInv'
<1> SUFFICES ASSUME TypeInv, [Next]_vars PROVE TypeInv'
  OBVIOUS
<1>1. CASE UNCHANGED vars
  BY <1>1 DEF vars, TypeInv, TypeOK, HeapTypeOK, LoopTypeOK, ThreadTypeOK, OrderOK, CallOK,
              FrameOK, EndOK, Top
<1>2. ASSUME NEW a \in Actors, Step(a) PROVE TypeInv'
  <2>1. EndOK'
    <3>1. pc'[a] = "endUpdate" => held'[a] > 0
      BY <1>2 DEF TypeInv, TypeOK, ThreadTypeOK, EndOK, Step, User, End, SyncStep, BeginStep, EndStep,
      FlushStep, Async, Sync, SyncSleep, SyncWake, SyncClean, BeginNested, Begin, BeginPost,
      BeginSleep, BeginAdopt, BeginDefine, EndRefused, EndNested, EndOutermost, EndUpdate, EndSleep,
      EndReturn, FlushFromPipe, FlushDirect, FlushSwap, FlushDone, FlushNext, CallbackReturn,
      WakeCaller, HandOver, GateSleep, GateOpen, Reclaim, Feedback, SpuriousWakeup, Goto, At,
      MayFlush, handshake
    <3> QED BY <1>2, <3>1, OthersKeep DEF OthersKept, EndOK, TypeInv
  <2> QED BY <1>2, <2>1, HeapStep, LoopStep, ThreadStep, CallStep, FrameStep DEF TypeInv, TypeOK
<1> QED BY <1>1, <1>2 DEF Next

(* Every variable keeps its type, for any number of threads and calls, any *)
(* bounds, with spurious wakeups and with flushes inside a section.        *)
THEOREM TypeCorrect == Spec => []TypeOK
<1>1. TypeInv => TypeOK
  BY DEF TypeInv
<1> QED BY <1>1, TypeInit, TypeStep, PTL DEF Spec

-----------------------------------------------------------------------------
(* The suspension of the main loop.  A suspension is answered by the id it *)
(* carries, so the argument is about ids: they are fresh, no two workers   *)
(* that wait or are inside share one, and the last id answered belongs to  *)
(* none of them.  IdMax is not reached (no id is reused) and code between  *)
(* begin and end does not flush.                                           *)
Disciplined == FlushInSection = FALSE /\ MaxCalls <= IdMax

Inside(w)  == pc[w] = "define" \/ held[w] > 0
Active(w)  == Inside(w) \/ pc[w] \in {"beginPost", "beginWait"}
CallId(w)  == order[call[w]].id

IdsFresh ==
  /\ threadIdMax < next
  /\ threadIdUpdate <= threadIdMax
  /\ \A o \in Orders : order[o].kind = "suspend" => order[o].id \in 1 .. threadIdMax
  /\ \A w \in Workers : Active(w) =>
       call[w] \in Orders /\ order[call[w]].kind = "suspend" /\ CallId(w) # threadIdUpdate
  /\ \A v, w \in Workers : Active(v) /\ Active(w) /\ CallId(v) = CallId(w) => v = w

(* Where the main loop's thread is while a worker has its place.           *)
MainSide ==
  /\ pc[Main] \notin SyncStates \cup BeginStates
  /\ pc[Main] \in {"reclaim", "feedback"} => threadId = threadIdUpdate
  /\ pc[Main] \in {"gate", "reclaim", "feedback"} => threadId > 0
  /\ pc[Main] \notin {"gate", "reclaim", "feedback"} => threadId = -1
  /\ pc[Main] \notin {"gate", "reclaim"} => mainLoop = Main
  /\ pc[Main] \in FlushStates => held[Main] = 0
  /\ pc[Main] = "endUpdate" => held[Main] = 1 /\ threadLoop = 0
  /\ pc[Main] # "endUpdate" /\ (\A w \in Workers : held[w] = 0) => threadLoop = held[Main]

WorkerSide(w) ==
  /\ frames[w] = <<>> /\ pc[w] \notin FlushStates
  /\ Inside(w) => CallId(w) = threadId /\ pc[Main] = "gate"
  /\ Inside(w) <=> pc[w] = "define" \/ (mainLoop = w /\ pc[w] \in {"run", "endUpdate"})
  /\ pc[w] = "define" => held[w] = 0
  /\ pc[w] = "endUpdate" => held[w] = 1 /\ threadLoop = 0 /\ curId[w] = threadId
  /\ pc[w] = "run" /\ held[w] > 0 => threadLoop = held[w]
  /\ mainLoop = w => pc[w] \in {"run", "endUpdate"} \/ (curId[w] = threadId /\ pc[w] = "endFeedback")
  /\ mainDomain = w <=> Inside(w) /\ pc[w] # "endUpdate"

LoopInv == IdsFresh /\ MainSide /\ (\A w \in Workers : WorkerSide(w))

LEMMA LoopInit == Init => LoopInv
<1> SUFFICES ASSUME Init PROVE LoopInv
  OBVIOUS
<1> USE ActorsAssumption DEF Init, Actors, Active, Inside
<1>1. IdsFresh
  BY BoundsAssumption DEF IdsFresh, NewOrder, Orders
<1>2. MainSide
  BY DEF MainSide, SyncStates, BeginStates, FlushStates
<1>3. ASSUME NEW w \in Workers PROVE WorkerSide(w)
  BY DEF WorkerSide, FlushStates
<1> QED BY <1>1, <1>2, <1>3 DEF LoopInv

(* The ids stay fresh when no suspension begins and none is answered.      *)
LEMMA IdsKept ==
  ASSUME TypeInv, IdsFresh, NEW a \in Actors, Step(a),
         threadIdMax' = threadIdMax, threadIdUpdate' = threadIdUpdate, next' \in {next, next + 1},
         \A o \in Orders : order'[o].kind = "suspend" => order[o].kind = "suspend",
         Active(a)' => Active(a) /\ call'[a] = call[a]
  PROVE  IdsFresh'
<1> USE DEF TypeInv
<1>1. \A w \in Workers : Active(w)' => Active(w) /\ call'[w] = call[w]
  BY OthersKeep DEF OthersKept, Active, Inside, Actors
<1>2. \A o \in Orders : order[o].kind = "suspend" => order'[o].kind = "suspend" /\ order'[o].id = order[o].id
  BY OrdersKept
<1>3. ASSUME NEW w \in Workers, Active(w)'
      PROVE  /\ Active(w) /\ call'[w] \in Orders /\ order'[call'[w]].kind = "suspend"
             /\ CallId(w)' = CallId(w)
  BY <1>1, <1>2, <1>3 DEF IdsFresh, CallId
<1>4. threadIdMax' < next'
  BY DEF IdsFresh, TypeOK, HeapTypeOK, LoopTypeOK
<1>5. \A o \in Orders : order'[o].kind = "suspend" => order'[o].id \in 1 .. threadIdMax'
  BY <1>2 DEF IdsFresh
<1>6. \A w \in Workers : Active(w)' =>
        call'[w] \in Orders /\ order'[call'[w]].kind = "suspend" /\ CallId(w)' # threadIdUpdate'
  BY <1>3 DEF IdsFresh
<1>7. \A v, w \in Workers : Active(v)' /\ Active(w)' /\ CallId(v)' = CallId(w)' => v = w
  BY <1>3 DEF IdsFresh
<1> QED BY <1>4, <1>5, <1>6, <1>7 DEF IdsFresh

(* No order becomes a suspension except in begin.                          *)
LEMMA NoNewSuspension ==
  ASSUME TypeInv, NEW a \in Actors, Step(a), ~Begin(a)
  PROVE  /\ threadIdMax' = threadIdMax /\ next' \in {next, next + 1}
         /\ \A o \in Orders : order'[o].kind = "suspend" => order[o].kind = "suspend"
<1> USE DEF TypeInv, TypeOK
<1>1. CASE Async(a) \/ Sync(a)
  <2>1. \E k \in {"async", "sync"} : order' = [order EXCEPT ![next] = NewOrder(k, a, 0)]
    BY <1>1 DEF Async, Sync, Allocate
  <2>2. threadIdMax' = threadIdMax /\ next' = next + 1
    BY <1>1 DEF Async, Sync, handshake, Allocate
  <2> QED BY <2>1, <2>2 DEF NewOrder, HeapTypeOK
<1>2. CASE SyncWake(a)
  <2>1. call[a] \in Orders
    BY <1>2 DEF SyncWake, At, CallOK, SyncStates
  <2>2. \A p \in Orders : order'[p].kind = IF p = call[a] THEN "cleanup" ELSE order[p].kind
    BY <1>2, <2>1, SetKind DEF SyncWake, HeapTypeOK
  <2> QED BY <1>2, <2>2 DEF SyncWake, handshake
<1>3. CASE FlushNext(a)
  <2> DEFINE o == Head(Top(a).rest)
  <2>1. o \in Orders /\ order[o].ran \in Nat /\ order[o].ran + 1 \in Nat
    BY <1>3, FlushNextFrame DEF HeapTypeOK, Order
  <2>2. \E n \in Nat : order' = [order EXCEPT ![o].ran = n]
    BY <1>3, <2>1 DEF FlushNext
  <2> HIDE DEF o
  <2>3. SameOrders
    BY <2>1, <2>2, SetRan DEF HeapTypeOK
  <2> QED BY <1>3, <2>3 DEF SameOrders, FlushNext, handshake
<1>4. CASE CallbackReturn(a) \/ Feedback(a)
  <2>1. UNCHANGED order \/ order' = [order EXCEPT ![Top(a).cur].freed = TRUE]
    BY <1>4 DEF CallbackReturn, Feedback
  <2>2. SameOrders
    BY <2>1, SetFreed DEF HeapTypeOK, SameOrders
  <2> QED BY <1>4, <2>2 DEF SameOrders, CallbackReturn, Feedback, handshake
<1>5. CASE UNCHANGED <<order, next, threadIdMax>>
  BY <1>5
<1> QED
  BY <1>1, <1>2, <1>3, <1>4, <1>5
  DEF Step, User, End, SyncStep, BeginStep, EndStep, FlushStep, SyncSleep, SyncClean,
      BeginNested, BeginPost, BeginSleep, BeginAdopt, BeginDefine, EndRefused, EndNested,
      EndOutermost, EndUpdate, EndSleep, EndReturn, FlushFromPipe, FlushDirect, FlushSwap,
      FlushDone, WakeCaller, HandOver, GateSleep, GateOpen, Reclaim, SpuriousWakeup, queue, handshake

-----------------------------------------------------------------------------
(* The worker's side of the handshake.                                     *)
LEMMA WorkerIds ==
  ASSUME TypeInv, LoopInv, Disciplined, NEW w \in Workers, Step(w)
  PROVE  IdsFresh'
<1> USE ActorsAssumption DEF Actors, LoopInv
<1>1. CASE Begin(w)
  <2>1. next \in Orders /\ threadIdMax \in Nat /\ FreshId = threadIdMax + 1
    BY <1>1, BoundsAssumption DEF Begin, Allocate, TypeInv, TypeOK, HeapTypeOK, LoopTypeOK,
       IdsFresh, Disciplined, FreshId, Orders
  <2>2. FreshId \in 1 .. IdMax
    BY BoundsAssumption DEF TypeInv, TypeOK, LoopTypeOK, FreshId
  <2>3. NewOrder("suspend", w, FreshId) \in Order /\ NewOrder("suspend", w, FreshId).kind = "suspend"
        /\ NewOrder("suspend", w, FreshId).id = FreshId
    BY <2>2 DEF NewOrder, Order, Kinds, Actors
  <2>4. /\ order'[next] = NewOrder("suspend", w, FreshId)
        /\ \A o \in Orders : o # next => order'[o] = order[o]
        /\ next' = next + 1 /\ call' = [call EXCEPT ![w] = next] /\ threadIdMax' = threadIdMax + 1
        /\ threadIdUpdate' = threadIdUpdate
    BY <1>1, <2>1 DEF Begin, Allocate, TypeInv, TypeOK, HeapTypeOK
  <2>5. call'[w] = next /\ CallId(w)' = threadIdMax + 1
    BY <2>1, <2>3, <2>4 DEF CallId, TypeInv, TypeOK, ThreadTypeOK
  <2>6. ASSUME NEW v \in Workers, v # w, Active(v)'
        PROVE  Active(v) /\ call'[v] = call[v] /\ call[v] \in Orders /\ call[v] # next
               /\ order[call[v]].kind = "suspend" /\ CallId(v)' = CallId(v) /\ CallId(v) \in 1 .. threadIdMax
    <3>1. Active(v) /\ call'[v] = call[v]
      BY <2>6, OthersKeep DEF OthersKept, Active, Inside
    <3>2. call[v] \in Orders /\ order[call[v]].kind = "suspend"
      BY <3>1 DEF IdsFresh
    <3>3. call[v] # next
      BY <3>2 DEF TypeInv, OrderOK, TypeOK, HeapTypeOK, Orders
    <3> QED BY <2>4, <3>1, <3>2, <3>3 DEF CallId, IdsFresh
  <2>7. \A o \in Orders : order'[o].kind = "suspend" => order'[o].id \in 1 .. threadIdMax'
    BY <2>1, <2>3, <2>4 DEF IdsFresh
  <2>8. threadIdMax' < next' /\ threadIdUpdate' <= threadIdMax'
    BY <2>1, <2>4 DEF IdsFresh, TypeInv, TypeOK, HeapTypeOK, LoopTypeOK
  <2>9. \A v \in Workers : Active(v)' =>
          call'[v] \in Orders /\ order'[call'[v]].kind = "suspend" /\ CallId(v)' # threadIdUpdate'
    <3>1. CallId(w)' # threadIdUpdate'
      BY <2>1, <2>4, <2>5 DEF IdsFresh, TypeInv, TypeOK, LoopTypeOK
    <3> QED BY <2>1, <2>3, <2>4, <2>5, <2>6, <3>1 DEF IdsFresh
  <2>10. \A u, v \in Workers : Active(u)' /\ Active(v)' /\ CallId(u)' = CallId(v)' => u = v
    BY <2>1, <2>5, <2>6 DEF IdsFresh
  <2> QED BY <2>7, <2>8, <2>9, <2>10 DEF IdsFresh
<1>2. CASE EndUpdate(w)
  <2>1. /\ WorkerSide(w) /\ Active(w) /\ CallId(w) = threadId /\ held[w] = 1
    BY <1>2 DEF EndUpdate, At, WorkerSide, Active, Inside
  <2>2. pc'[w] = "endFeedback" /\ held'[w] = 0 /\ threadIdUpdate' = threadId
        /\ UNCHANGED <<order, next, threadIdMax, call>>
    BY <1>2, <2>1 DEF EndUpdate, Goto, queue, TypeInv, TypeOK, ThreadTypeOK
  <2>3. ~Active(w)'
    BY <2>2 DEF Active, Inside
  <2>4. \A v \in Workers : Active(v)' => Active(v) /\ v # w /\ CallId(v)' = CallId(v)
    BY <2>2, <2>3, OthersKeep DEF OthersKept, Active, Inside, CallId
  <2>5. threadId \in 1 .. threadIdMax
    BY <2>1 DEF IdsFresh, CallId
  <2> QED BY <2>1, <2>2, <2>4, <2>5 DEF IdsFresh
<1>3. CASE ~Begin(w) /\ ~EndUpdate(w)
  <2>1. threadIdUpdate' = threadIdUpdate
    BY <1>3 DEF Step, User, End, SyncStep, BeginStep, EndStep, FlushStep, Async, Sync, SyncSleep,
      SyncWake, SyncClean, BeginNested, BeginPost, BeginSleep, BeginAdopt, BeginDefine,
      EndRefused, EndNested, EndOutermost, EndSleep, EndReturn, FlushFromPipe, FlushDirect,
      FlushSwap, FlushDone, FlushNext, CallbackReturn, WakeCaller, HandOver, GateSleep, GateOpen,
      Reclaim, Feedback, SpuriousWakeup, handshake
  <2>2. Active(w)' => Active(w) /\ call'[w] = call[w]
    <3>1. WorkerSide(w)
      OBVIOUS
    <3>2. pc[w] \notin FlushStates /\ frames[w] = <<>>
      BY <3>1 DEF WorkerSide
    <3>3. CASE SyncStep(w) \/ Async(w) \/ Sync(w)
      BY <3>1, <3>3 DEF SyncStep, Async, Sync, SyncSleep, SyncWake, SyncClean, WorkerSide, Active,
         Inside, Goto, At, TypeInv, TypeOK, ThreadTypeOK, handshake
    <3>4. CASE BeginNested(w) \/ BeginStep(w)
      BY <3>1, <3>4 DEF BeginStep, BeginNested, BeginPost, BeginSleep, BeginAdopt, BeginDefine,
         WorkerSide, Active, Inside, Goto, At, TypeInv, TypeOK, ThreadTypeOK, handshake
    <3>5. CASE End(w) \/ EndSleep(w) \/ EndReturn(w)
      BY <3>1, <3>5 DEF End, EndRefused, EndNested, EndOutermost, EndSleep, EndReturn,
         WorkerSide, Active, Inside, Goto, At, TypeInv, TypeOK, ThreadTypeOK, handshake
    <3>6. CASE FlushFromPipe(w) \/ FlushDirect(w)
      BY <3>1, <3>6 DEF FlushFromPipe, FlushDirect, WorkerSide, Active, Inside, Goto, At, MayFlush,
         TypeInv, TypeOK, ThreadTypeOK, handshake
    <3>7. CASE SpuriousWakeup(w)
      BY <3>7 DEF SpuriousWakeup, handshake, Active, Inside
    <3>8. ~CallbackReturn(w) /\ ~FlushStep(w)
      BY <3>2 DEF CallbackReturn, FlushStep, FlushSwap, FlushDone, FlushNext, WakeCaller, HandOver,
         GateSleep, GateOpen, Reclaim, Feedback, At, FlushStates, CondStates
    <3> QED BY <1>3, <3>3, <3>4, <3>5, <3>6, <3>7, <3>8 DEF Step, User, EndStep
  <2> QED BY <1>3, <2>1, <2>2, NoNewSuspension, IdsKept
<1> QED BY <1>1, <1>2, <1>3

LEMMA WorkerStep ==
  ASSUME TypeInv, LoopInv, Disciplined, NEW w \in Workers, Step(w)
  PROVE  MainSide' /\ WorkerSide(w)'
<1> USE ActorsAssumption DEF Actors, LoopInv
<1>1. WorkerSide(w) /\ MainSide
  OBVIOUS
<1>2. Main # w /\ pc'[Main] = pc[Main] /\ held'[Main] = held[Main]
  BY OthersKeep DEF OthersKept
<1>3. /\ ~CallbackReturn(w) /\ ~FlushStep(w) /\ ~FlushFromPipe(w) /\ ~FlushDirect(w)
  BY <1>1 DEF WorkerSide, CallbackReturn, FlushStep, FlushSwap, FlushDone, FlushNext, WakeCaller,
     HandOver, GateSleep, GateOpen, Reclaim, Feedback, At, FlushStates, CondStates, FlushFromPipe,
     FlushDirect, MayFlush, Disciplined
<1>4. frames' = frames
  BY <1>3 DEF Step, User, End, SyncStep, BeginStep, EndStep, Async, Sync, SyncSleep, SyncWake,
     SyncClean, BeginNested, Begin, BeginPost, BeginSleep, BeginAdopt, BeginDefine, EndRefused,
     EndNested, EndOutermost, EndUpdate, EndSleep, EndReturn, SpuriousWakeup
<1>5. call[w] \in Orders /\ order[call[w]].kind = "suspend" /\ call'[w] = call[w] => CallId(w)' = CallId(w)
  BY OrdersKept DEF CallId
<1>6. Active(w) => call[w] \in Orders /\ order[call[w]].kind = "suspend"
  BY DEF IdsFresh
<1>7. (\A v \in Workers : held[v] = 0) <=> (held[w] = 0 /\ \A v \in Workers \ {w} : held[v] = 0)
  OBVIOUS
<1>8. \A v \in Workers \ {w} : held'[v] = held[v]
  BY OthersKeep DEF OthersKept
<1>9. (\A v \in Workers : held'[v] = 0) <=> (held'[w] = 0 /\ \A v \in Workers \ {w} : held[v] = 0)
  BY <1>8
<1>10. ASSUME NEW v \in Workers, v # w, Inside(w) PROVE held[v] = 0
  BY <1>10 DEF WorkerSide, Active, IdsFresh, Inside, TypeInv, TypeOK, ThreadTypeOK
<1> USE <1>1, <1>2, <1>4 DEF TypeInv, TypeOK, ThreadTypeOK, LoopTypeOK, At, Goto, MainSide, WorkerSide,
        Inside, FlushStates, CondStates, SyncStates, BeginStates
<1>11. CASE Async(w) \/ Sync(w) \/ SyncStep(w) \/ BeginPost(w) \/ BeginSleep(w) \/ SpuriousWakeup(w)
             \/ EndSleep(w)
  <2>1. UNCHANGED handshake
    BY <1>11 DEF Async, Sync, SyncStep, SyncSleep, SyncWake, SyncClean, BeginPost, BeginSleep,
       SpuriousWakeup, EndSleep
  <2>2. \/ pc'[w] = pc[w]
        \/ pc[w] = "run" /\ mainLoop # w /\ pc'[w] = "syncSleep"
        \/ pc[w] \in SyncStates /\ pc'[w] \in SyncStates \cup {"run"}
        \/ pc[w] = "beginPost" /\ pc'[w] = "beginWait"
    BY <1>11 DEF Async, Sync, SyncStep, SyncSleep, SyncWake, SyncClean, BeginPost, BeginSleep,
       SpuriousWakeup, EndSleep
  <2>3. \/ call'[w] = call[w]
        \/ pc[w] = "run" /\ mainLoop # w
        \/ pc[w] \in SyncStates
    BY <1>11 DEF Async, Sync, SyncStep, SyncSleep, SyncWake, SyncClean, BeginPost, BeginSleep,
       SpuriousWakeup, EndSleep
  <2>4. Inside(w)' <=> Inside(w)
    BY <2>1, <2>2 DEF handshake
  <2>5. Inside(w) => CallId(w)' = CallId(w)
    BY <2>3, <1>5, <1>6 DEF Active
  <2>6. MainSide'
    BY <2>1, <1>7, <1>9 DEF handshake
  <2>7. WorkerSide(w)'
    BY <2>1, <2>2, <2>4, <2>5 DEF handshake
  <2> QED BY <2>6, <2>7
<1>12. CASE Begin(w)
  <2>1. /\ UNCHANGED <<threadLoop, threadId, threadIdUpdate, mainLoop, mainDomain, curId, held>>
        /\ pc[w] = "run" /\ mainLoop # w /\ pc'[w] = "beginPost"
    BY <1>12 DEF Begin
  <2> QED BY <2>1, <1>7, <1>9
<1>13. CASE BeginNested(w)
  <2>1. /\ UNCHANGED <<threadId, threadIdUpdate, mainLoop, mainDomain, curId, pc, call>>
        /\ pc[w] = "run" /\ mainLoop = w /\ threadLoop' = threadLoop + 1 /\ held'[w] = held[w] + 1
    BY <1>13 DEF BeginNested
  <2> QED BY <2>1, <1>5, <1>6, <1>7, <1>9, SMTT(20) DEF Active
<1>14. CASE BeginAdopt(w)
  <2>1. /\ UNCHANGED <<threadLoop, threadId, threadIdUpdate, mainLoop, curId, held, call>>
        /\ pc[w] = "beginWait" /\ CallId(w) = threadId /\ pc'[w] = "define" /\ mainDomain' = w
    BY <1>14 DEF BeginAdopt, CallId
  <2>5. Active(w)
    BY <2>1 DEF Active
  <2>6. CallId(w) # threadIdUpdate /\ order[call[w]].id \in 1 .. threadIdMax
    BY <2>5, <1>6 DEF IdsFresh
  <2>2. Active(w) /\ CallId(w) # threadIdUpdate /\ threadId > 0
    BY <2>1, <2>5, <2>6 DEF CallId
  <2>3. pc[Main] = "gate"
    BY <2>1, <2>2
  <2> QED BY <2>1, <2>2, <2>3, <1>5, <1>6, <1>7, <1>9
<1>15. CASE BeginDefine(w)
  <2>1. /\ UNCHANGED <<threadId, threadIdUpdate, mainDomain, curId, call>>
        /\ pc[w] = "define" /\ mainLoop' = w /\ threadLoop' = 1 /\ held'[w] = held[w] + 1 /\ pc'[w] = "run"
    BY <1>15 DEF BeginDefine
  <2> QED BY <2>1, <1>5, <1>6, <1>7, <1>9 DEF Active
<1>16. CASE EndRefused(w)
  <2>1. pc[w] = "run" /\ held[w] > 0 /\ (threadLoop = 0 \/ mainLoop # w)
    BY <1>16 DEF EndRefused
  <2> QED BY <2>1
<1>17. CASE EndNested(w)
  <2>1. /\ UNCHANGED <<threadId, threadIdUpdate, mainLoop, mainDomain, curId, pc, call>>
        /\ pc[w] = "run" /\ mainLoop = w /\ threadLoop > 1 /\ threadLoop' = threadLoop - 1
        /\ held[w] > 0 /\ held'[w] = held[w] - 1
    BY <1>17 DEF EndNested
  <2> QED BY <2>1, <1>5, <1>6, <1>7, <1>9, SMTT(20) DEF Active
<1>18. CASE EndOutermost(w)
  <2>1. /\ UNCHANGED <<threadId, threadIdUpdate, mainLoop, call, held>>
        /\ pc[w] = "run" /\ mainLoop = w /\ threadLoop = 1 /\ threadLoop' = 0 /\ held[w] > 0
        /\ pc'[w] = "endUpdate" /\ mainDomain' = None /\ curId'[w] = threadId
    BY <1>18 DEF EndOutermost
  <2> QED BY <2>1, <1>5, <1>6, <1>7, <1>9 DEF Active
<1>19. CASE EndUpdate(w)
  <2>1. /\ UNCHANGED <<threadLoop, threadId, mainLoop, mainDomain, curId, call>>
        /\ pc[w] = "endUpdate" /\ held'[w] = held[w] - 1 /\ pc'[w] = "endFeedback"
    BY <1>19 DEF EndUpdate
  <2>2. held[w] = 1 /\ Inside(w) /\ pc[Main] = "gate"
    BY <2>1
  <2> QED BY <2>1, <2>2, <1>7, <1>9
<1>20. CASE EndReturn(w)
  <2>1. /\ UNCHANGED handshake
        /\ pc[w] = "endFeedback" /\ (curId[w] # threadId \/ threadId = -1) /\ pc'[w] = "run"
    BY <1>20 DEF EndReturn, EndMustWait
  <2>2. mainLoop # w
    BY <2>1
  <2> QED BY <2>1, <2>2, <1>7, <1>9 DEF handshake
<1> QED
  BY <1>3, <1>11, <1>12, <1>13, <1>14, <1>15, <1>16, <1>17, <1>18, <1>19, <1>20
  DEF Step, User, End, BeginStep, EndStep

(* The other workers do not notice.                                        *)
LEMMA OtherWorkers ==
  ASSUME TypeInv, LoopInv, Disciplined, NEW w \in Workers, Step(w), NEW v \in Workers, v # w
  PROVE  WorkerSide(v)'
<1> USE ActorsAssumption DEF Actors, LoopInv
<1>1. WorkerSide(v) /\ WorkerSide(w) /\ v \in Actors /\ Main \in Actors /\ v # None
  OBVIOUS
<1>2. /\ pc'[v] = pc[v] /\ call'[v] = call[v] /\ curId'[v] = curId[v]
      /\ frames'[v] = frames[v] /\ held'[v] = held[v]
      /\ pc'[Main] = pc[Main]
  BY <1>1, OthersKeep DEF OthersKept
<1>3. Inside(v) => CallId(v)' = CallId(v)
  BY <1>2, OrdersKept DEF IdsFresh, Active, CallId
<1>4. threadId' = threadId
  BY <1>1 DEF Step, User, End, SyncStep, BeginStep, EndStep, FlushStep, Async, Sync, SyncSleep,
     SyncWake, SyncClean, BeginNested, Begin, BeginPost, BeginSleep, BeginAdopt, BeginDefine,
     EndRefused, EndNested, EndOutermost, EndUpdate, EndSleep, EndReturn, FlushFromPipe, FlushDirect,
     FlushSwap, FlushDone, FlushNext, CallbackReturn, WakeCaller, HandOver, GateSleep, GateOpen,
     Reclaim, Feedback, SpuriousWakeup, handshake, WorkerSide, At, FlushStates, CondStates
<1>5. UNCHANGED <<mainLoop, threadLoop, mainDomain>> \/ (Inside(w) /\ WorkerSide(w)) \/ BeginAdopt(w)
  BY <1>1 DEF Step, User, End, SyncStep, BeginStep, EndStep, FlushStep, Async, Sync, SyncSleep,
     SyncWake, SyncClean, BeginNested, Begin, BeginPost, BeginSleep, BeginAdopt, BeginDefine,
     EndRefused, EndNested, EndOutermost, EndUpdate, EndSleep, EndReturn, FlushFromPipe, FlushDirect,
     FlushSwap, FlushDone, FlushNext, CallbackReturn, WakeCaller, HandOver, GateSleep, GateOpen,
     Reclaim, Feedback, SpuriousWakeup, handshake, WorkerSide, At, FlushStates, CondStates, Inside
<1>6. CASE UNCHANGED <<mainLoop, threadLoop, mainDomain>>
  BY <1>1, <1>2, <1>3, <1>4, <1>6 DEF WorkerSide, Inside
<1>7. CASE Inside(w) \/ BeginAdopt(w)
  <2>1. CallId(w) = threadId /\ Active(w)
    BY <1>1, <1>7 DEF WorkerSide, BeginAdopt, At, CallId, Active
  <2>2. ~Inside(v)
    BY <1>1, <2>1 DEF WorkerSide, IdsFresh, Active
  <2>3. mainLoop' \in {mainLoop, w} /\ mainDomain' \in {mainDomain, w, None}
    BY <1>1 DEF Step, User, End, SyncStep, BeginStep, EndStep, FlushStep, Async, Sync, SyncSleep,
     SyncWake, SyncClean, BeginNested, Begin, BeginPost, BeginSleep, BeginAdopt, BeginDefine,
     EndRefused, EndNested, EndOutermost, EndUpdate, EndSleep, EndReturn, FlushFromPipe, FlushDirect,
     FlushSwap, FlushDone, FlushNext, CallbackReturn, WakeCaller, HandOver, GateSleep, GateOpen,
     Reclaim, Feedback, SpuriousWakeup, handshake
  <2>4. ~Inside(v)'
    BY <1>2, <2>2 DEF Inside
  <2>5. pc[v] # "endUpdate"
    BY <1>1, <2>2 DEF WorkerSide, Inside
  <2>6. held[v] \in Nat
    BY <1>1 DEF TypeInv, TypeOK, ThreadTypeOK
  <2> QED BY <1>1, <1>2, <1>4, <2>2, <2>3, <2>4, <2>5, <2>6 DEF WorkerSide, Inside
<1> QED BY <1>5, <1>6, <1>7

-----------------------------------------------------------------------------
(* The main loop's side of the handshake.                                  *)
LEMMA MainIds ==
  ASSUME TypeInv, LoopInv, Disciplined, Step(Main)
  PROVE  IdsFresh'
<1> USE ActorsAssumption DEF Actors, LoopInv
<1>1. ~Begin(Main)
  BY DEF Begin, At, MainSide
<1>2. threadIdMax' = threadIdMax /\ next' \in {next, next + 1}
      /\ \A o \in Orders : order'[o].kind = "suspend" => order[o].kind = "suspend"
  BY <1>1, NoNewSuspension
<1>3. \A w \in Workers : w # Main /\ pc'[w] = pc[w] /\ call'[w] = call[w] /\ held'[w] = held[w]
  BY OthersKeep DEF OthersKept
<1>4. \A o \in Orders : order[o].kind = "suspend" => order'[o].kind = "suspend" /\ order'[o].id = order[o].id
  BY OrdersKept
<1>5. ASSUME NEW w \in Workers, Active(w)'
      PROVE  /\ Active(w) /\ call'[w] \in Orders /\ order'[call'[w]].kind = "suspend"
             /\ CallId(w)' = CallId(w) /\ CallId(w) \in 1 .. threadIdMax
  BY <1>3, <1>4, <1>5 DEF IdsFresh, CallId, Active, Inside
<1>6. threadIdMax' < next'
  BY <1>2 DEF IdsFresh, TypeInv, TypeOK, HeapTypeOK, LoopTypeOK
<1>7. \A o \in Orders : order'[o].kind = "suspend" => order'[o].id \in 1 .. threadIdMax'
  BY <1>2, <1>4 DEF IdsFresh
<1>8. threadIdUpdate' \in {threadIdUpdate, -1}
  BY DEF Step, User, End, SyncStep, BeginStep, EndStep, FlushStep, Async, Sync, SyncSleep,
     SyncWake, SyncClean, BeginNested, Begin, BeginPost, BeginSleep, BeginAdopt, BeginDefine,
     EndRefused, EndNested, EndOutermost, EndUpdate, EndSleep, EndReturn, FlushFromPipe, FlushDirect,
     FlushSwap, FlushDone, FlushNext, CallbackReturn, WakeCaller, HandOver, GateSleep, GateOpen,
     Reclaim, Feedback, SpuriousWakeup, handshake, At, MainSide
<1>9. threadIdUpdate' <= threadIdMax'
  BY <1>2, <1>8 DEF IdsFresh, TypeInv, TypeOK, LoopTypeOK
<1>10. \A w \in Workers : Active(w)' =>
         call'[w] \in Orders /\ order'[call'[w]].kind = "suspend" /\ CallId(w)' # threadIdUpdate'
  BY <1>5, <1>8 DEF IdsFresh
<1>11. \A v, w \in Workers : Active(v)' /\ Active(w)' /\ CallId(v)' = CallId(w)' => v = w
  BY <1>5 DEF IdsFresh
<1> QED BY <1>6, <1>7, <1>9, <1>10, <1>11 DEF IdsFresh

LEMMA MainStep ==
  ASSUME TypeInv, LoopInv, Disciplined, Step(Main)
  PROVE  MainSide' /\ \A w \in Workers : WorkerSide(w)'
<1> USE ActorsAssumption DEF Actors, LoopInv
<1>1. ASSUME NEW w \in Workers
      PROVE  /\ pc'[w] = pc[w] /\ call'[w] = call[w] /\ curId'[w] = curId[w]
             /\ frames'[w] = frames[w] /\ held'[w] = held[w]
             /\ WorkerSide(w) /\ w # Main
             /\ Inside(w) => CallId(w)' = CallId(w) /\ CallId(w) # threadIdUpdate
             /\ held[w] > 0 => pc[Main] = "gate"
             /\ Inside(w)' <=> Inside(w)
  <2>1. /\ pc'[w] = pc[w] /\ call'[w] = call[w] /\ curId'[w] = curId[w]
        /\ frames'[w] = frames[w] /\ held'[w] = held[w] /\ w # Main
    BY OthersKeep DEF OthersKept
  <2>2. Inside(w) => CallId(w)' = CallId(w) /\ CallId(w) # threadIdUpdate
    BY <2>1, OrdersKept DEF IdsFresh, Active, CallId
  <2> QED BY <2>1, <2>2 DEF WorkerSide, Inside
<1>2. (\A w \in Workers : held'[w] = 0) <=> (\A w \in Workers : held[w] = 0)
  BY <1>1
<1>3. pc[Main] # "gate" => \A w \in Workers : held[w] = 0
  BY <1>1 DEF TypeInv, TypeOK, ThreadTypeOK
<1> USE <1>2, <1>3 DEF TypeInv, TypeOK, ThreadTypeOK, LoopTypeOK, At, Goto, MainSide,
        FlushStates, CondStates, SyncStates, BeginStates
<1>4. CASE \/ Async(Main) \/ Sync(Main) \/ Begin(Main) \/ SyncStep(Main) \/ BeginStep(Main)
           \/ EndRefused(Main)
  BY <1>4 DEF Async, Sync, Begin, SyncStep, BeginStep, SyncSleep, SyncWake, SyncClean, BeginPost,
     BeginSleep, BeginAdopt, BeginDefine, EndRefused
<1>5. CASE BeginNested(Main) \/ EndNested(Main) \/ EndOutermost(Main)
  <2>1. /\ UNCHANGED <<threadId, threadIdUpdate, mainLoop>> /\ pc[Main] = "run"
        /\ mainDomain' \in {mainDomain, None} /\ pc'[Main] \in {"run", "endUpdate"}
    BY <1>5 DEF BeginNested, EndNested, EndOutermost
  <2>2. MainSide'
    BY <1>5, <2>1 DEF BeginNested, EndNested, EndOutermost
  <2>3. ASSUME NEW w \in Workers PROVE WorkerSide(w)'
    BY <1>1, <2>1 DEF WorkerSide, Inside
  <2> QED BY <2>2, <2>3
<1>6. CASE EndUpdate(Main)
  <2>1. /\ UNCHANGED <<threadId, threadLoop, mainLoop, mainDomain>> /\ pc[Main] = "endUpdate"
        /\ pc'[Main] = "endFeedback" /\ held'[Main] = 0
    BY <1>6 DEF EndUpdate
  <2>2. MainSide'
    BY <2>1
  <2>3. ASSUME NEW w \in Workers PROVE WorkerSide(w)'
    BY <1>1, <2>1 DEF WorkerSide, Inside
  <2> QED BY <2>2, <2>3
<1>7. CASE HandOver(Main)
  <2>1. /\ UNCHANGED <<threadLoop, threadIdUpdate, mainLoop, mainDomain, held>>
        /\ pc[Main] = "suspend" /\ pc'[Main] = "gate" /\ threadId' = order[Top(Main).cur].id
    BY <1>7 DEF HandOver
  <2>2. threadId' > 0
    BY <2>1 DEF FrameOK, SuspendStates, OrderOK
  <2>3. MainSide'
    BY <2>1, <2>2
  <2>4. ASSUME NEW w \in Workers PROVE WorkerSide(w)'
    BY <1>1, <2>1 DEF WorkerSide, Inside
  <2> QED BY <2>3, <2>4
<1>8. CASE GateOpen(Main)
  <2>1. /\ UNCHANGED <<threadLoop, threadId, threadIdUpdate, mainLoop, mainDomain, held>>
        /\ pc[Main] = "gate" /\ pc'[Main] = "reclaim" /\ threadIdUpdate = threadId
    BY <1>8 DEF GateOpen, StillLent
  <2>2. \A w \in Workers : ~Inside(w)
    BY <1>1, <2>1 DEF WorkerSide
  <2>3. MainSide'
    BY <2>1, <2>2 DEF Inside
  <2>4. ASSUME NEW w \in Workers PROVE WorkerSide(w)'
    BY <1>1, <2>1, <2>2 DEF WorkerSide
  <2> QED BY <2>3, <2>4
<1>9. CASE Reclaim(Main)
  <2>1. /\ UNCHANGED <<threadLoop, threadId, threadIdUpdate, mainDomain, held>>
        /\ pc[Main] = "reclaim" /\ pc'[Main] = "feedback" /\ mainLoop' = Main
    BY <1>9 DEF Reclaim
  <2>2. ASSUME NEW w \in Workers PROVE WorkerSide(w)'
    BY <1>1, <2>1 DEF WorkerSide, Inside
  <2> QED BY <2>1, <2>2
<1>10. CASE Feedback(Main)
  <2>1. /\ UNCHANGED <<threadLoop, threadIdUpdate, mainLoop, mainDomain, held>>
        /\ pc[Main] = "feedback" /\ pc'[Main] = "next" /\ threadId' = -1
    BY <1>10 DEF Feedback
  <2>2. ASSUME NEW w \in Workers PROVE WorkerSide(w)'
    BY <1>1, <2>1 DEF WorkerSide, Inside
  <2> QED BY <2>1, <2>2
<1>11. CASE \/ EndSleep(Main) \/ EndReturn(Main) \/ FlushFromPipe(Main) \/ FlushDirect(Main)
            \/ FlushSwap(Main) \/ FlushDone(Main) \/ FlushNext(Main) \/ CallbackReturn(Main)
            \/ WakeCaller(Main) \/ GateSleep(Main) \/ SpuriousWakeup(Main)
  <2>1. UNCHANGED <<threadLoop, threadId, threadIdUpdate, mainLoop, mainDomain, held>>
    BY <1>11 DEF EndSleep, EndReturn, FlushFromPipe, FlushDirect, FlushSwap, FlushDone, FlushNext,
       CallbackReturn, WakeCaller, GateSleep, SpuriousWakeup, handshake
  <2>2. \/ pc'[Main] = pc[Main]
        \/ pc[Main] = "endFeedback" /\ pc'[Main] = "run"
        \/ pc[Main] = "run" /\ held[Main] = 0 /\ pc'[Main] \in {"swap", "wake", "next"}
        \/ pc[Main] \in {"swap", "next", "wake"} /\ pc'[Main] \in {"next", "run", "suspend"}
    BY <1>11 DEF EndSleep, EndReturn, FlushFromPipe, FlushDirect, FlushSwap, FlushDone, FlushNext,
       CallbackReturn, WakeCaller, GateSleep, SpuriousWakeup, MayFlush, Disciplined
  <2>3. MainSide'
    BY <2>1, <2>2
  <2>4. ASSUME NEW w \in Workers PROVE WorkerSide(w)'
    BY <1>1, <2>1, <2>2 DEF WorkerSide, Inside
  <2> QED BY <2>3, <2>4
<1> QED
  BY <1>4, <1>5, <1>6, <1>7, <1>8, <1>9, <1>10, <1>11 DEF Step, User, End, EndStep, FlushStep

-----------------------------------------------------------------------------
LEMMA LoopStable ==
  ASSUME Disciplined, TypeInv, LoopInv, [Next]_vars PROVE LoopInv'
<1>1. CASE UNCHANGED vars
  BY <1>1 DEF vars, LoopInv, IdsFresh, MainSide, WorkerSide, Inside, Active, CallId
<1>2. CASE Step(Main)
  BY <1>2, MainIds, MainStep DEF LoopInv
<1>3. ASSUME NEW w \in Workers, Step(w) PROVE LoopInv'
  BY <1>3, WorkerIds, WorkerStep, OtherWorkers DEF LoopInv
<1> QED BY <1>1, <1>2, <1>3 DEF Next, Actors

LEMMA LoopAlways == Disciplined => (Spec => [](TypeInv /\ LoopInv))
<1> SUFFICES ASSUME Disciplined PROVE Spec => [](TypeInv /\ LoopInv)
  OBVIOUS
<1>1. Init => TypeInv /\ LoopInv
  BY TypeInit, LoopInit
<1>2. (TypeInv /\ LoopInv) /\ [Next]_vars => (TypeInv /\ LoopInv)'
  BY TypeStep, LoopStable
<1> QED BY <1>1, <1>2, PTL DEF Spec

(* At no time do two threads use the main loop's data: while a worker is   *)
(* between begin and end the main loop is suspended, and no second worker  *)
(* is inside.  For any number of workers and calls, in every interleaving  *)
(* and with spurious wakeups of every condition variable.                  *)
THEOREM MainLoopExclusive == Disciplined => (Spec => []MutualExclusion)
<1>1. LoopInv => MutualExclusion
  <2> SUFFICES ASSUME LoopInv, NEW a \in Actors, NEW b \in Actors, InMainLoop(a), InMainLoop(b), a # b
               PROVE FALSE
    BY DEF MutualExclusion
  <2>1. CASE a = Main \/ b = Main
    BY <2>1 DEF LoopInv, WorkerSide, InMainLoop, Inside, Actors
  <2>2. CASE a # Main /\ b # Main
    BY <2>2 DEF LoopInv, WorkerSide, IdsFresh, InMainLoop, Active, Inside, Actors
  <2> QED BY <2>1, <2>2
<1> SUFFICES ASSUME Disciplined PROVE Spec => []MutualExclusion
  OBVIOUS
<1>2. Spec => [](TypeInv /\ LoopInv)
  BY LoopAlways
<1> QED BY <1>1, <1>2, PTL

(* eina_main_loop_is() and the adopted object domain name the right thread *)
(* whenever user code runs: a worker is the main loop inside its section,  *)
(* and no longer once end has returned.                                    *)
THEOREM LoopIdentityRight == Disciplined => (Spec => []MainLoopIdentity)
<1>1. TypeInv /\ LoopInv => MainLoopIdentity
  <2> SUFFICES ASSUME TypeInv, LoopInv, NEW a \in Actors, pc[a] = "run"
               PROVE  /\ mainLoop = a <=> InMainLoop(a)
                      /\ a \in Workers => (mainDomain = a <=> held[a] > 0)
    BY DEF MainLoopIdentity
  <2>1. CASE a = Main
    BY <2>1, ActorsAssumption DEF LoopInv, MainSide, InMainLoop
  <2>2. CASE a \in Workers
    BY <2>2, ActorsAssumption DEF LoopInv, WorkerSide, InMainLoop, Inside
  <2> QED BY <2>1, <2>2 DEF Actors
<1> SUFFICES ASSUME Disciplined PROVE Spec => []MainLoopIdentity
  OBVIOUS
<1>2. Spec => [](TypeInv /\ LoopInv)
  BY LoopAlways
<1> QED BY <1>1, <1>2, PTL

(* _thread_loop counts the begins of the thread whose turn it is, so that  *)
(* end is never refused to a thread that called begin.                     *)
THEOREM LoopCountRight == Disciplined => (Spec => []NestingCount)
<1>1. TypeInv /\ LoopInv => NestingCount
  <2> SUFFICES ASSUME TypeInv, LoopInv, NEW a \in Actors, pc[a] = "run", mainLoop = a
               PROVE  threadLoop = held[a]
    BY DEF NestingCount
  <2>1. CASE a = Main
    <3>1. \A w \in Workers : held[w] = 0
      BY <2>1 DEF LoopInv, WorkerSide, Inside, Actors, TypeInv, TypeOK, ThreadTypeOK
    <3> QED BY <2>1, <3>1 DEF LoopInv, MainSide
  <2>2. CASE a \in Workers
    BY <2>2 DEF LoopInv, WorkerSide, Inside
  <2> QED BY <2>1, <2>2 DEF Actors
<1> SUFFICES ASSUME Disciplined PROVE Spec => []NestingCount
  OBVIOUS
<1>2. Spec => [](TypeInv /\ LoopInv)
  BY LoopAlways
<1> QED BY <1>1, <1>2, PTL

-----------------------------------------------------------------------------
(* A message in the pipe for a list that is not empty.  A step of a thread *)
(* that does not take the list leaves the other threads' places alone, so  *)
(* the thread that is about to take it stays there until it does.          *)
LEMMA WakeStep ==
  ASSUME TypeInv, NoLostWakeup, NEW a \in Actors, Step(a) PROVE NoLostWakeup'
<1> USE DEF TypeInv, TypeOK, HeapTypeOK, ThreadTypeOK, NoLostWakeup
<1>1. CASE FlushSwap(a)
  BY <1>1 DEF FlushSwap
<1>2. CASE FlushFromPipe(a)
  BY <1>2 DEF FlushFromPipe, Goto
<1> DEFINE Swapping == \E b \in Actors : pc[b] = "swap"
<1>3. ~FlushSwap(a) /\ Swapping => Swapping'
  <2> SUFFICES ASSUME ~FlushSwap(a), NEW b \in Actors, pc[b] = "swap" PROVE pc'[b] = "swap"
    OBVIOUS
  <2>1. CASE b # a
    BY <2>1, OthersKeep DEF OthersKept
  <2>2. CASE b = a
    BY <2>2 DEF Step, User, End, SyncStep, BeginStep, EndStep, FlushStep, Async, Sync, SyncSleep,
      SyncWake, SyncClean, BeginNested, Begin, BeginPost, BeginSleep, BeginAdopt, BeginDefine,
      EndRefused, EndNested, EndOutermost, EndUpdate, EndSleep, EndReturn, FlushFromPipe,
      FlushDirect, FlushDone, FlushNext, CallbackReturn, WakeCaller, HandOver, GateSleep,
      GateOpen, Reclaim, Feedback, SpuriousWakeup, At, MayFlush
  <2> QED BY <2>1, <2>2
<1>4. CASE Async(a) \/ Sync(a) \/ SyncClean(a) \/ BeginPost(a)
  <2>1. wakeups' = IF threadCb = <<>> THEN wakeups + 1 ELSE wakeups
    BY <1>4 DEF Async, Sync, SyncClean, BeginPost, Enqueue
  <2>2. ~FlushSwap(a)
    BY <1>4 DEF Async, Sync, SyncClean, BeginPost, FlushSwap, At
  <2> QED BY <2>1, <2>2, <1>3
<1>5. CASE UNCHANGED <<threadCb, wakeups>> /\ ~FlushSwap(a)
  BY <1>3, <1>5
<1> QED
  BY <1>1, <1>2, <1>4, <1>5
  DEF Step, User, End, SyncStep, BeginStep, EndStep, FlushStep, SyncSleep, SyncWake,
      BeginNested, Begin, BeginSleep, BeginAdopt, BeginDefine, EndRefused, EndNested,
      EndOutermost, EndUpdate, EndSleep, EndReturn, FlushDirect, FlushDone, FlushNext,
      CallbackReturn, WakeCaller, HandOver, GateSleep, GateOpen, Reclaim, Feedback,
      SpuriousWakeup, queue

(* A call that was queued is never left behind without a message that      *)
(* makes the main loop take the list, whoever flushes and wherever.        *)
THEOREM NoWakeupLost == Spec => []NoLostWakeup
<1>1. Init => NoLostWakeup
  BY DEF Init, NoLostWakeup
<1>2. TypeInv /\ NoLostWakeup /\ [Next]_vars => NoLostWakeup'
  <2> SUFFICES ASSUME TypeInv, NoLostWakeup, [Next]_vars PROVE NoLostWakeup'
    OBVIOUS
  <2>1. CASE UNCHANGED vars
    BY <2>1 DEF vars, NoLostWakeup
  <2>2. ASSUME NEW a \in Actors, Step(a) PROVE NoLostWakeup'
    BY <2>2, WakeStep
  <2> QED BY <2>1, <2>2 DEF Next
<1> QED BY <1>1, <1>2, TypeInit, TypeStep, PTL DEF Spec

-----------------------------------------------------------------------------
(* The places an order is referred to from: (0, j) is the list's element,  *)
(* (i, 0) the order the main loop's i-th flush works on, (i, j) the j-th   *)
(* of those it has not come to yet.                                        *)
Refers(i, j, o) ==
  \/ i = 0 /\ j \in 1 .. Len(threadCb) /\ threadCb[j] = o
  \/ i \in 1 .. Len(frames[Main]) /\ j = 0 /\ frames[Main][i].cur = o
  \/ i \in 1 .. Len(frames[Main]) /\ j \in 1 .. Len(frames[Main][i].rest) /\ frames[Main][i].rest[j] = o

Nowhere(o) == \A i, j \in Nat : ~Refers(i, j, o)

(* No order is in two places ...                                           *)
RefersOnce ==
  \A o \in Orders : \A i, j, k, l \in Nat : Refers(i, j, o) /\ Refers(k, l, o) => i = k /\ j = l

(* ... and what is in one is a live order.                                 *)
RefersAlive ==
  \A o \in Orders : \A i, j \in Nat : Refers(i, j, o) => order[o].kind # "none" /\ ~order[o].freed

(* What the main loop's flushes are doing.                                 *)
FramesRight ==
  /\ \A i \in 1 .. Len(frames[Main]) :
       LET f == frames[Main][i] IN
       /\ f.cur = 0 <=> i = 1 /\ pc[Main] = "next"
       /\ f.cur # 0 => /\ f.sync <=> order[f.cur].kind = "sync"
                       /\ order[f.cur].kind = "suspend" => i = 1 /\ pc[Main] \in SuspendStates
                       /\ order[f.cur].kind # "suspend" => order[f.cur].ran > 0
  /\ pc[Main] \in {"gate", "reclaim", "feedback"} => order[Top(Main).cur].id = threadId

(* What a thread that called sync or begin knows of its order.             *)
CallerStates == {"syncSleep", "syncWait", "syncClean", "beginPost", "beginWait"}

CallerRight(w) == \A o \in Orders : o = call[w] =>
  /\ pc[w] \in CallerStates => order[o].by = w /\ ~order[o].freed
  /\ pc[w] \in {"syncSleep", "syncWait"} => order[o].kind = "sync"
  /\ pc[w] = "syncClean" => order[o].kind = "cleanup"
  /\ pc[w] \in {"syncClean", "beginPost"} \/ At(w, "syncWait") => Nowhere(o)
  /\ pc[w] = "syncClean" \/ At(w, "syncWait") => order[o].ran > 0

OrderInv == RefersOnce /\ RefersAlive /\ FramesRight /\ (\A w \in Workers : CallerRight(w))
-----------------------------------------------------------------------------
(* How the steps move the references.                                      *)
NoNewReference == \A o \in Orders : Nowhere(o) => Nowhere(o)'

MainFrames == frames[Main] \in Seq(Frame)

LEMMA FramesTyped == TypeInv => MainFrames /\ threadCb \in Seq(Orders)
BY DEF TypeInv, TypeOK, HeapTypeOK, ThreadTypeOK, MainFrames, Actors

LEMMA ReferencesSame ==
  ASSUME RefersOnce, threadCb' = threadCb, frames'[Main] = frames[Main]
  PROVE  RefersOnce' /\ NoNewReference
<1>1. \A i, j \in Nat, o \in Orders : Refers(i, j, o)' <=> Refers(i, j, o)
  BY DEF Refers
<1>2. RefersOnce'
  <2> SUFFICES ASSUME NEW o \in Orders, NEW i \in Nat, NEW j \in Nat, NEW k \in Nat, NEW l \in Nat,
                      Refers(i, j, o)', Refers(k, l, o)'
               PROVE  i = k /\ j = l
    BY DEF RefersOnce
  <2>1. Refers(i, j, o) /\ Refers(k, l, o)
    BY <1>1
  <2> QED BY <2>1 DEF RefersOnce
<1>3. NoNewReference
  BY <1>1 DEF NoNewReference, Nowhere
<1> QED BY <1>2, <1>3

(* An order that was nowhere is queued.                                    *)
LEMMA ReferencesPost ==
  ASSUME TypeInv, RefersOnce, NEW o \in Orders, Nowhere(o), Enqueue(o), frames'[Main] = frames[Main]
  PROVE  RefersOnce' /\ \A p \in Orders : p # o /\ Nowhere(p) => Nowhere(p)'
<1>1. threadCb \in Seq(Orders) /\ Len(threadCb) \in Nat /\ threadCb' = Append(threadCb, o)
  BY FramesTyped DEF Enqueue
<1>2. ASSUME NEW i \in Nat, NEW j \in Nat, NEW p \in Orders
      PROVE  Refers(i, j, p)' => Refers(i, j, p) \/ (p = o /\ i = 0 /\ j = Len(threadCb) + 1)
  BY <1>1 DEF Refers
<1>3. \A p \in Orders : p # o /\ Nowhere(p) => Nowhere(p)'
  BY <1>2 DEF Nowhere
<1>4. ASSUME NEW p \in Orders, NEW i \in Nat, NEW j \in Nat, NEW k \in Nat, NEW l \in Nat,
             Refers(i, j, p)', Refers(k, l, p)'
      PROVE  i = k /\ j = l
  <2>1. CASE p = o
    BY <1>2, <1>4, <2>1 DEF Nowhere
  <2>2. CASE p # o
    BY <1>2, <1>4, <2>2 DEF RefersOnce
  <2> QED BY <2>1, <2>2
<1> QED BY <1>3, <1>4 DEF RefersOnce

(* A flush takes the whole list.                                           *)
LEMMA ReferencesSwap ==
  ASSUME TypeInv, RefersOnce, threadCb' = <<>>,
         frames'[Main] = <<[cur |-> 0, sync |-> FALSE, rest |-> threadCb]>> \o frames[Main]
  PROVE  RefersOnce' /\ NoNewReference
<1> DEFINE f == [cur |-> 0, sync |-> FALSE, rest |-> threadCb]
           n == Len(frames[Main])
<1>1. threadCb \in Seq(Orders) /\ frames[Main] \in Seq(Frame) /\ f \in Frame /\ n \in Nat
  BY FramesTyped DEF Frame, MainFrames
<1>2. /\ Len(frames'[Main]) = n + 1
      /\ frames'[Main][1] = f
      /\ \A i \in Nat : i > 1 /\ i <= n + 1 => frames'[Main][i] = frames[Main][i - 1]
  BY <1>1
<1>3. f.cur = 0 /\ f.rest = threadCb
  OBVIOUS
<1> HIDE DEF f, n
<1> DEFINE Before(i) == IF i = 1 THEN 0 ELSE i - 1
<1>4. ASSUME NEW i \in Nat, NEW j \in Nat, NEW p \in Orders, Refers(i, j, p)'
      PROVE  i > 0 /\ Before(i) \in Nat /\ Refers(Before(i), j, p)
  <2>1. i \in 1 .. n + 1
    BY <1>2, <1>4 DEF Refers
  <2>2. CASE i = 1
    BY <1>2, <1>3, <1>4, <2>1, <2>2 DEF Refers, Orders
  <2>3. CASE i > 1
    BY <1>1, <1>2, <1>4, <2>1, <2>3 DEF Refers, n
  <2> QED BY <2>1, <2>2, <2>3
<1>5. NoNewReference
  BY <1>4 DEF NoNewReference, Nowhere
<1>6. ASSUME NEW p \in Orders, NEW i \in Nat, NEW j \in Nat, NEW k \in Nat, NEW l \in Nat,
             Refers(i, j, p)', Refers(k, l, p)'
      PROVE  i = k /\ j = l
  <2>1. Before(i) = Before(k) /\ j = l /\ i > 0 /\ k > 0
    BY <1>4, <1>6 DEF RefersOnce
  <2> QED BY <2>1
<1> QED BY <1>5, <1>6 DEF RefersOnce

(* A flush that is over had nothing left.                                  *)
LEMMA ReferencesDone ==
  ASSUME TypeInv, RefersOnce, threadCb' = threadCb, frames[Main] # <<>>,
         frames'[Main] = Tail(frames[Main])
  PROVE  RefersOnce' /\ NoNewReference
<1> DEFINE n == Len(frames[Main])
<1>1. /\ frames[Main] \in Seq(Frame) /\ n \in Nat /\ n > 0 /\ Len(frames'[Main]) = n - 1
      /\ \A i \in 1 .. n - 1 : frames'[Main][i] = frames[Main][i + 1]
  BY FramesTyped DEF MainFrames
<1> DEFINE Before(i) == IF i = 0 THEN 0 ELSE i + 1
<1> HIDE DEF n
<1>2. ASSUME NEW i \in Nat, NEW j \in Nat, NEW p \in Orders, Refers(i, j, p)'
      PROVE  Before(i) \in Nat /\ Refers(Before(i), j, p)
  BY <1>1, <1>2 DEF Refers, n
<1>3. NoNewReference
  BY <1>2 DEF NoNewReference, Nowhere
<1>4. ASSUME NEW p \in Orders, NEW i \in Nat, NEW j \in Nat, NEW k \in Nat, NEW l \in Nat,
             Refers(i, j, p)', Refers(k, l, p)'
      PROVE  i = k /\ j = l
  <2>1. Before(i) = Before(k) /\ j = l
    BY <1>2, <1>4 DEF RefersOnce
  <2> QED BY <2>1
<1> QED BY <1>3, <1>4 DEF RefersOnce

(* The frame of the flush in progress, and only it, is replaced.           *)
LEMMA MainFrameSet ==
  ASSUME TypeInv, frames[Main] # <<>>, NEW f \in Frame, frames' = [frames EXCEPT ![Main][1] = f]
  PROVE  /\ Len(frames'[Main]) = Len(frames[Main]) /\ Len(frames[Main]) \in Nat \ {0}
         /\ frames'[Main][1] = f
         /\ \A i \in 1 .. Len(frames[Main]) : i # 1 => frames'[Main][i] = frames[Main][i]
<1>1. frames[Main] \in Seq(Frame) /\ frames'[Main] = [frames[Main] EXCEPT ![1] = f]
  BY FramesTyped DEF MainFrames, TypeInv, TypeOK, ThreadTypeOK, Actors
<1>2. Len(frames[Main]) \in Nat \ {0} /\ 1 \in 1 .. Len(frames[Main])
  BY <1>1, EmptySeq
<1> HIDE DEF Frame
<1> QED BY <1>1, <1>2, ExceptSeq

(* The next order moves from the rest of the list to the flush's hand.     *)
LEMMA ReferencesNext ==
  ASSUME TypeInv, RefersOnce, FlushNext(Main), Top(Main).cur = 0
  PROVE  RefersOnce' /\ NoNewReference
<1> DEFINE f == NextFrame(Main)
           r == Top(Main).rest
           n == Len(frames[Main])
<1>1. /\ frames[Main] # <<>> /\ f \in Frame /\ frames' = [frames EXCEPT ![Main][1] = f]
      /\ Top(Main) \in Frame /\ frames[Main][1] = Top(Main) /\ threadCb' = threadCb
  BY FlushNextFrame, FrameType DEF FlushNext, Actors
<1>2. r \in Seq(Orders) /\ r # <<>>
  BY <1>1 DEF Frame, FlushNext
<1>3. /\ Len(r) \in Nat \ {0} /\ f.cur = r[1] /\ Len(f.rest) = Len(r) - 1
      /\ \A j \in 1 .. Len(r) - 1 : f.rest[j] = r[j + 1]
  BY <1>2, HeadTailProperties DEF NextFrame
<1>4. /\ Len(frames'[Main]) = n /\ n \in Nat \ {0} /\ frames'[Main][1] = f
      /\ \A i \in 1 .. n : i # 1 => frames'[Main][i] = frames[Main][i]
  BY <1>1, MainFrameSet
<1> HIDE DEF f, r
<1> DEFINE Before(i, j) == IF i = 1 THEN j + 1 ELSE j
<1>5. ASSUME NEW i \in Nat, NEW j \in Nat, NEW p \in Orders, Refers(i, j, p)'
      PROVE  Before(i, j) \in Nat /\ Refers(i, Before(i, j), p)
  <2>1. CASE i = 1
    <3>1. 1 \in 1 .. n /\ frames[Main][1].rest = r
      BY <1>1, <1>4 DEF r
    <3>2. j + 1 \in 1 .. Len(r) /\ r[j + 1] = p
      BY <1>3, <1>4, <1>5, <2>1, SMTT(20) DEF Refers
    <3> QED BY <2>1, <3>1, <3>2 DEF Refers
  <2>2. CASE i # 1
    BY <1>1, <1>4, <1>5, <2>2 DEF Refers
  <2> QED BY <2>1, <2>2
<1>6. NoNewReference
  BY <1>5 DEF NoNewReference, Nowhere
<1>7. ASSUME NEW p \in Orders, NEW i \in Nat, NEW j \in Nat, NEW k \in Nat, NEW l \in Nat,
             Refers(i, j, p)', Refers(k, l, p)'
      PROVE  i = k /\ j = l
  <2>1. i = k /\ Before(i, j) = Before(k, l)
    BY <1>5, <1>7 DEF RefersOnce
  <2> QED BY <2>1
<1> QED BY <1>6, <1>7 DEF RefersOnce

(* The flush lets go of the order it worked on.                            *)
LEMMA ReferencesClear ==
  ASSUME TypeInv, RefersOnce, threadCb' = threadCb, frames[Main] # <<>>,
         frames' = [frames EXCEPT ![Main][1].cur = 0]
  PROVE  /\ RefersOnce' /\ NoNewReference
         /\ \A o \in Orders : o = Top(Main).cur => Nowhere(o)'
         /\ Len(frames'[Main]) = Len(frames[Main]) /\ frames'[Main][1].cur = 0
         /\ \A i \in 1 .. Len(frames[Main]) : i # 1 => frames'[Main][i] = frames[Main][i]
<1> DEFINE f == [Top(Main) EXCEPT !.cur = 0]
           n == Len(frames[Main])
<1>1. Top(Main) \in Frame /\ frames[Main][1] = Top(Main)
  BY FrameType DEF Actors
<1>2. f \in Frame /\ f.cur = 0 /\ f.rest = Top(Main).rest
  BY <1>1 DEF Frame
<1>3. frames' = [frames EXCEPT ![Main][1] = f]
  BY <1>1
<1> HIDE DEF f
<1>4. /\ Len(frames'[Main]) = n /\ n \in Nat \ {0} /\ frames'[Main][1] = f
      /\ \A i \in 1 .. n : i # 1 => frames'[Main][i] = frames[Main][i]
  BY <1>2, <1>3, MainFrameSet
<1>5. ASSUME NEW i \in Nat, NEW j \in Nat, NEW p \in Orders, Refers(i, j, p)'
      PROVE  Refers(i, j, p) /\ ~(i = 1 /\ j = 0)
  <2>1. CASE i = 1
    BY <1>1, <1>2, <1>4, <1>5, <2>1 DEF Refers, Orders
  <2>2. CASE i # 1
    BY <1>4, <1>5, <2>2 DEF Refers
  <2> QED BY <2>1, <2>2
<1>6. RefersOnce' /\ NoNewReference
  BY <1>5 DEF RefersOnce, NoNewReference, Nowhere
<1>7. Refers(1, 0, Top(Main).cur)
  BY <1>1, <1>4 DEF Refers
<1>8. ASSUME NEW o \in Orders, o = Top(Main).cur PROVE Nowhere(o)'
  <2> SUFFICES ASSUME NEW i \in Nat, NEW j \in Nat PROVE ~Refers(i, j, o)'
    BY DEF Nowhere
  <2> QED BY <1>5, <1>7, <1>8 DEF RefersOnce
<1> QED BY <1>2, <1>4, <1>6, <1>8

(* A live order that is still referred to stays alive.                     *)
LEMMA AliveKept ==
  ASSUME RefersAlive, NoNewReference,
         \A o \in Orders : order[o].kind # "none" /\ ~order[o].freed /\ ~Nowhere(o)' =>
                             order'[o].kind # "none" /\ ~order'[o].freed
  PROVE  RefersAlive'
BY DEF RefersAlive, NoNewReference, Nowhere

-----------------------------------------------------------------------------
(* Steps of a worker.  x is the order the step is about, if any.           *)
LEMMA WorkerFrame ==
  ASSUME TypeInv, OrderInv, NEW w \in Workers, OthersKept(w), threadId' = threadId,
         NEW x \in Orders \cup {0},
         RefersOnce', \A o \in Orders : o # x /\ Nowhere(o) => Nowhere(o)',
         x \in Orders => Nowhere(x) /\ order'[x].kind # "none" /\ ~order'[x].freed,
         \A o \in Orders : o # x => order'[o] = order[o],
         \A v \in Workers : v # w => /\ pc[v] \in CallerStates => call[v] # x
                                     /\ pc[v] = "syncWait" /\ v \in sleeping => v \in sleeping',
         CallerRight(w)'
  PROVE  OrderInv'
<1> USE DEF OrderInv
<1>1. pc'[Main] = pc[Main] /\ frames'[Main] = frames[Main] /\ frames[Main] \in Seq(Frame)
  BY ActorsAssumption, FramesTyped DEF OthersKept, Actors, MainFrames
<1>2. RefersAlive'
  BY DEF RefersAlive, Nowhere
<1>3. FramesRight'
  <2>1. ASSUME NEW i \in 1 .. Len(frames[Main]), frames[Main][i].cur # 0
        PROVE  LET c == frames[Main][i].cur IN c \in Orders /\ order'[c] = order[c]
    <3>0. i \in Nat /\ 0 \in Nat /\ frames[Main][i] \in Frame
      BY <1>1
    <3>1. frames[Main][i].cur \in Orders /\ i \in Nat /\ 0 \in Nat
      BY <2>1, <3>0 DEF Frame
    <3>2. ~Nowhere(frames[Main][i].cur)
      BY <3>1 DEF Nowhere, Refers
    <3> QED BY <3>1, <3>2
  <2>2. pc[Main] \in SuspendStates => /\ frames[Main] # <<>> /\ Top(Main) = frames[Main][1]
                                      /\ 1 \in 1 .. Len(frames[Main]) /\ Top(Main).cur \in Orders
    BY <1>1, FrameType DEF TypeInv, FrameOK, SuspendStates, FlushStates, CondStates, Actors, Orders
  <2>3. ASSUME pc[Main] \in {"gate", "reclaim", "feedback"}
        PROVE  order'[Top(Main).cur] = order[Top(Main).cur] /\ Top(Main)' = Top(Main)
    <3>1. Top(Main).cur # 0
      BY <2>2, <2>3 DEF SuspendStates, Orders
    <3> QED BY <1>1, <2>1, <2>2, <2>3, <3>1 DEF SuspendStates, Top
  <2> QED BY <1>1, <2>1, <2>3 DEF FramesRight
<1>4. ASSUME NEW v \in Workers PROVE CallerRight(v)'
  <2>1. CASE v = w
    BY <2>1
  <2>2. CASE v # w
    <3>1. pc'[v] = pc[v] /\ call'[v] = call[v]
      BY <2>2 DEF OthersKept, Actors
    <3> QED BY <2>2, <3>1 DEF CallerRight, CallerStates, At
  <2> QED BY <2>1, <2>2
<1> QED BY <1>2, <1>3, <1>4

(* The callers' orders are pairwise different, and none of them is new.    *)
LEMMA OwnOrder ==
  ASSUME TypeInv, OrderInv, NEW w \in Workers, pc[w] \in CallerStates
  PROVE  /\ call[w] \in Orders /\ order[call[w]].kind \in {"sync", "cleanup", "suspend"}
         /\ order[call[w]].by = w /\ ~order[call[w]].freed
BY DEF TypeInv, CallOK, OrderInv, CallerRight, CallerStates, SyncStates, BeginStates, Actors

LEMMA NextIsNew ==
  ASSUME TypeInv, OrderInv, next \in Orders
  PROVE  /\ order[next].kind = "none" /\ Nowhere(next)
         /\ \A w \in Workers : pc[w] \in CallerStates => call[w] # next
<1>1. order[next].kind = "none"
  BY DEF TypeInv, OrderOK, TypeOK, HeapTypeOK, Orders
<1>2. Nowhere(next)
  BY <1>1 DEF OrderInv, RefersAlive, Nowhere
<1>3. \A w \in Workers : pc[w] \in CallerStates => call[w] # next
  BY <1>1, OwnOrder
<1> QED BY <1>1, <1>2, <1>3

(* Without spurious wakeups only the flush wakes the callers.              *)
LEMMA WorkerWakes ==
  ASSUME TypeInv, LoopInv, Disciplined, Spurious = FALSE, NEW w \in Workers, Step(w)
  PROVE  /\ threadId' = threadId
         /\ ~FlushFromPipe(w) /\ ~FlushDirect(w) /\ ~CallbackReturn(w) /\ ~FlushStep(w)
         /\ ~SpuriousWakeup(w)
         /\ \A v \in Workers : pc[v] = "syncWait" /\ v \in sleeping => v \in sleeping'
<1>1. WorkerSide(w) /\ w # Main
  BY ActorsAssumption DEF LoopInv
<1>2. ~FlushFromPipe(w) /\ ~FlushDirect(w)
  BY <1>1 DEF FlushFromPipe, FlushDirect, MayFlush, Disciplined
<1>3. ~CallbackReturn(w) /\ ~FlushStep(w) /\ ~SpuriousWakeup(w)
  BY <1>1 DEF CallbackReturn, FlushStep, FlushSwap, FlushDone, FlushNext, WakeCaller, HandOver,
     GateSleep, GateOpen, Reclaim, Feedback, WorkerSide, At, FlushStates, CondStates, SpuriousWakeup
<1>4. threadId' = threadId /\ \A v \in Workers : pc[v] = "syncWait" /\ v \in sleeping => v \in sleeping'
  BY <1>2, <1>3 DEF Step, User, End, SyncStep, BeginStep, EndStep, Async, Sync, SyncSleep, SyncWake,
     SyncClean, BeginNested, Begin, BeginPost, BeginSleep, BeginAdopt, BeginDefine, EndRefused,
     EndNested, EndOutermost, EndUpdate, EndSleep, EndReturn, handshake, WakeAll
<1> QED BY <1>2, <1>3, <1>4

LEMMA WorkerOrder ==
  ASSUME TypeInv, LoopInv, Disciplined, Spurious = FALSE, OrderInv, NEW w \in Workers, Step(w)
  PROVE  OrderInv'
<1>1. /\ w \in Actors /\ w # Main /\ OthersKept(w) /\ threadId' = threadId
      /\ frames'[Main] = frames[Main] /\ CallerRight(w)
      /\ \A v \in Workers : pc[v] = "syncWait" /\ v \in sleeping => v \in sleeping'
  BY ActorsAssumption, OthersKeep, WorkerWakes DEF Actors, OthersKept, OrderInv
<1>2. /\ order \in [Orders -> Order] /\ next \in Nat /\ call \in [Actors -> Orders \cup {0}]
      /\ pc \in [Actors -> PcStates] /\ threadCb \in Seq(Orders) /\ sleeping \subseteq Actors
  BY DEF TypeInv, TypeOK, HeapTypeOK, ThreadTypeOK
<1> USE DEF CallerStates
<1>3. CASE Async(w) \/ Sync(w)
  <2>1. PICK k \in {"async", "sync"} :
          /\ Allocate(next, NewOrder(k, w, 0)) /\ Enqueue(next)
          /\ k = "sync" => call' = [call EXCEPT ![w] = next] /\ pc' = [pc EXCEPT ![w] = "syncSleep"]
          /\ k = "async" => pc'[w] = "run"
    BY <1>3 DEF Async, Sync, Goto, At
  <2>2. /\ next \in Orders /\ order'[next] = NewOrder(k, w, 0)
        /\ \A o \in Orders : o # next => order'[o] = order[o]
    BY <1>2, <2>1 DEF Allocate
  <2>3. Nowhere(next) /\ \A v \in Workers : pc[v] \in CallerStates => call[v] # next
    BY <2>2, NextIsNew
  <2>4. RefersOnce' /\ \A o \in Orders : o # next /\ Nowhere(o) => Nowhere(o)'
    BY <1>1, <2>1, <2>2, <2>3, ReferencesPost DEF OrderInv
  <2>5. CallerRight(w)'
    BY <1>1, <1>2, <2>1, <2>2 DEF CallerRight, NewOrder, At
  <2>6. order'[next].kind # "none" /\ ~order'[next].freed
    BY <2>2 DEF NewOrder
  <2> QED BY <1>1, <2>2, <2>3, <2>4, <2>5, <2>6, WorkerFrame
<1>4. CASE Begin(w)
  <2>1. /\ Allocate(next, NewOrder("suspend", w, FreshId)) /\ threadCb' = threadCb
        /\ call'[w] = next /\ pc'[w] = "beginPost"
    BY <1>1, <1>2, <1>4 DEF Begin, Goto
  <2>2. /\ next \in Orders /\ order'[next] = NewOrder("suspend", w, FreshId)
        /\ \A o \in Orders : o # next => order'[o] = order[o]
    BY <1>2, <2>1 DEF Allocate
  <2>3. Nowhere(next) /\ \A v \in Workers : pc[v] \in CallerStates => call[v] # next
    BY <2>2, NextIsNew
  <2>4. RefersOnce' /\ NoNewReference
    BY <1>1, <2>1, ReferencesSame DEF OrderInv
  <2>5. \A o \in Orders : Nowhere(o) => Nowhere(o)'
    BY <2>4 DEF NoNewReference
  <2>6. \A o \in Orders : o = next => Nowhere(o)'
    BY <2>2, <2>3, <2>5
  <2>7. CallerRight(w)'
    BY <2>1, <2>2, <2>6 DEF CallerRight, NewOrder, At
  <2>8. order'[next].kind # "none" /\ ~order'[next].freed
    BY <2>2 DEF NewOrder
  <2> QED BY <1>1, <2>2, <2>3, <2>4, <2>5, <2>7, <2>8, WorkerFrame
<1>5. CASE SyncClean(w) \/ BeginPost(w)
  <2> DEFINE x == call[w]
  <2>1. /\ pc[w] \in {"syncClean", "beginPost"} /\ Enqueue(x) /\ order' = order
        /\ pc'[w] \in {"run", "beginWait"} /\ (pc'[w] = "beginWait" => call'[w] = x)
    BY <1>1, <1>2, <1>5 DEF SyncClean, BeginPost, At, Goto
  <2>2. /\ x \in Orders /\ order[x].by = w /\ ~order[x].freed /\ order[x].kind # "none"
        /\ \A v \in Workers : v # w /\ pc[v] \in CallerStates => call[v] # x
    BY <2>1, OwnOrder
  <2>3. Nowhere(x)
    BY <1>1, <2>1, <2>2 DEF CallerRight
  <2> HIDE DEF x
  <2>4. RefersOnce' /\ \A o \in Orders : o # x /\ Nowhere(o) => Nowhere(o)'
    BY <1>1, <2>1, <2>2, <2>3, ReferencesPost DEF OrderInv
  <2>5. CallerRight(w)'
    BY <2>1, <2>2 DEF CallerRight, At
  <2> QED BY <1>1, <2>1, <2>2, <2>3, <2>4, <2>5, WorkerFrame
<1>6. CASE SyncWake(w)
  <2> DEFINE x == call[w]
  <2>1. /\ At(w, "syncWait") /\ order' = [order EXCEPT ![x].kind = "cleanup"] /\ threadCb' = threadCb
        /\ pc'[w] = "syncClean" /\ call'[w] = x
    BY <1>1, <1>2, <1>6 DEF SyncWake, Goto
  <2>2. /\ x \in Orders /\ order[x].by = w /\ ~order[x].freed
        /\ \A v \in Workers : v # w /\ pc[v] \in CallerStates => call[v] # x
    BY <2>1, OwnOrder DEF At
  <2>3. Nowhere(x) /\ order[x].ran > 0
    BY <1>1, <2>1, <2>2 DEF CallerRight
  <2> HIDE DEF x
  <2>4. /\ \A o \in Orders : o # x => order'[o] = order[o]
        /\ order'[x].kind = "cleanup" /\ order'[x].by = w /\ ~order'[x].freed /\ order'[x].ran > 0
    BY <1>2, <2>1, <2>2, <2>3 DEF Order
  <2>5. RefersOnce' /\ NoNewReference
    BY <1>1, <2>1, ReferencesSame DEF OrderInv
  <2>6. \A o \in Orders : (Nowhere(o) => Nowhere(o)') /\ (o = x => Nowhere(o)')
    BY <2>3, <2>5 DEF NoNewReference
  <2>7. CallerRight(w)'
    BY <2>1, <2>4, <2>6 DEF CallerRight, At
  <2> QED BY <1>1, <2>2, <2>3, <2>4, <2>5, <2>6, <2>7, WorkerFrame
<1>7. CASE \/ SyncSleep(w) \/ BeginSleep(w) \/ BeginAdopt(w) \/ BeginDefine(w) \/ BeginNested(w)
           \/ End(w) \/ EndStep(w)
  <2>1. UNCHANGED <<order, threadCb>>
    BY <1>7 DEF SyncSleep, BeginSleep, BeginAdopt, BeginDefine, BeginNested, End, EndStep,
       EndRefused, EndNested, EndOutermost, EndUpdate, EndSleep, EndReturn, queue
  <2>2. RefersOnce' /\ NoNewReference
    BY <1>1, <2>1, ReferencesSame DEF OrderInv
  <2>3. \/ pc[w] = "syncSleep" /\ pc'[w] = "syncWait" /\ call'[w] = call[w] /\ w \in sleeping'
        \/ pc[w] = "beginWait" /\ pc'[w] = pc[w] /\ call'[w] = call[w]
        \/ pc'[w] \notin CallerStates
    BY <1>1, <1>2, <1>7 DEF SyncSleep, BeginSleep, BeginAdopt, BeginDefine, BeginNested, End, EndStep,
       EndRefused, EndNested, EndOutermost, EndUpdate, EndSleep, EndReturn, queue, At, Goto
  <2>4. CallerRight(w)'
    BY <1>1, <2>1, <2>3 DEF CallerRight, At
  <2>5. /\ \A o \in Orders : Nowhere(o) => Nowhere(o)'
        /\ \A v \in Workers : pc[v] \in CallerStates => call[v] # 0
    BY <2>2, OwnOrder DEF NoNewReference, Orders
  <2> QED BY <1>1, <2>1, <2>2, <2>4, <2>5, WorkerFrame DEF Orders
<1> QED BY <1>3, <1>4, <1>5, <1>6, <1>7, WorkerWakes DEF Step, User, SyncStep, BeginStep

-----------------------------------------------------------------------------
(* Steps of the main loop's thread.                                        *)
LiveAs(o) == /\ order'[o].by = order[o].by /\ order'[o].kind = order[o].kind
             /\ order[o].ran > 0 => order'[o].ran > 0

(* The callers do not notice: their orders live on, and who is woken has   *)
(* an order that was run and that the flush has let go of.                 *)
LEMMA CallersFrame ==
  ASSUME TypeInv, OrderInv, OthersKept(Main), NoNewReference, \A o \in Orders : LiveAs(o),
         \A w \in Workers : \A o \in Orders : o = call[w] =>
           /\ pc[w] \in CallerStates => order'[o].freed = order[o].freed
           /\ pc[w] = "syncWait" /\ w \in sleeping =>
                w \in sleeping' \/ (Nowhere(o)' /\ order'[o].ran > 0)
  PROVE  \A w \in Workers : CallerRight(w)'
<1> SUFFICES ASSUME NEW w \in Workers PROVE CallerRight(w)'
  OBVIOUS
<1>1. pc'[w] = pc[w] /\ call'[w] = call[w] /\ CallerRight(w)
  BY ActorsAssumption DEF OthersKept, Actors, OrderInv
<1>2. \A o \in Orders : Nowhere(o) => Nowhere(o)'
  BY DEF NoNewReference
<1> QED BY <1>1, <1>2 DEF CallerRight, CallerStates, LiveAs, At

(* What there is to say of the main loop's frames before a step.           *)
LEMMA MainBefore ==
  ASSUME TypeInv, LoopInv, OrderInv
  PROVE  /\ frames[Main] \in Seq(Frame) /\ Len(frames[Main]) \in Nat
         /\ frames[Main] # <<>> => Top(Main) = frames[Main][1] /\ 1 \in 1 .. Len(frames[Main])
         /\ pc[Main] \in FlushStates \ {"swap"} => frames[Main] # <<>>
         /\ pc[Main] = "next" => Top(Main).cur = 0
         /\ frames[Main] # <<>> /\ pc[Main] # "next" =>
              Top(Main).cur \in Orders /\ ~Nowhere(Top(Main).cur)
         /\ pc[Main] \in SuspendStates => order[Top(Main).cur].kind = "suspend"
         /\ frames[Main] # <<>> /\ pc[Main] \notin SuspendStates \cup {"next"} =>
              /\ order[Top(Main).cur].kind # "suspend" /\ order[Top(Main).cur].ran > 0
              /\ Top(Main).sync <=> order[Top(Main).cur].kind = "sync"
         /\ pc[Main] = "feedback" => order[Top(Main).cur].id = threadIdUpdate
<1> USE DEF OrderInv
<1>1. /\ frames[Main] \in Seq(Frame) /\ Len(frames[Main]) \in Nat
      /\ frames[Main] # <<>> => Top(Main) = frames[Main][1] /\ 1 \in 1 .. Len(frames[Main])
  BY FramesTyped, FrameType DEF MainFrames, Actors
<1>2. /\ pc[Main] \in FlushStates \ {"swap"} => frames[Main] # <<>>
      /\ pc[Main] \in SuspendStates => order[Top(Main).cur].kind = "suspend"
  BY DEF TypeInv, FrameOK, Actors
<1>3. pc[Main] = "next" => Top(Main).cur = 0
  BY <1>1, <1>2 DEF FramesRight, FlushStates
<1>4. ASSUME frames[Main] # <<>>, pc[Main] # "next"
      PROVE  Top(Main).cur \in Orders /\ ~Nowhere(Top(Main).cur) /\ Top(Main).cur # 0
  <2>1. Top(Main).cur # 0
    BY <1>1, <1>4 DEF FramesRight
  <2>2. Top(Main) \in Frame
    BY <1>1, <1>4
  <2>3. Top(Main).cur \in Orders
    BY <2>1, <2>2 DEF Frame
  <2>4. Refers(1, 0, Top(Main).cur)
    BY <1>1, <1>4 DEF Refers
  <2> QED BY <2>1, <2>3, <2>4 DEF Nowhere
<1>5. ASSUME frames[Main] # <<>>, pc[Main] \notin SuspendStates \cup {"next"}
      PROVE  /\ order[Top(Main).cur].kind # "suspend" /\ order[Top(Main).cur].ran > 0
             /\ Top(Main).sync <=> order[Top(Main).cur].kind = "sync"
  BY <1>1, <1>4, <1>5 DEF FramesRight
<1>6. pc[Main] = "feedback" => order[Top(Main).cur].id = threadIdUpdate
  BY DEF FramesRight, LoopInv, MainSide
<1> QED BY <1>1, <1>2, <1>3, <1>4, <1>5, <1>6

(* Between two steps of a flush, and where it is suspended.                *)
LEMMA MainMoves ==
  ASSUME TypeInv, LoopInv, OrderInv, OthersKept(Main), UNCHANGED <<order, threadCb, frames>>,
         pc[Main] # "next", pc'[Main] # "next",
         pc[Main] \in SuspendStates => pc'[Main] \in SuspendStates,
         pc'[Main] \in {"gate", "reclaim", "feedback"} => order[Top(Main).cur].id = threadId',
         \A w \in Workers : pc[w] = "syncWait" /\ w \in sleeping => w \in sleeping'
  PROVE  OrderInv'
<1> USE DEF OrderInv
<1>1. RefersOnce' /\ NoNewReference
  BY ReferencesSame
<1>2. RefersAlive'
  BY <1>1, AliveKept
<1>3. FramesRight'
  BY DEF FramesRight, Top
<1>4. \A w \in Workers : CallerRight(w)'
  BY <1>1, CallersFrame DEF LiveAs
<1> QED BY <1>1, <1>2, <1>3, <1>4

LEMMA SwapOrder ==
  ASSUME TypeInv, LoopInv, OrderInv, FlushSwap(Main), OthersKept(Main) PROVE OrderInv'
<1> USE DEF OrderInv
<1> DEFINE f == [cur |-> 0, sync |-> FALSE, rest |-> threadCb]
           n == Len(frames[Main])
<1>1. /\ frames'[Main] = <<f>> \o frames[Main] /\ threadCb' = <<>> /\ UNCHANGED <<order, sleeping>>
      /\ pc[Main] = "swap" /\ pc'[Main] = "next"
  BY DEF FlushSwap, At, Goto, TypeInv, TypeOK, ThreadTypeOK, Actors
<1>2. RefersOnce' /\ NoNewReference
  BY <1>1, ReferencesSwap
<1>3. RefersAlive'
  BY <1>1, <1>2, AliveKept
<1>4. frames[Main] \in Seq(Frame) /\ f \in Frame /\ n \in Nat /\ f.cur = 0
  BY FramesTyped DEF Frame, MainFrames
<1>5. /\ Len(frames'[Main]) = n + 1 /\ frames'[Main][1] = f
      /\ \A i \in 1 .. n + 1 : i # 1 => frames'[Main][i] = frames[Main][i - 1] /\ i - 1 \in 1 .. n
  BY <1>1, <1>4
<1> HIDE DEF f, n
<1>6. \A i \in 1 .. n : /\ frames[Main][i].cur # 0
                        /\ order[frames[Main][i].cur].kind # "suspend"
  BY <1>1 DEF FramesRight, n, SuspendStates
<1>7. FramesRight'
  BY <1>1, <1>4, <1>5, <1>6 DEF FramesRight, n
<1>8. \A w \in Workers : CallerRight(w)'
  BY <1>1, <1>2, CallersFrame DEF LiveAs
<1> QED BY <1>2, <1>3, <1>7, <1>8

LEMMA DoneOrder ==
  ASSUME TypeInv, LoopInv, OrderInv, FlushDone(Main), OthersKept(Main) PROVE OrderInv'
<1> USE DEF OrderInv
<1> DEFINE n == Len(frames[Main])
<1>1. /\ frames'[Main] = Tail(frames[Main]) /\ UNCHANGED <<order, threadCb, sleeping>>
      /\ pc[Main] = "next" /\ pc'[Main] = "run" /\ frames[Main] # <<>>
  BY MainBefore DEF FlushDone, At, Goto, queue, TypeInv, TypeOK, ThreadTypeOK, Actors, FlushStates
<1>2. RefersOnce' /\ NoNewReference
  BY <1>1, ReferencesDone
<1>3. RefersAlive'
  BY <1>1, <1>2, AliveKept
<1>4. /\ Len(frames'[Main]) = n - 1 /\ n \in Nat
      /\ \A i \in 1 .. n - 1 : frames'[Main][i] = frames[Main][i + 1] /\ i + 1 \in 1 .. n /\ i + 1 # 1
  BY <1>1, FramesTyped DEF MainFrames
<1> HIDE DEF n
<1>5. FramesRight'
  BY <1>1, <1>4 DEF FramesRight, n, SuspendStates
<1>6. \A w \in Workers : CallerRight(w)'
  BY <1>1, <1>2, CallersFrame DEF LiveAs
<1> QED BY <1>2, <1>3, <1>5, <1>6

LEMMA NextOrder ==
  ASSUME TypeInv, LoopInv, OrderInv, FlushNext(Main), OthersKept(Main) PROVE OrderInv'
<1> USE DEF OrderInv
<1> DEFINE f == NextFrame(Main)
           o == Head(Top(Main).rest)
           n == Len(frames[Main])
<1>1. /\ frames[Main] # <<>> /\ o \in Orders /\ f \in Frame /\ f.cur = o
      /\ f.sync = (order[o].kind = "sync") /\ frames' = [frames EXCEPT ![Main][1] = f]
  BY FlushNextFrame DEF NextFrame, Actors
<1>2. /\ threadCb' = threadCb /\ sleeping' = sleeping /\ pc[Main] = "next"
      /\ pc'[Main] = IF order[o].kind = "suspend" THEN "suspend" ELSE "run"
      /\ order' = [order EXCEPT ![o].ran = IF order[o].kind = "suspend" THEN @ ELSE @ + 1]
  BY DEF FlushNext, At, Goto, TypeInv, TypeOK, ThreadTypeOK, Actors
<1>3. /\ Len(frames'[Main]) = n /\ n \in Nat \ {0} /\ frames'[Main][1] = f
      /\ \A i \in 1 .. n : i # 1 => frames'[Main][i] = frames[Main][i]
  BY <1>1, MainFrameSet
<1>4. RefersOnce' /\ NoNewReference
  BY <1>2, MainBefore, ReferencesNext
<1> HIDE DEF f, o
<1>5. /\ \A p \in Orders : LiveAs(p) /\ order'[p].freed = order[p].freed
      /\ order[o].kind # "suspend" => order'[o].ran > 0
  BY <1>1, <1>2 DEF LiveAs, TypeInv, TypeOK, HeapTypeOK, Order
<1>6. RefersAlive'
  BY <1>4, <1>5, AliveKept DEF LiveAs
<1>7. FramesRight'
  <2>1. ASSUME NEW i \in 1 .. n, i # 1
        PROVE  LET c == frames[Main][i].cur IN
               /\ c # 0 /\ c \in Orders
               /\ frames[Main][i].sync <=> order[c].kind = "sync"
               /\ order[c].kind # "suspend" /\ order[c].ran > 0
    <3>1. frames[Main][i] \in Frame
      BY FramesTyped DEF MainFrames
    <3>2. frames[Main][i].cur # 0
      BY <1>2, <2>1 DEF FramesRight
    <3>3. frames[Main][i].cur \in Orders
      BY <3>1, <3>2 DEF Frame
    <3> QED BY <1>2, <2>1, <3>2, <3>3 DEF FramesRight, SuspendStates
  <2>2. o # 0
    BY <1>1 DEF Orders
  <2> DEFINE g(i) == frames'[Main][i]
  <2>3. ASSUME NEW i \in 1 .. n
        PROVE  /\ g(i).cur # 0
               /\ g(i).sync <=> order'[g(i).cur].kind = "sync"
               /\ order'[g(i).cur].kind = "suspend" => i = 1 /\ pc'[Main] \in SuspendStates
               /\ order'[g(i).cur].kind # "suspend" => order'[g(i).cur].ran > 0
    <3>1. CASE i = 1
      <4>1. g(i) = f /\ order'[o].kind = order[o].kind
        BY <1>1, <1>3, <1>5, <3>1 DEF LiveAs
      <4> QED BY <1>1, <1>2, <1>5, <2>2, <3>1, <4>1 DEF SuspendStates
    <3>2. CASE i # 1
      BY <1>3, <1>5, <2>1, <3>2 DEF LiveAs
    <3> QED BY <3>1, <3>2
  <2>4. pc'[Main] \in {"suspend", "run"}
    BY <1>2
  <2> QED BY <1>3, <2>3, <2>4 DEF FramesRight
<1>8. \A w \in Workers : CallerRight(w)'
  BY <1>2, <1>4, <1>5, CallersFrame
<1> QED BY <1>4, <1>6, <1>7, <1>8

(* The order is freed, or given back to its caller, which is woken.        *)
LEMMA ClearOrder ==
  ASSUME TypeInv, LoopInv, OrderInv, OthersKept(Main), threadCb' = threadCb,
         frames[Main] # <<>>, frames' = [frames EXCEPT ![Main][1].cur = 0],
         pc[Main] # "next", pc'[Main] = "next",
         NEW c \in Orders, c = Top(Main).cur,
         order' = order \/ order' = [order EXCEPT ![c].freed = TRUE],
         order' # order => \A w \in Workers : pc[w] \in CallerStates => call[w] # c,
         \A w \in Workers : pc[w] = "syncWait" /\ w \in sleeping =>
           w \in sleeping' \/ (call[w] = c /\ order[c].ran > 0)
  PROVE  OrderInv'
<1> USE DEF OrderInv
<1> DEFINE n == Len(frames[Main])
<1>1. /\ RefersOnce' /\ NoNewReference /\ Nowhere(c)'
      /\ Len(frames'[Main]) = n /\ frames'[Main][1].cur = 0 /\ n \in Nat
      /\ \A i \in 1 .. n : i # 1 => frames'[Main][i] = frames[Main][i]
  BY ReferencesClear, MainBefore
<1>2. \A p \in Orders : /\ LiveAs(p) /\ order'[p].ran = order[p].ran
                        /\ order'[p].freed # order[p].freed => p = c /\ order' # order
  BY DEF LiveAs, TypeInv, TypeOK, HeapTypeOK, Order
<1>3. RefersAlive'
  BY <1>1, <1>2, AliveKept DEF LiveAs
<1>4. FramesRight'
  <2>1. ASSUME NEW i \in 1 .. n, i # 1
        PROVE  LET d == frames[Main][i].cur IN
               /\ d # 0 /\ d \in Orders
               /\ frames[Main][i].sync <=> order[d].kind = "sync"
               /\ order[d].kind # "suspend" /\ order[d].ran > 0
    <3>1. frames[Main][i] \in Frame
      BY FramesTyped DEF MainFrames
    <3> QED BY <2>1, <3>1 DEF FramesRight, Frame
  <2> QED BY <1>1, <1>2, <2>1 DEF FramesRight, LiveAs
<1>5. \A w \in Workers : CallerRight(w)'
  BY <1>1, <1>2, CallersFrame
<1> QED BY <1>1, <1>3, <1>4, <1>5

LEMMA MainOrder ==
  ASSUME TypeInv, LoopInv, Disciplined, Spurious = FALSE, OrderInv, Step(Main)
  PROVE  OrderInv'
<1> DEFINE c == Top(Main).cur
<1>1. OthersKept(Main)
  BY OthersKeep DEF Actors
<1>2. pc \in [Actors -> PcStates] /\ Main \in Actors /\ MainSide
  BY DEF TypeInv, TypeOK, ThreadTypeOK, Actors, LoopInv
<1>3. CASE \/ Async(Main) \/ Sync(Main) \/ Begin(Main) \/ SyncStep(Main) \/ BeginStep(Main)
           \/ SpuriousWakeup(Main)
  BY <1>2, <1>3 DEF Async, Sync, Begin, SyncStep, BeginStep, SyncSleep, SyncWake, SyncClean, BeginPost,
     BeginSleep, BeginAdopt, BeginDefine, SpuriousWakeup, MainSide, At, SyncStates, BeginStates
<1>4. CASE \/ BeginNested(Main) \/ End(Main) \/ EndStep(Main) \/ FlushFromPipe(Main) \/ FlushDirect(Main)
           \/ GateSleep(Main) \/ GateOpen(Main) \/ Reclaim(Main)
           \/ (CallbackReturn(Main) /\ InSyncCall(Main))
  <2>1. /\ UNCHANGED <<order, threadCb, frames>> /\ pc[Main] # "next" /\ pc'[Main] # "next"
        /\ pc[Main] \in SuspendStates => pc'[Main] \in SuspendStates
        /\ pc'[Main] \in {"gate", "reclaim", "feedback"} =>
             pc[Main] \in {"gate", "reclaim", "feedback"} /\ threadId' = threadId
        /\ \A w \in Workers : pc[w] = "syncWait" /\ w \in sleeping => w \in sleeping'
    BY <1>2, <1>4 DEF BeginNested, End, EndStep, EndRefused, EndNested, EndOutermost, EndUpdate, EndSleep,
       EndReturn, FlushFromPipe, FlushDirect, MayFlush, GateSleep, GateOpen, Reclaim, CallbackReturn,
       queue, handshake, Goto, At, SuspendStates, WakeAll
  <2> QED BY <1>1, <2>1, MainMoves DEF OrderInv, FramesRight
<1>5. CASE HandOver(Main)
  <2>1. /\ UNCHANGED <<order, threadCb, frames>> /\ pc[Main] = "suspend" /\ pc'[Main] = "gate"
        /\ threadId' = order[c].id /\ WakeOrder(c)
    BY <1>2, <1>5 DEF HandOver, queue, Goto, At
  <2>2. \A w \in Workers : pc[w] = "syncWait" => call[w] # c
    <3> SUFFICES ASSUME NEW w \in Workers, pc[w] = "syncWait" PROVE call[w] # c
      OBVIOUS
    <3>1. order[c].kind = "suspend"
      BY <2>1, MainBefore DEF SuspendStates
    <3>2. order[call[w]].kind \in {"sync", "cleanup"}
      BY DEF TypeInv, CallOK, SyncStates, Actors
    <3> QED BY <3>1, <3>2
  <2> HIDE DEF c
  <2>3. \A w \in Workers : pc[w] = "syncWait" /\ w \in sleeping => w \in sleeping'
    BY <2>1, <2>2 DEF WakeOrder
  <2> QED BY <1>1, <2>1, <2>3, MainMoves DEF SuspendStates, c
<1>6. CASE FlushSwap(Main)
  BY <1>1, <1>6, SwapOrder
<1>7. CASE FlushDone(Main)
  BY <1>1, <1>7, DoneOrder
<1>8. CASE FlushNext(Main)
  BY <1>1, <1>8, NextOrder
<1>9. CASE CallbackReturn(Main) /\ ~InSyncCall(Main)
  <2>1. /\ UNCHANGED <<threadCb, sleeping>> /\ frames[Main] # <<>> /\ pc[Main] = "run" /\ pc'[Main] = "next"
        /\ frames' = [frames EXCEPT ![Main][1].cur = 0] /\ order' = [order EXCEPT ![c].freed = TRUE]
        /\ ~Top(Main).sync
    BY <1>2, <1>9 DEF CallbackReturn, InSyncCall, Goto, At
  <2>2. c \in Orders /\ ~Nowhere(c) /\ order[c].kind # "suspend" /\ order[c].kind # "sync"
    BY <2>1, MainBefore DEF SuspendStates
  <2>3. ASSUME NEW w \in Workers, pc[w] \in CallerStates PROVE call[w] # c
    BY <2>2, <2>3, OwnOrder DEF OrderInv, CallerRight, CallerStates, TypeInv, CallOK, BeginStates, Actors
  <2> HIDE DEF c
  <2> QED BY <1>1, <2>1, <2>2, <2>3, ClearOrder DEF c
<1>10. CASE WakeCaller(Main)
  <2>1. /\ UNCHANGED <<threadCb, order>> /\ pc[Main] = "wake" /\ pc'[Main] = "next"
        /\ frames' = [frames EXCEPT ![Main][1].cur = 0] /\ WakeOrder(c)
    BY <1>2, <1>10 DEF WakeCaller, Goto, At, queue
  <2>2. c \in Orders /\ order[c].ran > 0 /\ frames[Main] # <<>>
    BY <2>1, MainBefore DEF SuspendStates, FlushStates
  <2> HIDE DEF c
  <2>3. \A w \in Workers : pc[w] = "syncWait" /\ w \in sleeping => w \in sleeping' \/ call[w] = c
    BY <2>1 DEF WakeOrder
  <2> QED BY <1>1, <2>1, <2>2, <2>3, ClearOrder DEF c
<1>11. CASE Feedback(Main)
  <2>1. /\ threadCb' = threadCb /\ pc[Main] = "feedback" /\ pc'[Main] = "next" /\ WakeAll("endFeedback")
        /\ frames' = [frames EXCEPT ![Main][1].cur = 0] /\ order' = [order EXCEPT ![c].freed = TRUE]
    BY <1>2, <1>11 DEF Feedback, Goto, At
  <2>2. /\ c \in Orders /\ frames[Main] # <<>>
        /\ order[c].kind = "suspend" /\ order[c].id = threadIdUpdate
    BY <2>1, MainBefore DEF SuspendStates, FlushStates, CondStates
  <2>3. ASSUME NEW w \in Workers, pc[w] \in CallerStates PROVE call[w] # c
    <3>1. CASE pc[w] \in SyncStates
      BY <2>2, <3>1 DEF TypeInv, CallOK, Actors
    <3>2. CASE pc[w] \in {"beginPost", "beginWait"}
      BY <2>2, <3>2 DEF LoopInv, IdsFresh, Active, CallId
    <3> QED BY <2>3, <3>1, <3>2 DEF CallerStates, SyncStates
  <2> HIDE DEF c
  <2>4. \A w \in Workers : pc[w] = "syncWait" /\ w \in sleeping => w \in sleeping'
    BY <2>1 DEF WakeAll
  <2> QED BY <1>1, <2>1, <2>2, <2>3, <2>4, ClearOrder DEF c
<1> QED
  BY <1>3, <1>4, <1>5, <1>6, <1>7, <1>8, <1>9, <1>10, <1>11 DEF Step, User, FlushStep

-----------------------------------------------------------------------------
LEMMA OrderInit == Init => OrderInv
<1> SUFFICES ASSUME Init PROVE OrderInv
  OBVIOUS
<1>1. /\ threadCb = <<>> /\ frames[Main] = <<>> /\ pc[Main] = "run"
      /\ \A w \in Workers : pc[w] = "run"
  BY DEF Init, Actors
<1>2. \A o \in Orders : \A i, j \in Nat : ~Refers(i, j, o)
  BY <1>1 DEF Refers
<1>3. RefersOnce /\ RefersAlive
  BY <1>2 DEF RefersOnce, RefersAlive
<1>4. FramesRight /\ \A w \in Workers : CallerRight(w)
  BY <1>1 DEF FramesRight, CallerRight, CallerStates, At
<1> QED BY <1>3, <1>4 DEF OrderInv

LEMMA OrderStable ==
  ASSUME Disciplined, Spurious = FALSE, TypeInv, LoopInv, OrderInv, [Next]_vars PROVE OrderInv'
<1>1. CASE UNCHANGED vars
  <2>1. UNCHANGED <<order, threadCb, threadId, pc, sleeping, call, frames>>
    BY <1>1 DEF vars
  <2>2. RefersOnce' /\ NoNewReference
    BY <2>1, ReferencesSame DEF OrderInv
  <2>3. RefersAlive' /\ FramesRight'
    BY <2>1, <2>2, AliveKept DEF OrderInv, FramesRight, Top
  <2>4. \A w \in Workers : CallerRight(w)'
    BY <2>1, <2>2 DEF OrderInv, CallerRight, At, NoNewReference
  <2> QED BY <2>2, <2>3, <2>4 DEF OrderInv
<1>2. CASE Step(Main)
  BY <1>2, MainOrder
<1>3. ASSUME NEW w \in Workers, Step(w) PROVE OrderInv'
  BY <1>3, WorkerOrder
<1> QED BY <1>1, <1>2, <1>3 DEF Next, Actors

LEMMA OrderAlways == Disciplined /\ ~Spurious => (Spec => [](TypeInv /\ LoopInv /\ OrderInv))
<1> SUFFICES ASSUME Disciplined, Spurious = FALSE PROVE Spec => [](TypeInv /\ LoopInv /\ OrderInv)
  BY SwitchAssumption
<1>1. Init => TypeInv /\ LoopInv /\ OrderInv
  BY TypeInit, LoopInit, OrderInit
<1>2. TypeInv /\ LoopInv /\ OrderInv /\ [Next]_vars => (TypeInv /\ LoopInv /\ OrderInv)'
  BY TypeStep, LoopStable, OrderStable
<1> QED BY <1>1, <1>2, PTL DEF Spec

(* ecore_main_loop_thread_safe_call_sync comes back only after its callback *)
(* was called: the one broadcast its thread waits for cannot be another's.  *)
(* Where condition variables do not wake up by themselves: its wait is not  *)
(* in a loop.                                                               *)
THEOREM SyncIsSynchronous == Disciplined /\ ~Spurious => (Spec => []SyncReturnsAfterRun)
<1>1. TypeInv /\ OrderInv => SyncReturnsAfterRun
  BY OwnOrder DEF OrderInv, CallerRight, CallerStates, SyncReturnsAfterRun
<1> SUFFICES ASSUME Disciplined, ~Spurious PROVE Spec => []SyncReturnsAfterRun
  OBVIOUS
<1>2. Spec => [](TypeInv /\ LoopInv /\ OrderInv)
  BY OrderAlways
<1> QED BY <1>1, <1>2, PTL

(* The order of a call has one owner at a time, the list, a flush or its   *)
(* caller, and is freed once, by the last: neither the flush nor a caller  *)
(* that was woken touches a freed order.                                   *)
THEOREM OrdersOutliveUse == Disciplined /\ ~Spurious => (Spec => []NoUseAfterFree)
<1>1. TypeInv /\ LoopInv /\ OrderInv => NoUseAfterFree
  <2> SUFFICES ASSUME TypeInv, LoopInv, OrderInv, NEW o \in Orders, order[o].freed
               PROVE  ~InQueue(o) /\ ~InFrames(o) /\ ~UsedByCaller(o)
    BY DEF NoUseAfterFree
  <2>1. Nowhere(o)
    BY DEF OrderInv, RefersAlive, Nowhere
  <2>2. threadCb \in Seq(Orders) /\ frames[Main] \in Seq(Frame)
    BY FramesTyped DEF MainFrames
  <2>3. ~InQueue(o)
    <3> SUFFICES ASSUME NEW j \in DOMAIN threadCb, o = threadCb[j] PROVE FALSE
      BY DEF InQueue
    <3>1. 0 \in Nat /\ j \in Nat /\ Refers(0, j, o)
      BY <2>2 DEF Refers
    <3> QED BY <2>1, <3>1 DEF Nowhere
  <2>4. ~InFrames(o)
    <3>1. \A w \in Workers : frames[w] = <<>>
      BY DEF LoopInv, WorkerSide
    <3>2. ASSUME NEW i \in DOMAIN frames[Main]
          PROVE  /\ i \in Nat /\ i \in 1 .. Len(frames[Main]) /\ o # frames[Main][i].cur
                 /\ frames[Main][i].rest \in Seq(Orders)
      <4>1. i \in Nat /\ 0 \in Nat /\ i \in 1 .. Len(frames[Main]) /\ frames[Main][i] \in Frame
        BY <2>2
      <4>2. ~Refers(i, 0, o)
        BY <2>1, <4>1 DEF Nowhere
      <4> QED BY <4>1, <4>2 DEF Refers, Frame
    <3>3. ASSUME NEW i \in DOMAIN frames[Main], NEW j \in DOMAIN frames[Main][i].rest
          PROVE  o # frames[Main][i].rest[j]
      <4>1. i \in Nat /\ i \in 1 .. Len(frames[Main]) /\ frames[Main][i].rest \in Seq(Orders)
        BY <3>2
      <4>2. j \in Nat /\ j \in 1 .. Len(frames[Main][i].rest)
        BY <4>1
      <4>3. ~Refers(i, j, o)
        BY <2>1, <4>1, <4>2 DEF Nowhere
      <4> QED BY <4>1, <4>2, <4>3 DEF Refers
    <3>4. \A w \in Workers : DOMAIN frames[w] = {}
      BY <3>1
    <3> QED BY <3>2, <3>3, <3>4 DEF InFrames, Actors
  <2>5. ~UsedByCaller(o)
    BY OwnOrder DEF UsedByCaller, CallerStates
  <2> QED BY <2>3, <2>4, <2>5
<1> SUFFICES ASSUME Disciplined, ~Spurious PROVE Spec => []NoUseAfterFree
  OBVIOUS
<1>2. Spec => [](TypeInv /\ LoopInv /\ OrderInv)
  BY OrderAlways
<1> QED BY <1>1, <1>2, PTL
-----------------------------------------------------------------------------
(* SafeCall implements the safety part of MainLoopService: each step of    *)
(* ecore.c posts or executes one call, or lets one thread leave or enter   *)
(* the main loop, or is none of the service's business.                    *)
Users == {a \in Actors : InMainLoop(a)}

(* An order that was never allocated was never run, and the one that sync  *)
(* turned into its own clean-up was.                                       *)
RunsRight == \A o \in Orders :
  /\ order[o].kind = "none" => order[o].ran = 0
  /\ order[o].kind = "cleanup" => order[o].ran > 0

ServiceInv == TypeInv /\ LoopInv /\ OrderInv /\ RunsRight

(* Who uses the main loop, read off the invariant of the handshake.        *)
LEMMA UsersAre ==
  ASSUME TypeInv, LoopInv
  PROVE  /\ Main \in Users <=> pc[Main] # "gate"
         /\ \A w \in Workers : w \in Users <=> held[w] > 0
         /\ \A w \in Workers : Inside(w) => /\ pc[Main] = "gate"
                                            /\ \A v \in Workers : Inside(v) => v = w
<1>1. ASSUME NEW w \in Workers PROVE w \in Users <=> held[w] > 0
  BY ActorsAssumption DEF Users, InMainLoop, Actors, LoopInv, WorkerSide, FlushStates, CondStates
<1>2. ASSUME NEW w \in Workers, Inside(w)
      PROVE  pc[Main] = "gate" /\ \A v \in Workers : Inside(v) => v = w
  BY <1>2 DEF LoopInv, WorkerSide, IdsFresh, Active
<1>3. Main \in Users <=> pc[Main] # "gate"
  BY DEF Users, InMainLoop, Actors
<1> QED BY <1>1, <1>2, <1>3

(* The same after a step.                                                  *)
LEMMA UsersBecome ==
  ASSUME TypeInv', LoopInv'
  PROVE  /\ Main \in Users' <=> pc'[Main] # "gate"
         /\ \A w \in Workers : w \in Users' <=> held'[w] > 0
<1>1. ASSUME NEW w \in Workers PROVE w \in Users' <=> held'[w] > 0
  BY ActorsAssumption DEF Users, InMainLoop, Actors, LoopInv, WorkerSide, FlushStates, CondStates
<1>2. Main \in Users' <=> pc'[Main] # "gate"
  BY DEF Users, InMainLoop, Actors
<1> QED BY <1>1, <1>2

(* One thread leaves or enters.                                            *)
LEMMA TurnStep ==
  ASSUME TypeInv, LoopInv, TypeInv', LoopInv', NEW a \in Actors, OthersKept(a),
         \/ HandOver(a) \/ GateOpen(a) \/ BeginDefine(a) \/ EndUpdate(a)
  PROVE  /\ \/ Users' = Users
            \/ Users = {a} /\ Users' = {}
            \/ Users = {} /\ Users' = {a}
         /\ order' = order
<1>1. order' = order
  BY DEF HandOver, GateOpen, BeginDefine, EndUpdate, queue
<1>2. /\ Users \subseteq Actors /\ Users' \subseteq Actors /\ Main \notin Workers
      /\ pc \in [Actors -> PcStates] /\ held \in [Actors -> Nat]
  BY ActorsAssumption DEF Users, TypeInv, TypeOK, ThreadTypeOK
<1>3. CASE HandOver(a)
  <2>1. a = Main /\ pc[Main] = "suspend" /\ pc'[Main] = "gate" /\ held' = held
    BY <1>2, <1>3 DEF HandOver, At, Goto, LoopInv, WorkerSide, FlushStates, Actors
  <2>2. \A w \in Workers : held[w] = 0
    BY <1>2, <2>1, UsersAre DEF Inside, Actors
  <2> QED BY <1>1, <1>2, <2>1, <2>2, UsersAre, UsersBecome DEF Actors
<1>4. CASE GateOpen(a)
  <2>1. /\ a = Main /\ pc[Main] = "gate" /\ pc'[Main] = "reclaim" /\ held' = held
        /\ threadId = threadIdUpdate
    BY <1>2, <1>4 DEF GateOpen, StillLent, At, Goto, LoopInv, WorkerSide, FlushStates, CondStates, Actors
  <2>2. \A w \in Workers : held[w] = 0
    BY <1>2, <2>1 DEF LoopInv, WorkerSide, IdsFresh, Inside, Active, Actors
  <2> QED BY <1>1, <1>2, <2>1, <2>2, UsersAre, UsersBecome DEF Actors
<1>5. CASE BeginDefine(a)
  <2>1. /\ a \in Workers /\ pc[a] = "define" /\ held[a] = 0 /\ held'[a] = 1
        /\ pc[Main] = "gate" /\ pc'[Main] = "gate"
    BY <1>2, <1>5 DEF BeginDefine, At, Goto, LoopInv, WorkerSide, MainSide, Inside, BeginStates, Actors,
       OthersKept
  <2>2. \A w \in Workers : w # a => held[w] = 0 /\ held'[w] = 0
    BY <1>2, <2>1, UsersAre DEF Inside, Actors, OthersKept
  <2> QED BY <1>1, <1>2, <2>1, <2>2, UsersAre, UsersBecome DEF Actors
<1>6. CASE EndUpdate(a)
  <2>1. CASE a = Main
    <3>1. pc[Main] # "gate" /\ pc'[Main] # "gate" /\ \A w \in Workers : held'[w] = held[w]
      BY <1>2, <1>6, <2>1 DEF EndUpdate, At, Goto, OthersKept, Actors
    <3> QED BY <1>1, <1>2, <3>1, UsersAre, UsersBecome DEF Actors
  <2>2. CASE a \in Workers
    <3>1. /\ held[a] = 1 /\ held'[a] = 0 /\ pc[Main] = "gate" /\ pc'[Main] = "gate"
      BY <1>2, <1>6, <2>2 DEF EndUpdate, At, Goto, LoopInv, WorkerSide, Inside, Actors, OthersKept
    <3>2. \A w \in Workers : w # a => held[w] = 0 /\ held'[w] = 0
      BY <1>2, <2>2, <3>1, UsersAre DEF Inside, Actors, OthersKept
    <3> QED BY <1>1, <1>2, <2>2, <3>1, <3>2, UsersAre, UsersBecome DEF Actors
  <2> QED BY <2>1, <2>2 DEF Actors
<1> QED BY <1>3, <1>4, <1>5, <1>6

(* All other steps leave the turn where it is.                             *)
LEMMA TurnKept ==
  ASSUME TypeInv, LoopInv, Disciplined, TypeInv', LoopInv', NEW a \in Actors, OthersKept(a), Step(a),
         ~HandOver(a), ~GateOpen(a), ~BeginDefine(a), ~EndUpdate(a)
  PROVE  Users' = Users
<1>1. /\ pc \in [Actors -> PcStates] /\ held \in [Actors -> Nat] /\ Main \notin Workers
      /\ Users \subseteq Actors /\ Users' \subseteq Actors
  BY ActorsAssumption DEF Users, TypeInv, TypeOK, ThreadTypeOK
<1>2. pc'[a] = "gate" <=> pc[a] = "gate"
  BY <1>1 DEF Step, User, End, SyncStep, BeginStep, EndStep, FlushStep, Async, Sync, SyncSleep, SyncWake,
     SyncClean, BeginNested, Begin, BeginPost, BeginSleep, BeginAdopt, EndRefused, EndNested,
     EndOutermost, EndSleep, EndReturn, FlushFromPipe, FlushDirect, FlushSwap, FlushDone, FlushNext,
     CallbackReturn, WakeCaller, GateSleep, Reclaim, Feedback, SpuriousWakeup, At, Goto, MayFlush
<1>3. CASE a = Main
  BY <1>1, <1>2, <1>3, UsersAre, UsersBecome, SMTT(20) DEF Actors, OthersKept
<1>4. CASE a \in Workers
  <2>1. WorkerSide(a) /\ pc'[Main] = pc[Main]
    BY <1>1, <1>4 DEF LoopInv, OthersKept, Actors
  <2>2. held'[a] > 0 <=> held[a] > 0
    <3>1. CASE BeginNested(a)
      BY <1>1, <2>1, <3>1 DEF BeginNested, WorkerSide, Inside, At
    <3>2. CASE EndRefused(a)
      BY <1>1, <2>1, <3>2 DEF EndRefused, WorkerSide, Inside, At
    <3>3. CASE EndNested(a)
      BY <1>1, <2>1, <3>3 DEF EndNested, WorkerSide, Inside, At
    <3>4. CASE UNCHANGED held
      BY <3>4
    <3> QED BY <3>1, <3>2, <3>3, <3>4
        DEF Step, User, End, SyncStep, BeginStep, EndStep, FlushStep, Async, Sync, SyncSleep, SyncWake,
        SyncClean, Begin, BeginPost, BeginSleep, BeginAdopt, EndOutermost, EndSleep, EndReturn,
        FlushFromPipe, FlushDirect, FlushSwap, FlushDone, FlushNext, CallbackReturn, WakeCaller,
        GateSleep, Reclaim, Feedback, SpuriousWakeup, handshake
  <2> QED BY <1>1, <1>4, <2>1, <2>2, UsersAre, UsersBecome DEF Actors, OthersKept
<1> QED BY <1>3, <1>4 DEF Actors

-----------------------------------------------------------------------------
(* A step as the service sees the calls.                                   *)
PostStep == \E c \in Orders : c \notin Posted \cup Done /\ Posted' = Posted \cup {c} /\ Done' = Done

ExecuteStep == \E c \in Orders :
  pc[Main] # "gate" /\ c \in Posted /\ Posted' = Posted \ {c} /\ Done' = Done \cup {c}

CallsSame == Posted' = Posted /\ Done' = Done

(* An allocated order was not a call before.                               *)
LEMMA AllocateStep ==
  ASSUME ServiceInv, NEW r \in Order, Allocate(next, r), r.kind \in {"async", "sync", "suspend"}, r.ran = 0
  PROVE  /\ RunsRight'
         /\ IF r.kind = "suspend" THEN CallsSame ELSE PostStep
<1>1. /\ next \in Orders /\ order' = [order EXCEPT ![next] = r] /\ order \in [Orders -> Order]
  BY DEF Allocate, ServiceInv, TypeInv, TypeOK, HeapTypeOK
<1>2. order[next].kind = "none" /\ order[next].ran = 0
  BY <1>1, NextIsNew DEF ServiceInv, RunsRight
<1>3. order'[next] = r /\ \A o \in Orders : o # next => order'[o] = order[o]
  BY <1>1
<1>4. RunsRight'
  BY <1>2, <1>3 DEF RunsRight, ServiceInv
<1>5. next \notin Posted \cup Done
  BY <1>2 DEF Posted, Done
<1>6. CASE r.kind = "suspend"
  <2>1. \A o \in Orders : (o \in Posted' <=> o \in Posted) /\ (o \in Done' <=> o \in Done)
    BY <1>2, <1>3, <1>6 DEF Posted, Done
  <2> QED BY <1>4, <1>6, <2>1 DEF CallsSame, Posted, Done
<1>7. CASE r.kind # "suspend"
  <2>1. \A o \in Orders : (o \in Posted' <=> o \in Posted \/ o = next) /\ (o \in Done' <=> o \in Done)
    BY <1>2, <1>3, <1>7 DEF Posted, Done
  <2>2. Posted' = Posted \cup {next} /\ Done' = Done
    BY <1>1, <2>1 DEF Posted, Done
  <2> QED BY <1>1, <1>4, <1>5, <1>7, <2>2 DEF PostStep
<1> QED BY <1>6, <1>7

LEMMA CallsStep ==
  ASSUME ServiceInv, Disciplined, Spurious = FALSE, NEW a \in Actors, Step(a)
  PROVE  RunsRight' /\ (CallsSame \/ PostStep \/ ExecuteStep)
<1> USE DEF ServiceInv
<1>1. order \in [Orders -> Order] /\ call \in [Actors -> Orders \cup {0}]
  BY DEF TypeInv, TypeOK, HeapTypeOK, ThreadTypeOK
<1>2. CASE Async(a) \/ Sync(a)
  <2>1. PICK k \in {"async", "sync"} : Allocate(next, NewOrder(k, a, 0))
    BY <1>2 DEF Async, Sync
  <2>2. NewOrder(k, a, 0) \in Order /\ NewOrder(k, a, 0).kind = k /\ NewOrder(k, a, 0).ran = 0
    BY DEF NewOrder, Order, Kinds
  <2> QED BY <2>1, <2>2, AllocateStep
<1>3. CASE Begin(a)
  <2>1. FreshId \in Nat
    BY BoundsAssumption DEF TypeInv, TypeOK, LoopTypeOK, FreshId
  <2>2. /\ NewOrder("suspend", a, FreshId) \in Order
        /\ NewOrder("suspend", a, FreshId).kind = "suspend" /\ NewOrder("suspend", a, FreshId).ran = 0
    BY <2>1 DEF NewOrder, Order, Kinds
  <2> QED BY <1>3, <2>2, AllocateStep DEF Begin
<1>4. CASE SyncWake(a)
  <2> DEFINE x == call[a]
  <2>1. a \in Workers
    BY <1>4 DEF SyncWake, At, LoopInv, MainSide, SyncStates, Actors
  <2>2. x \in Orders /\ order[x].ran > 0 /\ order[x].kind = "sync"
    BY <1>4, <2>1, OwnOrder DEF SyncWake, At, OrderInv, CallerRight, CallerStates
  <2>3. order' = [order EXCEPT ![x].kind = "cleanup"]
    BY <1>4 DEF SyncWake
  <2> HIDE DEF x
  <2>4. \A o \in Orders : /\ order'[o].ran = order[o].ran
                          /\ order'[o].kind = IF o = x THEN "cleanup" ELSE order[o].kind
    BY <1>1, <2>2, <2>3 DEF Order
  <2>5. \A o \in Orders : (o \in Posted' <=> o \in Posted) /\ (o \in Done' <=> o \in Done)
    BY <1>1, <2>2, <2>4 DEF Posted, Done, Order
  <2>6. CallsSame
    BY <2>5 DEF CallsSame, Posted, Done
  <2> QED BY <2>2, <2>4, <2>6 DEF RunsRight
<1>5. CASE FlushNext(a)
  <2> DEFINE x == Head(Top(a).rest)
  <2>1. a = Main /\ pc[Main] = "next"
    BY <1>5 DEF FlushNext, At, LoopInv, WorkerSide, FlushStates, Actors
  <2>2. x \in Orders /\ order' = [order EXCEPT ![x].ran = IF order[x].kind = "suspend" THEN @ ELSE @ + 1]
    BY <1>5, FlushNextFrame DEF FlushNext
  <2>3. order[x].kind # "none"
    <3>1. Top(Main) = frames[Main][1] /\ 1 \in 1 .. Len(frames[Main]) /\ Top(Main) \in Frame /\ Top(Main).rest # <<>>
      BY <1>5, <2>1, FlushNextFrame, MainBefore, FrameType DEF FlushNext
    <3>2. Top(Main).rest \in Seq(Orders)
      BY <3>1 DEF Frame
    <3>3. 1 \in 1 .. Len(Top(Main).rest) /\ Top(Main).rest[1] = x
      BY <2>1, <3>1, <3>2, EmptySeq
    <3>4. 1 \in Nat /\ Refers(1, 1, x)
      BY <3>1, <3>3 DEF Refers
    <3> QED BY <2>2, <3>4 DEF OrderInv, RefersAlive
  <2> HIDE DEF x
  <2>4. \A o \in Orders : /\ order'[o].kind = order[o].kind /\ order[o].ran \in Nat
                          /\ order'[o].ran = IF o = x /\ order[x].kind # "suspend"
                                               THEN order[o].ran + 1 ELSE order[o].ran
    BY <1>1, <2>2 DEF Order
  <2>5. RunsRight'
    BY <2>3, <2>4 DEF RunsRight
  <2>6. CASE x \in Posted
    <3>1. \A o \in Orders : /\ o \in Posted' <=> o \in Posted /\ o # x
                            /\ o \in Done' <=> o \in Done \/ o = x
      BY <2>4, <2>6 DEF Posted, Done
    <3>2. Posted' = Posted \ {x} /\ Done' = Done \cup {x}
      BY <2>2, <3>1 DEF Posted, Done
    <3> QED BY <2>1, <2>2, <2>5, <2>6, <3>2 DEF ExecuteStep
  <2>7. CASE x \notin Posted
    <3>1. order[x].kind \in {"async", "sync", "cleanup"} => order[x].ran > 0
      BY <1>1, <2>2, <2>4, <2>7 DEF Posted, RunsRight
    <3>2. order[x].kind \in {"async", "sync", "cleanup", "suspend"}
      BY <1>1, <2>2, <2>3 DEF Order, Kinds
    <3>3. \A o \in Orders : (o \in Posted' <=> o \in Posted) /\ (o \in Done' <=> o \in Done)
      BY <2>4, <3>1, <3>2 DEF Posted, Done
    <3> QED BY <2>5, <3>3 DEF CallsSame, Posted, Done
  <2> QED BY <2>6, <2>7
<1>6. CASE CallbackReturn(a) \/ Feedback(a) \/ UNCHANGED order
  <2>1. \/ order' = order
        \/ \E c : order' = [order EXCEPT ![c].freed = TRUE]
    BY <1>6 DEF CallbackReturn, Feedback
  <2>2. \A o \in Orders : order'[o].kind = order[o].kind /\ order'[o].ran = order[o].ran
    BY <1>1, <2>1 DEF Order
  <2>3. Posted' = Posted /\ Done' = Done
    BY <2>2 DEF Posted, Done
  <2> QED BY <2>2, <2>3 DEF CallsSame, RunsRight
<1> QED
  BY <1>2, <1>3, <1>4, <1>5, <1>6
  DEF Step, User, End, SyncStep, BeginStep, EndStep, FlushStep, SyncSleep, SyncClean,
      BeginNested, BeginPost, BeginSleep, BeginAdopt, BeginDefine, EndRefused, EndNested,
      EndOutermost, EndUpdate, EndSleep, EndReturn, FlushFromPipe, FlushDirect, FlushSwap,
      FlushDone, WakeCaller, HandOver, GateSleep, GateOpen, Reclaim, SpuriousWakeup, queue

-----------------------------------------------------------------------------
LEMMA ServiceStep ==
  ASSUME ServiceInv, ServiceInv', Disciplined, Spurious = FALSE, [Next]_vars
  PROVE  [Service!Next]_(Service!vars)
<1> USE DEF ServiceInv, Users, Service!vars
<1>1. CASE UNCHANGED vars
  BY <1>1 DEF vars, InMainLoop, Posted, Done
<1>2. ASSUME NEW a \in Actors, Step(a) PROVE [Service!Next]_(Service!vars)
  <2>1. OthersKept(a)
    BY <1>2, OthersKeep
  <2>2. CASE HandOver(a) \/ GateOpen(a) \/ BeginDefine(a) \/ EndUpdate(a)
    <3>1. /\ order' = order
          /\ \/ Users' = Users
             \/ Users = {a} /\ Users' = {}
             \/ Users = {} /\ Users' = {a}
      BY <2>1, <2>2, TurnStep
    <3>2. Posted' = Posted /\ Done' = Done
      BY <3>1 DEF Posted, Done
    <3> QED BY <3>1, <3>2 DEF Service!Next, Service!Leave, Service!Enter, Actors
  <2>3. CASE ~HandOver(a) /\ ~GateOpen(a) /\ ~BeginDefine(a) /\ ~EndUpdate(a)
    <3>1. Users' = Users
      BY <1>2, <2>1, <2>3, TurnKept
    <3>2. CallsSame \/ PostStep \/ ExecuteStep
      BY <1>2, CallsStep
    <3>3. pc[Main] # "gate" => Main \in Users
      BY UsersAre
    <3> QED BY <3>1, <3>2, <3>3
        DEF CallsSame, PostStep, ExecuteStep, Service!Next, Service!Post, Service!Execute
  <2> QED BY <2>2, <2>3
<1> QED BY <1>1, <1>2 DEF Next

(* ecore.c implements the main-loop service: whatever the threads do, at   *)
(* most one of them uses the main loop's data, it changes hands only while *)
(* nobody does, and a call is executed once, by the main loop's thread     *)
(* while it has its turn.                                                  *)
THEOREM ServiceImplemented == Disciplined /\ ~Spurious => (Spec => Service!Safety)
<1> SUFFICES ASSUME Disciplined, Spurious = FALSE PROVE Spec => Service!Safety
  BY SwitchAssumption
<1>1. Init => ServiceInv
  <2>1. Init => RunsRight
    BY DEF Init, RunsRight, NewOrder
  <2> QED BY <2>1, TypeInit, LoopInit, OrderInit DEF ServiceInv
<1>2. ServiceInv /\ [Next]_vars => ServiceInv'
  <2> SUFFICES ASSUME ServiceInv, [Next]_vars PROVE ServiceInv'
    OBVIOUS
  <2>1. TypeInv' /\ LoopInv' /\ OrderInv'
    BY TypeStep, LoopStable, OrderStable DEF ServiceInv
  <2>2. RunsRight'
    <3>1. CASE UNCHANGED vars
      BY <3>1 DEF vars, RunsRight, ServiceInv
    <3>2. ASSUME NEW a \in Actors, Step(a) PROVE RunsRight'
      BY <3>2, CallsStep
    <3> QED BY <3>1, <3>2 DEF Next
  <2> QED BY <2>1, <2>2 DEF ServiceInv
<1>3. Init => Service!Init
  <2> SUFFICES ASSUME Init PROVE Service!Init
    OBVIOUS
  <2>1. {a \in Actors : InMainLoop(a)} = {Main}
    BY ActorsAssumption DEF Init, InMainLoop, Actors
  <2>2. Posted = {} /\ Done = {}
    BY DEF Init, Posted, Done, NewOrder
  <2> QED BY <2>1, <2>2 DEF Service!Init
<1>4. ServiceInv /\ ServiceInv' /\ [Next]_vars => [Service!Next]_(Service!vars)
  BY ServiceStep
<1> QED BY <1>1, <1>2, <1>3, <1>4, PTL DEF Spec, Service!Safety
=============================================================================
