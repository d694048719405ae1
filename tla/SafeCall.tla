------------------------------ MODULE SafeCall ------------------------------
(***************************************************************************)
(* Ecore's cross-thread calls (src/src/lib/ecore/ecore.c): any thread posts *)
(* a call to the main loop (asynchronously, or blocking until it was run), *)
(* or suspends the main loop and takes its place between                   *)
(* ecore_thread_main_loop_begin() and ecore_thread_main_loop_end().        *)
(*                                                                         *)
(* Every thread is a program counter; "run" is user code, which may call   *)
(* any function of this interface.  A critical section that does not block *)
(* inside and whose variables are only touched under its lock is one       *)
(* action; the handshake of begin and end, which uses four locks, is taken *)
(* apart wherever another thread can observe the difference.               *)
(***************************************************************************)
EXTENDS Integers, Sequences, FiniteSets

CONSTANTS
  Workers,         (* the threads other than the main loop's               *)
  Main,            (* the main loop's own thread                           *)
  None,
  MaxCalls,        (* bound: orders allocated by all workers together      *)
  MaxNest,         (* bound: nested calls of begin by one thread           *)
  MaxDepth,        (* bound: nested flushes (a callback that flushes)      *)
  IdMax,           (* INT_MAX of the code's `int _thread_id_max`           *)
  Spurious,        (* condition variables may wake up spuriously           *)
  FlushInSection   (* code between begin and end may flush the calls, as   *)
                   (* ecore_thread_wait() or a loop iteration does         *)

Actors == Workers \cup {Main}
Orders == 1 .. MaxCalls

ASSUME ActorsAssumption == Main \notin Workers /\ None \notin Actors
ASSUME BoundsAssumption == /\ MaxCalls \in Nat /\ MaxNest \in Nat
                           /\ MaxDepth \in Nat /\ IdMax \in Nat \ {0}
ASSUME SwitchAssumption == Spurious \in BOOLEAN /\ FlushInSection \in BOOLEAN

VARIABLES
  order,        (* the heap of Ecore_Safe_Call                             *)
  next,         (* the next order to allocate                              *)
  threadCb,     (* _thread_cb: orders not yet taken by a flush             *)
  wakeups,      (* messages in the pipe _thread_call                       *)
  threadLoop,   (* _thread_loop                                            *)
  threadId, threadIdMax, threadIdUpdate,
  threadMutex,  (* holder of _thread_mutex                                 *)
  mainLoop,     (* _eina_main_loop: the thread eina_main_loop_is() accepts *)
  mainDomain,   (* _ecore_main_domain: the thread that adopted it          *)
  pc,
  sleeping,     (* threads blocked in eina_condition_wait                  *)
  call,         (* the order a worker's begin or sync is about             *)
  curId,        (* the local current_id of end                             *)
  frames,       (* per thread: its _ecore_main_call_flush activations      *)
  held          (* per thread: its begins not yet matched by an end        *)

vars == <<order, next, threadCb, wakeups, threadLoop, threadId, threadIdMax,
          threadIdUpdate, threadMutex, mainLoop, mainDomain, pc, sleeping,
          call, curId, frames, held>>

(* The state of the handshake, and the state of the queue of calls.        *)
handshake == <<threadLoop, threadId, threadIdMax, threadIdUpdate, threadMutex,
               mainLoop, mainDomain, curId, held>>
queue     == <<order, next, threadCb, wakeups>>

-----------------------------------------------------------------------------
Kinds  == {"none", "async", "sync", "suspend", "cleanup"}
Order  == [kind : Kinds, by : Actors \cup {None}, id : Nat, ran : Nat, freed : BOOLEAN]
Frame  == [cur : Orders \cup {0}, sync : BOOLEAN, rest : Seq(Orders)]

NewOrder(k, w, i) == [kind |-> k, by |-> w, id |-> i, ran |-> 0, freed |-> FALSE]

CondStates  == {"syncWait", "beginWait", "gate", "endFeedback"}
FlushStates == {"swap", "next", "suspend", "gate", "reclaim", "feedback", "wake"}
PcStates    == {"run", "syncSleep", "syncClean", "beginPost", "define", "endUpdate"}
                 \cup CondStates \cup FlushStates

Init ==
  /\ order = [o \in Orders |-> NewOrder("none", None, 0)]
  /\ next = 1
  /\ threadCb = <<>> /\ wakeups = 0
  /\ threadLoop = 0
  /\ threadId = -1 /\ threadIdMax = 0 /\ threadIdUpdate = 0
  /\ threadMutex = None
  /\ mainLoop = Main
  /\ mainDomain = None
  /\ pc = [a \in Actors |-> "run"]
  /\ sleeping = {}
  /\ call = [a \in Actors |-> 0]
  /\ curId = [a \in Actors |-> -1]
  /\ frames = [a \in Actors |-> <<>>]
  /\ held = [a \in Actors |-> 0]

Goto(a, l) == pc' = [pc EXCEPT ![a] = l]

(* Thread a is in its code l and not blocked there.                        *)
At(a, l) == pc[a] = l /\ a \notin sleeping

(* Mutant of WakeAll: the broadcast forgotten.                             *)
WakeNone(l) == UNCHANGED sleeping

(* eina_condition_broadcast: l is the place where that condition is waited *)
(* for.  A thread waits for one condition at a time.                       *)
WakeAll(l) == sleeping' = {a \in sleeping : pc[a] # l}

(* Mutant of WakeOrder: one condition shared by all orders.                *)
WakeAnyOrder(o) == sleeping' = {a \in sleeping : pc[a] \notin {"syncWait", "beginWait"}}

(* ... and the condition that belongs to one order.                        *)
WakeOrder(o) == sleeping' = {a \in sleeping : call[a] # o \/ pc[a] \notin {"syncWait", "beginWait"}}

(* Mutant of OrderLocked: sync does not take the lock before it posts.     *)
OrderUnlocked(o) == FALSE

(* The lock m of an order is held between visible steps only by the caller *)
(* of sync, from before the order is queued until it waits.                *)
OrderLocked(o) == \E w \in Workers : pc[w] = "syncSleep" /\ call[w] = o

Top(a) == Head(frames[a])

(* Mutants of Enqueue: the test for an empty list made after the append;   *)
(* the list used as a stack.                                               *)
EnqueueLate(o) ==
  /\ threadCb' = Append(threadCb, o)
  /\ wakeups' = IF threadCb' = <<>> THEN wakeups + 1 ELSE wakeups

EnqueueFront(o) ==
  /\ threadCb' = <<o>> \o threadCb
  /\ wakeups' = IF threadCb = <<>> THEN wakeups + 1 ELSE wakeups

(* _ecore_main_loop_thread_safe_call: append, and wake the main loop up    *)
(* when the list was empty.                                                *)
Enqueue(o) ==
  /\ threadCb' = Append(threadCb, o)
  /\ wakeups' = IF threadCb = <<>> THEN wakeups + 1 ELSE wakeups

Allocate(o, r) ==
  /\ o \in Orders /\ o = next
  /\ next' = next + 1
  /\ order' = [order EXCEPT ![o] = r]

-----------------------------------------------------------------------------
(* Calls into the main loop.  When eina_main_loop_is() holds the callback  *)
(* runs at once in the caller, which is more user code: no step of its own.*)

Async(w) ==
  /\ At(w, "run") /\ mainLoop # w
  /\ Allocate(next, NewOrder("async", w, 0))
  /\ Enqueue(next)
  /\ UNCHANGED <<handshake, pc, sleeping, call, frames>>

Sync(w) ==
  /\ At(w, "run") /\ mainLoop # w
  /\ Allocate(next, NewOrder("sync", w, 0))
  /\ Enqueue(next)
  /\ call' = [call EXCEPT ![w] = next]
  /\ Goto(w, "syncSleep")
  /\ UNCHANGED <<handshake, sleeping, frames>>

(* One eina_condition_wait, with no loop around it.                        *)
SyncSleep(w) ==
  /\ At(w, "syncSleep")
  /\ sleeping' = sleeping \cup {w}
  /\ Goto(w, "syncWait")
  /\ UNCHANGED <<handshake, queue, call, frames>>

(* The order becomes an asynchronous call of _thread_safe_cleanup ...      *)
SyncWake(w) ==
  /\ At(w, "syncWait")
  /\ order' = [order EXCEPT ![call[w]].kind = "cleanup"]
  /\ Goto(w, "syncClean")
  /\ UNCHANGED <<handshake, next, threadCb, wakeups, sleeping, call, frames>>

(* ... which is queued in turn.                                            *)
SyncClean(w) ==
  /\ At(w, "syncClean")
  /\ Enqueue(call[w])
  /\ call' = [call EXCEPT ![w] = 0]
  /\ Goto(w, "run")
  /\ UNCHANGED <<handshake, order, next, sleeping, frames>>

-----------------------------------------------------------------------------
(* ecore_thread_main_loop_begin                                            *)

(* Mutant of BeginNested: the count set, as for the outermost begin.       *)
BeginNestedUncounted(a) ==
  /\ At(a, "run") /\ mainLoop = a
  /\ held[a] < MaxNest
  /\ threadLoop' = 1
  /\ held' = [held EXCEPT ![a] = @ + 1]
  /\ UNCHANGED <<queue, threadId, threadIdMax, threadIdUpdate, threadMutex, mainLoop,
                 mainDomain, pc, sleeping, call, curId, frames>>

BeginNested(a) ==
  /\ At(a, "run") /\ mainLoop = a
  /\ held[a] < MaxNest
  /\ threadLoop' = threadLoop + 1
  /\ held' = [held EXCEPT ![a] = @ + 1]
  /\ UNCHANGED <<queue, threadId, threadIdMax, threadIdUpdate, threadMutex, mainLoop,
                 mainDomain, pc, sleeping, call, curId, frames>>

(* ++_thread_id_max, restarted from 1 when the int overflows.              *)
FreshId == IF threadIdMax = IdMax THEN 1 ELSE threadIdMax + 1

Begin(w) ==
  /\ At(w, "run") /\ mainLoop # w
  /\ threadIdMax' = FreshId
  /\ Allocate(next, NewOrder("suspend", w, FreshId))
  /\ call' = [call EXCEPT ![w] = next]
  /\ Goto(w, "beginPost")
  /\ UNCHANGED <<threadCb, wakeups, threadLoop, threadId, threadIdUpdate, threadMutex,
                 mainLoop, mainDomain, sleeping, curId, frames, held>>

BeginPost(w) ==
  /\ At(w, "beginPost")
  /\ Enqueue(call[w])
  /\ Goto(w, "beginWait")
  /\ UNCHANGED <<handshake, order, next, sleeping, call, frames>>

(* The main loop is not ours yet: wait (again).                            *)
BeginSleep(w) ==
  /\ At(w, "beginWait") /\ order[call[w]].id # threadId
  /\ sleeping' = sleeping \cup {w}
  /\ UNCHANGED <<handshake, queue, pc, call, frames>>

BeginAdopt(w) ==
  /\ At(w, "beginWait") /\ order[call[w]].id = threadId
  /\ mainDomain' = w
  /\ Goto(w, "define")
  /\ UNCHANGED <<queue, threadLoop, threadId, threadIdMax, threadIdUpdate, threadMutex,
                 mainLoop, sleeping, call, curId, frames, held>>

BeginDefine(w) ==
  /\ At(w, "define")
  /\ mainLoop' = w
  /\ threadLoop' = 1
  /\ held' = [held EXCEPT ![w] = @ + 1]
  /\ Goto(w, "run")
  /\ UNCHANGED <<queue, threadId, threadIdMax, threadIdUpdate, threadMutex,
                 mainDomain, sleeping, call, curId, frames>>

-----------------------------------------------------------------------------
(* ecore_thread_main_loop_end, called once for each begin.                 *)

(* Both early returns: no begin recorded, or not the main loop's thread.   *)
EndRefused(a) ==
  /\ At(a, "run") /\ held[a] > 0
  /\ threadLoop = 0 \/ mainLoop # a
  /\ held' = [held EXCEPT ![a] = @ - 1]
  /\ UNCHANGED <<queue, threadLoop, threadId, threadIdMax, threadIdUpdate, threadMutex,
                 mainLoop, mainDomain, pc, sleeping, call, curId, frames>>

EndNested(a) ==
  /\ At(a, "run") /\ held[a] > 0
  /\ threadLoop > 1 /\ mainLoop = a
  /\ threadLoop' = threadLoop - 1
  /\ held' = [held EXCEPT ![a] = @ - 1]
  /\ UNCHANGED <<queue, threadId, threadIdMax, threadIdUpdate, threadMutex,
                 mainLoop, mainDomain, pc, sleeping, call, curId, frames>>

EndOutermost(a) ==
  /\ At(a, "run") /\ held[a] > 0
  /\ threadLoop = 1 /\ mainLoop = a
  /\ threadLoop' = 0
  /\ mainDomain' = None
  /\ curId' = [curId EXCEPT ![a] = threadId]
  /\ Goto(a, "endUpdate")
  /\ UNCHANGED <<queue, threadId, threadIdMax, threadIdUpdate, threadMutex,
                 mainLoop, sleeping, call, frames, held>>

(* Under _thread_mutex: tell the suspended main loop.                      *)
EndUpdate(a) ==
  /\ At(a, "endUpdate") /\ threadMutex = None
  /\ threadIdUpdate' = threadId
  /\ WakeAll("gate")
  /\ held' = [held EXCEPT ![a] = @ - 1]
  /\ Goto(a, "endFeedback")
  /\ UNCHANGED <<queue, threadLoop, threadId, threadIdMax, threadMutex,
                 mainLoop, mainDomain, call, curId, frames>>

(* Under _thread_feedback_mutex: wait until the main loop is back.         *)
(* Mutant of EndMustWait: end returns at once.                             *)
EndNeedNotWait(a) == FALSE

EndMustWait(a) == curId[a] = threadId /\ threadId # -1

EndSleep(a) ==
  /\ At(a, "endFeedback") /\ EndMustWait(a)
  /\ sleeping' = sleeping \cup {a}
  /\ UNCHANGED <<handshake, queue, pc, call, frames>>

EndReturn(a) ==
  /\ At(a, "endFeedback") /\ ~EndMustWait(a)
  /\ call' = [call EXCEPT ![a] = 0]
  /\ Goto(a, "run")
  /\ UNCHANGED <<handshake, queue, sleeping, frames>>

-----------------------------------------------------------------------------
(* _ecore_main_call_flush                                                  *)

MayFlush(a) ==
  /\ At(a, "run") /\ mainLoop = a
  /\ Len(frames[a]) < MaxDepth
  /\ held[a] > 0 => FlushInSection
  /\ a # Main => held[a] > 0

(* The pipe's handler: one message read, _thread_callback called.          *)
FlushFromPipe(a) ==
  /\ MayFlush(a) /\ wakeups > 0
  /\ wakeups' = wakeups - 1
  /\ Goto(a, "swap")
  /\ UNCHANGED <<handshake, order, next, threadCb, sleeping, call, frames>>

(* A direct call, as in ecore_thread_wait; without a call it does nothing. *)
FlushDirect(a) ==
  /\ MayFlush(a) /\ threadCb # <<>>
  /\ Goto(a, "swap")
  /\ UNCHANGED <<handshake, queue, sleeping, call, frames>>

FlushSwap(a) ==
  /\ At(a, "swap")
  /\ frames' = [frames EXCEPT ![a] = <<[cur |-> 0, sync |-> FALSE, rest |-> threadCb]>> \o @]
  /\ threadCb' = <<>>
  /\ Goto(a, "next")
  /\ UNCHANGED <<handshake, order, next, wakeups, sleeping, call>>

FlushDone(a) ==
  /\ At(a, "next") /\ Top(a).rest = <<>>
  /\ frames' = [frames EXCEPT ![a] = Tail(@)]
  /\ Goto(a, "run")
  /\ UNCHANGED <<handshake, queue, sleeping, call>>

(* EINA_LIST_FREE unlinks the order, then its kind is read.  A callback,   *)
(* of sync or async, is user code: the thread is in "run" again.           *)
FlushNext(a) ==
  /\ At(a, "next") /\ Top(a).rest # <<>>
  /\ LET o == Head(Top(a).rest) IN
       /\ frames' = [frames EXCEPT ![a][1] = [cur |-> o, sync |-> order[o].kind = "sync",
                                            rest |-> Tail(@.rest)]]
       /\ order' = [order EXCEPT ![o].ran = IF order[o].kind = "suspend" THEN @ ELSE @ + 1]
       /\ Goto(a, IF order[o].kind = "suspend" THEN "suspend" ELSE "run")
  /\ UNCHANGED <<handshake, next, threadCb, wakeups, sleeping, call>>

(* Mutant of InSyncCall: every order freed after its callback.             *)
NoSyncCall(a) == FALSE

(* The branch taken when the callback was called.                          *)
InSyncCall(a) == Top(a).sync

CallbackReturn(a) ==
  /\ At(a, "run") /\ frames[a] # <<>>
  /\ held[a] > 0 => FlushInSection
  /\ IF InSyncCall(a)
       THEN /\ Goto(a, "wake")
            /\ UNCHANGED <<order, frames>>
       ELSE /\ order' = [order EXCEPT ![Top(a).cur].freed = TRUE]
            /\ frames' = [frames EXCEPT ![a][1].cur = 0]
            /\ Goto(a, "next")
  /\ UNCHANGED <<handshake, next, threadCb, wakeups, sleeping, call>>

(* Under the order's lock: wake the caller of sync up.                     *)
WakeCaller(a) ==
  /\ At(a, "wake") /\ ~OrderLocked(Top(a).cur)
  /\ WakeOrder(Top(a).cur)
  /\ frames' = [frames EXCEPT ![a][1].cur = 0]
  /\ Goto(a, "next")
  /\ UNCHANGED <<handshake, queue, call>>

(* Hand the main loop over, _thread_mutex and the order's lock taken.      *)
HandOver(a) ==
  /\ At(a, "suspend") /\ threadMutex = None
  /\ threadMutex' = a
  /\ threadId' = order[Top(a).cur].id
  /\ WakeOrder(Top(a).cur)
  /\ Goto(a, "gate")
  /\ UNCHANGED <<queue, threadLoop, threadIdMax, threadIdUpdate, mainLoop,
                 mainDomain, call, curId, frames, held>>

(* Mutant of StillLent: a flag that is never reset.                        *)
NeverLent == threadIdUpdate = 0

(* No end has answered this suspension yet.                                *)
StillLent == threadIdUpdate # threadId

GateSleep(a) ==
  /\ At(a, "gate") /\ threadMutex \in {a, None}
  /\ StillLent
  /\ threadMutex' = None
  /\ sleeping' = sleeping \cup {a}
  /\ UNCHANGED <<queue, threadLoop, threadId, threadIdMax, threadIdUpdate, mainLoop,
                 mainDomain, pc, call, curId, frames, held>>

GateOpen(a) ==
  /\ At(a, "gate") /\ threadMutex \in {a, None}
  /\ ~StillLent
  /\ threadMutex' = None
  /\ Goto(a, "reclaim")
  /\ UNCHANGED <<queue, threadLoop, threadId, threadIdMax, threadIdUpdate, mainLoop,
                 mainDomain, sleeping, call, curId, frames, held>>

Reclaim(a) ==
  /\ At(a, "reclaim")
  /\ mainLoop' = a
  /\ Goto(a, "feedback")
  /\ UNCHANGED <<queue, threadLoop, threadId, threadIdMax, threadIdUpdate, threadMutex,
                 mainDomain, sleeping, call, curId, frames, held>>

Feedback(a) ==
  /\ At(a, "feedback")
  /\ threadId' = -1
  /\ WakeAll("endFeedback")
  /\ order' = [order EXCEPT ![Top(a).cur].freed = TRUE]
  /\ frames' = [frames EXCEPT ![a][1].cur = 0]
  /\ Goto(a, "next")
  /\ UNCHANGED <<next, threadCb, wakeups, threadLoop, threadIdMax, threadIdUpdate,
                 threadMutex, mainLoop, mainDomain, call, curId, held>>

-----------------------------------------------------------------------------
(* POSIX lets pthread_cond_wait return without a broadcast.                *)
SpuriousWakeup(a) ==
  /\ Spurious /\ a \in sleeping
  /\ sleeping' = sleeping \ {a}
  /\ UNCHANGED <<handshake, queue, pc, call, frames>>

(* The steps of a function that was called: they go on by themselves.      *)
SyncStep(w)  == SyncSleep(w) \/ SyncWake(w) \/ SyncClean(w)
BeginStep(w) == BeginPost(w) \/ BeginSleep(w) \/ BeginAdopt(w) \/ BeginDefine(w)
EndStep(a)   == EndUpdate(a) \/ EndSleep(a) \/ EndReturn(a)
FlushStep(a) == \/ FlushSwap(a) \/ FlushDone(a) \/ FlushNext(a) \/ WakeCaller(a)
                \/ HandOver(a) \/ GateSleep(a) \/ GateOpen(a) \/ Reclaim(a) \/ Feedback(a)

(* What user code does.                                                    *)
End(a)  == EndRefused(a) \/ EndNested(a) \/ EndOutermost(a)
User(a) == \/ Async(a) \/ Sync(a) \/ BeginNested(a) \/ Begin(a) \/ End(a)
           \/ FlushFromPipe(a) \/ FlushDirect(a) \/ CallbackReturn(a)

(* The main loop's thread never calls as a worker while suspended: it is   *)
(* blocked then.                                                           *)
Step(a) == User(a) \/ SyncStep(a) \/ BeginStep(a) \/ EndStep(a) \/ FlushStep(a)
             \/ SpuriousWakeup(a)

Next == \E a \in Actors : Step(a)

(* The scheduler runs every thread that can run.  User code returns from   *)
(* its callbacks and calls end for each begin, and the main loop comes     *)
(* back to its pipe: strong fairness, because nested begin and end pairs   *)
(* and nested flushes may come in between any number of times.             *)
Fairness ==
  /\ \A a \in Actors : WF_vars(SyncStep(a) \/ BeginStep(a) \/ EndStep(a) \/ FlushStep(a))
  /\ \A a \in Actors : SF_vars(EndRefused(a) \/ EndOutermost(a))
  /\ SF_vars(CallbackReturn(Main))
  /\ SF_vars(FlushFromPipe(Main) /\ frames[Main] = <<>>)

Spec     == Init /\ [][Next]_vars
FairSpec == Spec /\ Fairness

-----------------------------------------------------------------------------
(* The variables stay within their domains: _thread_id_max is positive and *)
(* within an int, ids are never negative, counts never below zero.         *)
HeapTypeOK ==
  /\ order \in [Orders -> Order]
  /\ next \in 1 .. MaxCalls + 1
  /\ threadCb \in Seq(Orders)
  /\ wakeups \in Nat

LoopTypeOK ==
  /\ threadLoop \in Nat
  /\ threadId \in {-1} \cup 1 .. IdMax
  /\ threadIdMax \in 0 .. IdMax
  /\ threadIdUpdate \in -1 .. IdMax
  /\ threadMutex \in Actors \cup {None}
  /\ mainLoop \in Actors
  /\ mainDomain \in Actors \cup {None}

ThreadTypeOK ==
  /\ pc \in [Actors -> PcStates]
  /\ sleeping \subseteq Actors
  /\ call \in [Actors -> Orders \cup {0}]
  /\ curId \in [Actors -> -1 .. IdMax]
  /\ frames \in [Actors -> Seq(Frame)]
  /\ held \in [Actors -> Nat]

TypeOK == HeapTypeOK /\ LoopTypeOK /\ ThreadTypeOK

(* The thread whose turn it is to use EFL: a worker between its begin and  *)
(* its end, the main loop unless it is suspended.  (A worker that flushes  *)
(* suspends itself just as the main loop does.)                            *)
InMainLoop(a) == pc[a] # "gate" /\ (a = Main \/ held[a] > 0)

(* begin suspends the main loop and end resumes it: two threads never use  *)
(* the loop's data at the same time.                                       *)
MutualExclusion == \A a, b \in Actors : InMainLoop(a) /\ InMainLoop(b) => a = b

(* eina_main_loop_is(), by which every function of this file chooses       *)
(* between a direct call and a queued one, is right whenever user code can *)
(* ask it, also just after end; so is the adopted object domain.           *)
MainLoopIdentity ==
  \A a \in Actors : pc[a] = "run" =>
    /\ mainLoop = a <=> InMainLoop(a)
    /\ a \in Workers => (mainDomain = a <=> held[a] > 0)

(* _thread_loop counts the begins of the thread that owns the loop.        *)
NestingCount == \A a \in Actors : pc[a] = "run" /\ mainLoop = a => threadLoop = held[a]

(* A queued call is never left behind: a message is in the pipe, or the    *)
(* main loop has read one and is about to take the list.                   *)
NoLostWakeup == threadCb # <<>> => wakeups > 0 \/ \E a \in Actors : pc[a] = "swap"

InFrames(o) == \E a \in Actors : \E i \in DOMAIN frames[a] :
                 o = frames[a][i].cur \/ \E j \in DOMAIN frames[a][i].rest : o = frames[a][i].rest[j]

InQueue(o) == \E j \in DOMAIN threadCb : o = threadCb[j]

UsedByCaller(o) == \E w \in Workers : call[w] = o /\
  pc[w] \in {"syncSleep", "syncWait", "syncClean", "beginPost", "beginWait"}

(* No order is freed while the queue, a flush or its caller refers to it.  *)
NoUseAfterFree == \A o \in Orders : order[o].freed => ~InQueue(o) /\ ~InFrames(o) /\ ~UsedByCaller(o)

(* ecore_main_loop_thread_safe_call_sync "will block until the callback is *)
(* executed in the main loop".                                             *)
SyncReturnsAfterRun == \A w \in Workers : pc[w] = "syncClean" => order[call[w]].ran > 0

Earlier(p, o) == p < o /\ order[p].by = order[o].by /\ order[p].kind # "none"

(* The calls of one thread run in the order it made them, and begin does   *)
(* not get the loop before the calls its thread made earlier have run.     *)
CallsInOrder ==
  [][\A o \in Orders :
       \/ order[o].ran = 0 /\ order'[o].ran = 1
       \/ pc[Main] = "suspend" /\ pc'[Main] = "gate" /\ o = Top(Main).cur
       => \A p \in Orders : Earlier(p, o) => order[p].ran > 0 \/ order[p].freed]_vars

(* Sync comes back to its caller: the broadcast of the flush is not lost.  *)
SyncReturns == \A w \in Workers : pc[w] = "syncSleep" ~> pc[w] = "run"

(* A queued call is executed.  (That begin and end return is part of the   *)
(* abstract specification below.)                                          *)
EveryCallRuns == \A o \in Orders : InQueue(o) ~> order[o].ran > 0 \/ order[o].freed

-----------------------------------------------------------------------------
(* The calls a thread made, as the abstract specification counts them.     *)
Posted == {o \in Orders : order[o].kind \in {"async", "sync"} /\ order[o].ran = 0}
Done   == {o \in Orders : order[o].kind # "suspend" /\ order[o].ran > 0}

Service == INSTANCE MainLoopService WITH
             Calls  <- Orders,
             users  <- {a \in Actors : InMainLoop(a)},
             posted <- Posted,
             done   <- Done

(* ecore.c implements the main-loop service, with the liveness the service *)
(* promises: what is posted is executed, who owns the loop gives it back.  *)
ServiceSpec == Service!Spec
=============================================================================
