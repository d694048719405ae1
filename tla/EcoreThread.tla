---------------------------- MODULE EcoreThread ----------------------------
(***************************************************************************)
(* Ecore_Thread (src/src/lib/ecore/ecore_thread.c): jobs handed by the main *)
(* loop to a pool of threads (short and feedback jobs) or to a thread of   *)
(* their own (try_no_queue), their messages back to the main loop, their   *)
(* cancellation, and the callback that reports their end.                  *)
(*                                                                         *)
(* The main loop's thread is a stack of activations: user code may be      *)
(* called back from a flush of the safe calls, and may flush them again    *)
(* through ecore_thread_wait().  A pool thread is a program counter.       *)
(* The safe-call queue is the one of module SafeCall, reduced to what the  *)
(* jobs use of it: an append by other threads, a flush that takes all.     *)
(* The memory of a job is never recycled here, so that a use of it after   *)
(* its end can be told from a use of its successor.                        *)
(***************************************************************************)
EXTENDS Integers, Sequences, FiniteSets, SequencesExt

CONSTANTS
  Short, Feedback, Direct,   (* jobs run by ecore_thread_run, by           *)
                 (* ecore_thread_feedback_run, and the latter with         *)
                 (* try_no_queue                                           *)
  Threads,       (* operating-system threads, each started at most once    *)
  None,
  MaxStart,      (* _ecore_thread_count_max at the start                   *)
  MaxLimit,      (* bound: the largest limit ever set                      *)
  MaxSend,       (* bound: messages sent by one job                        *)
  Repeats,       (* jobs whose function may ask to be run again            *)
  MaxRuns,       (* bound: runs of such a function                         *)
  MaxWaits,      (* bound: calls of ecore_thread_wait                      *)
  MaxDepth,      (* bound: activations under which user code calls back    *)
  Liberties      (* what the program and the system are free to do         *)

Jobs == Short \cup Feedback \cup Direct

(* createFails: the system refuses threads.  lockedCalls: callbacks made   *)
(* with the pending lock held use this interface.  raiseMax, lowerMax: the *)
(* limit is changed.  cancellable: functions enable                        *)
(* eina_thread_cancellable_set.  waitInNotify: func_notify waits for a     *)
(* thread.  waitTwice: a thread is waited for inside a wait for it.        *)
AllLiberties == {"createFails", "lockedCalls", "raiseMax", "lowerMax",
                 "cancellable", "waitInNotify", "waitTwice"}

ASSUME JobsAssumption == /\ Short \cap Feedback = {} /\ Direct \cap (Short \cup Feedback) = {}
                         /\ Repeats \subseteq Jobs
                     /\ None \notin Jobs \cup Threads
ASSUME BoundsAssumption == /\ MaxStart \in Nat \ {0} /\ MaxLimit \in Nat
                           /\ {MaxSend, MaxRuns, MaxWaits, MaxDepth} \subseteq Nat
ASSUME ThreadsAssumption == IsFiniteSet(Threads)
ASSUME LibertiesAssumption == Liberties \subseteq AllLiberties

VARIABLES
  job,           (* Ecore_Pthread_Worker, per job                          *)
  ghost,         (* per job, what happened to it so far (not in the code)  *)
  pendShort,     (* _ecore_pending_job_threads                             *)
  pendFeedback,  (* _ecore_pending_job_threads_feedback                    *)
  running,       (* _ecore_running_job                                     *)
  count, noQueue, max,   (* _ecore_thread_count, .._no_queue, .._max       *)
  calls,         (* _thread_cb: safe calls not yet taken by a flush        *)
  thread,        (* per thread: where it is, and the job it holds          *)
  stack,         (* the activations of the main loop's thread              *)
  waits,         (* calls of ecore_thread_wait so far                      *)
  fault          (* how the main loop's thread broke down, if it did       *)

vars == <<job, ghost, pendShort, pendFeedback, running, count, noQueue, max,
          calls, thread, stack, waits, fault>>

pend == <<pendShort, pendFeedback>>
pool == <<running, count, noQueue, max>>
main == <<stack, waits, fault>>

-----------------------------------------------------------------------------
NewJob == [mem |-> "unborn", cancel |-> FALSE, kill |-> FALSE, reschedule |-> FALSE,
           send |-> 0, received |-> 0, self |-> None, func |-> "user", waiter |-> 0]
NewGhost == [runs |-> 0, final |-> <<>>, told |-> FALSE, cut |-> FALSE]

(* func stands for func_end and func_cancel, which are replaced together.  *)
Funcs == {"user", "wrap"}
Call  == [op : {"handler", "notify"}, on : Jobs] \cup [op : {"join"}, on : Threads]

FrameKinds == {"user", "flush", "notify", "kill", "wrap", "wait", "waited", "mark", "relock",
               "relockTried", "retry", "onError", "failed", "direct", "directRetry", "counted"}
LockFrames == {"retry", "failed"}
RunFrames  == {"relock", "relockTried", "retry", "onError", "failed", "direct",
               "directRetry", "counted"}

Frame(k, j) == [kind |-> k, on |-> j, todo |-> <<>>, func |-> "user",
                waiting |-> FALSE, waiter |-> 0]
User  == Frame("user", None)
Flush == [Frame("flush", None) EXCEPT !.todo = calls]

Init ==
  /\ job = [j \in Jobs |-> NewJob]
  /\ ghost = [j \in Jobs |-> NewGhost]
  /\ pendShort = <<>> /\ pendFeedback = <<>>
  /\ running = {}
  /\ count = 0 /\ noQueue = 0 /\ max = MaxStart
  /\ calls = <<>>
  /\ thread = [t \in Threads |-> [pc |-> "none", work |-> None, own |-> FALSE,
                          asked |-> FALSE, dying |-> FALSE]]
  /\ stack = <<User>>
  /\ waits = 0
  /\ fault = "none"

Allowed(liberty) == liberty \in Liberties

(* The pending lock is held across steps only by the main loop's thread,   *)
(* while ecore_thread_run() deals with a thread that could not be started. *)
Locked == \E i \in DOMAIN stack : stack[i].kind \in LockFrames

Top      == stack[Len(stack)]
Below    == Front(stack)
Push(f)  == stack' = Append(stack, f)
Pop      == stack' = Below
Become(k) == stack' = [stack EXCEPT ![Len(stack)].kind = k]

(* An operation user code calls on the main loop's thread.                 *)
InUser == /\ Top.kind = "user"
          /\ fault = "none"
          /\ Len(stack) <= MaxDepth
          /\ Locked => Allowed("lockedCalls")

At(k) == Top.kind = k /\ fault = "none"

(* The thread handle is known to user code, which was not told that it is  *)
(* gone: its last callback has not begun, and no cancel returned TRUE.     *)
Usable(j) == /\ job[j].mem = "live"
             /\ ghost[j].final = <<>>
             /\ ~ghost[j].told
             /\ \A i \in DOMAIN stack : ~(stack[i].kind \in RunFrames /\ stack[i].on = j)

SelfLock == fault' = "selfLock" /\ UNCHANGED <<job, ghost, pend, pool, calls, thread, stack, waits>>

-----------------------------------------------------------------------------
(* func_end or func_cancel of job j, with frames `base' below: the user's  *)
(* function, or the wrapper that ecore_thread_wait() put in its place.     *)

Outcome(j) == IF job[j].cancel THEN "cancel" ELSE "end"

Report(j, how) == ghost' = [ghost EXCEPT ![j].final = Append(@, how)]

CallFinal(j, how, base) ==
  LET i == job[j].waiter
      IsWrapped == job[j].func = "wrap"
  IN \/ /\ ~IsWrapped
        /\ Report(j, how)
        /\ stack' = Append(base, User)
        /\ UNCHANGED fault
     \/ /\ IsWrapped /\ i # 0 /\ stack[i].func = "user"
        /\ Report(j, how)
        /\ stack' = base \o <<[Frame("wrap", j) EXCEPT !.waiter = i], User>>
        /\ UNCHANGED fault
     \/ /\ IsWrapped /\ ~(i # 0 /\ stack[i].func = "user")
        /\ fault' = IF i = 0 THEN "nullWaiter" ELSE "recursion"
        /\ UNCHANGED <<ghost, stack>>

(* _ecore_thread_kill: the callback, then (frame kill) the memory.         *)
Kill(j, base) == CallFinal(j, Outcome(j), Append(base, Frame("kill", j)))

Freed(j) == job' = [job EXCEPT ![j].mem = "freed"]

-----------------------------------------------------------------------------
(* Submitting a job.                                                       *)

Born(j) == [job EXCEPT ![j] = [NewJob EXCEPT !.mem = "live"]]

Enqueued(j) ==
  IF j \in Short
  THEN pendShort' = Append(pendShort, j) /\ UNCHANGED pendFeedback
  ELSE pendFeedback' = Append(pendFeedback, j) /\ UNCHANGED pendShort

(* Queue the job; with the pool at its limit that is all, otherwise unlock *)
(* (frame `next') before a thread is started for it.                       *)
QueueJob(j, base, next) ==
  /\ Enqueued(j)
  /\ stack' = IF count = max THEN base ELSE Append(base, Frame(next, j))

Run(j) ==
  /\ InUser /\ j \in Short \cup Feedback
  /\ job[j].mem = "unborn"
  /\ ~Locked
  /\ job' = Born(j)
  /\ QueueJob(j, stack, "relock")
  /\ UNCHANGED <<ghost, pool, calls, thread, waits, fault>>

RunSelfLock(j) ==
  /\ InUser /\ j \in Short \cup Feedback
  /\ job[j].mem = "unborn"
  /\ Locked
  /\ SelfLock

StartPool(t) ==
  /\ thread[t].pc = "none"
  /\ thread' = [thread EXCEPT ![t].pc = "short"]
  /\ count' = count + 1
  /\ UNCHANGED <<running, noQueue, max>>

Create(t) ==
  /\ (At("relock") \/ At("relockTried") \/ At("retry"))
  /\ StartPool(t)
  /\ Pop
  /\ UNCHANGED <<job, ghost, pend, calls, waits, fault>>

(* Refused once: flush, with the lock held, and try again.                 *)
CreateFails ==
  /\ At("relock") /\ Allowed("createFails")
  /\ stack' = Below \o <<[Top EXCEPT !.kind = "retry"], Flush>>
  /\ calls' = <<>>
  /\ UNCHANGED <<job, ghost, pend, pool, thread, waits, fault>>

Dropped(j) == /\ pendShort' = RemoveFirst(pendShort, j)
              /\ pendFeedback' = RemoveFirst(pendFeedback, j)

(* A mutant of GiveUp: the job stays in its list.                          *)
GiveUpKeeps(j) ==
  IF count = 0
  THEN /\ Report(j, "cancel")
       /\ stack' = Below \o <<Frame("failed", j), User>>
       /\ UNCHANGED pend
  ELSE Pop /\ UNCHANGED <<pend, ghost>>

(* Refused for good, and no thread of the pool left to take the job: it is *)
(* taken back, and func_cancel called, all with the lock held.             *)
GiveUp(j) ==
  IF count = 0
  THEN /\ Dropped(j)
       /\ Report(j, "cancel")
       /\ stack' = Below \o <<Frame("failed", j), User>>
  ELSE /\ Pop
       /\ UNCHANGED <<pend, ghost>>

RetryFails ==
  /\ At("retry") /\ Allowed("createFails")
  /\ Top.on \in Short
  /\ GiveUp(Top.on)
  /\ UNCHANGED <<job, pool, calls, thread, waits, fault>>

(* ecore_thread_feedback_run() unlocks and locks again before it gives up. *)
RetryFailsFeedback ==
  /\ ((At("retry") /\ Top.on \in Feedback) \/ At("relockTried"))
  /\ Allowed("createFails")
  /\ Become("onError")
  /\ UNCHANGED <<job, ghost, pend, pool, calls, thread, waits, fault>>

OnError ==
  /\ At("onError")
  /\ GiveUp(Top.on)
  /\ UNCHANGED <<job, pool, calls, thread, waits, fault>>

Failed ==
  /\ At("failed")
  /\ Freed(Top.on)
  /\ Pop
  /\ UNCHANGED <<ghost, pend, pool, calls, thread, waits, fault>>

-----------------------------------------------------------------------------
(* ecore_thread_feedback_run() with try_no_queue.                          *)

RunDirect(j) ==
  /\ InUser /\ j \in Direct
  /\ job[j].mem = "unborn"
  /\ job' = Born(j)
  /\ Push(Frame("direct", j))
  /\ UNCHANGED <<ghost, pend, pool, calls, thread, waits, fault>>

CreateDirect(t) ==
  /\ At("direct") \/ At("directRetry")
  /\ thread[t].pc = "none"
  /\ thread' = [thread EXCEPT ![t].pc = "direct", ![t].own = TRUE,
                                    ![t].work = Top.on]
  /\ Become("counted")
  /\ UNCHANGED <<job, ghost, pend, pool, calls, waits, fault>>

(* The thread, which may be over by now, is counted after it was created.  *)
CountDirect ==
  /\ At("counted") /\ ~Locked
  /\ noQueue' = noQueue + 1
  /\ Pop
  /\ UNCHANGED <<job, ghost, pend, running, count, max, calls, thread, waits, fault>>

CreateDirectFails ==
  /\ At("direct") /\ Allowed("createFails")
  /\ stack' = Below \o <<[Top EXCEPT !.kind = "directRetry"], Flush>>
  /\ calls' = <<>>
  /\ UNCHANGED <<job, ghost, pend, pool, thread, waits, fault>>

(* ... then the job goes to the pool, without a second flush.              *)
RetryDirectFails ==
  /\ At("directRetry") /\ Allowed("createFails") /\ ~Locked
  /\ QueueJob(Top.on, Below, "relockTried")
  /\ UNCHANGED <<job, ghost, pool, calls, thread, waits, fault>>

DirectSelfLock ==
  /\ At("counted") \/ (At("directRetry") /\ Allowed("createFails"))
  /\ Locked
  /\ SelfLock

-----------------------------------------------------------------------------
(* ecore_thread_cancel() and ecore_thread_wait() in the main loop.         *)

Owing(j) == job[j].send # job[j].received

(* The search of the pending lists is skipped: have_main_loop_thread is    *)
(* set by get_main_loop_thread() alone, which is called after a test of    *)
(* have_main_loop_thread alone.  A job asked to stop keeps its place.      *)
CancelTakesLock(j) == j \in Short \/ ~Owing(j)

AskThread(j) == IF job[j].self = None THEN UNCHANGED thread
                ELSE thread' = [thread EXCEPT ![job[j].self].asked = TRUE]

Cancel(j) ==
  /\ InUser /\ Usable(j)
  /\ ~job[j].cancel /\ ~job[j].kill
  /\ ~(CancelTakesLock(j) /\ Locked)
  /\ AskThread(j)
  /\ Push(Frame("mark", j))
  /\ UNCHANGED <<job, ghost, pend, pool, calls, waits, fault>>

CancelSelfLock(j) ==
  /\ InUser /\ Usable(j)
  /\ ~job[j].cancel /\ ~job[j].kill
  /\ CancelTakesLock(j) /\ Locked
  /\ SelfLock

CancelMark ==
  /\ At("mark")
  /\ job' = [job EXCEPT ![Top.on].cancel = TRUE]
  /\ Pop
  /\ UNCHANGED <<ghost, pend, pool, calls, thread, waits, fault>>

(* The job is over and only its messages keep it: nothing is done, and the *)
(* caller is told that it is gone.                                         *)
CancelKilled(j) ==
  /\ InUser /\ Usable(j)
  /\ ~job[j].cancel /\ job[j].kill
  /\ ghost' = [ghost EXCEPT ![j].told = TRUE]
  /\ UNCHANGED <<job, pend, pool, calls, thread, main>>

InFrame(k, j) == \E i \in DOMAIN stack : stack[i].kind \in k /\ stack[i].on = j

(* Mutant of Wait: waiter.waiting is not set.                              *)
WaitUnset(j) ==
  /\ InUser /\ Usable(j)
  /\ waits < MaxWaits
  /\ (\E i \in DOMAIN stack : stack[i].kind = "notify") => Allowed("waitInNotify")
  /\ InFrame({"wait", "waited"}, j) => Allowed("waitTwice")
  /\ job' = [job EXCEPT ![j].func = "wrap", ![j].waiter = Len(stack) + 1]
  /\ Push([Frame("wait", j) EXCEPT !.func = job[j].func])
  /\ waits' = waits + 1
  /\ UNCHANGED <<ghost, pend, pool, calls, thread, fault>>

(* The caller's functions are moved to the waiter, on the stack.           *)
Wait(j) ==
  /\ InUser /\ Usable(j)
  /\ waits < MaxWaits
  /\ (\E i \in DOMAIN stack : stack[i].kind = "notify") => Allowed("waitInNotify")
  /\ InFrame({"wait", "waited"}, j) => Allowed("waitTwice")
  /\ job' = [job EXCEPT ![j].func = "wrap", ![j].waiter = Len(stack) + 1]
  /\ Push([Frame("wait", j) EXCEPT !.func = job[j].func, !.waiting = TRUE])
  /\ waits' = waits + 1
  /\ UNCHANGED <<ghost, pend, pool, calls, thread, fault>>

WaitFlush ==
  /\ At("wait")
  /\ stack' = Below \o <<[Top EXCEPT !.kind = "waited"], Flush>>
  /\ calls' = <<>>
  /\ UNCHANGED <<job, ghost, pend, pool, thread, waits, fault>>

(* Time is left: once more, for what was posted meanwhile.                 *)
WaitAgain ==
  /\ At("waited") /\ Top.waiting
  /\ calls # <<>>
  /\ Become("wait")
  /\ UNCHANGED <<job, ghost, pend, pool, calls, thread, waits, fault>>

WaitOver ==
  /\ At("waited") /\ ~Top.waiting
  /\ Pop
  /\ UNCHANGED <<job, ghost, pend, pool, calls, thread, waits, fault>>

Unwrap(j, func) == job' = [job EXCEPT ![j].func = func, ![j].waiter = 0]

(* Mutant of WaitTimeout: the wait is left without a reset of the job.     *)
WaitTimeoutNoReset ==
  /\ At("waited") /\ Top.waiting
  /\ Pop
  /\ UNCHANGED <<job, ghost, pend, pool, calls, thread, waits, fault>>

WaitTimeout ==
  /\ At("waited") /\ Top.waiting
  /\ Unwrap(Top.on, Top.func)
  /\ Pop
  /\ UNCHANGED <<ghost, pend, pool, calls, thread, waits, fault>>

(* _ecore_thread_wait_end, _ecore_thread_wait_cancel after the callback.   *)
WrapDone ==
  /\ At("wrap")
  /\ LET i == Top.waiter
     IN /\ Unwrap(Top.on, stack[i].func)
        /\ stack' = [Below EXCEPT ![i].waiting = FALSE]
  /\ UNCHANGED <<ghost, pend, pool, calls, thread, waits, fault>>

MaxSet(n) ==
  /\ InUser
  /\ Allowed(IF n > max THEN "raiseMax" ELSE "lowerMax")
  /\ max' = n
  /\ UNCHANGED <<job, ghost, pend, running, count, noQueue, calls, thread, main>>

(* A callback returns; the bottom activation is the application itself.    *)
Return ==
  /\ At("user") /\ Len(stack) > 1
  /\ Pop
  /\ UNCHANGED <<job, ghost, pend, pool, calls, thread, waits, fault>>

-----------------------------------------------------------------------------
(* Safe calls executed by the main loop.                                   *)

LoopFlush ==
  /\ At("user") /\ Len(stack) = 1
  /\ calls # <<>>
  /\ Push(Flush)
  /\ calls' = <<>>
  /\ UNCHANGED <<job, ghost, pend, pool, thread, waits, fault>>

FlushEnd ==
  /\ At("flush") /\ Top.todo = <<>>
  /\ Pop
  /\ UNCHANGED <<job, ghost, pend, pool, calls, thread, waits, fault>>

(* Mutant of Rest: the flush ends after its first call.                    *)
RestDropped == Append(Below, [Top EXCEPT !.todo = <<>>])

Rest == Append(Below, [Top EXCEPT !.todo = Tail(@)])

NextCall(op, x) == /\ At("flush") /\ Top.todo # <<>>
                   /\ Head(Top.todo) = [op |-> op, on |-> x]

(* _ecore_thread_join: waits for the thread, which has nothing left to do. *)
Join(t) ==
  /\ NextCall("join", t)
  /\ thread[t].pc = "over"
  /\ thread' = [thread EXCEPT ![t].pc = "joined"]
  /\ stack' = Rest
  /\ UNCHANGED <<job, ghost, pend, pool, calls, waits, fault>>

(* Mutants of HandlerKeeps, without its return, and of HandlerKills,       *)
(* without the test of the messages.                                       *)
HandlerKeepsAndKills(j) ==
  /\ NextCall("handler", j)
  /\ j \notin Short /\ Owing(j)
  /\ job' = [job EXCEPT ![j].kill = TRUE]
  /\ Kill(j, Rest)
  /\ UNCHANGED <<pend, pool, calls, thread, waits>>

HandlerKillsOwing(j) ==
  /\ NextCall("handler", j)
  /\ Kill(j, Rest)
  /\ UNCHANGED <<job, pend, pool, calls, thread, waits>>

(* _ecore_thread_handler.                                                  *)
HandlerKeeps(j) ==
  /\ NextCall("handler", j)
  /\ j \notin Short /\ Owing(j)
  /\ job' = [job EXCEPT ![j].kill = TRUE]
  /\ stack' = Rest
  /\ UNCHANGED <<ghost, pend, pool, calls, thread, waits, fault>>

HandlerKills(j) ==
  /\ NextCall("handler", j)
  /\ j \in Short \/ ~Owing(j)
  /\ Kill(j, Rest)
  /\ UNCHANGED <<job, pend, pool, calls, thread, waits>>

(* _ecore_notify_handler: func_notify, then (frame notify) a look whether  *)
(* the job waited for this message only.                                   *)
Notify(j) ==
  /\ NextCall("notify", j)
  /\ job' = [job EXCEPT ![j].received = @ + 1]
  /\ stack' = Rest \o <<Frame("notify", j), User>>
  /\ UNCHANGED <<ghost, pend, pool, calls, thread, waits, fault>>

NotifyDone ==
  /\ At("notify")
  /\ ~(job[Top.on].kill /\ ~Owing(Top.on))
  /\ Pop
  /\ UNCHANGED <<job, ghost, pend, pool, calls, thread, waits, fault>>

(* Mutant of NotifyKills: the job is used once more after it was ended.    *)
NotifyKillsFirst ==
  /\ At("notify")
  /\ job[Top.on].kill /\ ~Owing(Top.on)
  /\ Kill(Top.on, stack)
  /\ UNCHANGED <<job, pend, pool, calls, thread, waits>>

NotifyKills ==
  /\ At("notify")
  /\ job[Top.on].kill /\ ~Owing(Top.on)
  /\ Kill(Top.on, Below)
  /\ UNCHANGED <<job, pend, pool, calls, thread, waits>>

KillDone ==
  /\ At("kill")
  /\ Freed(Top.on)
  /\ Pop
  /\ UNCHANGED <<ghost, pend, pool, calls, thread, waits, fault>>

-----------------------------------------------------------------------------
(* A pool thread: _ecore_thread_worker.                                    *)

In(t, p) == thread[t].pc = p
Goes(t, p) == thread' = [thread EXCEPT ![t].pc = p]
Work(t) == thread[t].work

Take(t, j) == thread' = [thread EXCEPT ![t].pc = "taken", ![t].work = j]

(* _ecore_short_job.                                                       *)
PickShort(t) ==
  /\ In(t, "short") /\ ~Locked
  /\ IF pendShort = <<>>
     THEN Goes(t, "feedback") /\ UNCHANGED pendShort
     ELSE Take(t, Head(pendShort)) /\ pendShort' = Tail(pendShort)
  /\ UNCHANGED <<job, ghost, pendFeedback, pool, calls, main>>

(* _ecore_feedback_job.                                                    *)
PickFeedback(t) ==
  /\ In(t, "feedback") /\ ~Locked
  /\ IF pendFeedback = <<>>
     THEN Goes(t, "test") /\ UNCHANGED pendFeedback
     ELSE Take(t, Head(pendFeedback)) /\ pendFeedback' = Tail(pendFeedback)
  /\ UNCHANGED <<job, ghost, pendShort, pool, calls, main>>

MarkRunning(t) ==
  /\ In(t, "taken")
  /\ running' = running \cup {Work(t)}
  /\ Goes(t, "start")
  /\ UNCHANGED <<job, ghost, pend, count, noQueue, max, calls, main>>

Enter(t) ==
  /\ Goes(t, "body")
  /\ ghost' = [ghost EXCEPT ![Work(t)].runs = @ + 1]

(* Mutant of Start: cancel is not looked at.                               *)
StartRegardless(t) ==
  /\ In(t, "start")
  /\ job' = [job EXCEPT ![Work(t)].self = t]
  /\ Enter(t)
  /\ UNCHANGED <<pend, pool, calls, main>>

Start(t) ==
  /\ In(t, "start")
  /\ job' = [job EXCEPT ![Work(t)].self = t]
  /\ IF job[Work(t)].cancel
     THEN Goes(t, "cleanup") /\ UNCHANGED ghost
     ELSE Enter(t)
  /\ UNCHANGED <<pend, pool, calls, main>>

(* What func_blocking or func_heavy may do.                                *)
Send(t) ==
  /\ In(t, "body") /\ Work(t) \notin Short
  /\ job[Work(t)].send < MaxSend
  /\ job' = [job EXCEPT ![Work(t)].send = @ + 1]
  /\ calls' = Append(calls, [op |-> "notify", on |-> Work(t)])
  /\ UNCHANGED <<ghost, pend, pool, thread, main>>

Reschedule(t) ==
  /\ In(t, "body")
  /\ Work(t) \in Repeats /\ ghost[Work(t)].runs < MaxRuns
  /\ ~job[Work(t)].reschedule
  /\ job' = [job EXCEPT ![Work(t)].reschedule = TRUE]
  /\ UNCHANGED <<ghost, pend, pool, calls, thread, main>>

CancelSelf(t) ==
  /\ In(t, "body") /\ ~job[Work(t)].cancel
  /\ CancelTakesLock(Work(t)) => ~Locked
  /\ job' = [job EXCEPT ![Work(t)].cancel = TRUE]
  /\ thread' = [thread EXCEPT ![t].asked = TRUE]
  /\ UNCHANGED <<ghost, pend, pool, calls, main>>

Cleanup(t) == IF thread[t].own THEN "directEnd" ELSE "cleanup"

Finish(t) ==
  /\ In(t, "body")
  /\ Goes(t, Cleanup(t))
  /\ UNCHANGED <<job, ghost, pend, pool, calls, main>>

(* Mutant of Cut: the cleanup of the worker is not pushed.                 *)
CutUncounted(t) ==
  /\ In(t, "body") /\ thread[t].asked
  /\ Allowed("cancellable")
  /\ ghost' = [ghost EXCEPT ![Work(t)].cut = TRUE]
  /\ thread' = [thread EXCEPT ![t].pc = "over", ![t].work = None]
  /\ calls' = Append(calls, [op |-> "handler", on |-> Work(t)])
  /\ UNCHANGED <<job, pend, pool, main>>

(* A cancellation point of a function that enabled cancellation: the       *)
(* thread unwinds through the cleanups of the job and of the worker.       *)
Cut(t) ==
  /\ In(t, "body") /\ thread[t].asked
  /\ Allowed("cancellable")
  /\ ghost' = [ghost EXCEPT ![Work(t)].cut = TRUE]
  /\ thread' = [thread EXCEPT ![t].pc = Cleanup(t), ![t].dying = TRUE]
  /\ UNCHANGED <<job, pend, pool, calls, main>>

(* _ecore_short_job_cleanup, _ecore_feedback_job_cleanup.                  *)
LeaveRunning(t) ==
  /\ In(t, "cleanup")
  /\ running' = running \ {Work(t)}
  /\ Goes(t, "requeue")
  /\ UNCHANGED <<job, ghost, pend, count, noQueue, max, calls, main>>

NextPlace(t) == IF thread[t].dying THEN "leave"
                ELSE IF Work(t) \in Short THEN "feedback" ELSE "test"

Released(t) == thread' = [thread EXCEPT ![t].pc = NextPlace(t), ![t].work = None]

Requeue(t) ==
  /\ In(t, "requeue") /\ job[Work(t)].reschedule
  /\ ~Locked
  /\ job' = [job EXCEPT ![Work(t)].reschedule = FALSE]
  /\ Enqueued(Work(t))
  /\ Released(t)
  /\ UNCHANGED <<ghost, pool, calls, main>>

Handler(j) == [op |-> "handler", on |-> j]

PostHandler(t) ==
  /\ In(t, "requeue") /\ ~job[Work(t)].reschedule
  /\ calls' = Append(calls, Handler(Work(t)))
  /\ Released(t)
  /\ UNCHANGED <<job, ghost, pend, pool, main>>

NothingPending == pendShort = <<>> /\ pendFeedback = <<>>

Test(t, p, idle) ==
  /\ In(t, p) /\ ~Locked
  /\ Goes(t, IF NothingPending THEN idle ELSE "short")
  /\ UNCHANGED <<job, ghost, pend, pool, calls, main>>

(* Found nothing, sleeps a little and looks again.                         *)
TestOnce(t)  == Test(t, "test", "sleep")
TestTwice(t) == Test(t, "sleep", "leave")

PostJoin(t, c) == calls' = c \o <<[op |-> "join", on |-> t]>>

(* _ecore_thread_worker_cleanup.                                           *)
Leave(t) ==
  /\ In(t, "leave") /\ ~Locked
  /\ count' = count - 1
  /\ PostJoin(t, calls)
  /\ Goes(t, "over")
  /\ UNCHANGED <<job, ghost, pend, running, noQueue, max, main>>

(* _ecore_direct_worker, _ecore_direct_worker_cleanup: cancel and          *)
(* reschedule are not looked at.                                           *)
StartDirect(t) ==
  /\ In(t, "direct")
  /\ job' = [job EXCEPT ![Work(t)].self = t]
  /\ Enter(t)
  /\ UNCHANGED <<pend, pool, calls, main>>

LeaveDirect(t) ==
  /\ In(t, "directEnd") /\ ~Locked
  /\ noQueue' = noQueue - 1
  /\ PostJoin(t, Append(calls, Handler(Work(t))))
  /\ thread' = [thread EXCEPT ![t].pc = "over", ![t].work = None]
  /\ UNCHANGED <<job, ghost, pend, running, count, max, main>>

-----------------------------------------------------------------------------
UserStep ==
  \/ \E j \in Jobs : \/ Run(j) \/ RunSelfLock(j) \/ RunDirect(j)
                     \/ Cancel(j) \/ CancelSelfLock(j) \/ CancelKilled(j) \/ Wait(j)
  \/ \E n \in 1 .. MaxLimit : MaxSet(n)

(* What the main loop's thread does once it is asked: user code takes no   *)
(* part in it but for returning from its callbacks.                        *)
MainStep ==
  \/ \E t \in Threads : Create(t) \/ CreateDirect(t) \/ Join(t)
  \/ CreateFails \/ RetryFails \/ RetryFailsFeedback \/ OnError \/ Failed
  \/ CountDirect \/ CreateDirectFails \/ RetryDirectFails \/ DirectSelfLock
  \/ CancelMark
  \/ WaitFlush \/ WaitAgain \/ WaitOver \/ WaitTimeout \/ WrapDone
  \/ Return \/ LoopFlush \/ FlushEnd
  \/ \E j \in Jobs : HandlerKeeps(j) \/ HandlerKills(j) \/ Notify(j)
  \/ NotifyDone \/ NotifyKills \/ KillDone

(* Steps of a thread that do not depend on what the job's function wants.  *)
ThreadStep(t) ==
  \/ PickShort(t) \/ PickFeedback(t) \/ MarkRunning(t) \/ Start(t) \/ Finish(t)
  \/ LeaveRunning(t) \/ Requeue(t) \/ PostHandler(t) \/ TestOnce(t) \/ TestTwice(t)
  \/ Leave(t) \/ StartDirect(t) \/ LeaveDirect(t)

FunctionStep(t) == Send(t) \/ Reschedule(t) \/ CancelSelf(t) \/ Cut(t)

Next == \/ UserStep \/ MainStep
        \/ \E t \in Threads : ThreadStep(t) \/ FunctionStep(t)

(* Threads are scheduled, functions and callbacks return, the loop runs.   *)
Fairness == WF_vars(MainStep) /\ \A t \in Threads : WF_vars(ThreadStep(t))

SafetySpec == Init /\ [][Next]_vars
Spec == SafetySpec /\ Fairness

-----------------------------------------------------------------------------
(* Properties.                                                             *)

JobRecord == [mem : {"unborn", "live", "freed"}, cancel : BOOLEAN, kill : BOOLEAN,
              reschedule : BOOLEAN, send : 0 .. MaxSend, received : 0 .. MaxSend,
              self : Threads \cup {None}, func : Funcs, waiter : Nat]
GhostRecord == [runs : Nat, final : Seq({"end", "cancel"}), told : BOOLEAN,
                cut : BOOLEAN]
ThreadRecord == [pc : {"none", "short", "feedback", "taken", "start", "body", "cleanup",
                       "requeue", "test", "sleep", "leave", "direct", "directEnd",
                       "over", "joined"},
                 work : Jobs \cup {None}, own : BOOLEAN, asked : BOOLEAN, dying : BOOLEAN]
FrameRecord == [kind : FrameKinds, on : Jobs \cup {None}, todo : Seq(Call), func : Funcs,
                waiting : BOOLEAN, waiter : Nat]

(* Every variable has its type; in particular no job counts more messages  *)
(* received than it may send, and runs no more often than it asked to.     *)
TypeOK ==
  /\ job \in [Jobs -> JobRecord]
  /\ ghost \in [Jobs -> GhostRecord]
  /\ pendShort \in Seq(Short) /\ pendFeedback \in Seq(Feedback \cup Direct)
  /\ running \subseteq Jobs
  /\ count \in Nat /\ noQueue \in Int /\ max \in 1 .. MaxStart \cup 1 .. MaxLimit
  /\ calls \in Seq(Call)
  /\ thread \in [Threads -> ThreadRecord]
  /\ stack \in Seq(FrameRecord) /\ stack # <<>>
  /\ waits \in 0 .. MaxWaits
  /\ fault \in {"none", "selfLock", "nullWaiter", "recursion"}

FramesOf(kinds, j) == {i \in DOMAIN stack : stack[i].kind \in kinds /\ stack[i].on = j}

(* The safe calls posted and not yet executed, in the queue or in a flush. *)
Posted(op, j) ==
  LET x == [op |-> op, on |-> j]
  IN \/ \E k \in DOMAIN calls : calls[k] = x
     \/ \E i \in DOMAIN stack : \E k \in DOMAIN stack[i].todo : stack[i].todo[k] = x

Positions(s, x) == {k \in DOMAIN s : s[k] = x}

(* Where a job can be, and at which positions there it is.                 *)
Places == {"short", "feedback", "thread", "call", "flush", "activation", "messages"}

PlacesIn(place, j) ==
  CASE place = "short"      -> Positions(pendShort, j)
    [] place = "feedback"   -> Positions(pendFeedback, j)
    [] place = "thread"     -> {t \in Threads : Work(t) = j}
    [] place = "call"       -> Positions(calls, Handler(j))
    [] place = "flush"      -> UNION {{i} \X Positions(stack[i].todo, Handler(j)) : i \in DOMAIN stack}
    [] place = "activation" -> FramesOf({"kill", "failed", "direct", "directRetry"}, j)
    [] place = "messages"   -> {i \in {0} : job[j].kill /\ FramesOf({"kill"}, j) = {}}

(* A job that was submitted is in exactly one place - a waiting list, a    *)
(* thread, a safe call on its way, its last messages, or the activation    *)
(* that starts or ends it - so it is neither forgotten nor run or ended    *)
(* twice.  The lists, the threads and the queue of calls have three        *)
(* different locks.                                                        *)
OnePlace ==
  \A j \in Jobs : job[j].mem = "live" =>
    \E place \in Places :
      /\ \E p \in PlacesIn(place, j) : PlacesIn(place, j) = {p}
      /\ \A other \in Places \ {place} : PlacesIn(other, j) = {}

(* Nothing that will still be dereferenced names a job that was freed: no  *)
(* list, thread, safe call or suspended activation of the main loop.       *)
NoDangling ==
  \A j \in Jobs : job[j].mem = "freed" =>
    /\ j \notin ToSet(pendShort) \cup ToSet(pendFeedback) \cup running
    /\ \A t \in Threads : Work(t) # j
    /\ ~Posted("handler", j) /\ ~Posted("notify", j)
    /\ FramesOf({"notify", "kill", "wrap", "mark", "failed"}, j) = {}
    /\ \A i \in FramesOf({"wait", "waited"}, j) : ~stack[i].waiting

(* The user hears of the end of a job exactly once before it is freed, and *)
(* not as long as the job asked to run again: after                        *)
(* ecore_thread_reschedule() "the func_end callback will not be called     *)
(* until the function in the thread returns without being rescheduled".    *)
FinalOnce ==
  \A j \in Jobs : /\ Len(ghost[j].final) <= 1
                  /\ job[j].mem = "freed" => Len(ghost[j].final) = 1
                  /\ ghost[j].final # <<>> => ~job[j].reschedule

(* "Force reading all notify event before killing the thread": the last    *)
(* callback comes after every func_notify, also when a nested flush runs   *)
(* the end of the job before messages an outer flush has yet to deliver.   *)
MessagesFirst ==
  \A j \in Jobs : ghost[j].final # <<>> =>
    /\ ~Owing(j)
    /\ ~Posted("notify", j) /\ FramesOf({"notify"}, j) = {}

Alive(t) == thread[t].pc \notin {"none", "over", "joined"}

(* The two counters, kept by the main loop when it starts threads and by   *)
(* the threads when they leave, are the numbers of threads alive; a thread *)
(* of its own is counted a little later, so the counter may lag behind.    *)
(* The "maximum number of threads that can run simultaneously" is kept,    *)
(* although its test and the creation are in two critical sections.        *)
CountRight ==
  /\ count <= max
  /\ count = Cardinality({t \in Threads : Alive(t) /\ ~thread[t].own})
  /\ noQueue = Cardinality({t \in Threads : Alive(t) /\ thread[t].own})
               - Cardinality({i \in DOMAIN stack : stack[i].kind = "counted"})

(* A function is only cut short at a cancellation point if its own job was *)
(* cancelled: func_end is called when the function "completes its task     *)
(* successfully".  The code breaks it: no run states it.                   *)
CutOnlyCancelled ==
  \A j \in Jobs : ghost[j].cut => job[j].cancel \/ InFrame({"mark"}, j)

(* The pointer a job keeps to a waiter on the stack of ecore_thread_wait() *)
(* is never left behind by that call.                                      *)
WaiterOnStack ==
  \A j \in Jobs : job[j].mem = "live" /\ job[j].waiter # 0 =>
    LET i == job[j].waiter
    IN i \in DOMAIN stack /\ stack[i].kind \in {"wait", "waited"} /\ stack[i].on = j

(* ecore_thread_wait() returns EINA_TRUE only "if the thread execution is  *)
(* over": the job had its last callback and is gone.                       *)
WaitMeansOver ==
  \A i \in DOMAIN stack :
    stack[i].kind = "waited" /\ ~stack[i].waiting /\ i = Len(stack)
      => job[stack[i].on].mem = "freed"

(* The jobs as module JobService sees them.                                *)
Phase(j) ==
  CASE job[j].mem = "unborn"                                   -> "new"
    [] ghost[j].final # <<>>                                   -> IF Last(ghost[j].final) = "end"
                                                                  THEN "ended" ELSE "cancelled"
    [] ghost[j].final = <<>> /\ \E t \in Threads : Work(t) = j -> "held"
    [] OTHER -> IF Posted("handler", j) \/ job[j].kill THEN "over"
                ELSE IF job[j].mem = "live" THEN "waiting" ELSE "new"

Service == INSTANCE JobService WITH
  Own      <- Direct,
  phase    <- [j \in Jobs |-> Phase(j)],
  stop     <- [j \in Jobs |-> job[j].cancel],
  runs     <- [j \in Jobs |-> ghost[j].runs],
  sent     <- [j \in Jobs |-> job[j].send],
  received <- [j \in Jobs |-> job[j].received]

(* The pool implements the abstract service: every step of a thread, of    *)
(* the main loop or of user code is one step of the service, or none.      *)
ServiceSpec == Service!Spec

(* Every submitted job comes to its end: no job waits for ever for a       *)
(* thread, or its end for messages.                                        *)
EveryJobEnds == \A j \in Jobs : (job[j].mem = "live") ~> (job[j].mem = "freed")

-----------------------------------------------------------------------------
(* Statements of comments and documentation that hold only as long as      *)
(* certain liberties are not taken, or not at all (README, Disagreements). *)

(* The main loop's thread never waits for a lock it holds itself.          *)
NoSelfLock == fault # "selfLock"

(* The functions ecore_thread_wait() puts in a job work when they are run. *)
WrappersWork == fault \notin {"nullWaiter", "recursion"}

(* ecore_thread_cancel(): "thread will be freed and should not be used     *)
(* again if this function returns EINA_TRUE".                              *)
CancelTrueMeansGone == \A j \in Jobs : ghost[j].told => job[j].mem = "freed"

(* "If thread can be immediately cancelled (it's still pending execution   *)
(* after creation or rescheduling), then the cancel callback will be       *)
(* called": a job that is pending when it is cancelled leaves its list.    *)
IsPending(j) == j \in ToSet(pendShort) \cup ToSet(pendFeedback)
CancelPending ==
  [][\A j \in Jobs : At("mark") /\ Top.on = j /\ job'[j].cancel /\ ~job[j].cancel
                      => ~IsPending(j)]_vars
=============================================================================
