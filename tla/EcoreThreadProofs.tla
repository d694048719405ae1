-------------------------- MODULE EcoreThreadProofs --------------------------
(***************************************************************************)
(* Proofs about EcoreThread for every number of jobs and threads: the      *)
(* counters of threads, and the pointer from a job to the waiter that      *)
(* ecore_thread_wait() keeps on its stack.                                 *)
(***************************************************************************)
EXTENDS EcoreThread, SequenceTheorems, FiniteSetTheorems, WellFoundedInduction, TLAPS

-----------------------------------------------------------------------------
(* Stacks.  A thread of the pool is being created by at most one activation*)
(* (the creators); one that has not tried it yet, or will not flush again, *)
(* is on top.                                                              *)
Relocks  == {"relock", "relockTried"}
Creators == Relocks \cup {"retry"}
Waits    == {"wait", "waited"}

Fits(s, f) ==
  /\ f \in FrameRecord
  /\ f.kind \notin {"user", "flush"} => f.on \in Jobs
  /\ f.kind = "wrap" => f.waiter \in 1 .. Len(s) /\ s[f.waiter].on = f.on

Idle(s)    == \A i \in 1 .. Len(s) : s[i].kind \notin Creators
Relocked(s) == \E i \in 1 .. Len(s) : s[i].kind \in Relocks

Good(s) ==
  /\ s \in Seq(FrameRecord)
  /\ 1 \in 1 .. Len(s) /\ s[1].kind = "user"
  /\ \A i \in 1 .. Len(s) :
       /\ s[i].kind \notin {"user", "flush"} => s[i].on \in Jobs
       /\ s[i].kind = "wrap" => s[i].waiter \in 1 .. i - 1 /\ s[s[i].waiter].on = s[i].on
       /\ s[i].kind \in Relocks => i = Len(s)
  /\ \A i, k \in 1 .. Len(s) : s[i].kind \in Creators /\ s[k].kind \in Creators => i = k

Settled(s) == Good(s) /\ ~Relocked(s)

CountedIn(s) == {i \in DOMAIN s : s[i].kind = "counted"}

Waiting(s, j, i) == i \in 1 .. Len(s) /\ s[i].kind \in Waits /\ s[i].on = j /\ s[i].waiting

(* What hardly any step of the main loop's thread disturbs.                *)
Keeps(s, u) ==
  /\ Idle(s) => Idle(u)
  /\ CountedIn(u) = CountedIn(s)
  /\ \A j \in Jobs, i \in Nat : Waiting(s, j, i) => Waiting(u, j, i)

LEMMA KeepsChain ==
  ASSUME NEW s, NEW u, NEW v, Keeps(s, u), Keeps(u, v) PROVE Keeps(s, v)
BY DEF Keeps

LEMMA KeepsAll ==
  ASSUME NEW s PROVE Keeps(s, s)
BY DEF Keeps

(* One more activation.                                                    *)
LEMMA PushAny ==
  ASSUME NEW s, Settled(s), NEW f, Fits(s, f), f.kind \in Creators => Idle(s)
  PROVE  /\ Good(Append(s, f))
         /\ f.kind \notin Relocks => Settled(Append(s, f))
         /\ \A j \in Jobs, i \in Nat : Waiting(s, j, i) => Waiting(Append(s, f), j, i)
         /\ CountedIn(Append(s, f)) = IF f.kind = "counted" THEN CountedIn(s) \cup {Len(s) + 1}
                                      ELSE CountedIn(s)
         /\ Idle(s) /\ f.kind \notin Creators => Idle(Append(s, f))
<1> DEFINE u == Append(s, f)
<1>1. /\ u \in Seq(FrameRecord) /\ Len(s) \in Nat /\ Len(u) = Len(s) + 1
      /\ \A i \in 1 .. Len(s) : u[i] = s[i]
      /\ u[Len(s) + 1] = f
      /\ DOMAIN s = 1 .. Len(s) /\ DOMAIN u = 1 .. Len(s) + 1
      /\ 1 \in 1 .. Len(u) /\ u[1].kind = "user"
  BY DEF Settled, Good, Fits
<1> HIDE DEF u
<1>2. /\ \A i \in 1 .. Len(s) : s[i].kind \notin Relocks
      /\ \A i, k \in 1 .. Len(s) : s[i].kind \in Creators /\ s[k].kind \in Creators => i = k
      /\ \A i \in 1 .. Len(s) : f.kind \in Creators => s[i].kind \notin Creators
  BY DEF Settled, Good, Relocked, Idle
<1>3. ASSUME NEW i \in 1 .. Len(u)
      PROVE  /\ u[i].kind \notin {"user", "flush"} => u[i].on \in Jobs
             /\ u[i].kind = "wrap" => u[i].waiter \in 1 .. i - 1 /\ u[u[i].waiter].on = u[i].on
             /\ u[i].kind \in Relocks => i = Len(u) /\ f.kind \in Relocks
  <2>1. CASE i = Len(s) + 1
    BY <1>1, <2>1 DEF Fits
  <2>2. CASE i # Len(s) + 1
    <3>1. i \in 1 .. Len(s) /\ u[i] = s[i]
      BY <1>1, <2>2
    <3>2. /\ s[i].kind \notin {"user", "flush"} => s[i].on \in Jobs
          /\ s[i].kind = "wrap" => s[i].waiter \in 1 .. i - 1 /\ s[s[i].waiter].on = s[i].on
      BY <3>1 DEF Settled, Good
    <3>3. s[i].kind = "wrap" => s[i].waiter \in 1 .. Len(s)
      BY <1>1, <3>1, <3>2
    <3> QED BY <1>1, <1>2, <3>1, <3>2, <3>3
  <2> QED BY <2>1, <2>2
<1>4. ASSUME NEW i \in 1 .. Len(u), NEW k \in 1 .. Len(u), u[i].kind \in Creators, u[k].kind \in Creators
      PROVE  i = k
  BY <1>1, <1>2, <1>4
<1>5. Good(u) /\ (f.kind \notin Relocks => Settled(u))
  BY <1>1, <1>3, <1>4 DEF Good, Settled, Relocked
<1>6. \A j \in Jobs, i \in Nat : Waiting(s, j, i) => Waiting(u, j, i)
  BY <1>1 DEF Waiting
<1>7. CountedIn(u) = IF f.kind = "counted" THEN CountedIn(s) \cup {Len(s) + 1} ELSE CountedIn(s)
  BY <1>1 DEF CountedIn
<1>8. Idle(s) /\ f.kind \notin Creators => Idle(u)
  BY <1>1 DEF Idle
<1> QED BY <1>5, <1>6, <1>7, <1>8 DEF u

LEMMA PushKeeps ==
  ASSUME NEW s, Settled(s), NEW f, Fits(s, f), f.kind \notin Creators \cup {"counted"}
  PROVE  Settled(Append(s, f)) /\ Keeps(s, Append(s, f))
BY PushAny DEF Keeps, Creators

LEMMA FirstOnes ==
  ASSUME NEW S, NEW s \in Seq(S), NEW n \in Nat, n <= Len(s)
  PROVE  /\ SubSeq(s, 1, n) \in Seq(S) /\ Len(SubSeq(s, 1, n)) = n
         /\ \A i \in 1 .. n : SubSeq(s, 1, n)[i] = s[i]
OBVIOUS

(* The last activation is over.                                            *)
LEMMA PopKeeps ==
  ASSUME Good(stack), Top.kind # "user" \/ Len(stack) > 1
  PROVE  /\ Settled(Below)
         /\ Len(stack) \in Nat /\ Len(Below) = Len(stack) - 1 /\ Len(Below) \in Nat
         /\ Top \in FrameRecord /\ (Top.kind \notin {"user", "flush"} => Top.on \in Jobs)
         /\ CountedIn(Below) = CountedIn(stack) \ {Len(stack)}
         /\ Len(stack) \in CountedIn(stack) <=> Top.kind = "counted"
         /\ Idle(stack) => Idle(Below)
         /\ Top.kind \in Creators => Idle(Below)
         /\ \A j \in Jobs, i \in Nat : Waiting(stack, j, i) /\ i # Len(stack) => Waiting(Below, j, i)
         /\ Top.kind \notin Waits \cup {"counted"} => Keeps(stack, Below)
         /\ \A i \in 1 .. Len(Below) : Below[i] = stack[i]
<1> DEFINE u == Below
<1>1. /\ u \in Seq(FrameRecord) /\ Len(stack) \in Nat /\ Len(u) = Len(stack) - 1
      /\ Len(u) \in Nat /\ 1 \in 1 .. Len(u) /\ u[1].kind = "user"
      /\ \A i \in 1 .. Len(u) : u[i] = stack[i]
      /\ Top \in FrameRecord /\ Top = stack[Len(stack)] /\ Len(stack) \in 1 .. Len(stack)
      /\ DOMAIN stack = 1 .. Len(stack) /\ DOMAIN u = 1 .. Len(stack) - 1
  <2>1. stack \in Seq(FrameRecord) /\ Len(stack) \in Nat /\ Len(stack) > 0
    BY DEF Good
  <2>2. u = SubSeq(stack, 1, Len(stack) - 1)
    BY DEF Below, Front
  <2>3. Top \in FrameRecord /\ Top = stack[Len(stack)] /\ DOMAIN stack = 1 .. Len(stack)
    BY <2>1 DEF Top
  <2>4. /\ u \in Seq(FrameRecord) /\ Len(u) = Len(stack) - 1
        /\ \A i \in 1 .. Len(stack) - 1 : u[i] = stack[i]
    <3>1. Len(stack) - 1 \in Nat /\ Len(stack) - 1 <= Len(stack)
      BY <2>1
    <3> QED BY <2>1, <2>2, <3>1, FirstOnes
  <2>5. Len(stack) > 1 /\ stack[1].kind = "user"
    <3>1. stack[1].kind = "user"
      BY DEF Good
    <3>2. CASE Len(stack) = 1
      BY <2>3, <3>1, <3>2
    <3>3. CASE Len(stack) > 1
      BY <3>1, <3>3
    <3>4. Len(stack) = 1 \/ Len(stack) > 1
      <4> DEFINE n == Len(stack)
      <4>1. n \in Nat /\ n > 0
        BY <2>1
      <4> HIDE DEF n
      <4>2. n = 1 \/ n > 1
        BY <4>1
      <4> QED BY <4>2 DEF n
    <3> QED BY <3>2, <3>3, <3>4
  <2> QED BY <2>1, <2>3, <2>4, <2>5
<1> HIDE DEF u
<1>2. \A i \in 1 .. Len(u) : i \in 1 .. Len(stack) /\ i # Len(stack)
  BY <1>1
<1>3. ~Relocked(u)
  BY <1>1, <1>2 DEF Relocked, Good
<1>4. Good(u)
  <2>1. ASSUME NEW i \in 1 .. Len(u)
        PROVE  /\ u[i].kind \notin {"user", "flush"} => u[i].on \in Jobs
               /\ u[i].kind = "wrap" => u[i].waiter \in 1 .. i - 1 /\ u[u[i].waiter].on = u[i].on
    <3>1. /\ stack[i].kind \notin {"user", "flush"} => stack[i].on \in Jobs
          /\ stack[i].kind = "wrap" => stack[i].waiter \in 1 .. i - 1 /\ stack[stack[i].waiter].on = stack[i].on
      BY <1>2 DEF Good
    <3>2. stack[i].kind = "wrap" => stack[i].waiter \in 1 .. Len(u)
      BY <1>1, <3>1
    <3> QED BY <1>1, <3>1, <3>2
  <2>2. \A i, k \in 1 .. Len(u) : u[i].kind \in Creators /\ u[k].kind \in Creators => i = k
    BY <1>1, <1>2 DEF Good
  <2> QED BY <1>1, <1>3, <2>1, <2>2 DEF Good, Relocked
<1>5. CountedIn(u) = CountedIn(stack) \ {Len(stack)} /\ (Len(stack) \in CountedIn(stack) <=> Top.kind = "counted")
  BY <1>1 DEF CountedIn
<1>6. (Idle(stack) => Idle(u)) /\ (Top.kind \in Creators => Idle(u))
  BY <1>1, <1>2 DEF Idle, Good
<1>7. \A j \in Jobs, i \in Nat : Waiting(stack, j, i) /\ i # Len(stack) => Waiting(u, j, i)
  BY <1>1 DEF Waiting
<1>8. Top.kind \notin Waits => \A j \in Jobs, i \in Nat : Waiting(stack, j, i) => i # Len(stack)
  BY <1>1 DEF Waiting
<1>9. Top.kind \notin Waits \cup {"counted"} => Keeps(stack, u)
  BY <1>5, <1>6, <1>7, <1>8 DEF Keeps
<1>10. Top.kind \notin {"user", "flush"} => Top.on \in Jobs
  BY <1>1 DEF Good
<1> QED BY <1>1, <1>3, <1>4, <1>5, <1>6, <1>7, <1>9, <1>10 DEF u, Settled

-----------------------------------------------------------------------------
(* The types, as far as they do not depend on how often a job is called    *)
(* back, and what the place of a thread says about the job it holds.       *)
JobRec == [mem : {"unborn", "live", "freed"}, cancel : BOOLEAN, kill : BOOLEAN,
           reschedule : BOOLEAN, send : Nat, received : Nat,
           self : Threads \cup {None}, func : Funcs, waiter : Nat]

Types ==
  /\ job \in [Jobs -> JobRec]
  /\ pendShort \in Seq(Short) /\ pendFeedback \in Seq(Feedback \cup Direct)
  /\ count \in Int /\ noQueue \in Int /\ max \in Nat
  /\ calls \in Seq(Call)
  /\ thread \in [Threads -> ThreadRecord]

HoldStates   == {"taken", "start", "body", "cleanup", "requeue", "direct", "directEnd"}
DirectStates == {"direct", "directEnd"}
PoolStates   == {"none", "short", "feedback", "taken", "start", "cleanup", "requeue",
                 "test", "sleep", "leave"}

Placed(r) == /\ r.pc \in HoldStates => r.work \in Jobs
             /\ r.pc \in PoolStates => ~r.own
             /\ r.pc \in DirectStates => r.own

ThreadsRight == \A t \in Threads : Placed(thread[t])

(* The pointer a job keeps to a waiter names a wait that is going on.      *)
WaitersRight == \A j \in Jobs : job[j].waiter # 0 => Waiting(stack, j, job[j].waiter)

CoreInv == Types /\ ThreadsRight /\ Good(stack) /\ WaitersRight

-----------------------------------------------------------------------------
(* The counters.                                                           *)
Lives(r)  == r.pc \notin {"none", "over", "joined"}
PoolAlive == {t \in Threads : Alive(t) /\ ~thread[t].own}
OwnAlive  == {t \in Threads : Alive(t) /\ thread[t].own}

Counted ==
  /\ count = Cardinality(PoolAlive)
  /\ noQueue = Cardinality(OwnAlive) - Cardinality(CountedIn(stack))

(* The limit holds, with room for the thread that is being created.        *)
Limited == count <= max /\ (~Idle(stack) => count < max)

(* A step that starts and ends no thread, pushes and pops no creator and   *)
(* no wait.                                                                *)
SameThreads ==
  /\ thread' \in [Threads -> ThreadRecord] /\ ThreadsRight'
  /\ PoolAlive' = PoolAlive /\ OwnAlive' = OwnAlive

SameWaiters ==
  /\ job' \in [Jobs -> JobRec]
  /\ \A j \in Jobs : job'[j].waiter \in {0, job[j].waiter}

ListsTyped ==
  /\ pendShort' \in Seq(Short) /\ pendFeedback' \in Seq(Feedback \cup Direct)
  /\ calls' \in Seq(Call)

QuietStep ==
  /\ SameThreads /\ SameWaiters /\ ListsTyped
  /\ Good(stack') /\ Keeps(stack, stack')
  /\ UNCHANGED <<count, noQueue, max>>

LEMMA QuietKeeps ==
  ASSUME CoreInv, QuietStep
  PROVE  CoreInv' /\ (Counted => Counted') /\ (Limited => Limited')
<1>1. Types' /\ ThreadsRight' /\ Good(stack)'
  BY DEF CoreInv, Types, QuietStep, SameThreads, SameWaiters, ListsTyped
<1>2. WaitersRight'
  <2> SUFFICES ASSUME NEW j \in Jobs, job'[j].waiter # 0 PROVE Waiting(stack', j, job'[j].waiter)
    BY DEF WaitersRight, Waiting
  <2>1. job'[j].waiter = job[j].waiter /\ job[j].waiter \in Nat
    BY DEF QuietStep, SameWaiters, CoreInv, Types, JobRec
  <2>2. Waiting(stack, j, job[j].waiter)
    BY <2>1 DEF CoreInv, WaitersRight
  <2> QED BY <2>1, <2>2 DEF QuietStep, Keeps
<1>3. Counted => Counted'
  <2>1. CountedIn(stack') = CountedIn(stack) /\ CountedIn(stack)' = CountedIn(stack')
    BY DEF QuietStep, Keeps, CountedIn
  <2> QED BY <2>1 DEF Counted, QuietStep, SameThreads
<1>4. Limited => Limited'
  <2>1. Idle(stack) => Idle(stack)'
    BY DEF QuietStep, Keeps, Idle
  <2> QED BY <2>1 DEF Limited, QuietStep
<1> QED BY <1>1, <1>2, <1>3, <1>4 DEF CoreInv

(* One thread changes.                                                     *)
LEMMA SetThread ==
  ASSUME CoreInv, NEW t \in Threads, NEW r \in ThreadRecord,
         thread' = [thread EXCEPT ![t] = r], Placed(r)
  PROVE  /\ thread' \in [Threads -> ThreadRecord] /\ ThreadsRight'
         /\ \A u \in Threads : u # t => (Alive(u)' <=> Alive(u)) /\ thread'[u] = thread[u]
         /\ Alive(t)' <=> Lives(r)
         /\ (Alive(t) <=> Lives(r)) /\ r.own = thread[t].own => SameThreads
<1>1. thread' \in [Threads -> ThreadRecord] /\ \A u \in Threads : thread'[u] = IF u = t THEN r ELSE thread[u]
  BY DEF CoreInv, Types
<1>2. ThreadsRight'
  BY <1>1 DEF CoreInv, ThreadsRight, Placed
<1>3. \A u \in Threads : Alive(u)' <=> IF u = t THEN Lives(r) ELSE Alive(u)
  BY <1>1 DEF Alive, Lives
<1>4. (Alive(t) <=> Lives(r)) /\ r.own = thread[t].own => PoolAlive' = PoolAlive /\ OwnAlive' = OwnAlive
  BY <1>1, <1>3 DEF PoolAlive, OwnAlive
<1> QED BY <1>1, <1>2, <1>3, <1>4 DEF SameThreads

LEMMA ThreadsUntouched ==
  ASSUME CoreInv, UNCHANGED thread PROVE SameThreads
BY DEF CoreInv, Types, ThreadsRight, Placed, SameThreads, PoolAlive, OwnAlive, Alive

LEMMA JobsUntouched ==
  ASSUME CoreInv, UNCHANGED job PROVE SameWaiters
BY DEF CoreInv, Types, SameWaiters

(* One job changes.                                                        *)
LEMMA SetJob ==
  ASSUME CoreInv, NEW j \in Jobs, NEW r \in JobRec, job' = [job EXCEPT ![j] = r],
         r.waiter \in {0, job[j].waiter}
  PROVE  SameWaiters
BY DEF CoreInv, Types, SameWaiters

LEMMA StackUntouched ==
  ASSUME CoreInv, UNCHANGED stack PROVE Good(stack') /\ Keeps(stack, stack')
<1>1. stack' = stack
  OBVIOUS
<1> QED BY <1>1, KeepsAll DEF CoreInv

-----------------------------------------------------------------------------
(* The steps of the threads.                                               *)
WorkStates == HoldStates \cup {"short", "feedback", "test", "sleep", "leave"}

LEMMA GoesSame ==
  ASSUME CoreInv, NEW t \in Threads, NEW p \in WorkStates, Goes(t, p), thread[t].pc \in WorkStates,
         p \in HoldStates => thread[t].work \in Jobs,
         p \in PoolStates => ~thread[t].own,
         p \in DirectStates => thread[t].own
  PROVE  SameThreads
<1> DEFINE r == [thread[t] EXCEPT !.pc = p]
<1>1. thread[t] \in ThreadRecord
  BY DEF CoreInv, Types
<1>2. r \in ThreadRecord /\ r.pc = p /\ r.work = thread[t].work /\ r.own = thread[t].own
  BY <1>1 DEF ThreadRecord, WorkStates, HoldStates
<1>3. thread' = [thread EXCEPT ![t] = r]
  BY DEF Goes
<1>4. Placed(r)
  BY <1>2 DEF Placed
<1>5. Alive(t) /\ Lives(r)
  BY <1>2 DEF Alive, Lives, WorkStates, HoldStates
<1> HIDE DEF r
<1> QED BY <1>2, <1>3, <1>4, <1>5, SetThread

LEMMA TakeSame ==
  ASSUME CoreInv, NEW t \in Threads, NEW j \in Jobs, Take(t, j), thread[t].pc \in {"short", "feedback"}
  PROVE  SameThreads
<1> DEFINE r == [thread[t] EXCEPT !.pc = "taken", !.work = j]
<1>1. thread[t] \in ThreadRecord /\ ~thread[t].own
  BY DEF CoreInv, Types, ThreadsRight, Placed, PoolStates
<1>2. r \in ThreadRecord /\ r.pc = "taken" /\ r.work = j /\ r.own = thread[t].own
  BY <1>1 DEF ThreadRecord
<1>3. thread' = [thread EXCEPT ![t] = r]
  BY DEF Take
<1>4. Placed(r)
  BY <1>1, <1>2 DEF Placed, DirectStates
<1>5. Alive(t) /\ Lives(r)
  BY <1>2 DEF Alive, Lives
<1> HIDE DEF r
<1> QED BY <1>2, <1>3, <1>4, <1>5, SetThread

(* What is known of a thread that holds a job.                             *)
LEMMA Holding ==
  ASSUME CoreInv, NEW t \in Threads
  PROVE  /\ thread[t] \in ThreadRecord
         /\ thread[t].pc \in HoldStates => Work(t) \in Jobs /\ job[Work(t)] \in JobRec
         /\ thread[t].pc \in PoolStates => ~thread[t].own
         /\ thread[t].pc \in DirectStates => thread[t].own
BY DEF CoreInv, Types, ThreadsRight, Placed, Work

LEMMA ListsUntouched ==
  ASSUME CoreInv, UNCHANGED <<pendShort, pendFeedback>>, calls' = calls \/ calls' \in Seq(Call)
  PROVE  ListsTyped
BY DEF CoreInv, Types, ListsTyped

LEMMA EnqueuedTyped ==
  ASSUME CoreInv, NEW j \in Jobs, Enqueued(j), calls' = calls PROVE ListsTyped
<1> USE DEF CoreInv, Types, ListsTyped, Enqueued
<1>1. CASE j \in Short
  <2>1. pendShort' = Append(pendShort, j) /\ UNCHANGED pendFeedback
    BY <1>1
  <2>2. pendShort' \in Seq(Short)
    BY <1>1, <2>1
  <2> QED BY <2>1, <2>2
<1>2. CASE j \notin Short
  <2>1. j \in Feedback \cup Direct
    BY <1>2 DEF Jobs
  <2>2. pendFeedback' = Append(pendFeedback, j) /\ UNCHANGED pendShort
    BY <1>2
  <2>3. pendFeedback' \in Seq(Feedback \cup Direct)
    BY <2>1, <2>2
  <2> QED BY <2>2, <2>3
<1> QED BY <1>1, <1>2

LEMMA PostTyped ==
  ASSUME CoreInv, NEW x \in Call, UNCHANGED <<pendShort, pendFeedback>>, calls' = Append(calls, x)
  PROVE  ListsTyped
BY DEF CoreInv, Types, ListsTyped

Unstacked == UNCHANGED <<stack, count, noQueue, max>>

LEMMA ThreadQuiet ==
  ASSUME CoreInv, SameThreads, SameWaiters, ListsTyped, Unstacked
  PROVE  QuietStep
<1>1. Good(stack') /\ Keeps(stack, stack')
  BY StackUntouched DEF Unstacked
<1> QED BY <1>1 DEF QuietStep, Unstacked

LEMMA PickQuiet ==
  ASSUME CoreInv, NEW t \in Threads, PickShort(t) \/ PickFeedback(t)
  PROVE  QuietStep
<1>1. SameWaiters /\ Unstacked
  BY JobsUntouched DEF PickShort, PickFeedback, Unstacked, pool, main
<1>2. CASE PickShort(t)
  <2>1. CASE pendShort = <<>>
    <3>1. SameThreads
      BY <1>2, <2>1, Holding, GoesSame DEF PickShort, In, WorkStates, HoldStates, PoolStates, DirectStates
    <3>2. ListsTyped
      BY <1>2, <2>1, ListsUntouched DEF PickShort
    <3> QED BY <1>1, <3>1, <3>2, ThreadQuiet
  <2>2. CASE pendShort # <<>>
    <3>1. Head(pendShort) \in Jobs /\ Tail(pendShort) \in Seq(Short)
      BY <2>2 DEF CoreInv, Types, Jobs
    <3>2. SameThreads
      BY <1>2, <2>2, <3>1, TakeSame DEF PickShort, In
    <3>3. ListsTyped
      BY <1>2, <2>2, <3>1 DEF PickShort, ListsTyped, CoreInv, Types
    <3> QED BY <1>1, <3>2, <3>3, ThreadQuiet
  <2> QED BY <2>1, <2>2
<1>3. CASE PickFeedback(t)
  <2>1. CASE pendFeedback = <<>>
    <3>1. SameThreads
      BY <1>3, <2>1, Holding, GoesSame DEF PickFeedback, In, WorkStates, HoldStates, PoolStates, DirectStates
    <3>2. ListsTyped
      BY <1>3, <2>1, ListsUntouched DEF PickFeedback
    <3> QED BY <1>1, <3>1, <3>2, ThreadQuiet
  <2>2. CASE pendFeedback # <<>>
    <3>1. Head(pendFeedback) \in Jobs /\ Tail(pendFeedback) \in Seq(Feedback \cup Direct)
      BY <2>2 DEF CoreInv, Types, Jobs
    <3>2. SameThreads
      BY <1>3, <2>2, <3>1, TakeSame DEF PickFeedback, In
    <3>3. ListsTyped
      BY <1>3, <2>2, <3>1 DEF PickFeedback, ListsTyped, CoreInv, Types
    <3> QED BY <1>1, <3>2, <3>3, ThreadQuiet
  <2> QED BY <2>1, <2>2
<1> QED BY <1>2, <1>3

(* A step that sends a thread to another place, and changes no job.        *)
LEMMA GoesQuiet ==
  ASSUME CoreInv, NEW t \in Threads,
         MarkRunning(t) \/ Finish(t) \/ LeaveRunning(t) \/ TestOnce(t) \/ TestTwice(t)
  PROVE  QuietStep
<1> USE Holding, GoesSame DEF In, WorkStates, HoldStates, PoolStates, DirectStates, Work
<1>1. SameWaiters /\ Unstacked /\ ListsTyped
  BY JobsUntouched, ListsUntouched
  DEF MarkRunning, Finish, LeaveRunning, TestOnce, TestTwice, Test, Unstacked, pend, pool, main
<1>2. CASE MarkRunning(t)
  <2>1. SameThreads
    BY <1>2 DEF MarkRunning
  <2> QED BY <1>1, <2>1, ThreadQuiet
<1>3. CASE Finish(t)
  <2>1. SameThreads
    BY <1>3 DEF Finish, Cleanup
  <2> QED BY <1>1, <2>1, ThreadQuiet
<1>4. CASE LeaveRunning(t)
  <2>1. SameThreads
    BY <1>4 DEF LeaveRunning
  <2> QED BY <1>1, <2>1, ThreadQuiet
<1>5. CASE TestOnce(t) \/ TestTwice(t)
  <2>1. SameThreads
    BY <1>5 DEF TestOnce, TestTwice, Test
  <2> QED BY <1>1, <2>1, ThreadQuiet
<1> QED BY <1>2, <1>3, <1>4, <1>5

(* A step that changes the job a thread holds.                             *)
LEMMA StartQuiet ==
  ASSUME CoreInv, NEW t \in Threads, Start(t) \/ StartDirect(t)
  PROVE  QuietStep
<1> DEFINE r == [job[Work(t)] EXCEPT !.self = t]
<1>1. /\ job' = [job EXCEPT ![Work(t)] = r] /\ Unstacked /\ ListsTyped
      /\ thread[t].pc \in {"start", "direct"}
      /\ \/ thread[t].pc = "start" /\ Goes(t, "cleanup")
         \/ Goes(t, "body")
  BY ListsUntouched DEF Start, StartDirect, Enter, In, Unstacked, pend, pool, main
<1>2. Work(t) \in Jobs /\ r \in JobRec /\ r.waiter = job[Work(t)].waiter
  BY <1>1, Holding DEF HoldStates, JobRec
<1>3. SameWaiters
  <2>1. job' = [job EXCEPT ![Work(t)] = r] /\ r.waiter \in {0, job[Work(t)].waiter}
    BY <1>1, <1>2
  <2> HIDE DEF r
  <2> QED BY <1>2, <2>1, SetJob
<1>4. SameThreads
  <2> USE Holding, GoesSame DEF WorkStates, HoldStates, PoolStates, DirectStates, Work
  <2>1. CASE Goes(t, "body")
    BY <1>1, <2>1
  <2>2. CASE thread[t].pc = "start" /\ Goes(t, "cleanup")
    BY <2>2
  <2> QED BY <1>1, <2>1, <2>2
<1> QED BY <1>1, <1>3, <1>4, ThreadQuiet

LEMMA SendQuiet ==
  ASSUME CoreInv, NEW t \in Threads, Send(t) \/ Reschedule(t)
  PROVE  QuietStep
<1>1. Work(t) \in Jobs /\ job[Work(t)] \in JobRec
  BY Holding DEF Send, Reschedule, In, HoldStates
<1>2. SameThreads /\ Unstacked
  BY ThreadsUntouched DEF Send, Reschedule, Unstacked, pool, main
<1>3. CASE Send(t)
  <2>1. [job[Work(t)] EXCEPT !.send = @ + 1] \in JobRec
    BY <1>1 DEF JobRec
  <2>2. SameWaiters
    BY <1>1, <1>3, <2>1, SetJob DEF Send, JobRec
  <2>3. [op |-> "notify", on |-> Work(t)] \in Call
    BY <1>1 DEF Call
  <2>4. ListsTyped
    BY <1>3, <2>3, PostTyped DEF Send, pend
  <2> QED BY <1>2, <2>2, <2>4, ThreadQuiet
<1>4. CASE Reschedule(t)
  <2>1. [job[Work(t)] EXCEPT !.reschedule = TRUE] \in JobRec
    BY <1>1 DEF JobRec
  <2>2. SameWaiters
    BY <1>1, <1>4, <2>1, SetJob DEF Reschedule, JobRec
  <2>3. ListsTyped
    BY <1>4, ListsUntouched DEF Reschedule, pend
  <2> QED BY <1>2, <2>2, <2>3, ThreadQuiet
<1> QED BY <1>3, <1>4

(* ecore_thread_cancel() sets a flag of the thread that runs the job.      *)
LEMMA AskedSame ==
  ASSUME CoreInv, NEW t, thread' = [thread EXCEPT ![t].asked = TRUE]
  PROVE  SameThreads
<1>1. CASE t \in Threads
  <2> DEFINE r == [thread[t] EXCEPT !.asked = TRUE]
  <2>1. thread[t] \in ThreadRecord /\ Placed(thread[t])
    BY <1>1 DEF CoreInv, Types, ThreadsRight
  <2>2. r \in ThreadRecord /\ r.pc = thread[t].pc /\ r.work = thread[t].work /\ r.own = thread[t].own
    BY <2>1 DEF ThreadRecord
  <2>3. thread' = [thread EXCEPT ![t] = r]
    OBVIOUS
  <2>4. Placed(r)
    BY <2>1, <2>2 DEF Placed
  <2>5. Alive(t) <=> Lives(r)
    BY <2>2 DEF Alive, Lives
  <2> HIDE DEF r
  <2> QED BY <1>1, <2>2, <2>3, <2>4, <2>5, SetThread
<1>2. CASE t \notin Threads
  <2>1. thread' = thread
    BY <1>2 DEF CoreInv, Types
  <2> QED BY <2>1, ThreadsUntouched
<1> QED BY <1>1, <1>2

LEMMA CancelSelfQuiet ==
  ASSUME CoreInv, NEW t \in Threads, CancelSelf(t)
  PROVE  QuietStep
<1>1. Work(t) \in Jobs /\ job[Work(t)] \in JobRec
  BY Holding DEF CancelSelf, In, HoldStates
<1>2. [job[Work(t)] EXCEPT !.cancel = TRUE] \in JobRec
  BY <1>1 DEF JobRec
<1>3. SameWaiters
  BY <1>1, <1>2, SetJob DEF CancelSelf, JobRec
<1>4. SameThreads
  BY AskedSame DEF CancelSelf
<1>5. ListsTyped /\ Unstacked
  BY ListsUntouched DEF CancelSelf, Unstacked, pend, pool, main
<1> QED BY <1>3, <1>4, <1>5, ThreadQuiet

LEMMA CutQuiet ==
  ASSUME CoreInv, NEW t \in Threads, Cut(t)
  PROVE  QuietStep
<1> DEFINE r == [thread[t] EXCEPT !.pc = Cleanup(t), !.dying = TRUE]
<1>1. thread[t] \in ThreadRecord /\ Work(t) \in Jobs
  BY Holding DEF Cut, In, HoldStates
<1>2. /\ r \in ThreadRecord /\ r.pc = Cleanup(t)
      /\ r.work = Work(t) /\ r.own = thread[t].own
  BY <1>1 DEF ThreadRecord, Cleanup, Work
<1>3. thread' = [thread EXCEPT ![t] = r]
  BY DEF Cut
<1>4. Placed(r)
  BY <1>1, <1>2 DEF Placed, Cleanup, HoldStates, PoolStates, DirectStates, ThreadRecord
<1>5. Alive(t) /\ Lives(r)
  BY <1>2 DEF Alive, Lives, Cleanup, Cut, In
<1> HIDE DEF r
<1>6. SameThreads
  BY <1>2, <1>3, <1>4, <1>5, SetThread
<1>7. SameWaiters /\ ListsTyped /\ Unstacked
  BY JobsUntouched, ListsUntouched DEF Cut, Unstacked, pend, pool, main
<1> QED BY <1>6, <1>7, ThreadQuiet

(* The thread gives its job away: to the list again, or to its handler.    *)
LEMMA RequeueQuiet ==
  ASSUME CoreInv, NEW t \in Threads, Requeue(t) \/ PostHandler(t)
  PROVE  QuietStep
<1> DEFINE r == [thread[t] EXCEPT !.pc = NextPlace(t), !.work = None]
<1>1. thread[t] \in ThreadRecord /\ Work(t) \in Jobs /\ ~thread[t].own /\ job[Work(t)] \in JobRec
      /\ thread[t].pc = "requeue"
  BY Holding DEF Requeue, PostHandler, In, HoldStates, PoolStates
<1>2. /\ r \in ThreadRecord /\ r.pc = NextPlace(t) /\ r.own = thread[t].own
      /\ NextPlace(t) \in {"leave", "feedback", "test"}
  BY <1>1 DEF ThreadRecord, NextPlace
<1>3. thread' = [thread EXCEPT ![t] = r]
  BY DEF Requeue, PostHandler, Released
<1>4. Placed(r)
  BY <1>1, <1>2 DEF Placed, HoldStates, DirectStates
<1>5. Alive(t) /\ Lives(r)
  BY <1>1, <1>2 DEF Alive, Lives
<1> HIDE DEF r
<1>6. SameThreads
  BY <1>2, <1>3, <1>4, <1>5, SetThread
<1>7. CASE Requeue(t)
  <2>1. [job[Work(t)] EXCEPT !.reschedule = FALSE] \in JobRec
    BY <1>1 DEF JobRec
  <2>2. SameWaiters
    BY <1>1, <1>7, <2>1, SetJob DEF Requeue, JobRec
  <2>3. ListsTyped /\ Unstacked
    BY <1>1, <1>7, EnqueuedTyped DEF Requeue, Unstacked, pool, main
  <2> QED BY <1>6, <2>2, <2>3, ThreadQuiet
<1>8. CASE PostHandler(t)
  <2>1. Handler(Work(t)) \in Call
    BY <1>1 DEF Call, Handler
  <2>2. SameWaiters /\ ListsTyped /\ Unstacked
    BY <1>8, <2>1, JobsUntouched, PostTyped DEF PostHandler, Unstacked, pend, pool, main
  <2> QED BY <1>6, <2>2, ThreadQuiet
<1> QED BY <1>7, <1>8

-----------------------------------------------------------------------------
(* The steps of the main loop's thread.                                    *)
LEMMA FrameFits ==
  ASSUME NEW s, NEW k \in FrameKinds \ {"wrap"}, NEW j \in Jobs
  PROVE  Fits(s, Frame(k, j)) /\ Frame(k, j).kind = k /\ Frame(k, j).on = j
BY DEF Fits, Frame, FrameRecord, Funcs

LEMMA UserFits ==
  ASSUME NEW s PROVE Fits(s, User) /\ User.kind = "user"
BY DEF Fits, User, Frame, FrameRecord, Funcs, FrameKinds

LEMMA FlushFits ==
  ASSUME CoreInv, NEW s PROVE Fits(s, Flush) /\ Flush.kind = "flush"
BY DEF CoreInv, Types, Fits, Flush, Frame, FrameRecord, Funcs, FrameKinds

LEMMA TopFits ==
  ASSUME CoreInv, Top.kind \notin {"user", "flush"}, NEW k \in FrameKinds \ {"wrap"}
  PROVE  LET f == [Top EXCEPT !.kind = k]
         IN Fits(Below, f) /\ f.kind = k /\ f.on = Top.on /\ f.waiting = Top.waiting
<1>1. Top \in FrameRecord /\ Top.on \in Jobs
  BY PopKeeps DEF CoreInv
<1> QED BY <1>1 DEF Fits, FrameRecord

LEMMA TwoMore ==
  ASSUME NEW S, NEW s \in Seq(S), NEW e \in S, NEW f \in S
  PROVE  s \o <<e, f>> = Append(Append(s, e), f)
OBVIOUS

LEMMA TwoFrames ==
  ASSUME NEW s, Good(s), NEW e, NEW f, Fits(s, e), Fits(Append(s, e), f)
  PROVE  s \o <<e, f>> = Append(Append(s, e), f)
BY TwoMore DEF Good, Fits

(* The kind of the last activation changes.                                *)
LEMMA Becomes ==
  ASSUME CoreInv, Top.kind # "user", NEW k \in FrameKinds, Become(k)
  PROVE  stack' = Append(Below, [Top EXCEPT !.kind = k])
<1> DEFINE n == Len(stack)
           f == [Top EXCEPT !.kind = k]
           u == Append(Below, f)
<1>1. /\ stack \in Seq(FrameRecord) /\ n \in Nat /\ Len(Below) = n - 1
      /\ Below \in Seq(FrameRecord) /\ Top \in FrameRecord
      /\ \A i \in 1 .. Len(Below) : Below[i] = stack[i]
  BY PopKeeps DEF CoreInv, Good, Settled
<1>2. f \in FrameRecord /\ Top = stack[n]
  BY <1>1 DEF FrameRecord, Top
<1>3. 1 \in 1 .. n
  BY DEF CoreInv, Good
<1>4. stack' = [stack EXCEPT ![n] = f]
  BY <1>2 DEF Become
<1> HIDE DEF f
<1>5. /\ u \in Seq(FrameRecord) /\ Len(u) = n
      /\ \A i \in 1 .. n - 1 : u[i] = stack[i]
      /\ u[n] = f
  BY <1>1, <1>2, <1>3
<1>6. stack' \in Seq(FrameRecord) /\ Len(stack') = n /\ \A i \in 1 .. n : stack'[i] = IF i = n THEN f ELSE stack[i]
  BY <1>1, <1>2, <1>3, <1>4
<1> HIDE DEF u, n
<1>7. \A i \in 1 .. n : stack'[i] = u[i]
  BY <1>1, <1>5, <1>6
<1>8. stack' = u
  BY <1>5, <1>6, <1>7, SeqEqual
<1> QED BY <1>8 DEF u, f

LEMMA TopSettled ==
  ASSUME CoreInv, Top.kind \notin Relocks PROVE Settled(stack)
BY DEF CoreInv, Settled, Relocked, Good, Top

LEMMA Pushed ==
  ASSUME CoreInv, Top.kind \notin Relocks, NEW f, Fits(stack, f),
         f.kind \notin Creators \cup {"counted"}, Push(f)
  PROVE  Good(stack') /\ Keeps(stack, stack')
BY TopSettled, PushKeeps DEF Push, Settled

LEMMA Popped ==
  ASSUME CoreInv, Top.kind \notin {"user", "counted"} \cup Waits, Pop
  PROVE  Good(stack') /\ Keeps(stack, stack')
BY PopKeeps DEF CoreInv, Pop, Settled

LEMMA Replaced ==
  ASSUME CoreInv, Top.kind \notin {"user", "counted"} \cup Waits, NEW u, Settled(u), Keeps(Below, u), stack' = u
  PROVE  Good(stack') /\ Keeps(stack, stack')
<1>1. Keeps(stack, Below)
  BY PopKeeps DEF CoreInv
<1>2. Keeps(stack, u)
  BY <1>1, KeepsChain
<1> QED BY <1>2 DEF Settled

Uncounted == UNCHANGED <<count, noQueue, max>>

LEMMA MainQuiet ==
  ASSUME CoreInv, SameThreads, SameWaiters, ListsTyped, Uncounted, Good(stack'), Keeps(stack, stack')
  PROVE  QuietStep
BY DEF QuietStep, Uncounted

LEMMA FreedSame ==
  ASSUME CoreInv, NEW j \in Jobs, Freed(j) PROVE SameWaiters
<1>1. job[j] \in JobRec
  BY DEF CoreInv, Types
<1>2. [job[j] EXCEPT !.mem = "freed"] \in JobRec /\ [job[j] EXCEPT !.mem = "freed"].waiter = job[j].waiter
  BY <1>1 DEF JobRec
<1> QED BY <1>2, SetJob DEF Freed

(* A step that changes neither jobs, threads nor lists but the stack.      *)
LEMMA OnlyStack ==
  ASSUME CoreInv, UNCHANGED <<job, thread, pendShort, pendFeedback, count, noQueue, max>>,
         calls' = calls \/ calls' = <<>>, Good(stack'), Keeps(stack, stack')
  PROVE  QuietStep
<1>1. SameThreads /\ SameWaiters /\ Uncounted
  BY ThreadsUntouched, JobsUntouched DEF Uncounted
<1>2. calls' = calls \/ calls' \in Seq(Call)
  BY EmptySeq
<1>3. ListsTyped
  BY <1>2, ListsUntouched
<1> QED BY <1>1, <1>3, MainQuiet

LEMMA SelfLockQuiet ==
  ASSUME CoreInv, SelfLock PROVE QuietStep
<1>1. Good(stack') /\ Keeps(stack, stack')
  BY StackUntouched DEF SelfLock
<1> QED BY <1>1, OnlyStack DEF SelfLock, pend, pool

(* Steps that push one activation, or end one.                             *)
LEMMA PushPopQuiet ==
  ASSUME CoreInv, LoopFlush \/ NotifyDone \/ FlushEnd \/ Return
  PROVE  QuietStep
<1>1. UNCHANGED <<job, thread, pendShort, pendFeedback, count, noQueue, max>> /\ (calls' = calls \/ calls' = <<>>)
  BY DEF LoopFlush, NotifyDone, FlushEnd, Return, pend, pool
<1>2. CASE LoopFlush
  BY <1>1, <1>2, FlushFits, Pushed, OnlyStack DEF LoopFlush, At, Relocks, Creators
<1>3. CASE NotifyDone \/ FlushEnd
  BY <1>1, <1>3, Popped, OnlyStack DEF NotifyDone, FlushEnd, At, Waits
<1>4. CASE Return
  <2>1. Settled(Below) /\ Keeps(stack, Below)
    BY <1>4, PopKeeps DEF Return, At, CoreInv, Waits
  <2> QED BY <1>1, <1>4, <2>1, OnlyStack DEF Return, Pop, Settled
<1> QED BY <1>2, <1>3, <1>4

LEMMA CallQuiet ==
  ASSUME CoreInv, NEW j \in Jobs, Cancel(j) \/ CancelKilled(j) \/ RunDirect(j)
  PROVE  QuietStep
<1>1. Uncounted /\ ListsTyped /\ Top.kind = "user"
  BY ListsUntouched DEF Cancel, CancelKilled, RunDirect, InUser, Uncounted, pend, pool
<1>2. CASE Cancel(j)
  <2>1. SameThreads
    BY <1>2, AskedSame, ThreadsUntouched DEF Cancel, AskThread
  <2>2. SameWaiters
    BY <1>2, JobsUntouched DEF Cancel
  <2>3. Good(stack') /\ Keeps(stack, stack')
    BY <1>1, <1>2, FrameFits, Pushed DEF Cancel, Relocks, Creators, FrameKinds
  <2> QED BY <1>1, <2>1, <2>2, <2>3, MainQuiet
<1>3. CASE CancelKilled(j)
  <2>1. Good(stack') /\ Keeps(stack, stack')
    BY <1>3, StackUntouched DEF CancelKilled, main
  <2> QED BY <1>1, <1>3, <2>1, JobsUntouched, ThreadsUntouched, MainQuiet DEF CancelKilled
<1>4. CASE RunDirect(j)
  <2>1. SameWaiters
    <3>1. [NewJob EXCEPT !.mem = "live"] \in JobRec /\ [NewJob EXCEPT !.mem = "live"].waiter = 0
      BY DEF NewJob, JobRec, Funcs
    <3> QED BY <1>4, <3>1, SetJob DEF RunDirect, Born
  <2>2. Good(stack') /\ Keeps(stack, stack')
    BY <1>1, <1>4, FrameFits, Pushed DEF RunDirect, Relocks, Creators, FrameKinds
  <2> QED BY <1>1, <1>4, <2>1, <2>2, ThreadsUntouched, MainQuiet DEF RunDirect
<1> QED BY <1>2, <1>3, <1>4

LEMMA MarkQuiet ==
  ASSUME CoreInv, CancelMark PROVE QuietStep
<1>1. Top.on \in Jobs /\ Good(stack') /\ Keeps(stack, stack')
  BY Popped, PopKeeps DEF CancelMark, At, Waits, CoreInv
<1>2. job[Top.on] \in JobRec
  BY <1>1 DEF CoreInv, Types
<1>3. [job[Top.on] EXCEPT !.cancel = TRUE] \in JobRec
      /\ [job[Top.on] EXCEPT !.cancel = TRUE].waiter = job[Top.on].waiter
  BY <1>2 DEF JobRec
<1>4. SameWaiters
  BY <1>1, <1>3, SetJob DEF CancelMark
<1>5. SameThreads /\ ListsTyped /\ Uncounted
  BY ThreadsUntouched, ListsUntouched DEF CancelMark, pend, pool, Uncounted
<1> QED BY <1>1, <1>4, <1>5, MainQuiet

LEMMA EndsQuiet ==
  ASSUME CoreInv, KillDone \/ Failed PROVE QuietStep
<1>1. Top.on \in Jobs /\ Good(stack') /\ Keeps(stack, stack')
  BY Popped, PopKeeps DEF KillDone, Failed, At, Waits, CoreInv
<1>2. SameWaiters
  BY <1>1, FreedSame DEF KillDone, Failed
<1>3. SameThreads /\ ListsTyped /\ Uncounted
  BY ThreadsUntouched, ListsUntouched DEF KillDone, Failed, pend, pool, Uncounted
<1> QED BY <1>1, <1>2, <1>3, MainQuiet

(* A flush goes on below the frames it pushes.                             *)
LEMMA RestKeeps ==
  ASSUME CoreInv, At("flush"), Top.todo # <<>>
  PROVE  Settled(Rest) /\ Keeps(Below, Rest) /\ Settled(Below) /\ Keeps(stack, Below)
<1> DEFINE f == [Top EXCEPT !.todo = Tail(@)]
<1>1. Top \in FrameRecord /\ Top.kind = "flush" /\ Settled(Below) /\ Keeps(stack, Below)
  BY PopKeeps DEF At, CoreInv, Waits
<1>2. Top.todo \in Seq(Call) /\ Tail(Top.todo) \in Seq(Call)
  BY <1>1 DEF FrameRecord
<1>3. f \in FrameRecord /\ f.kind = "flush"
  BY <1>1, <1>2 DEF FrameRecord
<1>4. Rest = Append(Below, f)
  BY DEF Rest
<1>5. Fits(Below, f)
  BY <1>3 DEF Fits
<1> HIDE DEF f
<1> QED BY <1>1, <1>3, <1>4, <1>5, PushKeeps DEF Creators, Relocks

LEMMA DeliverQuiet ==
  ASSUME CoreInv, (\E t \in Threads : Join(t)) \/ (\E j \in Jobs : HandlerKeeps(j) \/ Notify(j))
  PROVE  QuietStep
<1>1. CASE \E t \in Threads : Join(t)
  <2>1. PICK t \in Threads : Join(t)
    BY <1>1
  <2> DEFINE r == [thread[t] EXCEPT !.pc = "joined"]
  <2>2. thread[t] \in ThreadRecord /\ Placed(thread[t]) /\ thread[t].pc = "over"
    BY <2>1 DEF CoreInv, Types, ThreadsRight, Join
  <2>3. /\ r \in ThreadRecord /\ r.pc = "joined" /\ r.own = thread[t].own
        /\ thread' = [thread EXCEPT ![t] = r]
    BY <2>1, <2>2 DEF ThreadRecord, Join
  <2>4. Placed(r) /\ ~Alive(t) /\ ~Lives(r)
    BY <2>2, <2>3 DEF Placed, HoldStates, PoolStates, DirectStates, Alive, Lives
  <2> HIDE DEF r
  <2>5. SameThreads
    BY <2>3, <2>4, SetThread
  <2>6. SameWaiters /\ ListsTyped /\ Uncounted
    BY <2>1, JobsUntouched, ListsUntouched DEF Join, pend, pool, Uncounted
  <2>7. Good(stack') /\ Keeps(stack, stack')
    BY <2>1, RestKeeps, Replaced DEF Join, NextCall, At, Waits
  <2> QED BY <2>5, <2>6, <2>7, MainQuiet
<1>2. ASSUME NEW j \in Jobs, HandlerKeeps(j) PROVE QuietStep
  <2>1. job[j] \in JobRec
    BY DEF CoreInv, Types
  <2>2. [job[j] EXCEPT !.kill = TRUE] \in JobRec /\ [job[j] EXCEPT !.kill = TRUE].waiter = job[j].waiter
    BY <2>1 DEF JobRec
  <2>3. SameWaiters
    BY <1>2, <2>2, SetJob DEF HandlerKeeps
  <2>4. SameThreads /\ ListsTyped /\ Uncounted
    BY <1>2, ThreadsUntouched, ListsUntouched DEF HandlerKeeps, pend, pool, Uncounted
  <2>5. Good(stack') /\ Keeps(stack, stack')
    BY <1>2, RestKeeps, Replaced DEF HandlerKeeps, NextCall, At, Waits
  <2> QED BY <2>3, <2>4, <2>5, MainQuiet
<1>3. ASSUME NEW j \in Jobs, Notify(j) PROVE QuietStep
  <2>1. job[j] \in JobRec
    BY DEF CoreInv, Types
  <2>2. [job[j] EXCEPT !.received = @ + 1] \in JobRec /\ [job[j] EXCEPT !.received = @ + 1].waiter = job[j].waiter
    BY <2>1 DEF JobRec
  <2>3. SameWaiters
    BY <1>3, <2>2, SetJob DEF Notify
  <2>4. SameThreads /\ ListsTyped /\ Uncounted
    BY <1>3, ThreadsUntouched, ListsUntouched DEF Notify, pend, pool, Uncounted
  <2> DEFINE f == Frame("notify", j)
             u == Append(Rest, f)
  <2>5. Settled(Rest) /\ Keeps(Below, Rest) /\ Top.kind = "flush"
    BY <1>3, RestKeeps DEF Notify, NextCall, At
  <2>6. Fits(Rest, f) /\ f.kind = "notify" /\ Fits(u, User) /\ User.kind = "user"
    BY FrameFits, UserFits DEF FrameKinds
  <2>7. stack' = Append(u, User)
    BY <1>3, <2>5, <2>6, TwoFrames DEF Notify, Settled
  <2> HIDE DEF f
  <2>8. Settled(u) /\ Keeps(Below, u)
    BY <2>5, <2>6, PushKeeps, KeepsChain DEF Creators, Relocks
  <2> HIDE DEF u
  <2>9. Settled(Append(u, User)) /\ Keeps(Below, Append(u, User))
    BY <2>6, <2>8, PushKeeps, KeepsChain DEF Creators, Relocks
  <2>10. Good(stack') /\ Keeps(stack, stack')
    BY <2>5, <2>7, <2>9, Replaced DEF Waits
  <2> QED BY <2>3, <2>4, <2>10, MainQuiet
<1> QED BY <1>1, <1>2, <1>3

LEMMA WrapFrame ==
  ASSUME NEW j \in Jobs, NEW i \in Nat
  PROVE  LET w == [Frame("wrap", j) EXCEPT !.waiter = i]
         IN w.kind = "wrap" /\ w.on = j /\ w.waiter = i /\ w \in FrameRecord
<1>1. Frame("wrap", j) \in FrameRecord /\ Frame("wrap", j).kind = "wrap" /\ Frame("wrap", j).on = j
  BY DEF Frame, FrameRecord, FrameKinds, Funcs
<1> QED BY <1>1 DEF FrameRecord

(* The last callback of a job, and what is pushed for it.                  *)
LEMMA KillStack ==
  ASSUME CoreInv, NEW b, Settled(b), Keeps(Below, b), Top.kind \notin {"user", "counted"} \cup Waits,
         NEW j \in Jobs, Kill(j, b)
  PROVE  Good(stack') /\ Keeps(stack, stack')
<1> DEFINE k == Frame("kill", j)
           c == Append(b, k)
           i == job[j].waiter
           w == [Frame("wrap", j) EXCEPT !.waiter = i]
<1>1. Fits(b, k) /\ k.kind = "kill" /\ \A s : Fits(s, User) /\ User.kind = "user"
  BY FrameFits, UserFits DEF FrameKinds
<1>2. i \in Nat
  BY DEF CoreInv, Types, JobRec
<1>3. w.kind = "wrap" /\ w.on = j /\ w.waiter = i /\ w \in FrameRecord
  BY <1>2, WrapFrame
<1>4. \/ stack' = Append(c, User)
      \/ i # 0 /\ stack' = c \o <<w, User>>
      \/ stack' = stack
  BY DEF Kill, CallFinal
<1> HIDE DEF k, w
<1>5. Settled(c) /\ Keeps(b, c)
  BY <1>1, PushKeeps DEF Creators, Relocks
<1>6. Keeps(Below, c)
  BY <1>5, KeepsChain
<1> HIDE DEF c
<1>7. CASE stack' = Append(c, User)
  <2>1. Settled(Append(c, User)) /\ Keeps(c, Append(c, User))
    BY <1>1, <1>5, PushKeeps DEF Creators, Relocks
  <2> QED BY <1>6, <1>7, <2>1, KeepsChain, Replaced
<1>8. CASE i # 0 /\ stack' = c \o <<w, User>>
  <2>1. Waiting(stack, j, i)
    BY <1>8 DEF CoreInv, WaitersRight
  <2>2. i # Len(stack)
    BY <2>1 DEF Waiting, Top
  <2>3. Waiting(Below, j, i)
    BY <1>2, <2>1, <2>2, PopKeeps DEF CoreInv
  <2>4. Waiting(c, j, i)
    BY <1>2, <1>6, <2>3 DEF Keeps
  <2>5. Fits(c, w)
    BY <1>3, <2>4 DEF Fits, Waiting
  <2> DEFINE d == Append(c, w)
  <2>6. Settled(d) /\ Keeps(c, d)
    BY <1>3, <1>5, <2>5, PushKeeps DEF Creators, Relocks
  <2>7. stack' = Append(d, User)
    BY <1>1, <1>5, <1>8, <2>5, TwoFrames DEF Settled
  <2> HIDE DEF d
  <2>8. Settled(Append(d, User)) /\ Keeps(d, Append(d, User))
    BY <1>1, <2>6, PushKeeps DEF Creators, Relocks
  <2>9. Keeps(Below, Append(d, User))
    BY <1>6, <2>6, <2>8, KeepsChain
  <2> QED BY <2>7, <2>8, <2>9, Replaced
<1>9. CASE stack' = stack
  BY <1>9, StackUntouched
<1> QED BY <1>4, <1>7, <1>8, <1>9

LEMMA KillQuiet ==
  ASSUME CoreInv, NotifyKills \/ \E j \in Jobs : HandlerKills(j)
  PROVE  QuietStep
<1>1. UNCHANGED <<job, thread, pendShort, pendFeedback, count, noQueue, max, calls>>
  BY DEF NotifyKills, HandlerKills, pend, pool
<1>2. CASE NotifyKills
  <2>1. Settled(Below) /\ Top.on \in Jobs /\ Top.kind = "notify"
    BY <1>2, PopKeeps DEF NotifyKills, At, CoreInv
  <2>2. Keeps(Below, Below)
    BY KeepsAll
  <2>3. Good(stack') /\ Keeps(stack, stack')
    BY <1>2, <2>1, <2>2, KillStack DEF NotifyKills, Waits
  <2> QED BY <1>1, <2>3, OnlyStack
<1>3. ASSUME NEW j \in Jobs, HandlerKills(j) PROVE QuietStep
  <2>1. Settled(Rest) /\ Keeps(Below, Rest) /\ Top.kind = "flush"
    BY <1>3, RestKeeps DEF HandlerKills, NextCall, At
  <2>2. Good(stack') /\ Keeps(stack, stack')
    BY <1>3, <2>1, KillStack DEF HandlerKills, Waits
  <2> QED BY <1>1, <2>2, OnlyStack
<1> QED BY <1>2, <1>3

(* A creator flushes and will try again.                                   *)
LEMMA CreateFailsQuiet ==
  ASSUME CoreInv, CreateFails PROVE QuietStep
<1> DEFINE f == [Top EXCEPT !.kind = "retry"]
           u == Append(Below, f)
<1>1. /\ Top.kind = "relock" /\ Settled(Below) /\ Idle(Below)
      /\ Keeps(stack, Below)
  BY PopKeeps DEF CreateFails, At, CoreInv, Waits, Creators, Relocks
<1>2. Fits(Below, f) /\ f.kind = "retry"
  BY <1>1, TopFits DEF FrameKinds
<1>3. Fits(u, Flush) /\ Flush.kind = "flush"
  BY FlushFits
<1>4. stack' = Append(u, Flush)
  BY <1>1, <1>2, <1>3, TwoFrames DEF CreateFails, Settled
<1> HIDE DEF f
<1>5. /\ Settled(u) /\ CountedIn(u) = CountedIn(Below)
      /\ \A j \in Jobs, i \in Nat : Waiting(Below, j, i) => Waiting(u, j, i)
  BY <1>1, <1>2, PushAny DEF Relocks, Creators
<1>6. ~Idle(stack)
  BY <1>1 DEF CoreInv, Good, Idle, Top, Creators, Relocks
<1>7. Keeps(stack, u)
  BY <1>1, <1>5, <1>6 DEF Keeps
<1> HIDE DEF u
<1>8. Settled(Append(u, Flush)) /\ Keeps(u, Append(u, Flush))
  BY <1>3, <1>5, PushKeeps DEF Creators, Relocks
<1>9. Good(stack') /\ Keeps(stack, stack')
  BY <1>4, <1>7, <1>8, KeepsChain DEF Settled
<1> QED BY <1>9, OnlyStack DEF CreateFails, pend, pool

(* An activation becomes one that nothing here depends on.                 *)
LEMMA BecomesKeeps ==
  ASSUME CoreInv, Top.kind \notin {"user", "flush", "counted"} \cup Waits, NEW k \in FrameKinds,
         k \notin Creators \cup {"counted", "wrap"}, Become(k)
  PROVE  Good(stack') /\ Keeps(stack, stack')
<1> DEFINE f == [Top EXCEPT !.kind = k]
<1>1. Settled(Below) /\ Keeps(stack, Below)
  BY PopKeeps DEF CoreInv
<1>2. Fits(Below, f) /\ f.kind = k
  BY TopFits
<1>3. stack' = Append(Below, f)
  BY Becomes
<1> HIDE DEF f
<1> QED BY <1>1, <1>2, <1>3, PushKeeps, Replaced

(* A waiter flushes, or is about to do so again.                           *)
LEMMA WaitQuiet ==
  ASSUME CoreInv, WaitFlush \/ WaitAgain PROVE QuietStep
<1> DEFINE k == IF WaitFlush THEN "waited" ELSE "wait"
           f == [Top EXCEPT !.kind = k]
           u == Append(Below, f)
<1>1. /\ Top.kind \in Waits /\ k \in Waits /\ Settled(Below)
      /\ Len(stack) \in Nat /\ Len(Below) = Len(stack) - 1
      /\ CountedIn(Below) = CountedIn(stack) /\ (Idle(stack) => Idle(Below))
      /\ \A j \in Jobs, i \in Nat : Waiting(stack, j, i) /\ i # Len(stack) => Waiting(Below, j, i)
  <2>1. Top.kind \in Waits /\ k \in Waits
    BY DEF WaitFlush, WaitAgain, At, Waits
  <2>2. Top.kind # "counted" /\ Top.kind # "user"
    BY <2>1 DEF Waits
  <2> QED BY <2>1, <2>2, PopKeeps DEF CoreInv
<1>2. Fits(Below, f) /\ f.kind = k /\ f.on = Top.on /\ f.waiting = Top.waiting
  BY <1>1, TopFits DEF Waits, FrameKinds
<1>3. stack' = u \/ stack' = Append(u, Flush)
  <2>1. CASE WaitFlush
    <3>1. k = "waited" /\ stack' = Below \o <<[Top EXCEPT !.kind = "waited"], Flush>>
      BY <2>1 DEF WaitFlush
    <3>2. stack' = Below \o <<f, Flush>> /\ Good(Below)
      BY <1>1, <3>1 DEF Settled
    <3> HIDE DEF f
    <3> QED BY <1>2, <3>2, FlushFits, TwoFrames
  <2>2. CASE ~WaitFlush
    BY <1>1, <2>2, Becomes DEF WaitAgain, Waits, FrameKinds
  <2> QED BY <2>1, <2>2
<1> HIDE DEF k
<1>4. /\ Settled(u) /\ CountedIn(u) = CountedIn(Below) /\ (Idle(Below) => Idle(u))
      /\ \A j \in Jobs, i \in Nat : Waiting(Below, j, i) => Waiting(u, j, i)
  <2>1. f.kind \notin Creators \cup {"counted"}
    BY <1>1, <1>2 DEF Waits, Creators, Relocks
  <2> HIDE DEF f
  <2> QED BY <1>1, <1>2, <2>1, PushAny DEF Creators
<1>5. \A j \in Jobs : Waiting(stack, j, Len(stack)) => Waiting(u, j, Len(stack))
  <2>1. Len(u) = Len(stack) /\ u[Len(stack)] = f /\ Len(stack) \in 1 .. Len(stack)
    <3>1. Below \in Seq(FrameRecord) /\ f \in FrameRecord /\ Len(Below) \in Nat
      BY <1>1, <1>2 DEF Settled, Good, Fits
    <3>2. Len(stack) = Len(Below) + 1
      BY <1>1
    <3> HIDE DEF f
    <3> QED BY <3>1, <3>2
  <2> QED BY <1>1, <1>2, <2>1 DEF Waiting, Top
<1> HIDE DEF u, f
<1>6. Keeps(stack, u)
  BY <1>1, <1>4, <1>5 DEF Keeps
<1>7. Settled(Append(u, Flush)) /\ Keeps(stack, Append(u, Flush))
  BY <1>4, <1>6, FlushFits, PushKeeps, KeepsChain DEF Creators, Relocks
<1>8. Good(stack') /\ Keeps(stack, stack')
  BY <1>3, <1>4, <1>6, <1>7 DEF Settled
<1> QED BY <1>8, OnlyStack DEF WaitFlush, WaitAgain, pend, pool

-----------------------------------------------------------------------------
(* Taking a job back from its list.                                        *)
LEMMA Smallest ==
  ASSUME NEW I \in SUBSET Nat, I # {} PROVE Min(I) \in I
<1> DEFINE R == {ss \in Nat \X Nat : ss[1] < ss[2]}
<1>1. IsWellFoundedOn(R, Nat)
  BY NatLessThanWellFounded DEF OpToRel
<1>2. PICK x \in I : \A y \in I : ~(<<y, x>> \in R)
  <2> HIDE DEF R
  <2> QED BY <1>1, WFMin
<1>3. \A y \in I : x =< y
  <2> SUFFICES ASSUME NEW y \in I PROVE x =< y
    OBVIOUS
  <2>1. <<y, x>> \notin R /\ x \in Nat /\ y \in Nat
    BY <1>2
  <2>2. ~(y < x)
    BY <2>1
  <2> QED BY <2>1, <2>2
<1> QED BY <1>2, <1>3 DEF Min

LEMMA RemovedTyped ==
  ASSUME NEW S, NEW s \in Seq(S), NEW e PROVE RemoveFirst(s, e) \in Seq(S)
<1> DEFINE I == {i \in 1 .. Len(s) : s[i] = e}
<1>1. CASE I = {}
  <2>1. RemoveFirst(s, e) = s
    BY <1>1 DEF RemoveFirst
  <2> QED BY <2>1
<1>2. CASE I # {}
  <2>1. I \in SUBSET Nat
    OBVIOUS
  <2>2. Min(I) \in I
    <3> HIDE DEF I
    <3> QED BY <1>2, <2>1, Smallest
  <2>3. RemoveFirst(s, e) = SubSeq(s, 1, Min(I) - 1) \o SubSeq(s, Min(I) + 1, Len(s))
    BY <1>2 DEF RemoveFirst, RemoveAt, SelectInSeq
  <2>4. PICK m : m = Min(I) /\ m \in 1 .. Len(s)
    BY <2>2
  <2> HIDE DEF I
  <2>5. SubSeq(s, 1, m - 1) \in Seq(S) /\ SubSeq(s, m + 1, Len(s)) \in Seq(S)
    BY <2>4
  <2> QED BY <2>3, <2>4, <2>5
<1> QED BY <1>1, <1>2

LEMMA GiveUpQuiet ==
  ASSUME CoreInv, RetryFails \/ OnError PROVE QuietStep
<1>1. /\ UNCHANGED <<job, thread, count, noQueue, max, calls>> /\ GiveUp(Top.on)
      /\ Top.kind \in {"retry", "onError"}
  BY DEF RetryFails, OnError, At, pool
<1>2. ListsTyped
  <2>1. CASE count = 0
    BY <1>1, <2>1, RemovedTyped DEF GiveUp, Dropped, ListsTyped, CoreInv, Types
  <2>2. CASE count # 0
    BY <1>1, <2>2, ListsUntouched DEF GiveUp, pend
  <2> QED BY <2>1, <2>2
<1>3. Settled(Below) /\ Keeps(stack, Below) /\ Top.on \in Jobs /\ Top.kind \notin {"user", "counted"} \cup Waits
  BY <1>1, PopKeeps DEF CoreInv, Waits
<1>4. Good(stack') /\ Keeps(stack, stack')
  <2>1. CASE count = 0
    <3> DEFINE f == Frame("failed", Top.on)
               u == Append(Below, f)
    <3>1. Fits(Below, f) /\ f.kind = "failed" /\ Fits(u, User) /\ User.kind = "user"
      BY <1>3, FrameFits, UserFits DEF FrameKinds
    <3>2. stack' = Append(u, User)
      BY <1>1, <1>3, <2>1, <3>1, TwoFrames DEF GiveUp, Settled
    <3> HIDE DEF f
    <3>3. Settled(u) /\ Keeps(Below, u)
      BY <1>3, <3>1, PushKeeps DEF Creators, Relocks
    <3> HIDE DEF u
    <3>4. Settled(Append(u, User)) /\ Keeps(Below, Append(u, User))
      BY <3>1, <3>3, PushKeeps, KeepsChain DEF Creators, Relocks
    <3> QED BY <1>3, <3>2, <3>4, Replaced
  <2>2. CASE count # 0
    BY <1>1, <1>3, <2>2, Popped DEF GiveUp
  <2> QED BY <2>1, <2>2
<1>5. SameThreads /\ SameWaiters /\ Uncounted
  BY <1>1, ThreadsUntouched, JobsUntouched DEF Uncounted
<1> QED BY <1>2, <1>4, <1>5, MainQuiet

-----------------------------------------------------------------------------
(* The steps that start or end a thread, or concern a waiter.              *)
LEMMA Conclude ==
  ASSUME CoreInv, SameThreads, ListsTyped, job' \in [Jobs -> JobRec], WaitersRight', Good(stack'),
         UNCHANGED <<count, noQueue>>, max' \in Nat, CountedIn(stack') = CountedIn(stack)
  PROVE  CoreInv' /\ (Counted => Counted')
<1>1. CoreInv'
  BY DEF CoreInv, Types, SameThreads, ListsTyped
<1>2. CountedIn(stack)' = CountedIn(stack)
  BY DEF CountedIn
<1> QED BY <1>1, <1>2 DEF Counted, SameThreads

LEMMA LimitKept ==
  ASSUME Limited, Idle(stack) => Idle(stack'), UNCHANGED <<count, max>> PROVE Limited'
<1>1. Idle(stack) => Idle(stack)'
  BY DEF Idle
<1> QED BY <1>1 DEF Limited

LEMMA WaitersKept ==
  ASSUME CoreInv, SameWaiters, \A j \in Jobs, i \in Nat : Waiting(stack, j, i) => Waiting(stack', j, i)
  PROVE  WaitersRight'
<1> SUFFICES ASSUME NEW j \in Jobs, job'[j].waiter # 0 PROVE Waiting(stack', j, job'[j].waiter)
  BY DEF WaitersRight, Waiting
<1>1. job'[j].waiter = job[j].waiter /\ job[j].waiter \in Nat
  BY DEF SameWaiters, CoreInv, Types, JobRec
<1> QED BY <1>1 DEF CoreInv, WaitersRight

(* A job is queued, and a thread is about to be created unless the pool is *)
(* at its limit.                                                           *)
LEMMA QueueStep ==
  ASSUME CoreInv, NEW b, Settled(b), Idle(b), CountedIn(b) = CountedIn(stack),
         \A j \in Jobs, i \in Nat : Waiting(stack, j, i) => Waiting(b, j, i),
         NEW j \in Jobs, NEW k \in Relocks, QueueJob(j, b, k),
         SameWaiters, UNCHANGED <<calls, thread, count, noQueue, max>>
  PROVE  CoreInv' /\ (Counted => Counted') /\ (Limited => Limited')
<1> DEFINE f == Frame(k, j)
<1>1. Fits(b, f) /\ f.kind = k
  BY FrameFits DEF FrameKinds, Relocks
<1>2. stack' = IF count = max THEN b ELSE Append(b, f)
  BY DEF QueueJob
<1> HIDE DEF f
<1>3. k # "counted"
  BY DEF Relocks
<1>4. /\ Good(stack') /\ CountedIn(stack') = CountedIn(stack)
      /\ \A jj \in Jobs, i \in Nat : Waiting(stack, jj, i) => Waiting(stack', jj, i)
  <2>1. CASE count = max
    BY <1>2, <2>1 DEF Settled
  <2>2. CASE count # max
    BY <1>1, <1>2, <1>3, <2>2, PushAny
  <2> QED BY <2>1, <2>2
<1>5. ListsTyped
  BY EnqueuedTyped DEF QueueJob
<1>6. CoreInv' /\ (Counted => Counted')
  <2>1. job' \in [Jobs -> JobRec] /\ max' \in Nat /\ WaitersRight'
    BY <1>4, WaitersKept DEF SameWaiters, CoreInv, Types
  <2> QED BY <1>4, <1>5, <2>1, ThreadsUntouched, Conclude
<1>7. ASSUME Limited PROVE Limited'
  <2>1. CASE count = max
    BY <1>2, <1>7, <2>1, LimitKept
  <2>2. CASE count # max
    BY <1>7, <2>2 DEF Limited, CoreInv, Types
  <2> QED BY <2>1, <2>2
<1> QED BY <1>6, <1>7

LEMMA RunStep ==
  ASSUME CoreInv, RetryDirectFails \/ \E j \in Jobs : Run(j)
  PROVE  CoreInv' /\ (Counted => Counted') /\ (Limited => Limited')
<1>1. CASE RetryDirectFails
  <2>1. Top.kind = "directRetry" /\ ~Locked /\ QueueJob(Top.on, Below, "relockTried")
    BY <1>1 DEF RetryDirectFails, At
  <2>2. Settled(Below) /\ Top.on \in Jobs /\ Keeps(stack, Below)
    BY <2>1, PopKeeps DEF CoreInv, Waits
  <2>3. Idle(stack)
    BY <2>1 DEF CoreInv, Good, Locked, LockFrames, Idle, Creators, Relocks, Top
  <2>4. "relockTried" \in Relocks /\ SameWaiters /\ UNCHANGED <<calls, thread, count, noQueue, max>>
    BY <1>1, JobsUntouched DEF Relocks, RetryDirectFails, pool
  <2> QED BY <2>1, <2>2, <2>3, <2>4, QueueStep DEF Keeps
<1>2. ASSUME NEW j \in Jobs, Run(j)
      PROVE  CoreInv' /\ (Counted => Counted') /\ (Limited => Limited')
  <2>1. Top.kind = "user" /\ ~Locked /\ QueueJob(j, stack, "relock")
    BY <1>2 DEF Run, InUser
  <2>2. Settled(stack) /\ Keeps(stack, stack)
    BY <2>1, TopSettled, KeepsAll DEF Relocks
  <2>3. Idle(stack)
    BY <2>1, <2>2 DEF Settled, Relocked, Good, Locked, LockFrames, Idle, Creators
  <2>4. [NewJob EXCEPT !.mem = "live"] \in JobRec /\ [NewJob EXCEPT !.mem = "live"].waiter = 0
    BY DEF NewJob, JobRec, Funcs
  <2>5. "relock" \in Relocks /\ SameWaiters /\ UNCHANGED <<calls, thread, count, noQueue, max>>
    BY <1>2, <2>4, SetJob DEF Relocks, Run, Born, pool
  <2> QED BY <2>1, <2>2, <2>3, <2>5, QueueStep DEF Keeps
<1> QED BY <1>1, <1>2

LEMMA MaxSetStep ==
  ASSUME CoreInv, NEW n \in 1 .. MaxLimit, MaxSet(n)
  PROVE  CoreInv' /\ (Counted => Counted')
         /\ (("lowerMax" \notin Liberties \/ UNCHANGED max) /\ Limited => Limited')
<1>1. Good(stack') /\ Keeps(stack, stack') /\ SameThreads /\ SameWaiters /\ ListsTyped /\ UNCHANGED <<count, noQueue, stack>>
  BY StackUntouched, ThreadsUntouched, JobsUntouched, ListsUntouched DEF MaxSet, pend, main
<1>2. n \in Nat /\ max' = n
  BY BoundsAssumption DEF MaxSet
<1>3. CoreInv' /\ (Counted => Counted')
  <2>1. job' \in [Jobs -> JobRec] /\ WaitersRight' /\ CountedIn(stack') = CountedIn(stack)
    BY <1>1, WaitersKept DEF SameWaiters, Keeps
  <2> QED BY <1>1, <1>2, <2>1, Conclude
<1>4. ASSUME "lowerMax" \notin Liberties \/ UNCHANGED max, Limited PROVE Limited'
  <2>1. n > max \/ n = max
    BY <1>2, <1>4 DEF MaxSet, Allowed
  <2>2. count \in Int /\ max \in Nat
    BY DEF CoreInv, Types
  <2>3. count' = count /\ (Idle(stack)' <=> Idle(stack))
    BY <1>1 DEF Idle
  <2> QED BY <1>2, <1>4, <2>1, <2>2, <2>3 DEF Limited
<1> QED BY <1>3, <1>4

LEMMA WaitStep ==
  ASSUME CoreInv, NEW j \in Jobs, Wait(j)
  PROVE  CoreInv' /\ (Counted => Counted') /\ (Limited => Limited')
<1> DEFINE f == [Frame("wait", j) EXCEPT !.func = job[j].func, !.waiting = TRUE]
           n == Len(stack) + 1
           r == [job[j] EXCEPT !.func = "wrap", !.waiter = n]
<1>1. Top.kind = "user" /\ Settled(stack) /\ Keeps(stack, stack)
  BY TopSettled, KeepsAll DEF Wait, InUser, Relocks
<1>2. job[j] \in JobRec /\ Len(stack) \in Nat /\ stack \in Seq(FrameRecord)
  BY DEF CoreInv, Types, Good
<1>3. f \in FrameRecord /\ f.kind = "wait" /\ f.on = j /\ f.waiting = TRUE
  <2>1. Fits(stack, Frame("wait", j)) /\ Frame("wait", j).kind = "wait" /\ Frame("wait", j).on = j
    BY FrameFits DEF FrameKinds
  <2>2. job[j].func \in Funcs
    BY <1>2 DEF JobRec
  <2> QED BY <2>1, <2>2 DEF Fits, FrameRecord
<1>4. r \in JobRec /\ r.waiter = n /\ n \in Nat
  <2>1. n \in Nat
    BY <1>2
  <2> HIDE DEF n
  <2> QED BY <1>2, <2>1 DEF JobRec, Funcs
<1>5. /\ stack' = Append(stack, f) /\ job' = [job EXCEPT ![j] = r]
      /\ UNCHANGED <<thread, pendShort, pendFeedback, calls, count, noQueue, max>>
  BY DEF Wait, Push, pend, pool
<1> HIDE DEF f, r
<1>6. Good(stack') /\ Keeps(stack, stack')
  <2>1. Fits(stack, f)
    BY <1>3 DEF Fits
  <2> QED BY <1>1, <1>3, <1>5, <2>1, PushKeeps DEF Settled, Creators, Relocks
<1>7. job' \in [Jobs -> JobRec] /\ \A i \in Jobs : job'[i] = IF i = j THEN r ELSE job[i]
  BY <1>4, <1>5 DEF CoreInv, Types
<1>8. Waiting(stack', j, n)
  <2>1. n \in 1 .. Len(stack') /\ stack'[n] = f
    BY <1>2, <1>3, <1>5
  <2> QED BY <1>3, <2>1 DEF Waiting, Waits
<1>9. WaitersRight'
  <2> SUFFICES ASSUME NEW i \in Jobs, job'[i].waiter # 0 PROVE Waiting(stack', i, job'[i].waiter)
    BY DEF WaitersRight, Waiting
  <2>1. CASE i = j
    BY <1>4, <1>7, <1>8, <2>1
  <2>2. CASE i # j
    <3>1. job'[i].waiter = job[i].waiter /\ job[i].waiter \in Nat
      BY <1>7, <2>2 DEF CoreInv, Types, JobRec
    <3> QED BY <1>6, <3>1 DEF CoreInv, WaitersRight, Keeps
  <2> QED BY <2>1, <2>2
<1>10. ListsTyped /\ SameThreads /\ max' \in Nat
  BY <1>5, ListsUntouched, ThreadsUntouched DEF CoreInv, Types
<1>11. CoreInv' /\ (Counted => Counted')
  BY <1>5, <1>6, <1>7, <1>9, <1>10, Conclude DEF Keeps
<1> QED BY <1>5, <1>6, <1>11, LimitKept DEF Keeps

(* The wait is over: nothing points to its activation any more.            *)
LEMMA WaitEndStep ==
  ASSUME CoreInv, WaitOver \/ WaitTimeout
  PROVE  CoreInv' /\ (Counted => Counted') /\ (Limited => Limited')
<1>1. /\ Top.kind = "waited" /\ stack' = Below
      /\ UNCHANGED <<thread, pendShort, pendFeedback, calls, count, noQueue, max>>
  BY DEF WaitOver, WaitTimeout, At, Pop, pend, pool
<1>2. /\ Settled(Below) /\ Top.on \in Jobs /\ Top \in FrameRecord
      /\ CountedIn(Below) = CountedIn(stack) /\ (Idle(stack) => Idle(Below))
      /\ \A j \in Jobs, i \in Nat : Waiting(stack, j, i) /\ i # Len(stack) => Waiting(Below, j, i)
  <2>1. Top.kind # "user" /\ Top.kind # "counted" /\ Top.kind \notin {"user", "flush"}
    BY <1>1
  <2> QED BY <2>1, PopKeeps DEF CoreInv
<1>3. /\ job' \in [Jobs -> JobRec]
      /\ \A j \in Jobs : job'[j].waiter = 0 \/ (job'[j].waiter = job[j].waiter /\ (Top.waiting => j # Top.on))
  <2>1. CASE WaitOver
    BY <2>1 DEF WaitOver, CoreInv, Types
  <2>2. CASE WaitTimeout
    <3>1. Top.func \in Funcs /\ job[Top.on] \in JobRec
      BY <1>2 DEF FrameRecord, CoreInv, Types
    <3> DEFINE r == [job[Top.on] EXCEPT !.func = Top.func, !.waiter = 0]
    <3>2. r \in JobRec /\ r.waiter = 0 /\ job' = [job EXCEPT ![Top.on] = r]
      BY <2>2, <3>1 DEF JobRec, WaitTimeout, Unwrap
    <3> HIDE DEF r
    <3> QED BY <1>2, <3>2 DEF CoreInv, Types
  <2> QED BY <2>1, <2>2
<1>4. WaitersRight'
  <2> SUFFICES ASSUME NEW j \in Jobs, job'[j].waiter # 0 PROVE Waiting(stack', j, job'[j].waiter)
    BY DEF WaitersRight, Waiting
  <2>1. /\ job'[j].waiter = job[j].waiter /\ job[j].waiter \in Nat
        /\ (Top.waiting => j # Top.on) /\ Waiting(stack, j, job[j].waiter)
    BY <1>3 DEF CoreInv, Types, JobRec, WaitersRight
  <2>2. job[j].waiter # Len(stack)
    BY <2>1 DEF Waiting, Top
  <2> QED BY <1>1, <1>2, <2>1, <2>2
<1>5. ListsTyped /\ SameThreads /\ max' \in Nat
  BY <1>1, ListsUntouched, ThreadsUntouched DEF CoreInv, Types
<1>6. CoreInv' /\ (Counted => Counted')
  BY <1>1, <1>2, <1>3, <1>4, <1>5, Conclude DEF Settled
<1> QED BY <1>1, <1>2, <1>6, LimitKept

LEMMA WrapDoneStep ==
  ASSUME CoreInv, WrapDone
  PROVE  CoreInv' /\ (Counted => Counted') /\ (Limited => Limited')
<1> DEFINE i == Top.waiter
           b == Below
           u == [b EXCEPT ![i].waiting = FALSE]
           r == [job[Top.on] EXCEPT !.func = stack[i].func, !.waiter = 0]
<1>1. Top.kind = "wrap" /\ stack' = u /\ job' = [job EXCEPT ![Top.on] = r]
  BY DEF WrapDone, At, Unwrap
<1>2. /\ UNCHANGED <<thread, pendShort, pendFeedback, calls, count, noQueue, max>>
  BY DEF WrapDone, pend, pool
<1>3. /\ Settled(b) /\ Top.on \in Jobs /\ Keeps(stack, b)
      /\ Len(stack) \in Nat /\ Len(b) = Len(stack) - 1 /\ Len(b) \in Nat
      /\ \A k \in 1 .. Len(b) : b[k] = stack[k]
  BY <1>1, PopKeeps DEF CoreInv, Waits
<1>4. i \in 1 .. Len(b) /\ stack[i].on = Top.on /\ i \in 1 .. Len(stack)
  <2>1. Len(stack) \in 1 .. Len(stack)
    BY DEF CoreInv, Good
  <2>2. i \in 1 .. Len(stack) - 1 /\ stack[i].on = Top.on
    BY <1>1, <2>1 DEF CoreInv, Good, Top
  <2> QED BY <1>3, <2>2
<1> HIDE DEF b, i
<1>5. b \in Seq(FrameRecord)
  BY <1>3 DEF Settled, Good
<1>6. /\ u \in Seq(FrameRecord) /\ Len(u) = Len(b) /\ DOMAIN u = DOMAIN b
      /\ \A k \in 1 .. Len(b) : /\ u[k].kind = b[k].kind /\ u[k].on = b[k].on
                                /\ u[k].waiter = b[k].waiter
                                /\ k # i => u[k] = b[k]
  <2> DEFINE f == [b[i] EXCEPT !.waiting = FALSE]
  <2>1. b[i] \in FrameRecord
    BY <1>4, <1>5
  <2>2. f \in FrameRecord /\ f.kind = b[i].kind /\ f.on = b[i].on /\ f.waiter = b[i].waiter
    BY <2>1 DEF FrameRecord
  <2>3. u = [b EXCEPT ![i] = f]
    OBVIOUS
  <2> HIDE DEF f, u
  <2>4. /\ u \in Seq(FrameRecord) /\ Len(u) = Len(b)
        /\ \A k \in 1 .. Len(b) : u[k] = IF k = i THEN f ELSE b[k]
    BY <1>4, <1>5, <2>2, <2>3, ExceptSeq
  <2>5. DOMAIN u = DOMAIN b
    BY <1>5, <2>4
  <2> QED BY <2>2, <2>4, <2>5
<1> HIDE DEF u
<1>7. Good(u)
  <2>1. 1 \in 1 .. Len(u) /\ u[1].kind = "user"
    BY <1>3, <1>6 DEF Settled, Good
  <2>2. ASSUME NEW k \in 1 .. Len(u)
        PROVE  /\ u[k].kind \notin {"user", "flush"} => u[k].on \in Jobs
               /\ u[k].kind = "wrap" => u[k].waiter \in 1 .. k - 1 /\ u[u[k].waiter].on = u[k].on
               /\ u[k].kind \in Relocks => k = Len(u)
    <3>1. /\ b[k].kind \notin {"user", "flush"} => b[k].on \in Jobs
          /\ b[k].kind = "wrap" => b[k].waiter \in 1 .. k - 1 /\ b[b[k].waiter].on = b[k].on
          /\ b[k].kind \in Relocks => k = Len(b)
      BY <1>3, <1>6 DEF Settled, Good
    <3>2. b[k].kind = "wrap" => b[k].waiter \in 1 .. Len(b)
      BY <1>3, <1>6, <3>1
    <3> QED BY <1>6, <3>1, <3>2
  <2>3. \A k, l \in 1 .. Len(u) : u[k].kind \in Creators /\ u[l].kind \in Creators => k = l
    BY <1>3, <1>6 DEF Settled, Good
  <2> QED BY <1>6, <2>1, <2>2, <2>3 DEF Good
<1>8. CountedIn(u) = CountedIn(stack) /\ (Idle(stack) => Idle(u))
  <2>1. CountedIn(u) = CountedIn(b)
    BY <1>5, <1>6 DEF CountedIn
  <2>2. Idle(b) => Idle(u)
    BY <1>6 DEF Idle
  <2> QED BY <1>3, <2>1, <2>2 DEF Keeps
<1>9. job' \in [Jobs -> JobRec] /\ \A j \in Jobs : IF j = Top.on THEN job'[j].waiter = 0 ELSE job'[j] = job[j]
  <2>1. stack[i].func \in Funcs /\ job[Top.on] \in JobRec
    <3>1. stack[i] \in FrameRecord
      BY <1>4 DEF CoreInv, Good
    <3> QED BY <1>3, <3>1 DEF CoreInv, Types, FrameRecord
  <2>2. r \in JobRec /\ r.waiter = 0
    BY <2>1 DEF JobRec
  <2> HIDE DEF r
  <2> QED BY <1>1, <1>3, <2>2 DEF CoreInv, Types
<1>10. WaitersRight'
  <2> SUFFICES ASSUME NEW j \in Jobs, job'[j].waiter # 0 PROVE Waiting(stack', j, job'[j].waiter)
    BY DEF WaitersRight, Waiting
  <2>1. j # Top.on /\ job'[j].waiter = job[j].waiter /\ job[j].waiter \in Nat
    BY <1>9 DEF CoreInv, Types, JobRec
  <2>2. Waiting(stack, j, job[j].waiter)
    BY <2>1 DEF CoreInv, WaitersRight
  <2>3. Waiting(b, j, job[j].waiter) /\ job[j].waiter # i
    BY <1>3, <1>4, <2>1, <2>2 DEF Keeps, Waiting
  <2> QED BY <1>1, <1>6, <2>1, <2>3 DEF Waiting
<1>11. ListsTyped /\ SameThreads /\ max' \in Nat
  BY <1>2, ListsUntouched, ThreadsUntouched DEF CoreInv, Types
<1>12. CoreInv' /\ (Counted => Counted')
  BY <1>1, <1>2, <1>7, <1>8, <1>9, <1>10, <1>11, Conclude
<1> QED BY <1>1, <1>2, <1>8, <1>12, LimitKept

LEMMA Finite ==
  ASSUME CoreInv
  PROVE  /\ IsFiniteSet(PoolAlive) /\ IsFiniteSet(OwnAlive) /\ IsFiniteSet(CountedIn(stack))
         /\ Cardinality(PoolAlive) \in Nat /\ Cardinality(OwnAlive) \in Nat
         /\ Cardinality(CountedIn(stack)) \in Nat
<1>1. PoolAlive \in SUBSET Threads /\ OwnAlive \in SUBSET Threads
  BY DEF PoolAlive, OwnAlive
<1>2. CountedIn(stack) \in SUBSET (1 .. Len(stack)) /\ Len(stack) \in Int /\ 1 \in Int
  BY DEF CoreInv, Good, CountedIn
<1>3. IsFiniteSet(1 .. Len(stack))
  BY <1>2, FS_Interval
<1>4. IsFiniteSet(PoolAlive) /\ IsFiniteSet(OwnAlive)
  BY <1>1, ThreadsAssumption, FS_Subset
<1>5. IsFiniteSet(CountedIn(stack))
  BY <1>2, <1>3, FS_Subset
<1> QED BY <1>4, <1>5, FS_CardinalityType

(* A thread of the pool is started ...                                     *)
LEMMA CreateStep ==
  ASSUME CoreInv, NEW t \in Threads, Create(t)
  PROVE  CoreInv' /\ (Counted => Counted') /\ (Limited => Limited')
<1> DEFINE r == [thread[t] EXCEPT !.pc = "short"]
<1>1. /\ Top.kind \in Creators /\ thread[t].pc = "none" /\ count' = count + 1 /\ Pop
      /\ UNCHANGED <<job, pendShort, pendFeedback, calls, noQueue, max>>
      /\ thread' = [thread EXCEPT ![t] = r]
  BY DEF Create, StartPool, At, Creators, Relocks, pend
<1>2. thread[t] \in ThreadRecord /\ Placed(thread[t]) /\ ~thread[t].own
  BY <1>1 DEF CoreInv, Types, ThreadsRight, Placed, PoolStates
<1>3. r \in ThreadRecord /\ r.pc = "short" /\ ~r.own /\ r.own = thread[t].own
  BY <1>2 DEF ThreadRecord
<1>4. Placed(r) /\ ~Alive(t) /\ Lives(r)
  BY <1>1, <1>3 DEF Placed, HoldStates, DirectStates, Alive, Lives
<1> HIDE DEF r
<1>5. /\ thread' \in [Threads -> ThreadRecord] /\ ThreadsRight' /\ Alive(t)'
      /\ \A u \in Threads : u # t => (Alive(u)' <=> Alive(u)) /\ thread'[u] = thread[u]
      /\ thread'[t] = r
  BY <1>1, <1>3, <1>4, SetThread DEF CoreInv, Types
<1>6. PoolAlive' = PoolAlive \cup {t} /\ t \notin PoolAlive /\ OwnAlive' = OwnAlive
  BY <1>3, <1>4, <1>5 DEF PoolAlive, OwnAlive
<1>7. /\ Settled(Below) /\ Idle(Below) /\ Keeps(stack, Below)
  BY <1>1, PopKeeps DEF CoreInv, Waits, Creators, Relocks
<1>8. Good(stack') /\ SameWaiters /\ ListsTyped /\ CountedIn(stack)' = CountedIn(stack) /\ Idle(stack)'
  BY <1>1, <1>7, JobsUntouched, ListsUntouched DEF Pop, Settled, Keeps, CountedIn, Idle
<1>9. WaitersRight'
  BY <1>1, <1>7, <1>8, WaitersKept DEF Pop, Keeps
<1>10. CoreInv'
  BY <1>1, <1>5, <1>8, <1>9 DEF CoreInv, Types, SameWaiters, ListsTyped
<1>11. ASSUME Counted PROVE Counted'
  <2>1. Cardinality(PoolAlive') = Cardinality(PoolAlive) + 1
    BY <1>6, Finite, FS_AddElement
  <2> QED BY <1>1, <1>6, <1>8, <1>11, <2>1 DEF Counted
<1>12. ASSUME Limited PROVE Limited'
  <2>1. ~Idle(stack)
    BY <1>1 DEF CoreInv, Good, Idle, Top
  <2>2. count \in Int /\ max \in Nat /\ count < max
    BY <1>12, <2>1 DEF Limited, CoreInv, Types
  <2> QED BY <1>1, <1>8, <2>2 DEF Limited
<1> QED BY <1>10, <1>11, <1>12

(* ... and leaves.                                                         *)
LEMMA LeaveStep ==
  ASSUME CoreInv, NEW t \in Threads, Leave(t)
  PROVE  CoreInv' /\ (Counted => Counted') /\ (Limited => Limited')
<1> DEFINE r == [thread[t] EXCEPT !.pc = "over"]
<1>1. /\ thread[t].pc = "leave" /\ count' = count - 1
      /\ UNCHANGED <<job, pendShort, pendFeedback, stack, noQueue, max>>
      /\ calls' = calls \o <<[op |-> "join", on |-> t]>>
      /\ thread' = [thread EXCEPT ![t] = r]
  BY DEF Leave, In, Goes, PostJoin, pend, main
<1>2. thread[t] \in ThreadRecord /\ ~thread[t].own
  BY <1>1 DEF CoreInv, Types, ThreadsRight, Placed, PoolStates
<1>3. r \in ThreadRecord /\ r.pc = "over" /\ ~r.own /\ r.own = thread[t].own
  BY <1>2 DEF ThreadRecord
<1>4. Placed(r) /\ Alive(t) /\ ~Lives(r)
  BY <1>1, <1>3 DEF Placed, HoldStates, PoolStates, DirectStates, Alive, Lives
<1> HIDE DEF r
<1>5. /\ thread' \in [Threads -> ThreadRecord] /\ ThreadsRight' /\ ~Alive(t)'
      /\ \A u \in Threads : u # t => (Alive(u)' <=> Alive(u)) /\ thread'[u] = thread[u]
      /\ thread'[t] = r
  BY <1>1, <1>3, <1>4, SetThread DEF CoreInv, Types
<1>6. PoolAlive' = PoolAlive \ {t} /\ t \in PoolAlive /\ OwnAlive' = OwnAlive
  BY <1>2, <1>3, <1>4, <1>5 DEF PoolAlive, OwnAlive
<1>7. [op |-> "join", on |-> t] \in Call
  BY DEF Call
<1>8. calls' \in Seq(Call)
  BY <1>1, <1>7 DEF CoreInv, Types
<1>9. Good(stack') /\ Keeps(stack, stack') /\ SameWaiters /\ ListsTyped
  BY <1>1, <1>8, StackUntouched, JobsUntouched, ListsUntouched
<1>10. WaitersRight'
  BY <1>9, WaitersKept DEF Keeps
<1>11. CoreInv'
  BY <1>1, <1>5, <1>9, <1>10 DEF CoreInv, Types, SameWaiters, ListsTyped
<1>12. ASSUME Counted PROVE Counted'
  <2>1. Cardinality(PoolAlive') = Cardinality(PoolAlive) - 1
    BY <1>6, Finite, FS_RemoveElement
  <2>2. CountedIn(stack)' = CountedIn(stack)
    BY <1>1 DEF CountedIn
  <2> QED BY <1>1, <1>6, <1>12, <2>1, <2>2 DEF Counted
<1>13. ASSUME Limited PROVE Limited'
  <2>1. Idle(stack)' <=> Idle(stack)
    BY <1>1 DEF Idle
  <2>2. count \in Int /\ max \in Nat
    BY DEF CoreInv, Types
  <2> QED BY <1>1, <1>13, <2>1, <2>2 DEF Limited
<1> QED BY <1>11, <1>12, <1>13

(* A thread of its own is started, counted after that, ...                 *)
LEMMA CreateDirectStep ==
  ASSUME CoreInv, NEW t \in Threads, CreateDirect(t)
  PROVE  CoreInv' /\ (Counted => Counted') /\ (Limited => Limited')
<1> DEFINE r == [thread[t] EXCEPT !.pc = "direct", !.own = TRUE, !.work = Top.on]
           f == [Top EXCEPT !.kind = "counted"]
<1>1. /\ Top.kind \in {"direct", "directRetry"} /\ thread[t].pc = "none" /\ Become("counted")
      /\ UNCHANGED <<job, pendShort, pendFeedback, calls, count, noQueue, max>>
      /\ thread' = [thread EXCEPT ![t] = r]
  BY DEF CreateDirect, At, pend, pool
<1>2. /\ Settled(Below) /\ Keeps(stack, Below) /\ Top.on \in Jobs
      /\ Len(Below) = Len(stack) - 1 /\ Len(stack) \in Nat
      /\ Len(stack) \notin CountedIn(stack)
  BY <1>1, PopKeeps DEF CoreInv, Waits
<1>3. thread[t] \in ThreadRecord
  BY DEF CoreInv, Types
<1>4. r \in ThreadRecord /\ r.pc = "direct" /\ r.own /\ r.work = Top.on
  BY <1>2, <1>3 DEF ThreadRecord
<1>5. Placed(r) /\ ~Alive(t) /\ Lives(r)
  BY <1>1, <1>2, <1>4 DEF Placed, PoolStates, Alive, Lives
<1> HIDE DEF r
<1>6. /\ thread' \in [Threads -> ThreadRecord] /\ ThreadsRight' /\ Alive(t)'
      /\ \A u \in Threads : u # t => (Alive(u)' <=> Alive(u)) /\ thread'[u] = thread[u]
      /\ thread'[t] = r
  BY <1>1, <1>4, <1>5, SetThread DEF CoreInv, Types
<1>7. OwnAlive' = OwnAlive \cup {t} /\ t \notin OwnAlive /\ PoolAlive' = PoolAlive
  BY <1>4, <1>5, <1>6 DEF PoolAlive, OwnAlive
<1>8. stack' = Append(Below, f) /\ Fits(Below, f) /\ f.kind = "counted"
  BY <1>1, Becomes, TopFits DEF FrameKinds
<1> HIDE DEF f
<1>9. /\ Good(stack') /\ CountedIn(stack') = CountedIn(Below) \cup {Len(Below) + 1}
      /\ (Idle(Below) => Idle(stack'))
      /\ \A j \in Jobs, i \in Nat : Waiting(Below, j, i) => Waiting(stack', j, i)
  BY <1>2, <1>8, PushAny DEF Creators, Relocks
<1>10. Len(Below) + 1 = Len(stack)
  BY <1>2
<1>11. CountedIn(stack)' = CountedIn(stack) \cup {Len(stack)}
  BY <1>2, <1>9, <1>10 DEF Keeps, CountedIn
<1>12. SameWaiters /\ ListsTyped
  BY <1>1, JobsUntouched, ListsUntouched
<1>13. WaitersRight'
  BY <1>2, <1>9, <1>12, WaitersKept DEF Keeps
<1>14. CoreInv'
  BY <1>1, <1>6, <1>9, <1>12, <1>13 DEF CoreInv, Types, SameWaiters, ListsTyped
<1>15. ASSUME Counted PROVE Counted'
  <2>1. Cardinality(OwnAlive') = Cardinality(OwnAlive) + 1
    BY <1>7, Finite, FS_AddElement
  <2>2. Cardinality(CountedIn(stack)') = Cardinality(CountedIn(stack)) + 1
    BY <1>2, <1>11, Finite, FS_AddElement
  <2>3. Cardinality(OwnAlive) \in Nat /\ Cardinality(CountedIn(stack)) \in Nat
    BY Finite
  <2> QED BY <1>1, <1>7, <1>15, <2>1, <2>2, <2>3 DEF Counted
<1> QED BY <1>1, <1>2, <1>9, <1>14, <1>15, LimitKept DEF Keeps

LEMMA CountDirectStep ==
  ASSUME CoreInv, CountDirect
  PROVE  CoreInv' /\ (Counted => Counted') /\ (Limited => Limited')
<1>1. /\ Top.kind = "counted" /\ Pop /\ noQueue' = noQueue + 1
      /\ UNCHANGED <<job, thread, pendShort, pendFeedback, calls, count, max>>
  BY DEF CountDirect, At, pend
<1>2. /\ Settled(Below) /\ Len(stack) \in CountedIn(stack)
      /\ CountedIn(Below) = CountedIn(stack) \ {Len(stack)} /\ (Idle(stack) => Idle(Below))
      /\ \A j \in Jobs, i \in Nat : Waiting(stack, j, i) /\ i # Len(stack) => Waiting(Below, j, i)
  BY <1>1, PopKeeps DEF CoreInv
<1>3. \A j \in Jobs, i \in Nat : Waiting(stack, j, i) => i # Len(stack)
  BY <1>1 DEF Waiting, Waits, Top
<1>4. SameThreads /\ SameWaiters /\ ListsTyped
  BY <1>1, ThreadsUntouched, JobsUntouched, ListsUntouched
<1>5. WaitersRight'
  BY <1>1, <1>2, <1>3, <1>4, WaitersKept DEF Pop
<1>6. CoreInv'
  BY <1>1, <1>2, <1>4, <1>5 DEF CoreInv, Types, SameThreads, SameWaiters, ListsTyped, Pop, Settled
<1>7. ASSUME Counted PROVE Counted'
  <2>1. CountedIn(stack)' = CountedIn(stack) \ {Len(stack)}
    BY <1>1, <1>2 DEF Pop, CountedIn
  <2>2. Cardinality(CountedIn(stack)') = Cardinality(CountedIn(stack)) - 1
    BY <1>2, <2>1, Finite, FS_RemoveElement
  <2>3. Cardinality(OwnAlive) \in Nat /\ Cardinality(CountedIn(stack)) \in Nat
    BY Finite
  <2> QED BY <1>1, <1>4, <1>7, <2>2, <2>3 DEF Counted, SameThreads
<1> QED BY <1>1, <1>2, <1>6, <1>7, LimitKept DEF Pop

(* ... and leaves, maybe before it was counted.                            *)
LEMMA LeaveDirectStep ==
  ASSUME CoreInv, NEW t \in Threads, LeaveDirect(t)
  PROVE  CoreInv' /\ (Counted => Counted') /\ (Limited => Limited')
<1> DEFINE r == [thread[t] EXCEPT !.pc = "over", !.work = None]
<1>1. /\ thread[t].pc = "directEnd" /\ noQueue' = noQueue - 1
      /\ UNCHANGED <<job, pendShort, pendFeedback, stack, count, max>>
      /\ calls' = Append(calls, Handler(Work(t))) \o <<[op |-> "join", on |-> t]>>
      /\ thread' = [thread EXCEPT ![t] = r]
  BY DEF LeaveDirect, In, PostJoin, pend, main
<1>2. thread[t] \in ThreadRecord /\ thread[t].own /\ Work(t) \in Jobs
  BY <1>1, Holding DEF HoldStates, DirectStates
<1>3. r \in ThreadRecord /\ r.pc = "over" /\ r.own
  BY <1>2 DEF ThreadRecord
<1>4. Placed(r) /\ Alive(t) /\ ~Lives(r)
  BY <1>1, <1>3 DEF Placed, HoldStates, PoolStates, DirectStates, Alive, Lives
<1> HIDE DEF r
<1>5. /\ thread' \in [Threads -> ThreadRecord] /\ ThreadsRight' /\ ~Alive(t)'
      /\ \A u \in Threads : u # t => (Alive(u)' <=> Alive(u)) /\ thread'[u] = thread[u]
      /\ thread'[t] = r
  BY <1>1, <1>3, <1>4, SetThread DEF CoreInv, Types
<1>6. OwnAlive' = OwnAlive \ {t} /\ t \in OwnAlive /\ PoolAlive' = PoolAlive
  BY <1>2, <1>3, <1>4, <1>5 DEF PoolAlive, OwnAlive
<1>7. [op |-> "join", on |-> t] \in Call /\ Handler(Work(t)) \in Call
  BY <1>2 DEF Call, Handler
<1>8. calls' \in Seq(Call)
  <2>1. Append(calls, Handler(Work(t))) \in Seq(Call)
    BY <1>7 DEF CoreInv, Types
  <2> QED BY <1>1, <1>7, <2>1
<1>9. Good(stack') /\ Keeps(stack, stack') /\ SameWaiters /\ ListsTyped
  BY <1>1, <1>8, StackUntouched, JobsUntouched, ListsUntouched
<1>10. WaitersRight'
  BY <1>9, WaitersKept DEF Keeps
<1>11. CoreInv'
  BY <1>1, <1>5, <1>9, <1>10 DEF CoreInv, Types, SameWaiters, ListsTyped
<1>12. ASSUME Counted PROVE Counted'
  <2>1. Cardinality(OwnAlive') = Cardinality(OwnAlive) - 1
    BY <1>6, Finite, FS_RemoveElement
  <2>2. CountedIn(stack)' = CountedIn(stack)
    BY <1>1 DEF CountedIn
  <2>3. Cardinality(OwnAlive) \in Nat /\ Cardinality(CountedIn(stack)) \in Nat
    BY Finite
  <2> QED BY <1>1, <1>6, <1>12, <2>1, <2>2, <2>3 DEF Counted
<1> QED BY <1>1, <1>9, <1>11, <1>12, LimitKept DEF Keeps

-----------------------------------------------------------------------------
LEMMA CreateDirectFailsQuiet ==
  ASSUME CoreInv, CreateDirectFails PROVE QuietStep
<1> DEFINE f == [Top EXCEPT !.kind = "directRetry"]
           u == Append(Below, f)
<1>1. Top.kind = "direct" /\ Settled(Below) /\ stack' = Below \o <<f, Flush>>
  BY PopKeeps DEF CreateDirectFails, At, CoreInv
<1>2. Fits(Below, f) /\ f.kind = "directRetry" /\ Fits(u, Flush) /\ Flush.kind = "flush"
  BY <1>1, TopFits, FlushFits DEF FrameKinds
<1> HIDE DEF f
<1>3. stack' = Append(u, Flush)
  BY <1>1, <1>2, TwoFrames DEF Settled
<1>4. Settled(u) /\ Keeps(Below, u)
  BY <1>1, <1>2, PushKeeps DEF Creators, Relocks
<1> HIDE DEF u
<1>5. Settled(Append(u, Flush)) /\ Keeps(Below, Append(u, Flush))
  BY <1>2, <1>4, PushKeeps, KeepsChain DEF Creators, Relocks
<1>6. Good(stack') /\ Keeps(stack, stack')
  BY <1>1, <1>3, <1>5, Replaced DEF Waits
<1> QED BY <1>6, OnlyStack DEF CreateDirectFails, pend, pool

LEMMA RetryFailsFeedbackQuiet ==
  ASSUME CoreInv, RetryFailsFeedback PROVE QuietStep
<1>1. Top.kind \in {"retry", "relockTried"} /\ Become("onError")
  BY DEF RetryFailsFeedback, At
<1>2. Good(stack') /\ Keeps(stack, stack')
  BY <1>1, BecomesKeeps DEF Waits, Creators, Relocks, FrameKinds
<1> QED BY <1>2, OnlyStack DEF RetryFailsFeedback, pend, pool

Goal == /\ CoreInv' /\ (Counted => Counted')
        /\ ("lowerMax" \notin Liberties \/ UNCHANGED max) /\ Limited => Limited'

LEMMA ThreadSteps ==
  ASSUME CoreInv, NEW t \in Threads, ThreadStep(t) \/ FunctionStep(t) PROVE Goal
<1>1. CASE \/ PickShort(t) \/ PickFeedback(t) \/ MarkRunning(t) \/ Start(t) \/ Finish(t)
           \/ LeaveRunning(t) \/ Requeue(t) \/ PostHandler(t) \/ TestOnce(t) \/ TestTwice(t)
           \/ StartDirect(t) \/ Send(t) \/ Reschedule(t) \/ CancelSelf(t) \/ Cut(t)
  <2>1. QuietStep
    BY <1>1, PickQuiet, GoesQuiet, StartQuiet, SendQuiet, CancelSelfQuiet, CutQuiet, RequeueQuiet
  <2> QED BY <2>1, QuietKeeps DEF Goal
<1>2. CASE Leave(t)
  BY <1>2, LeaveStep DEF Goal
<1>3. CASE LeaveDirect(t)
  BY <1>3, LeaveDirectStep DEF Goal
<1> QED BY <1>1, <1>2, <1>3 DEF ThreadStep, FunctionStep

LEMMA UserSteps ==
  ASSUME CoreInv, UserStep PROVE Goal
<1>1. ASSUME NEW j \in Jobs, Run(j) PROVE Goal
  BY <1>1, RunStep DEF Goal
<1>2. ASSUME NEW j \in Jobs, RunSelfLock(j) \/ CancelSelfLock(j) PROVE Goal
  BY <1>2, SelfLockQuiet, QuietKeeps DEF Goal, RunSelfLock, CancelSelfLock
<1>3. ASSUME NEW j \in Jobs, Cancel(j) \/ CancelKilled(j) \/ RunDirect(j) PROVE Goal
  BY <1>3, CallQuiet, QuietKeeps DEF Goal
<1>4. ASSUME NEW j \in Jobs, Wait(j) PROVE Goal
  BY <1>4, WaitStep DEF Goal
<1>5. ASSUME NEW n \in 1 .. MaxLimit, MaxSet(n) PROVE Goal
  BY <1>5, MaxSetStep DEF Goal
<1> QED BY <1>1, <1>2, <1>3, <1>4, <1>5 DEF UserStep

LEMMA MainSteps ==
  ASSUME CoreInv, MainStep PROVE Goal
<1>1. CASE \/ CreateFails \/ RetryFails \/ RetryFailsFeedback \/ OnError \/ Failed
           \/ CreateDirectFails \/ DirectSelfLock \/ CancelMark \/ WaitFlush \/ WaitAgain
           \/ Return \/ LoopFlush \/ FlushEnd \/ NotifyDone \/ NotifyKills \/ KillDone
  <2>1. QuietStep
    BY <1>1, CreateFailsQuiet, GiveUpQuiet, RetryFailsFeedbackQuiet, EndsQuiet, CreateDirectFailsQuiet,
       SelfLockQuiet, MarkQuiet, WaitQuiet, PushPopQuiet, KillQuiet DEF DirectSelfLock
  <2> QED BY <2>1, QuietKeeps DEF Goal
<1>2. ASSUME NEW j \in Jobs, HandlerKeeps(j) \/ HandlerKills(j) \/ Notify(j) PROVE Goal
  BY <1>2, DeliverQuiet, KillQuiet, QuietKeeps DEF Goal
<1>3. ASSUME NEW t \in Threads, Join(t) PROVE Goal
  BY <1>3, DeliverQuiet, QuietKeeps DEF Goal
<1>4. ASSUME NEW t \in Threads, Create(t) \/ CreateDirect(t) PROVE Goal
  BY <1>4, CreateStep, CreateDirectStep DEF Goal
<1>5. CASE CountDirect
  BY <1>5, CountDirectStep DEF Goal
<1>6. CASE RetryDirectFails
  BY <1>6, RunStep DEF Goal
<1>7. CASE WaitOver \/ WaitTimeout
  BY <1>7, WaitEndStep DEF Goal
<1>8. CASE WrapDone
  BY <1>8, WrapDoneStep DEF Goal
<1> QED BY <1>1, <1>2, <1>3, <1>4, <1>5, <1>6, <1>7, <1>8 DEF MainStep

LEMMA EveryStep ==
  ASSUME CoreInv, [Next]_vars PROVE Goal
<1>1. CASE Next
  BY <1>1, UserSteps, MainSteps, ThreadSteps DEF Next
<1>2. CASE UNCHANGED vars
  <2>1. Good(stack') /\ Keeps(stack, stack')
    BY <1>2, StackUntouched DEF vars
  <2> QED BY <1>2, <2>1, OnlyStack, QuietKeeps DEF Goal, vars
<1> QED BY <1>1, <1>2

LEMMA Start0 ==
  ASSUME Init PROVE CoreInv /\ Counted /\ Limited
<1>1. /\ job = [j \in Jobs |-> NewJob] /\ stack = <<User>> /\ count = 0 /\ noQueue = 0 /\ max = MaxStart
      /\ pendShort = <<>> /\ pendFeedback = <<>> /\ calls = <<>>
      /\ thread = [t \in Threads |-> [pc |-> "none", work |-> None, own |-> FALSE,
                          asked |-> FALSE, dying |-> FALSE]]
  BY DEF Init
<1>2. Types
  <2>1. NewJob \in JobRec
    BY DEF NewJob, JobRec, Funcs
  <2>2. [pc |-> "none", work |-> None, own |-> FALSE, asked |-> FALSE, dying |-> FALSE] \in ThreadRecord
    BY DEF ThreadRecord
  <2>3. pendShort \in Seq(Short) /\ pendFeedback \in Seq(Feedback \cup Direct) /\ calls \in Seq(Call)
    BY <1>1, EmptySeq
  <2> QED BY <1>1, <2>1, <2>2, <2>3, BoundsAssumption DEF Types
<1>3. User \in FrameRecord /\ User.kind = "user"
  BY UserFits DEF Fits
<1>4. stack \in Seq(FrameRecord) /\ Len(stack) = 1 /\ stack[1] = User /\ DOMAIN stack = {1}
  <2> HIDE DEF User
  <2> QED BY <1>1, <1>3
<1>5. Good(stack) /\ Idle(stack) /\ CountedIn(stack) = {}
  BY <1>3, <1>4 DEF Good, Idle, CountedIn, Creators, Relocks
<1>6. ThreadsRight /\ WaitersRight /\ PoolAlive = {} /\ OwnAlive = {}
  <2>1. \A j \in Jobs : job[j].waiter = 0
    BY <1>1 DEF NewJob
  <2>2. WaitersRight
    BY <2>1 DEF WaitersRight
  <2> QED BY <1>1, <2>2 DEF ThreadsRight, Placed, HoldStates, DirectStates, PoolAlive, OwnAlive, Alive
<1>7. Counted /\ Limited
  <2>1. Cardinality({}) = 0
    BY FS_EmptySet
  <2>2. Cardinality(PoolAlive) = 0 /\ Cardinality(OwnAlive) = 0 /\ Cardinality(CountedIn(stack)) = 0
    BY <1>5, <1>6, <2>1, Zenon
  <2>3. Counted
    BY <1>1, <2>2 DEF Counted
  <2>4. Limited
    BY <1>1, <1>5, BoundsAssumption DEF Limited
  <2> QED BY <2>3, <2>4
<1> QED BY <1>2, <1>5, <1>6, <1>7 DEF CoreInv

(* The pointer from a job to a waiter on the stack of ecore_thread_wait()  *)
(* never outlives that activation, however waits, callbacks and flushes    *)
(* are nested and however many jobs and threads there are.                 *)
THEOREM WaiterKept == SafetySpec => []WaiterOnStack
<1>1. Init => CoreInv
  BY Start0
<1>2. CoreInv /\ [Next]_vars => CoreInv'
  BY EveryStep DEF Goal
<1>3. CoreInv => WaiterOnStack
  <2> SUFFICES ASSUME CoreInv, NEW j \in Jobs, job[j].waiter # 0
               PROVE  LET i == job[j].waiter
                      IN i \in DOMAIN stack /\ stack[i].kind \in {"wait", "waited"} /\ stack[i].on = j
    BY DEF WaiterOnStack
  <2>1. Waiting(stack, j, job[j].waiter)
    BY DEF CoreInv, WaitersRight
  <2>2. DOMAIN stack = 1 .. Len(stack)
    BY DEF CoreInv, Good
  <2> QED BY <2>1, <2>2 DEF Waiting, Waits
<1> QED BY <1>1, <1>2, <1>3, PTL DEF SafetySpec

(* The counters _ecore_thread_count and _ecore_thread_count_no_queue are   *)
(* right, and the limit is kept as long as it is not lowered, although it  *)
(* is tested and the thread created in two critical sections.              *)
THEOREM CountsKept ==
  ASSUME "lowerMax" \notin Liberties PROVE SafetySpec => []CountRight
<1> DEFINE Inv == CoreInv /\ Counted /\ Limited
<1>1. Init => Inv
  BY Start0
<1>2. Inv /\ [Next]_vars => Inv'
  BY EveryStep DEF Goal
<1>3. Inv => CountRight
  BY DEF Counted, Limited, CountRight, PoolAlive, OwnAlive, CountedIn
<1> QED BY <1>1, <1>2, <1>3, PTL DEF SafetySpec
=============================================================================
