---------------------------- MODULE ThreadQueue ----------------------------
(***************************************************************************)
(* Eina's zero-copy thread queue (eina_thread_queue.c): senders allocate a *)
(* message inside a block of the queue, fill it and complete it; receivers *)
(* fetch messages in allocation order, read them in place and give them    *)
(* back; the last reader of a block frees it.  A queue may have a parent,  *)
(* which receives a message naming the child for every message of the      *)
(* child, and an fd, to which one byte is written for every message.       *)
(*                                                                         *)
(* A block is never reused here: a freed one keeps its place in blk[q], so *)
(* that a later use of it is visible.  Sizes are counted in units.         *)
(***************************************************************************)
EXTENDS Integers, Sequences, FiniteSets

CONSTANTS
  Sender, Receiver,    \* threads
  Queue,
  None,                \* no queue, no thread
  Parent,              \* thq->parent
  HasFd,               \* queues whose thq->fd is set
  SendTo,              \* queues each sender sends on
  Listens,             \* the queue each receiver serves
  How,                 \* how the receivers of a queue fetch from it
  MinSize,             \* MIN_SIZE, the room in the smallest block
  Size, SubSize,       \* sizes of the messages, and of a message to a parent
  MaxSends             \* bound: how many messages each sender sends

ASSUME QueueAssumption ==
  /\ Sender \cap Receiver = {}
  /\ None \notin Queue \cup Sender \cup Receiver
  /\ Parent \in [Queue -> Queue \cup {None}]
  /\ HasFd \subseteq Queue
  /\ SendTo \in [Sender -> SUBSET Queue]
  /\ Listens \in [Receiver -> Queue]
  /\ How \in [Queue -> SUBSET {"wait", "poll", "fd"}]
  /\ MinSize \in Nat \ {0} /\ SubSize \in Nat \ {0} /\ Size \subseteq Nat \ {0}
  /\ MaxSends \in [Sender -> Nat]

VARIABLES
  blk,          \* per queue, the blocks in the order of their allocation
  data,         \* thq->data: index in blk of the first block with senders, or 0
  last,         \* thq->last
  read,         \* thq->read: the block being read, or 0
  lock_write, lock_read,   \* holder of the spinlock, or None
  sem,          \* value of the semaphore
  pending,      \* thq->pending
  bytes,        \* bytes written to the fd and not read yet
  pc,           \* where each thread is
  path,         \* the queues of a sender's nested sends, of a receiver's fetch
  cur,          \* <<block, message>> the thread works on
  ref,          \* the local ref of _eina_thread_queue_msg_fetch_done()
  op,           \* how a receiver fetches now
  owed,         \* the child queue a receiver was told to fetch from, or None
  sends         \* messages each sender has sent

queueVars == <<blk, data, last, read>>
lockVars == <<lock_write, lock_read>>
countVars == <<sem, pending, bytes>>
vars == <<blk, data, last, read, lock_write, lock_read, sem, pending, bytes,
          pc, path, cur, ref, op, owed, sends>>

Thread == Sender \cup Receiver
Larger(a, b) == IF a > b THEN a ELSE b
Q(t) == path[t][Len(path[t])]
NoMsg == <<0, 0>>
B(t) == cur[t][1]
Blk(t) == blk[Q(t)][B(t)]
Goto(t, label) == pc' = [pc EXCEPT ![t] = label]
SetBlk(t, b) == blk' = [blk EXCEPT ![Q(t)][B(t)] = b]

Msgs(q) == UNION {{i} \X DOMAIN blk[q][i].msgs : i \in DOMAIN blk[q]}

\* lock_non_0_ref of a block has no owner that matters: the sender that takes
\* the block's count to 0 releases it, whoever took it.
NewBlock(size) ==
  [next |-> 0, non0 |-> FALSE, ref |-> 0, size |-> size, first |-> 0,
   last |-> 0, full |-> FALSE, freed |-> FALSE, msgs |-> <<>>]
-----------------------------------------------------------------------------
(* Senders. *)

\* The block of the next message: the last one if it has room.  A new block
\* is as large as its first message, which is rounded up to MIN_SIZE, so that
\* the first message of a block always fills it.
NeedsBlock(q, size) ==
  \/ data[q] = 0
  \/ LET b == blk[q][last[q]] IN b.full \/ b.size - b.last < size
Linked(q) ==
  IF data[q] = 0 THEN blk[q] ELSE [blk[q] EXCEPT ![last[q]].next = Len(blk[q]) + 1]
Placed(b, size, nr, of) ==
  [b EXCEPT !.last = @ + size, !.full = (b.last + size = b.size), !.ref = @ + 1,
            !.msgs = Append(@, [off |-> b.last, size |-> size, nr |-> nr, of |-> of, done |-> FALSE])]

\* A variant that gives a message only the room it asked for.
AllocPacked(t, q, size, of) ==
  /\ lock_write[q] = None
  /\ LET fresh == NeedsBlock(q, size)
         i     == IF fresh THEN Len(blk[q]) + 1 ELSE last[q]
         b     == Placed(IF fresh THEN NewBlock(Larger(size, MinSize)) ELSE blk[q][i],
                         size, Cardinality(Msgs(q)) + 1, of)
     IN /\ blk' = [blk EXCEPT ![q] =
                     IF fresh THEN Append(Linked(q), b) ELSE [@ EXCEPT ![i] = b]]
        /\ data' = IF data[q] = 0 THEN [data EXCEPT ![q] = i] ELSE data
        /\ last' = [last EXCEPT ![q] = i]
        /\ cur' = [cur EXCEPT ![t] = <<i, Len(b.msgs)>>]
        /\ IF b.ref = 1
             THEN /\ lock_write' = [lock_write EXCEPT ![q] = t]
                  /\ Goto(t, "non0")
             ELSE Goto(t, "count") /\ UNCHANGED lock_write
  /\ UNCHANGED <<read, lock_read, countVars, ref, op, owed>>

\* eina_thread_queue_send(): everything under lock_write up to the count of
\* the block.  The thread keeps lock_write while it waits for lock_non_0_ref.
Alloc(t, q, size, of) ==
  /\ lock_write[q] = None
  /\ LET fresh == NeedsBlock(q, size)
         room  == IF fresh THEN Larger(size, MinSize) ELSE size
         i     == IF fresh THEN Len(blk[q]) + 1 ELSE last[q]
         b     == Placed(IF fresh THEN NewBlock(room) ELSE blk[q][i], room,
                          Cardinality(Msgs(q)) + 1, of)
     IN /\ blk' = [blk EXCEPT ![q] =
                     IF fresh THEN Append(Linked(q), b) ELSE [@ EXCEPT ![i] = b]]
        /\ data' = IF data[q] = 0 THEN [data EXCEPT ![q] = i] ELSE data
        /\ last' = [last EXCEPT ![q] = i]
        /\ cur' = [cur EXCEPT ![t] = <<i, Len(b.msgs)>>]
        /\ IF b.ref = 1
             THEN /\ lock_write' = [lock_write EXCEPT ![q] = t]
                  /\ Goto(t, "non0")
             ELSE Goto(t, "count") /\ UNCHANGED lock_write
  /\ UNCHANGED <<read, lock_read, countVars, ref, op, owed>>

Send(t) ==
  /\ pc[t] = "idle" /\ sends[t] < MaxSends[t]
  /\ \E q \in SendTo[t], size \in Size :
       /\ Alloc(t, q, size, None)
       /\ path' = [path EXCEPT ![t] = <<q>>]
  /\ sends' = [sends EXCEPT ![t] = @ + 1]

\* The send to the parent inside eina_thread_queue_send_done().
SendParent(t) ==
  /\ pc[t] = "parent"
  /\ Alloc(t, Parent[Q(t)], SubSize, Q(t))
  /\ path' = [path EXCEPT ![t] = Append(@, Parent[Q(t)])]
  /\ UNCHANGED sends

TakeNon0(t) ==
  /\ pc[t] = "non0" /\ ~Blk(t).non0
  /\ SetBlk(t, [Blk(t) EXCEPT !.non0 = TRUE])
  /\ lock_write' = [lock_write EXCEPT ![Q(t)] = None]
  /\ Goto(t, "count")
  /\ UNCHANGED <<data, last, read, lock_read, countVars, path, cur, ref, op, owed, sends>>

Count(t) ==
  /\ pc[t] = "count"
  /\ pending' = [pending EXCEPT ![Q(t)] = @ + 1]
  /\ Goto(t, "open")
  /\ UNCHANGED <<queueVars, lockVars, sem, bytes, path, cur, ref, op, owed, sends>>

\* A variant that tests the count of the block before it is lowered.
AllocDoneEarly(t) ==
  /\ pc[t] = "open"
  /\ SetBlk(t, [Blk(t) EXCEPT !.ref = @ - 1, !.msgs[cur[t][2]].done = TRUE])
  /\ Goto(t, IF Blk(t).ref = 0 THEN "release" ELSE "wake")
  /\ UNCHANGED <<data, last, read, lockVars, countVars, path, cur, ref, op, owed, sends>>

\* eina_thread_queue_send_done(), called once the message is filled.
AllocDone(t) ==
  /\ pc[t] = "open"
  /\ SetBlk(t, [Blk(t) EXCEPT !.ref = @ - 1, !.msgs[cur[t][2]].done = TRUE])
  /\ Goto(t, IF Blk(t).ref = 1 THEN "release" ELSE "wake")
  /\ UNCHANGED <<data, last, read, lockVars, countVars, path, cur, ref, op, owed, sends>>

ReleaseNon0(t) ==
  /\ pc[t] = "release"
  /\ SetBlk(t, [Blk(t) EXCEPT !.non0 = FALSE])
  /\ Goto(t, "wake")
  /\ UNCHANGED <<data, last, read, lockVars, countVars, path, cur, ref, op, owed, sends>>

\* A variant that releases the semaphore twice.
WakeTwice(t) ==
  /\ pc[t] = "wake"
  /\ sem' = [sem EXCEPT ![Q(t)] = @ + 2]
  /\ Goto(t, IF Parent[Q(t)] = None THEN "fd" ELSE "parent")
  /\ UNCHANGED <<queueVars, lockVars, pending, bytes, path, cur, ref, op, owed, sends>>

Wake(t) ==
  /\ pc[t] = "wake"
  /\ sem' = [sem EXCEPT ![Q(t)] = @ + 1]
  /\ Goto(t, IF Parent[Q(t)] = None THEN "fd" ELSE "parent")
  /\ UNCHANGED <<queueVars, lockVars, pending, bytes, path, cur, ref, op, owed, sends>>

\* The byte for the fd is written after the parent has its message.
WriteFd(t) ==
  /\ pc[t] = "fd"
  /\ bytes' = IF Q(t) \in HasFd THEN [bytes EXCEPT ![Q(t)] = @ + 1] ELSE bytes
  /\ path' = [path EXCEPT ![t] = SubSeq(@, 1, Len(@) - 1)]
  /\ Goto(t, IF Len(path[t]) = 1 THEN "idle" ELSE "fd")
  /\ cur' = [cur EXCEPT ![t] = NoMsg]
  /\ UNCHANGED <<queueVars, lockVars, sem, pending, ref, op, owed, sends>>
-----------------------------------------------------------------------------
(* Receivers. *)

\* The queue a receiver fetches from next: the child it was told about, or
\* the queue it listens on.
Source(t) == IF owed[t] = None THEN Listens[t] ELSE owed[t]

Begin(t, how, label) ==
  /\ pc[t] = "idle" /\ how \in How[Source(t)]
  /\ path' = [path EXCEPT ![t] = <<Source(t)>>]
  /\ op' = [op EXCEPT ![t] = how]
  /\ Goto(t, label)
  /\ UNCHANGED <<queueVars, lockVars, pending, cur, ref, owed, sends>>

\* eina_thread_queue_wait(): the semaphore first, then the fetch.
Wait(t) ==
  /\ Begin(t, "wait", "fetch") /\ sem[Source(t)] > 0
  /\ sem' = [sem EXCEPT ![Source(t)] = @ - 1]
  /\ UNCHANGED bytes

\* eina_thread_queue_poll(): the fetch first, then the semaphore.
Poll(t) == Begin(t, "poll", "fetch") /\ UNCHANGED <<sem, bytes>>

\* A reader of the fd polls once for each byte.
ReadFd(t) ==
  /\ Begin(t, "fd", "fetch") /\ bytes[Source(t)] > 0
  /\ bytes' = [bytes EXCEPT ![Source(t)] = @ - 1]
  /\ UNCHANGED sem

Detached(q, i) ==
  /\ read' = [read EXCEPT ![q] = i]
  /\ last' = [last EXCEPT ![q] = IF @ = i THEN blk[q][i].next ELSE @]
  /\ data' = [data EXCEPT ![q] = blk[q][i].next]
  /\ blk' = [blk EXCEPT ![q][i].next = 0]

\* The fetch is over: the receiver is back in its own code.
Return(t) ==
  /\ Goto(t, "idle")
  /\ path' = [path EXCEPT ![t] = <<>>]
  /\ cur' = [cur EXCEPT ![t] = NoMsg]
  /\ op' = [op EXCEPT ![t] = "none"]

\* The fetch, under lock_read: without a block to read, the first one with
\* messages is taken off the senders' list under lock_write.
LockRead(t) ==
  /\ pc[t] = "fetch" /\ lock_read[Q(t)] = None
  /\ lock_read' = [lock_read EXCEPT ![Q(t)] = t]
  /\ Goto(t, IF read[Q(t)] = 0 THEN "detach" ELSE "take")
  /\ UNCHANGED <<queueVars, lock_write, countVars, path, cur, ref, op, owed, sends>>

Empty(t) ==
  /\ pc[t] = "detach" /\ lock_write[Q(t)] = None /\ data[Q(t)] = 0
  /\ lock_read' = [lock_read EXCEPT ![Q(t)] = None]
  /\ IF op[t] = "wait"
       THEN Goto(t, "uncount") /\ UNCHANGED <<path, cur, op>>
       ELSE Return(t)
  /\ UNCHANGED <<queueVars, lock_write, countVars, ref, owed, sends>>

\* A variant that does not wait for open messages.
DetachOpen(t) ==
  /\ pc[t] = "detach" /\ lock_write[Q(t)] = None /\ data[Q(t)] # 0
  /\ Detached(Q(t), data[Q(t)])
  /\ Goto(t, "take")
  /\ UNCHANGED <<lockVars, countVars, path, cur, ref, op, owed, sends>>

Detach(t) ==
  /\ pc[t] = "detach" /\ lock_write[Q(t)] = None /\ data[Q(t)] # 0
  /\ blk[Q(t)][data[Q(t)]].ref = 0
  /\ Detached(Q(t), data[Q(t)])
  /\ Goto(t, "take")
  /\ UNCHANGED <<lockVars, countVars, path, cur, ref, op, owed, sends>>

\* With open messages in the block the thread waits for lock_non_0_ref with
\* lock_read and lock_write held.
DetachBusy(t) ==
  /\ pc[t] = "detach" /\ lock_write[Q(t)] = None /\ data[Q(t)] # 0
  /\ blk[Q(t)][data[Q(t)]].ref > 0
  /\ lock_write' = [lock_write EXCEPT ![Q(t)] = t]
  /\ Goto(t, "blocked")
  /\ UNCHANGED <<queueVars, lock_read, countVars, path, cur, ref, op, owed, sends>>

DetachWait(t) ==
  /\ pc[t] = "blocked" /\ ~blk[Q(t)][data[Q(t)]].non0
  /\ Detached(Q(t), data[Q(t)])
  /\ lock_write' = [lock_write EXCEPT ![Q(t)] = None]
  /\ Goto(t, "take")
  /\ UNCHANGED <<lock_read, countVars, path, cur, ref, op, owed, sends>>

\* The message at the read position of the block, and the next position.
Take(t) ==
  /\ pc[t] = "take"
  /\ LET i == read[Q(t)]
         b == blk[Q(t)][i]
         m == CHOOSE k \in DOMAIN b.msgs : b.msgs[k].off = b.first
         first == b.first + b.msgs[m].size
     IN /\ blk' = [blk EXCEPT ![Q(t)][i].first = first]
        /\ read' = IF first >= b.last THEN [read EXCEPT ![Q(t)] = 0] ELSE read
        /\ cur' = [cur EXCEPT ![t] = <<i, m>>]
  /\ Goto(t, "ref")
  /\ UNCHANGED <<data, last, lockVars, countVars, path, ref, op, owed, sends>>

Ref(t) ==
  /\ pc[t] = "ref"
  /\ SetBlk(t, [Blk(t) EXCEPT !.ref = @ + 1])
  /\ lock_read' = [lock_read EXCEPT ![Q(t)] = None]
  /\ Goto(t, IF op[t] = "wait" THEN "uncount" ELSE "sem")
  /\ UNCHANGED <<data, last, read, lock_write, countVars, path, cur, ref, op, owed, sends>>

PollSem(t) ==
  /\ pc[t] = "sem" /\ sem[Q(t)] > 0
  /\ sem' = [sem EXCEPT ![Q(t)] = @ - 1]
  /\ Goto(t, "uncount")
  /\ UNCHANGED <<queueVars, lockVars, pending, bytes, path, cur, ref, op, owed, sends>>

\* A variant that keeps the count of a fetched message.
UncountForgotten(t) ==
  /\ pc[t] = "uncount"
  /\ IF cur[t] = NoMsg
       THEN Return(t)
       ELSE Goto(t, "use") /\ UNCHANGED <<path, cur, op>>
  /\ UNCHANGED <<queueVars, lockVars, countVars, ref, owed, sends>>

Uncount(t) ==
  /\ pc[t] = "uncount"
  /\ pending' = [pending EXCEPT ![Q(t)] = @ - 1]
  /\ IF cur[t] = NoMsg
       THEN Return(t)
       ELSE Goto(t, "use") /\ UNCHANGED <<path, cur, op>>
  /\ UNCHANGED <<queueVars, lockVars, sem, bytes, ref, owed, sends>>

\* eina_thread_queue_wait_done(): the count of the block is read before its
\* read position, and no lock is held.
FetchDone(t) ==
  /\ pc[t] = "use"
  /\ SetBlk(t, [Blk(t) EXCEPT !.ref = @ - 1])
  /\ ref' = [ref EXCEPT ![t] = Blk(t).ref - 1]
  /\ owed' = [owed EXCEPT ![t] = Blk(t).msgs[cur[t][2]].of]
  /\ Goto(t, "check")
  /\ UNCHANGED <<data, last, read, lockVars, countVars, path, cur, op, sends>>

CheckFree(t) ==
  /\ pc[t] = "check"
  /\ IF Blk(t).first >= Blk(t).last /\ ref[t] = 0
       THEN Goto(t, "free") /\ UNCHANGED <<path, cur, op>>
       ELSE Return(t)
  /\ ref' = [ref EXCEPT ![t] = 0]
  /\ UNCHANGED <<queueVars, lockVars, countVars, owed, sends>>

\* The block is freed after a last look at lock_non_0_ref, which its last
\* sender may still be about to release.
FreeBlock(t) ==
  /\ pc[t] = "free" /\ ~Blk(t).non0
  /\ SetBlk(t, [Blk(t) EXCEPT !.freed = TRUE])
  /\ Return(t)
  /\ UNCHANGED <<data, last, read, lockVars, countVars, ref, owed, sends>>
-----------------------------------------------------------------------------
Init ==
  /\ blk = [q \in Queue |-> <<>>]
  /\ data = [q \in Queue |-> 0] /\ last = [q \in Queue |-> 0] /\ read = [q \in Queue |-> 0]
  /\ lock_write = [q \in Queue |-> None] /\ lock_read = [q \in Queue |-> None]
  /\ sem = [q \in Queue |-> 0] /\ pending = [q \in Queue |-> 0] /\ bytes = [q \in Queue |-> 0]
  /\ pc = [t \in Thread |-> "idle"] /\ path = [t \in Thread |-> <<>>]
  /\ cur = [t \in Thread |-> NoMsg] /\ ref = [t \in Thread |-> 0]
  /\ op = [t \in Receiver |-> "none"] /\ owed = [t \in Receiver |-> None]
  /\ sends = [t \in Sender |-> 0]

\* A sender completes the message it has allocated.
SenderStep(t) ==
  \/ SendParent(t) \/ TakeNon0(t) \/ Count(t) \/ AllocDone(t)
  \/ ReleaseNon0(t) \/ Wake(t) \/ WriteFd(t)

FetchStep(t) ==
  \/ LockRead(t) \/ Empty(t) \/ Detach(t) \/ DetachBusy(t) \/ DetachWait(t)
  \/ Take(t) \/ Ref(t) \/ PollSem(t) \/ Uncount(t)
  \/ FetchDone(t) \/ CheckFree(t) \/ FreeBlock(t)

ReceiverStep(t) == Wait(t) \/ Poll(t) \/ ReadFd(t) \/ FetchStep(t)

\* Every sender is done and every receiver has nothing to fetch.
Idle ==
  /\ \A t \in Thread : pc[t] = "idle"
  /\ \A t \in Sender : sends[t] = MaxSends[t]
  /\ \A q \in Queue : sem[q] = 0
  /\ UNCHANGED vars

Next ==
  \/ \E t \in Sender : Send(t) \/ SenderStep(t)
  \/ \E t \in Receiver : ReceiverStep(t)
  \/ Idle

Fairness ==
  /\ \A t \in Sender : WF_vars(SenderStep(t))
  /\ \A t \in Receiver : WF_vars(ReceiverStep(t))

Spec == Init /\ [][Next]_vars
FairSpec == Spec /\ Fairness
-----------------------------------------------------------------------------
\* Every variable has its type; pending never goes below 0.
TypeOK ==
  /\ \A q \in Queue :
       /\ {data[q], last[q], read[q]} \subseteq 0..Len(blk[q])
       /\ {lock_write[q], lock_read[q]} \subseteq Thread \cup {None}
       /\ {sem[q], pending[q], bytes[q]} \subseteq Nat
       /\ \A i \in DOMAIN blk[q] :
            LET b == blk[q][i]
            IN /\ b.next \in 0..Len(blk[q]) /\ b.ref \in Nat
               /\ b.first \in 0..b.last /\ b.last \in 0..b.size
  /\ \A t \in Thread : cur[t] \in Nat \X Nat

\* The block a thread is about to touch.
Touches(t) ==
  CASE pc[t] \in {"non0", "open", "release", "ref", "use", "check", "free"} -> {B(t)}
    [] pc[t] = "take" -> {read[Q(t)]}
    [] pc[t] \in {"detach", "blocked"} -> {data[Q(t)]} \ {0}
    [] OTHER -> {}

\* No thread touches a block that was freed, and no pointer of a queue is left
\* to one, although the last reader frees it without a lock while its sender
\* may still hold lock_non_0_ref and others fetch (eina_thread_queue.c:299).
NoUseAfterFree ==
  /\ \A t \in Thread : \A i \in Touches(t) : ~blk[Q(t)][i].freed
  /\ \A q \in Queue : \A i \in {data[q], last[q], read[q]} \ {0} : ~blk[q][i].freed

\* A receiver that was woken for a message (it took a count of the semaphore
\* or a byte of the fd, or was told by the parent) finds one.
Woken(t) == op[t] \in {"wait", "fd"} \/ owed[t] # None
NeverEmptyHanded ==
  \A t \in Receiver : pc[t] = "detach" /\ Woken(t) => data[Q(t)] # 0

\* pending counts the messages that can be fetched: all that are complete and
\* not taken, and none that was never allocated or that a receiver has.
Msg(q, m) == blk[q][m[1]].msgs[m[2]]
Taken(q, m) == Msg(q, m).off < blk[q][m[1]].first
Uncounted(q) == {t \in Receiver : pc[t] \in {"ref", "sem", "uncount"} /\ Q(t) = q}
PendingCovers ==
  \A q \in Queue :
    LET left == {m \in Msgs(q) : ~Taken(q, m)}
    IN /\ pending[q] >= Cardinality({m \in left : Msg(q, m).done})
       /\ pending[q] <= Cardinality(left) + Cardinality(Uncounted(q))

CompleteMsgs(q) == {Msg(q, m).nr : m \in {n \in Msgs(q) : Msg(q, n).done}}
TakenMsgs(q) == {Msg(q, m).nr : m \in {n \in Msgs(q) : Taken(q, n)}}

Service == INSTANCE MessageService WITH
  allocated <- [q \in Queue |-> Cardinality(Msgs(q))],
  complete  <- [q \in Queue |-> CompleteMsgs(q)],
  taken     <- [q \in Queue |-> TakenMsgs(q)]

\* Messages are given out in the order of their allocation, each once, and
\* none before it is complete, whatever blocks hold them.
ServiceSpec == Service!Spec

\* A complete message does not stay in its queue while receivers listen, and
\* neither does the message of a child of which the parent was told.
Delivered ==
  \A q \in Queue : CompleteMsgs(q) # TakenMsgs(q) ~> CompleteMsgs(q) = TakenMsgs(q)
=============================================================================
