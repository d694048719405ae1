------------------------- MODULE ThreadQueueProofs -------------------------
(***************************************************************************)
(* Proofs about ThreadQueue for every number of threads, queues, messages  *)
(* and blocks: no thread touches a block that was freed, and the queue     *)
(* gives out its messages in the order of their allocation, each once and  *)
(* complete.                                                               *)
(***************************************************************************)
EXTENDS ThreadQueue, SequenceTheorems, FiniteSetTheorems, TLAPS

-----------------------------------------------------------------------------
(* Types. *)

Message == [off : Nat, size : Nat, nr : Nat, of : Queue \cup {None}, done : BOOLEAN]
Block == [next : Nat, non0 : BOOLEAN, ref : Nat, size : Nat, first : Nat, last : Nat,
          full : BOOLEAN, freed : BOOLEAN, msgs : Seq(Message)]

Filling   == {"non0", "count", "open"}        \* the message is not complete
Gated     == {"count", "open", "release"}     \* lock_non_0_ref is taken
Sending   == Filling \cup {"release"}
SenderPcs == {"idle", "wake", "parent", "fd"} \cup Sending
Reading   == {"take", "ref"}
Counted   == {"sem", "uncount", "use"}        \* the reader is in the block's count
Holding   == {"ref", "check", "free"} \cup Counted
Fetching  == {"detach", "blocked", "take", "ref"}    \* lock_read is held
ReceiverPcs == {"idle", "fetch"} \cup Fetching \cup Holding

Types ==
  /\ blk \in [Queue -> Seq(Block)]
  /\ data \in [Queue -> Nat] /\ last \in [Queue -> Nat] /\ read \in [Queue -> Nat]
  /\ lock_write \in [Queue -> Thread \cup {None}] /\ lock_read \in [Queue -> Thread \cup {None}]
  /\ pc \in [Thread -> SenderPcs \cup ReceiverPcs]
  /\ path \in [Thread -> Seq(Queue)]
  /\ cur \in [Thread -> Nat \X Nat] /\ ref \in [Thread -> Nat]
  /\ op \in [Receiver -> {"none", "wait", "poll", "fd"}] /\ owed \in [Receiver -> Queue \cup {None}]

(* A thread that is not idle works on a queue. *)
Settled(t) ==
  /\ pc[t] \in IF t \in Sender THEN SenderPcs ELSE ReceiverPcs
  /\ pc[t] # "idle" => path[t] # <<>>
  /\ pc[t] = "parent" => Parent[Q(t)] # None

Placing == \A t \in Thread : Settled(t)

-----------------------------------------------------------------------------
(* Blocks. *)

(* The first message of a block fills it, so it stays the only one: it is  *)
(* the block's place in the order of allocation.                           *)
OneMessage(b, i) ==
  /\ b.size > 0 /\ b.last = b.size /\ b.full
  /\ b.first \in {0, b.size}
  /\ Len(b.msgs) = 1
  /\ b.msgs[1].off = 0 /\ b.msgs[1].size = b.size /\ b.msgs[1].nr = i

Shaped == \A q \in Queue : \A i \in 1 .. Len(blk[q]) : OneMessage(blk[q][i], i)

(* The blocks that were taken off the senders' list are the first ones. *)
Detached0(q) == IF data[q] = 0 THEN Len(blk[q]) ELSE data[q] - 1

Listed ==
  \A q \in Queue :
    /\ data[q] <= Len(blk[q])
    /\ last[q] = IF data[q] = 0 THEN 0 ELSE Len(blk[q])
    /\ \A i \in 1 .. Len(blk[q]) :
         blk[q][i].next = IF i <= Detached0(q) \/ i = Len(blk[q]) THEN 0 ELSE i + 1
    /\ read[q] \in {0, Detached0(q)}

(* The blocks that were taken off the list were read, but for one. *)
Consumed(q, i) == i <= Detached0(q) /\ i # read[q]

Ordered ==
  \A q \in Queue : \A i \in 1 .. Len(blk[q]) :
    blk[q][i].first = IF Consumed(q, i) THEN blk[q][i].size ELSE 0

At(t, q, i) == Q(t) = q /\ cur[t] = <<i, 1>>
Fills(t, q, i) == pc[t] \in Filling /\ At(t, q, i)
Holds(t, q, i) == pc[t] \in Holding /\ At(t, q, i)

Done(q, i) == blk[q][i].msgs[1].done

(* An incomplete message has its sender, which is in the block's count; a  *)
(* block is freed after its message was read.                              *)
Attended(q, i) ==
  /\ ~Done(q, i) => blk[q][i].ref = 1 /\ \E t \in Sender : Fills(t, q, i)
  /\ i <= Detached0(q) => Done(q, i)
  /\ Done(q, i) /\ ~Consumed(q, i) => blk[q][i].ref = 0
  /\ blk[q][i].freed => /\ Consumed(q, i) /\ ~blk[q][i].non0
                        /\ \A t \in Receiver : ~Holds(t, q, i)

Filled == \A q \in Queue : \A i \in 1 .. Len(blk[q]) : Attended(q, i)

-----------------------------------------------------------------------------
(* Threads. *)

LocksHeld(t) ==
  /\ pc[t] \in {"non0", "blocked"} => lock_write[Q(t)] = t
  /\ pc[t] \in Fetching => lock_read[Q(t)] = t

Locked == \A t \in Thread : LocksHeld(t)

Sends(t) == pc[t] \in Sending =>
  /\ B(t) \in 1 .. Len(blk[Q(t)]) /\ At(t, Q(t), B(t))
  /\ pc[t] \in Filling <=> ~Done(Q(t), B(t))
  /\ pc[t] \in Gated => blk[Q(t)][B(t)].non0

Senders ==
  /\ \A t \in Sender : Sends(t)
  /\ \A s, t \in Sender :
       pc[s] \in Sending /\ pc[t] \in Sending /\ Q(s) = Q(t) /\ B(s) = B(t) => s = t

HasMsg(t) == pc[t] \in Holding /\ cur[t] # NoMsg

Receives(t) ==
  /\ pc[t] \in {"detach", "blocked"} => read[Q(t)] = 0
  /\ pc[t] = "blocked" => data[Q(t)] # 0
  /\ pc[t] = "take" => read[Q(t)] # 0
  /\ pc[t] \notin Holding => cur[t] = NoMsg
  /\ pc[t] \in Holding \ {"uncount"} => cur[t] # NoMsg
  /\ HasMsg(t) =>
       /\ B(t) \in 1 .. Len(blk[Q(t)]) /\ At(t, Q(t), B(t)) /\ Consumed(Q(t), B(t))
       /\ blk[Q(t)][B(t)].ref = IF pc[t] \in Counted THEN 1 ELSE 0

Receivers ==
  /\ \A t \in Receiver : Receives(t)
  /\ \A s, t \in Receiver : HasMsg(s) /\ HasMsg(t) /\ Q(s) = Q(t) /\ B(s) = B(t) => s = t

QueueInv == Types /\ Placing /\ Shaped /\ Listed /\ Ordered /\ Filled /\ Locked /\ Senders /\ Receivers

-----------------------------------------------------------------------------
(* What a step does to the order of the messages: nothing, or it adds one, *)
(* completes one, or gives the next one out.                               *)
Kept(q) == Len(blk'[q]) = Len(blk[q])
DoneKept(q, i) == Done(q, i)' <=> Done(q, i)
ConsumedKept(q, i) == Consumed(q, i)' <=> Consumed(q, i)

Unseen ==
  \A q \in Queue : Kept(q) /\ \A i \in 1 .. Len(blk[q]) : DoneKept(q, i) /\ ConsumedKept(q, i)
Opens(q, n) ==
  /\ \A p \in Queue \ {q} : Kept(p)
  /\ n = Len(blk[q]) + 1 /\ Len(blk'[q]) = n
  /\ ~Done(q, n)' /\ ~Consumed(q, n)'
  /\ \A p \in Queue : \A i \in 1 .. Len(blk[p]) : DoneKept(p, i) /\ ConsumedKept(p, i)
Completes(q, i) ==
  /\ ~Done(q, i) /\ Done(q, i)'
  /\ \A p \in Queue : Kept(p) /\ \A k \in 1 .. Len(blk[p]) : ConsumedKept(p, k) /\ (p # q \/ k # i => DoneKept(p, k))
Takes(q, i) ==
  /\ Done(q, i) /\ Consumed(q, i)'
  /\ \A k \in 1 .. Len(blk[q]) : Consumed(q, k) <=> k < i
  /\ \A p \in Queue : Kept(p) /\ \A k \in 1 .. Len(blk[p]) : DoneKept(p, k) /\ (p # q \/ k # i => ConsumedKept(p, k))

Seen ==
  \/ Unseen
  \/ \E q \in Queue, i \in Nat : Opens(q, i) \/ (i \in 1 .. Len(blk[q]) /\ (Completes(q, i) \/ Takes(q, i)))

Advance == QueueInv' /\ Seen

-----------------------------------------------------------------------------
(* One block is written to. *)
LEMMA OneBlock ==
  ASSUME blk \in [Queue -> Seq(Block)], NEW q \in Queue, NEW i \in 1 .. Len(blk[q]),
         NEW b \in Block, blk' = [blk EXCEPT ![q][i] = b]
  PROVE  /\ blk' \in [Queue -> Seq(Block)]
         /\ \A p \in Queue : Len(blk'[p]) = Len(blk[p])
         /\ blk'[q][i] = b
         /\ \A p \in Queue : \A k \in 1 .. Len(blk[p]) : p # q \/ k # i => blk'[p][k] = blk[p][k]
<1>1. blk[q] \in Seq(Block) /\ [blk[q] EXCEPT ![i] = b] \in Seq(Block)
      /\ Len([blk[q] EXCEPT ![i] = b]) = Len(blk[q])
  OBVIOUS
<1>2. blk' = [blk EXCEPT ![q] = [blk[q] EXCEPT ![i] = b]]
  OBVIOUS
<1> QED BY <1>1, <1>2

LEMMA BlocksTyped ==
  ASSUME Types, NEW q \in Queue, NEW i \in 1 .. Len(blk[q])
  PROVE  blk[q][i] \in Block
BY DEF Types

(* What a thread writes to a block but for its place and its message. *)
LEMMA BlockKept ==
  ASSUME Types, Shaped, Listed, Ordered, NEW q \in Queue, NEW i \in 1 .. Len(blk[q]), NEW b \in Block,
         blk' = [blk EXCEPT ![q][i] = b], UNCHANGED <<data, last, read>>,
         b.next = blk[q][i].next, b.size = blk[q][i].size, b.first = blk[q][i].first,
         b.last = blk[q][i].last, b.full = blk[q][i].full, Len(b.msgs) = 1,
         b.msgs[1].off = blk[q][i].msgs[1].off, b.msgs[1].size = blk[q][i].msgs[1].size,
         b.msgs[1].nr = blk[q][i].msgs[1].nr
  PROVE  Shaped' /\ Listed' /\ Ordered'
         /\ \A p \in Queue, k \in Nat : Consumed(p, k)' <=> Consumed(p, k)
<1>1. /\ \A p \in Queue : Len(blk'[p]) = Len(blk[p])
      /\ blk'[q][i] = b
      /\ \A p \in Queue : \A k \in 1 .. Len(blk[p]) : p # q \/ k # i => blk'[p][k] = blk[p][k]
  BY OneBlock DEF Types
<1>2. \A p \in Queue : Detached0(p)' = Detached0(p)
  BY <1>1 DEF Detached0
<1>3. \A p \in Queue, k \in Nat : Consumed(p, k)' <=> Consumed(p, k)
  BY <1>2 DEF Consumed
<1>4. Shaped'
  BY <1>1 DEF Shaped, OneMessage
<1>5. Listed'
  BY <1>1, <1>2 DEF Listed
<1>6. Ordered'
  BY <1>1, <1>3 DEF Ordered
<1> QED BY <1>3, <1>4, <1>5, <1>6

-----------------------------------------------------------------------------
(* A step of one thread: what it must show for the other threads.         *)
Stays(t) == \A u \in Thread \ {t} :
  /\ pc'[u] = pc[u] /\ path'[u] = path[u] /\ cur'[u] = cur[u]
  /\ Q(u)' = Q(u) /\ B(u)' = B(u)

LEMMA OnQueue ==
  ASSUME Types, Placing, NEW t \in Thread, pc[t] # "idle"
  PROVE  /\ Q(t) \in Queue /\ path[t] \in Seq(Queue) /\ Len(path[t]) \in Nat \ {0}
         /\ blk[Q(t)] \in Seq(Block) /\ Len(blk[Q(t)]) \in Nat
<1>1. path[t] \in Seq(Queue) /\ path[t] # <<>>
  BY DEF Types, Placing, Settled
<1>2. Q(t) \in Queue
  BY <1>1 DEF Q
<1>3. blk[Q(t)] \in Seq(Block)
  BY <1>2 DEF Types
<1> QED BY <1>1, <1>2, <1>3

LEMMA OthersPlaced ==
  ASSUME Placing, NEW t \in Thread, Stays(t), Settled(t)'
  PROVE  Placing'
<1>1. ASSUME NEW u \in Thread, u # t PROVE Settled(u)'
  BY <1>1 DEF Placing, Settled, Stays
<1> QED BY <1>1 DEF Placing

LEMMA OthersLocked ==
  ASSUME Locked, NEW t \in Thread, Stays(t), LocksHeld(t)', Types, Placing,
         \A p \in Queue : \A u \in Thread \ {t} : lock_write[p] = u => lock_write'[p] = u,
         \A p \in Queue : \A u \in Thread \ {t} : lock_read[p] = u => lock_read'[p] = u
  PROVE  Locked'
<1>1. ASSUME NEW u \in Thread, u # t PROVE LocksHeld(u)'
  <2>1. pc[u] # "idle" => Q(u) \in Queue
    <3>1. path[u] \in Seq(Queue) /\ (pc[u] # "idle" => path[u] # <<>>)
      BY DEF Types, Placing, Settled
    <3> QED BY <3>1 DEF Q
  <2>2. LocksHeld(u) /\ pc'[u] = pc[u] /\ Q(u)' = Q(u)
    BY <1>1 DEF Locked, Stays
  <2> QED BY <1>1, <2>1, <2>2 DEF LocksHeld, Fetching
<1> QED BY <1>1 DEF Locked

LEMMA OthersSend ==
  ASSUME Senders, NEW t \in Thread, Stays(t), t \in Sender => Sends(t)',
         \A u \in Sender \ {t} : pc[u] \in Sending =>
           /\ Len(blk'[Q(u)]) >= Len(blk[Q(u)])
           /\ Len(blk'[Q(u)]) \in Nat /\ Len(blk[Q(u)]) \in Nat
           /\ Done(Q(u), B(u))' <=> Done(Q(u), B(u))
           /\ blk[Q(u)][B(u)].non0 => blk'[Q(u)][B(u)].non0
           /\ t \in Sender /\ pc'[t] \in Sending /\ Q(t)' = Q(u) => B(t)' # B(u)
  PROVE  Senders'
<1>1. ASSUME NEW u \in Sender, u # t PROVE Sends(u)'
  <2>1. Sends(u) /\ pc'[u] = pc[u] /\ cur'[u] = cur[u] /\ Q(u)' = Q(u) /\ B(u)' = B(u)
    BY <1>1 DEF Senders, Stays, Thread
  <2>2. pc[u] \in Sending => B(u) \in 1 .. Len(blk'[Q(u)]) /\ At(u, Q(u), B(u))'
    BY <1>1, <2>1 DEF Sends, At
  <2>3. pc[u] \in Sending => (pc[u] \in Filling <=> ~Done(Q(u), B(u))')
    BY <1>1, <2>1 DEF Sends
  <2>4. pc[u] \in Gated => blk'[Q(u)][B(u)].non0
    BY <1>1, <2>1 DEF Sends, Gated, Sending, Filling
  <2> QED BY <1>1, <2>1, <2>2, <2>3, <2>4 DEF Sends, At, Done
<1>2. ASSUME NEW u \in Sender, NEW v \in Sender, u # v, pc'[u] \in Sending, pc'[v] \in Sending, Q(u)' = Q(v)',
             B(u)' = B(v)'
      PROVE  FALSE
  <2>1. u # t => pc'[u] = pc[u] /\ Q(u)' = Q(u) /\ B(u)' = B(u)
    BY DEF Stays, Thread
  <2>2. v # t => pc'[v] = pc[v] /\ Q(v)' = Q(v) /\ B(v)' = B(v)
    BY DEF Stays, Thread
  <2> QED BY <1>2, <2>1, <2>2 DEF Senders
<1> QED BY <1>1, <1>2 DEF Senders

LEMMA OthersReceive ==
  ASSUME Receivers, NEW t \in Thread, Stays(t), t \in Receiver => Receives(t)',
         \A u \in Receiver \ {t} : pc[u] \in {"detach", "blocked", "take"} =>
           read'[Q(u)] = read[Q(u)] /\ (data[Q(u)] # 0 => data'[Q(u)] # 0),
         \A u \in Receiver \ {t} : HasMsg(u) =>
           /\ Len(blk'[Q(u)]) >= Len(blk[Q(u)])
           /\ Len(blk'[Q(u)]) \in Nat /\ Len(blk[Q(u)]) \in Nat
           /\ Consumed(Q(u), B(u)) => Consumed(Q(u), B(u))'
           /\ blk'[Q(u)][B(u)].ref = blk[Q(u)][B(u)].ref
           /\ t \in Receiver /\ HasMsg(t)' /\ Q(t)' = Q(u) => B(t)' # B(u)
  PROVE  Receivers'
<1>1. ASSUME NEW u \in Receiver, u # t PROVE Receives(u)'
  <2>1. Receives(u) /\ pc'[u] = pc[u] /\ cur'[u] = cur[u] /\ Q(u)' = Q(u) /\ B(u)' = B(u)
    BY <1>1 DEF Receivers, Stays, Thread
  <2>2. /\ pc[u] \in {"detach", "blocked"} => read'[Q(u)] = 0
        /\ pc[u] = "blocked" => data'[Q(u)] # 0
        /\ pc[u] = "take" => read'[Q(u)] # 0
    BY <1>1, <2>1 DEF Receives
  <2>3. HasMsg(u) => /\ B(u) \in 1 .. Len(blk'[Q(u)]) /\ At(u, Q(u), B(u))'
                     /\ Consumed(Q(u), B(u))'
                     /\ blk'[Q(u)][B(u)].ref = IF pc[u] \in Counted THEN 1 ELSE 0
    BY <1>1, <2>1 DEF Receives, At
  <2>4. HasMsg(u)' <=> HasMsg(u)
    BY <2>1 DEF HasMsg
  <2> QED BY <2>1, <2>2, <2>3, <2>4 DEF Receives, At, Consumed, Detached0
<1>2. ASSUME NEW u \in Receiver, NEW v \in Receiver, u # v, HasMsg(u)', HasMsg(v)', Q(u)' = Q(v)',
             B(u)' = B(v)'
      PROVE  FALSE
  <2>1. u # t => HasMsg(u) /\ Q(u)' = Q(u) /\ B(u)' = B(u)
    BY <1>2 DEF Stays, Thread, HasMsg
  <2>2. v # t => HasMsg(v) /\ Q(v)' = Q(v) /\ B(v)' = B(v)
    BY <1>2 DEF Stays, Thread, HasMsg
  <2> QED BY <1>2, <2>1, <2>2 DEF Receivers
<1> QED BY <1>1, <1>2 DEF Receivers

LEMMA OthersAttended ==
  ASSUME NEW q \in Queue, NEW i \in 1 .. Len(blk[q]), Attended(q, i), NEW t \in Thread, Stays(t),
         Done(q, i)' <=> Done(q, i), blk'[q][i].ref = blk[q][i].ref,
         blk'[q][i].freed <=> blk[q][i].freed, blk'[q][i].non0 <=> blk[q][i].non0,
         i <= Detached0(q)' <=> i <= Detached0(q), Consumed(q, i)' <=> Consumed(q, i),
         t \in Sender /\ Fills(t, q, i) => Fills(t, q, i)',
         t \in Receiver /\ Holds(t, q, i)' => Holds(t, q, i)
  PROVE  Attended(q, i)'
<1>1. ~Done(q, i) => \E u \in Sender : Fills(u, q, i)'
  <2> SUFFICES ASSUME NEW u \in Sender, Fills(u, q, i) PROVE Fills(u, q, i)'
    BY DEF Attended
  <2> QED BY DEF Fills, At, Stays, Thread
<1>2. ASSUME NEW u \in Receiver, Holds(u, q, i)' PROVE Holds(u, q, i)
  BY <1>2 DEF Holds, At, Stays, Thread
<1> QED BY <1>1, <1>2 DEF Attended, Done, Consumed

(* A step that leaves the blocks alone. *)
LEMMA QuietStep ==
  ASSUME QueueInv, Types', NEW t \in Thread, Stays(t), UNCHANGED queueVars,
         Settled(t)', LocksHeld(t)',
         \A p \in Queue : \A u \in Thread \ {t} : lock_write[p] = u => lock_write'[p] = u,
         \A p \in Queue : \A u \in Thread \ {t} : lock_read[p] = u => lock_read'[p] = u,
         t \in Sender => /\ Sends(t)'
                         /\ pc'[t] \in Sending => /\ pc[t] \in Sending /\ Q(t)' = Q(t) /\ B(t)' = B(t)
                         /\ pc[t] \in Filling => /\ pc'[t] \in Filling /\ Q(t)' = Q(t) /\ cur'[t] = cur[t],
         t \in Receiver => /\ Receives(t)'
                           /\ HasMsg(t)' => HasMsg(t) /\ Q(t)' = Q(t) /\ B(t)' = B(t) /\ cur'[t] = cur[t]
  PROVE  Advance
<1>1. /\ Types /\ Placing /\ Shaped /\ Listed /\ Ordered /\ Filled /\ Locked /\ Senders /\ Receivers
      /\ blk' = blk /\ data' = data /\ last' = last /\ read' = read
  BY DEF QueueInv, queueVars
<1>2. /\ \A q \in Queue : Detached0(q)' = Detached0(q)
      /\ \A q \in Queue, i \in Nat : /\ Consumed(q, i)' <=> Consumed(q, i)
                                     /\ Done(q, i)' <=> Done(q, i)
  BY <1>1 DEF Detached0, Consumed, Done
<1>3. Shaped' /\ Listed' /\ Ordered'
  BY <1>1 DEF Shaped, OneMessage, Listed, Ordered, Detached0, Consumed
<1>4. Placing' /\ Locked'
  BY <1>1, OthersPlaced, OthersLocked
<1>5. ASSUME NEW u \in Thread, pc[u] # "idle" PROVE Q(u) \in Queue /\ Len(blk[Q(u)]) \in Nat
  BY <1>1, <1>5, OnQueue
<1>6. Senders'
  <2>1. ASSUME NEW u \in Sender, u # t, pc[u] \in Sending
        PROVE  /\ Len(blk[Q(u)]) \in Nat
               /\ Done(Q(u), B(u))' <=> Done(Q(u), B(u))
               /\ t \in Sender /\ pc'[t] \in Sending /\ Q(t)' = Q(u) => B(t)' # B(u)
    <3>1. Done(Q(u), B(u))' <=> Done(Q(u), B(u))
      BY <1>1, <2>1 DEF Done, Stays, Thread
    <3>2. Len(blk[Q(u)]) \in Nat
      BY <1>5, <2>1 DEF Sending, Filling, Thread
    <3> QED BY <1>1, <2>1, <3>1, <3>2 DEF Senders
  <2> QED BY <1>1, <2>1, OthersSend
<1>7. Receivers'
  <2>1. ASSUME NEW u \in Receiver, u # t, HasMsg(u)
        PROVE  /\ Len(blk[Q(u)]) \in Nat
               /\ Consumed(Q(u), B(u)) => Consumed(Q(u), B(u))'
               /\ t \in Receiver /\ HasMsg(t)' /\ Q(t)' = Q(u) => B(t)' # B(u)
    <3>1. Consumed(Q(u), B(u)) => Consumed(Q(u), B(u))'
      BY <1>1, <2>1 DEF Consumed, Detached0, Stays, Thread
    <3>2. Len(blk[Q(u)]) \in Nat
      BY <1>5, <2>1 DEF HasMsg, Holding, Counted, Thread
    <3> QED BY <1>1, <2>1, <3>1, <3>2 DEF Receivers
  <2> QED BY <1>1, <2>1, OthersReceive
<1>8. Filled'
  <2> SUFFICES ASSUME NEW q \in Queue, NEW i \in 1 .. Len(blk[q]) PROVE Attended(q, i)'
    BY <1>1 DEF Filled
  <2>1. Attended(q, i)
    BY <1>1 DEF Filled
  <2>2. t \in Sender /\ Fills(t, q, i) => Fills(t, q, i)'
    BY DEF Fills, At
  <2>3. t \in Receiver /\ Holds(t, q, i)' => Holds(t, q, i)
    <3> SUFFICES ASSUME t \in Receiver, Holds(t, q, i)' PROVE Holds(t, q, i)
      OBVIOUS
    <3>1. HasMsg(t)'
      BY DEF Holds, HasMsg, At, NoMsg
    <3> QED BY <3>1 DEF Holds, At, HasMsg
  <2>4. i \in Nat
    OBVIOUS
  <2> QED BY <1>1, <1>2, <2>1, <2>2, <2>3, <2>4, OthersAttended
<1>9. Unseen
  BY <1>1, <1>2 DEF Unseen, Kept, DoneKept, ConsumedKept, Types
<1> QED BY <1>1, <1>3, <1>4, <1>6, <1>7, <1>8, <1>9 DEF QueueInv, Advance, Seen

(* What a step does to the thread that takes it. *)
LEMMA Moves ==
  ASSUME Types, NEW t \in Thread, NEW x, NEW y, NEW z, pc' = [pc EXCEPT ![t] = x],
         path' = [path EXCEPT ![t] = y], cur' = [cur EXCEPT ![t] = z]
  PROVE  /\ Stays(t) /\ pc'[t] = x /\ path'[t] = y /\ cur'[t] = z
         /\ y = path[t] => Q(t)' = Q(t)
         /\ z = cur[t] => B(t)' = B(t)
BY DEF Types, Stays, Q, B

LEMMA GoesOn ==
  ASSUME Types, NEW t \in Thread, NEW x, Goto(t, x), path' = path, cur' = cur
  PROVE  /\ Stays(t) /\ pc'[t] = x /\ path'[t] = path[t] /\ cur'[t] = cur[t]
         /\ Q(t)' = Q(t) /\ B(t)' = B(t)
BY DEF Types, Stays, Q, B, Goto

LEMMA ComesBack ==
  ASSUME Types, NEW t \in Receiver, Return(t)
  PROVE  /\ Stays(t) /\ pc'[t] = "idle" /\ path'[t] = <<>> /\ cur'[t] = NoMsg
         /\ pc' \in [Thread -> SenderPcs \cup ReceiverPcs] /\ path' \in [Thread -> Seq(Queue)]
         /\ cur' \in [Thread -> Nat \X Nat] /\ op' \in [Receiver -> {"none", "wait", "poll", "fd"}]
<1>1. t \in Thread /\ pc' = [pc EXCEPT ![t] = "idle"] /\ path' = [path EXCEPT ![t] = <<>>]
      /\ cur' = [cur EXCEPT ![t] = NoMsg] /\ op' = [op EXCEPT ![t] = "none"]
  BY DEF Thread, Return, Goto
<1>2. <<>> \in Seq(Queue) /\ NoMsg \in Nat \X Nat /\ "idle" \in SenderPcs \cup ReceiverPcs
  BY DEF NoMsg, SenderPcs
<1>3. Stays(t) /\ pc'[t] = "idle" /\ path'[t] = <<>> /\ cur'[t] = NoMsg
  BY <1>1, Moves
<1> QED BY <1>1, <1>2, <1>3 DEF Types

LEMMA Kinds == Sender \cap Receiver = {} /\ Sender \subseteq Thread /\ Receiver \subseteq Thread
BY QueueAssumption DEF Thread

LEMMA CountStep == ASSUME QueueInv, NEW t \in Sender, Count(t) PROVE Advance
<1>1. Types /\ Placing /\ Senders /\ t \in Thread /\ t \notin Receiver
  BY Kinds DEF QueueInv
<1>2. /\ pc[t] = "count" /\ Goto(t, "open") /\ path' = path /\ cur' = cur
      /\ UNCHANGED queueVars /\ UNCHANGED lockVars /\ UNCHANGED <<ref, op, owed>>
  BY DEF Count
<1>3. /\ Stays(t) /\ pc'[t] = "open" /\ path'[t] = path[t] /\ cur'[t] = cur[t]
      /\ Q(t)' = Q(t) /\ B(t)' = B(t)
  BY <1>1, <1>2, GoesOn
<1>4. Types'
  BY <1>1, <1>2 DEF Types, Goto, queueVars, lockVars, SenderPcs, Sending, Filling
<1>5. Settled(t)' /\ LocksHeld(t)'
  BY <1>1, <1>2, <1>3 DEF Placing, Settled, LocksHeld, SenderPcs, Sending, Filling, Fetching
<1>6. Sends(t)'
  BY <1>1, <1>2, <1>3 DEF Senders, Sends, Sending, Filling, Gated, At, Done, queueVars
<1> QED BY <1>1, <1>2, <1>3, <1>4, <1>5, <1>6, QuietStep DEF lockVars, Sending, Filling

LEMMA WakeStep == ASSUME QueueInv, NEW t \in Sender, Wake(t) PROVE Advance
<1> DEFINE x == IF Parent[Q(t)] = None THEN "fd" ELSE "parent"
<1>1. Types /\ Placing /\ Senders /\ t \in Thread /\ t \notin Receiver
  BY Kinds DEF QueueInv
<1>2. /\ pc[t] = "wake" /\ Goto(t, x) /\ path' = path /\ cur' = cur
      /\ UNCHANGED queueVars /\ UNCHANGED lockVars /\ UNCHANGED <<ref, op, owed>>
  BY DEF Wake
<1>3. /\ Stays(t) /\ pc'[t] = x /\ path'[t] = path[t] /\ cur'[t] = cur[t]
      /\ Q(t)' = Q(t) /\ B(t)' = B(t)
  BY <1>1, <1>2, GoesOn
<1>4. Types'
  BY <1>1, <1>2 DEF Types, Goto, queueVars, lockVars, SenderPcs
<1>5. Settled(t)' /\ LocksHeld(t)'
  BY <1>1, <1>2, <1>3 DEF Placing, Settled, LocksHeld, SenderPcs, Fetching
<1>6. Sends(t)' /\ pc'[t] \notin Sending
  BY <1>3 DEF Sends, Sending, Filling
<1> QED BY <1>1, <1>2, <1>3, <1>4, <1>5, <1>6, QuietStep DEF lockVars, Filling

LEMMA WriteFdStep == ASSUME QueueInv, NEW t \in Sender, WriteFd(t) PROVE Advance
<1> DEFINE x == IF Len(path[t]) = 1 THEN "idle" ELSE "fd"
           y == SubSeq(path[t], 1, Len(path[t]) - 1)
<1>1. Types /\ Placing /\ Senders /\ t \in Thread /\ t \notin Receiver
  BY Kinds DEF QueueInv
<1>2. /\ pc[t] = "fd" /\ pc' = [pc EXCEPT ![t] = x] /\ path' = [path EXCEPT ![t] = y]
      /\ cur' = [cur EXCEPT ![t] = NoMsg]
      /\ UNCHANGED queueVars /\ UNCHANGED lockVars /\ UNCHANGED <<ref, op, owed>>
  BY DEF WriteFd, Goto
<1>3. y \in Seq(Queue) /\ (x = "fd" => y # <<>>)
  <2>1. path[t] \in Seq(Queue) /\ Len(path[t]) \in Nat \ {0}
    BY <1>1, <1>2, OnQueue
  <2>2. y \in Seq(Queue) /\ Len(y) = Len(path[t]) - 1
    BY <2>1
  <2> HIDE DEF y
  <2>3. x = "fd" => Len(y) # 0
    BY <2>1, <2>2
  <2>4. y # <<>> <=> Len(y) # 0
    BY <2>2, EmptySeq
  <2> QED BY <2>2, <2>3, <2>4
<1>4. Stays(t) /\ pc'[t] = x /\ path'[t] = y /\ cur'[t] = NoMsg
  <2> HIDE DEF x, y
  <2> QED BY <1>1, <1>2, Moves
<1>5. Types'
  <2>1. NoMsg \in Nat \X Nat /\ x \in SenderPcs \cup ReceiverPcs
    BY DEF NoMsg, SenderPcs
  <2> HIDE DEF x, y
  <2> QED BY <1>1, <1>2, <1>3, <2>1 DEF Types, queueVars, lockVars
<1>6. Settled(t)' /\ LocksHeld(t)'
  <2>1. x \in {"idle", "fd"}
    OBVIOUS
  <2> HIDE DEF x, y
  <2> QED BY <1>1, <1>3, <1>4, <2>1 DEF Settled, LocksHeld, SenderPcs, Fetching
<1>7. Sends(t)' /\ pc'[t] \notin Sending
  BY <1>4 DEF Sends, Sending, Filling
<1> HIDE DEF x, y
<1> QED BY <1>1, <1>2, <1>4, <1>5, <1>6, <1>7, QuietStep DEF lockVars, Filling

(* The quiet steps of a receiver. *)
LEMMA BeginStep ==
  ASSUME QueueInv, NEW t \in Receiver, NEW how \in {"wait", "poll", "fd"}, Begin(t, how, "fetch")
  PROVE  Advance
<1> DEFINE y == <<Source(t)>>
<1>1. Types /\ Placing /\ Receivers /\ t \in Thread /\ t \notin Sender
  BY Kinds DEF QueueInv
<1>2. /\ pc[t] = "idle" /\ pc' = [pc EXCEPT ![t] = "fetch"] /\ path' = [path EXCEPT ![t] = y]
      /\ cur' = cur /\ op' = [op EXCEPT ![t] = how]
      /\ UNCHANGED queueVars /\ UNCHANGED lockVars /\ UNCHANGED <<ref, owed>>
  BY DEF Begin, Goto
<1>3. cur' = [cur EXCEPT ![t] = cur[t]]
  BY <1>1, <1>2 DEF Types
<1>4. y \in Seq(Queue) /\ y # <<>>
  <2>1. Source(t) \in Queue
    BY <1>1, QueueAssumption DEF Types, Source
  <2> QED BY <2>1
<1> HIDE DEF y
<1>5. Stays(t) /\ pc'[t] = "fetch" /\ path'[t] = y /\ cur'[t] = cur[t]
  BY <1>1, <1>2, <1>3, Moves
<1>6. Types'
  BY <1>1, <1>2, <1>4 DEF Types, ReceiverPcs, queueVars, lockVars
<1>7. Settled(t)' /\ LocksHeld(t)'
  BY <1>1, <1>4, <1>5 DEF Settled, LocksHeld, ReceiverPcs, Fetching
<1>8. cur[t] = NoMsg
  BY <1>1, <1>2 DEF Receivers, Receives, Holding, Counted
<1>9. Receives(t)' /\ ~HasMsg(t)'
  BY <1>5, <1>8 DEF Receives, HasMsg, Holding, Counted, NoMsg
<1> QED BY <1>1, <1>2, <1>5, <1>6, <1>7, <1>9, QuietStep DEF lockVars

LEMMA LockReadStep == ASSUME QueueInv, NEW t \in Receiver, LockRead(t) PROVE Advance
<1> DEFINE x == IF read[Q(t)] = 0 THEN "detach" ELSE "take"
<1>1. Types /\ Placing /\ Locked /\ Receivers /\ t \in Thread /\ t \notin Sender
  BY Kinds DEF QueueInv
<1>2. /\ pc[t] = "fetch" /\ Goto(t, x) /\ path' = path /\ cur' = cur
      /\ lock_read[Q(t)] = None /\ lock_read' = [lock_read EXCEPT ![Q(t)] = t] /\ lock_write' = lock_write
      /\ UNCHANGED queueVars /\ UNCHANGED <<ref, op, owed>>
  BY DEF LockRead
<1>3. /\ Stays(t) /\ pc'[t] = x /\ path'[t] = path[t] /\ cur'[t] = cur[t]
      /\ Q(t)' = Q(t) /\ B(t)' = B(t)
  BY <1>1, <1>2, GoesOn
<1>4. Q(t) \in Queue
  BY <1>1, <1>2, OnQueue
<1>5. Types'
  BY <1>1, <1>2, <1>4 DEF Types, Goto, queueVars, ReceiverPcs, Fetching
<1>6. Settled(t)' /\ LocksHeld(t)'
  BY <1>1, <1>2, <1>3, <1>4 DEF Placing, Settled, LocksHeld, ReceiverPcs, Fetching, Types
<1>7. Receives(t)' /\ ~HasMsg(t)'
  BY <1>1, <1>2, <1>3 DEF Receivers, Receives, HasMsg, Holding, Counted, queueVars
<1>8. \A p \in Queue : \A u \in Thread \ {t} : lock_read[p] = u => lock_read'[p] = u
  BY <1>1, <1>2, <1>4, QueueAssumption DEF Types, Thread
<1> QED BY <1>1, <1>2, <1>3, <1>5, <1>6, <1>7, <1>8, QuietStep

LEMMA EmptyStep == ASSUME QueueInv, NEW t \in Receiver, Empty(t) PROVE Advance
<1>1. Types /\ Placing /\ Locked /\ Receivers /\ t \in Thread /\ t \notin Sender
  BY Kinds DEF QueueInv
<1>2. /\ pc[t] = "detach" /\ lock_write' = lock_write /\ lock_read' = [lock_read EXCEPT ![Q(t)] = None]
      /\ UNCHANGED queueVars /\ UNCHANGED <<ref, owed>>
  BY DEF Empty
<1>3. Q(t) \in Queue /\ lock_read[Q(t)] = t
  BY <1>1, <1>2, OnQueue DEF Locked, LocksHeld, Fetching
<1>4. \A p \in Queue : \A u \in Thread \ {t} : lock_read[p] = u => lock_read'[p] = u
  BY <1>1, <1>2, <1>3 DEF Types
<1>5. lock_read' \in [Queue -> Thread \cup {None}]
  BY <1>1, <1>2 DEF Types
<1>6. CASE op[t] = "wait"
  <2>1. Goto(t, "uncount") /\ path' = path /\ cur' = cur /\ op' = op
    BY <1>6 DEF Empty
  <2>2. /\ Stays(t) /\ pc'[t] = "uncount" /\ path'[t] = path[t] /\ cur'[t] = cur[t]
        /\ Q(t)' = Q(t) /\ B(t)' = B(t)
    BY <1>1, <2>1, GoesOn
  <2>3. Types'
    BY <1>1, <1>2, <1>5, <2>1 DEF Types, Goto, queueVars, ReceiverPcs, Holding, Counted
  <2>4. Settled(t)' /\ LocksHeld(t)'
    BY <1>1, <1>2, <2>2 DEF Placing, Settled, LocksHeld, ReceiverPcs, Fetching, Holding, Counted
  <2>5. cur[t] = NoMsg
    BY <1>1, <1>2 DEF Receivers, Receives, Holding, Counted
  <2>6. Receives(t)' /\ ~HasMsg(t)'
    BY <2>2, <2>5 DEF Receives, HasMsg, Holding, Counted, NoMsg
  <2> QED BY <1>1, <1>2, <1>4, <2>2, <2>3, <2>4, <2>6, QuietStep
<1>7. CASE op[t] # "wait"
  <2>1. Return(t)
    BY <1>7 DEF Empty
  <2>2. Types' /\ Stays(t) /\ pc'[t] = "idle" /\ cur'[t] = NoMsg
    BY <1>1, <1>2, <1>5, <2>1, ComesBack DEF Types, queueVars
  <2>3. Settled(t)' /\ LocksHeld(t)' /\ Receives(t)' /\ ~HasMsg(t)'
    BY <1>1, <2>2 DEF Settled, LocksHeld, Receives, HasMsg, ReceiverPcs, Fetching, Holding, Counted, NoMsg
  <2> QED BY <1>1, <1>2, <1>4, <2>2, <2>3, QuietStep
<1> QED BY <1>6, <1>7

LEMMA DetachBusyStep == ASSUME QueueInv, NEW t \in Receiver, DetachBusy(t) PROVE Advance
<1>1. Types /\ Placing /\ Locked /\ Receivers /\ t \in Thread /\ t \notin Sender
  BY Kinds DEF QueueInv
<1>2. /\ pc[t] = "detach" /\ Goto(t, "blocked") /\ path' = path /\ cur' = cur /\ data[Q(t)] # 0
      /\ lock_write[Q(t)] = None /\ lock_write' = [lock_write EXCEPT ![Q(t)] = t] /\ lock_read' = lock_read
      /\ UNCHANGED queueVars /\ UNCHANGED <<ref, op, owed>>
  BY DEF DetachBusy
<1>3. /\ Stays(t) /\ pc'[t] = "blocked" /\ path'[t] = path[t] /\ cur'[t] = cur[t]
      /\ Q(t)' = Q(t) /\ B(t)' = B(t)
  BY <1>1, <1>2, GoesOn
<1>4. Q(t) \in Queue /\ lock_read[Q(t)] = t
  BY <1>1, <1>2, OnQueue DEF Locked, LocksHeld, Fetching
<1>5. Types'
  BY <1>1, <1>2, <1>4 DEF Types, Goto, queueVars, ReceiverPcs, Fetching
<1>6. Settled(t)' /\ LocksHeld(t)'
  BY <1>1, <1>2, <1>3, <1>4 DEF Placing, Settled, LocksHeld, ReceiverPcs, Fetching, Types
<1>7. Receives(t)' /\ ~HasMsg(t)'
  BY <1>1, <1>2, <1>3 DEF Receivers, Receives, HasMsg, Holding, Counted, queueVars
<1>8. \A p \in Queue : \A u \in Thread \ {t} : lock_write[p] = u => lock_write'[p] = u
  BY <1>1, <1>2, <1>4, QueueAssumption DEF Types, Thread
<1> QED BY <1>1, <1>2, <1>3, <1>5, <1>6, <1>7, <1>8, QuietStep

LEMMA PollSemStep == ASSUME QueueInv, NEW t \in Receiver, PollSem(t) PROVE Advance
<1>1. Types /\ Placing /\ Receivers /\ t \in Thread /\ t \notin Sender
  BY Kinds DEF QueueInv
<1>2. /\ pc[t] = "sem" /\ Goto(t, "uncount") /\ path' = path /\ cur' = cur
      /\ UNCHANGED queueVars /\ UNCHANGED lockVars /\ UNCHANGED <<ref, op, owed>>
  BY DEF PollSem
<1>3. /\ Stays(t) /\ pc'[t] = "uncount" /\ path'[t] = path[t] /\ cur'[t] = cur[t]
      /\ Q(t)' = Q(t) /\ B(t)' = B(t)
  BY <1>1, <1>2, GoesOn
<1>4. Types'
  BY <1>1, <1>2 DEF Types, Goto, queueVars, lockVars, ReceiverPcs, Holding, Counted
<1>5. Settled(t)' /\ LocksHeld(t)'
  BY <1>1, <1>2, <1>3 DEF Placing, Settled, LocksHeld, ReceiverPcs, Holding, Counted, Fetching
<1>6. Receives(t) /\ HasMsg(t)
  BY <1>1, <1>2 DEF Receivers, Receives, HasMsg, Holding, Counted
<1>7. Receives(t)'
  BY <1>2, <1>3, <1>6 DEF Receives, HasMsg, Holding, Counted, At, Consumed, Detached0, queueVars
<1> QED BY <1>1, <1>2, <1>3, <1>4, <1>5, <1>6, <1>7, QuietStep DEF lockVars

LEMMA UncountStep == ASSUME QueueInv, NEW t \in Receiver, Uncount(t) PROVE Advance
<1>1. Types /\ Placing /\ Receivers /\ t \in Thread /\ t \notin Sender
  BY Kinds DEF QueueInv
<1>2. /\ pc[t] = "uncount"
      /\ UNCHANGED queueVars /\ UNCHANGED lockVars /\ UNCHANGED <<ref, owed>>
  BY DEF Uncount
<1>3. CASE cur[t] = NoMsg
  <2>1. Return(t)
    BY <1>3 DEF Uncount
  <2>2. Types' /\ Stays(t) /\ pc'[t] = "idle" /\ cur'[t] = NoMsg
    BY <1>1, <1>2, <2>1, ComesBack DEF Types, queueVars, lockVars
  <2>3. Settled(t)' /\ LocksHeld(t)' /\ Receives(t)' /\ ~HasMsg(t)'
    BY <1>1, <2>2 DEF Settled, LocksHeld, Receives, HasMsg, ReceiverPcs, Fetching, Holding, Counted, NoMsg
  <2> QED BY <1>1, <1>2, <2>2, <2>3, QuietStep DEF lockVars
<1>4. CASE cur[t] # NoMsg
  <2>1. Goto(t, "use") /\ path' = path /\ cur' = cur /\ op' = op
    BY <1>4 DEF Uncount
  <2>2. /\ Stays(t) /\ pc'[t] = "use" /\ path'[t] = path[t] /\ cur'[t] = cur[t]
        /\ Q(t)' = Q(t) /\ B(t)' = B(t)
    BY <1>1, <2>1, GoesOn
  <2>3. Types'
    BY <1>1, <1>2, <2>1 DEF Types, Goto, queueVars, lockVars, ReceiverPcs, Holding, Counted
  <2>4. Settled(t)' /\ LocksHeld(t)'
    BY <1>1, <1>2, <2>2 DEF Placing, Settled, LocksHeld, ReceiverPcs, Fetching, Holding, Counted
  <2>5. Receives(t) /\ HasMsg(t)
    BY <1>1, <1>2, <1>4 DEF Receivers, HasMsg, Holding, Counted
  <2>6. Receives(t)'
    BY <1>2, <1>4, <2>2, <2>5 DEF Receives, HasMsg, Holding, Counted, At, Consumed, Detached0, queueVars
  <2> QED BY <1>1, <1>2, <2>2, <2>3, <2>4, <2>5, <2>6, QuietStep DEF lockVars
<1> QED BY <1>3, <1>4

LEMMA CheckFreeStep == ASSUME QueueInv, NEW t \in Receiver, CheckFree(t) PROVE Advance
<1>1. Types /\ Placing /\ Receivers /\ t \in Thread /\ t \notin Sender
  BY Kinds DEF QueueInv
<1>2. /\ pc[t] = "check" /\ ref' = [ref EXCEPT ![t] = 0]
      /\ UNCHANGED queueVars /\ UNCHANGED lockVars /\ UNCHANGED owed
  BY DEF CheckFree
<1>3. ref' \in [Thread -> Nat]
  BY <1>1, <1>2 DEF Types
<1>4. Receives(t) /\ HasMsg(t)
  BY <1>1, <1>2 DEF Receivers, Receives, HasMsg, Holding, Counted
<1>5. CASE Return(t)
  <2>1. Types' /\ Stays(t) /\ pc'[t] = "idle" /\ cur'[t] = NoMsg
    BY <1>1, <1>2, <1>3, <1>5, ComesBack DEF Types, queueVars, lockVars
  <2>2. Settled(t)' /\ LocksHeld(t)' /\ Receives(t)' /\ ~HasMsg(t)'
    BY <1>1, <2>1 DEF Settled, LocksHeld, Receives, HasMsg, ReceiverPcs, Fetching, Holding, Counted, NoMsg
  <2> QED BY <1>1, <1>2, <2>1, <2>2, QuietStep DEF lockVars
<1>6. CASE Goto(t, "free") /\ UNCHANGED <<path, cur, op>>
  <2>1. /\ Stays(t) /\ pc'[t] = "free" /\ path'[t] = path[t] /\ cur'[t] = cur[t]
        /\ Q(t)' = Q(t) /\ B(t)' = B(t)
    BY <1>1, <1>6, GoesOn
  <2>2. Types'
    BY <1>1, <1>2, <1>3, <1>6 DEF Types, Goto, queueVars, lockVars, ReceiverPcs, Holding, Counted
  <2>3. Settled(t)' /\ LocksHeld(t)'
    BY <1>1, <1>2, <2>1 DEF Placing, Settled, LocksHeld, ReceiverPcs, Fetching, Holding, Counted
  <2>4. Receives(t)'
    BY <1>2, <1>4, <2>1 DEF Receives, HasMsg, Holding, Counted, At, Consumed, Detached0, queueVars
  <2> QED BY <1>1, <1>2, <1>4, <2>1, <2>2, <2>3, <2>4, QuietStep DEF lockVars
<1> QED BY <1>5, <1>6 DEF CheckFree

-----------------------------------------------------------------------------
(* A step that writes to the block of the thread's message, and leaves the *)
(* block where it is.                                                      *)
LEMMA BlockStep ==
  ASSUME QueueInv, Types', NEW t \in Thread, Stays(t), UNCHANGED <<data, last, read>>,
         NEW q \in Queue, NEW i \in 1 .. Len(blk[q]), NEW b \in Block, At(t, q, i),
         blk' = [blk EXCEPT ![q][i] = b],
         b.next = blk[q][i].next, b.size = blk[q][i].size, b.first = blk[q][i].first,
         b.last = blk[q][i].last, b.full = blk[q][i].full, Len(b.msgs) = 1,
         b.msgs[1].off = blk[q][i].msgs[1].off, b.msgs[1].size = blk[q][i].msgs[1].size,
         b.msgs[1].nr = blk[q][i].msgs[1].nr,
         Settled(t)', LocksHeld(t)',
         \A p \in Queue : \A u \in Thread \ {t} : lock_write[p] = u => lock_write'[p] = u,
         \A p \in Queue : \A u \in Thread \ {t} : lock_read[p] = u => lock_read'[p] = u,
         Attended(q, i)', Done(q, i) => b.msgs[1].done,
         \A u \in Sender \ {t} : pc[u] \in Sending /\ Q(u) = q /\ B(u) = i =>
           /\ t \notin Sender /\ (b.msgs[1].done <=> Done(q, i))
           /\ blk[q][i].non0 => b.non0,
         \A u \in Receiver \ {t} : HasMsg(u) /\ Q(u) = q /\ B(u) = i =>
           t \notin Receiver /\ b.ref = blk[q][i].ref,
         t \in Sender => Sends(t)' /\ (pc'[t] \in Sending => Q(t)' = q /\ B(t)' = i),
         t \in Receiver => Receives(t)' /\ (HasMsg(t)' => Q(t)' = q /\ cur'[t] = <<i, 1>>)
  PROVE  Advance
<1>1. /\ Types /\ Placing /\ Shaped /\ Listed /\ Ordered /\ Filled /\ Locked /\ Senders /\ Receivers
  BY DEF QueueInv
<1>2. /\ \A p \in Queue : Len(blk'[p]) = Len(blk[p]) /\ Len(blk[p]) \in Nat
      /\ blk'[q][i] = b
      /\ \A p \in Queue : \A k \in 1 .. Len(blk[p]) : p # q \/ k # i => blk'[p][k] = blk[p][k]
  <2>1. blk \in [Queue -> Seq(Block)]
    BY <1>1 DEF Types
  <2> QED BY <2>1, OneBlock
<1>3. Shaped' /\ Listed' /\ Ordered' /\ \A p \in Queue, k \in Nat : Consumed(p, k)' <=> Consumed(p, k)
  BY <1>1, BlockKept
<1>4. Placing' /\ Locked'
  BY <1>1, OthersPlaced, OthersLocked
<1>5. Senders'
  <2>1. ASSUME NEW u \in Sender, u # t, pc[u] \in Sending
        PROVE  /\ Q(u) \in Queue /\ B(u) \in 1 .. Len(blk[Q(u)])
               /\ Done(Q(u), B(u))' <=> Done(Q(u), B(u))
               /\ blk[Q(u)][B(u)].non0 => blk'[Q(u)][B(u)].non0
               /\ t \in Sender /\ pc'[t] \in Sending /\ Q(t)' = Q(u) => B(t)' # B(u)
    <3>1. Q(u) \in Queue /\ B(u) \in 1 .. Len(blk[Q(u)]) /\ Q(u)' = Q(u) /\ B(u)' = B(u)
      BY <1>1, <2>1, OnQueue DEF Senders, Sends, Sending, Filling, Stays, Thread
    <3>2. CASE Q(u) = q /\ B(u) = i
      <4>1. t \notin Sender /\ (b.msgs[1].done <=> Done(q, i)) /\ (blk[q][i].non0 => b.non0)
        BY <2>1, <3>2
      <4>2. Done(Q(u), B(u))' <=> Done(Q(u), B(u))
        BY <1>2, <3>1, <3>2, <4>1 DEF Done
      <4> QED BY <1>2, <3>1, <3>2, <4>1, <4>2
    <3>3. CASE ~(Q(u) = q /\ B(u) = i)
      <4>1. blk'[Q(u)][B(u)] = blk[Q(u)][B(u)]
        BY <1>2, <3>1, <3>3
      <4>2. Done(Q(u), B(u))' <=> Done(Q(u), B(u))
        BY <3>1, <4>1 DEF Done
      <4> QED BY <3>1, <3>3, <4>1, <4>2
    <3> QED BY <3>2, <3>3
  <2> QED BY <1>1, <1>2, <2>1, OthersSend
<1>6. Receivers'
  <2>1. ASSUME NEW u \in Receiver, u # t, HasMsg(u)
        PROVE  /\ Q(u) \in Queue /\ B(u) \in 1 .. Len(blk[Q(u)])
               /\ Consumed(Q(u), B(u)) => Consumed(Q(u), B(u))'
               /\ blk'[Q(u)][B(u)].ref = blk[Q(u)][B(u)].ref
               /\ t \in Receiver /\ HasMsg(t)' /\ Q(t)' = Q(u) => B(t)' # B(u)
    <3>1. Q(u) \in Queue /\ B(u) \in 1 .. Len(blk[Q(u)]) /\ Q(u)' = Q(u) /\ B(u)' = B(u)
      BY <1>1, <2>1, OnQueue DEF Receivers, Receives, HasMsg, Holding, Counted, Stays, Thread
    <3>2. Consumed(Q(u), B(u)) => Consumed(Q(u), B(u))'
      BY <3>1 DEF Consumed, Detached0
    <3>3. blk'[Q(u)][B(u)].ref = blk[Q(u)][B(u)].ref
      BY <1>2, <2>1, <3>1
    <3>4. t \in Receiver /\ HasMsg(t)' => Q(t)' = q /\ B(t)' = i
      BY DEF B
    <3> QED BY <2>1, <3>1, <3>2, <3>3, <3>4
  <2>2. \A u \in Receiver \ {t} : HasMsg(u) =>
          Len(blk'[Q(u)]) >= Len(blk[Q(u)]) /\ Len(blk'[Q(u)]) \in Nat /\ Len(blk[Q(u)]) \in Nat
    BY <1>2, <2>1
  <2> QED BY <1>1, <2>1, <2>2, OthersReceive
<1>7. Filled'
  <2> SUFFICES ASSUME NEW p \in Queue, NEW k \in 1 .. Len(blk[p]), p # q \/ k # i PROVE Attended(p, k)'
    BY <1>2 DEF Filled
  <2>1. Attended(p, k) /\ blk'[p][k] = blk[p][k] /\ k \in Nat
    BY <1>1, <1>2 DEF Filled
  <2>2. Done(p, k)' <=> Done(p, k)
    BY <2>1 DEF Done
  <2>3. k <= Detached0(p)' <=> k <= Detached0(p)
    BY <1>2 DEF Detached0
  <2>4. ~Fills(t, p, k)
    BY DEF Fills, At
  <2>5. t \in Receiver => ~Holds(t, p, k)'
    BY DEF Holds, HasMsg, At, NoMsg
  <2> QED BY <1>3, <2>1, <2>2, <2>3, <2>4, <2>5, OthersAttended
<1>8. \A p \in Queue : Kept(p) /\ \A k \in 1 .. Len(blk[p]) : ConsumedKept(p, k) /\ (p # q \/ k # i => DoneKept(p, k))
  BY <1>2, <1>3 DEF Kept, ConsumedKept, DoneKept, Done
<1>9. Seen
  <2>1. Done(q, i)' <=> b.msgs[1].done
    BY <1>2 DEF Done
  <2>2. CASE Done(q, i)' <=> Done(q, i)
    BY <1>8, <2>2 DEF Unseen, DoneKept, Seen
  <2>3. CASE ~Done(q, i) /\ Done(q, i)'
    BY <1>8, <2>3 DEF Completes, Seen
  <2> QED BY <2>1, <2>2, <2>3
<1> QED BY <1>3, <1>4, <1>5, <1>6, <1>7, <1>9 DEF QueueInv, Advance

LEMMA AttendedHere ==
  ASSUME Types, NEW q \in Queue, NEW i \in 1 .. Len(blk[q]), NEW b \in Block,
         blk' = [blk EXCEPT ![q][i] = b], UNCHANGED <<data, last, read>>,
         ~b.msgs[1].done => b.ref = 1 /\ \E t \in Sender : Fills(t, q, i)',
         i <= Detached0(q) => b.msgs[1].done,
         b.msgs[1].done /\ ~Consumed(q, i) => b.ref = 0,
         b.freed => Consumed(q, i) /\ ~b.non0 /\ \A t \in Receiver : ~Holds(t, q, i)'
  PROVE  Attended(q, i)'
<1>1. blk'[q][i] = b /\ Len(blk'[q]) = Len(blk[q])
  BY OneBlock DEF Types
<1>2. Detached0(q)' = Detached0(q) /\ (Consumed(q, i)' <=> Consumed(q, i))
  BY <1>1 DEF Detached0, Consumed
<1> QED BY <1>1, <1>2 DEF Attended, Done

(* What a sender knows of its block, and a receiver of the one it reads. *)
LEMMA SenderKnows ==
  ASSUME QueueInv, NEW t \in Sender, pc[t] \in Sending
  PROVE  /\ Q(t) \in Queue /\ B(t) \in 1 .. Len(blk[Q(t)]) /\ At(t, Q(t), B(t)) /\ cur[t] = <<B(t), 1>>
         /\ Blk(t) = blk[Q(t)][B(t)] /\ Blk(t) \in Block
         /\ Attended(Q(t), B(t)) /\ OneMessage(Blk(t), B(t))
         /\ \A u \in Sender \ {t} : pc[u] \in Sending => ~(Q(u) = Q(t) /\ B(u) = B(t))
         /\ pc[t] \in Filling <=> ~Done(Q(t), B(t))
<1>1. Types /\ Placing /\ Senders /\ Filled /\ Shaped /\ t \in Thread
  BY Kinds DEF QueueInv
<1>2. Q(t) \in Queue /\ blk[Q(t)] \in Seq(Block)
  BY <1>1, OnQueue DEF Sending, Filling
<1>3. B(t) \in 1 .. Len(blk[Q(t)]) /\ At(t, Q(t), B(t)) /\ (pc[t] \in Filling <=> ~Done(Q(t), B(t)))
  BY <1>1 DEF Senders, Sends
<1>4. \A u \in Sender \ {t} : pc[u] \in Sending => ~(Q(u) = Q(t) /\ B(u) = B(t))
  BY <1>1 DEF Senders
<1> QED BY <1>1, <1>2, <1>3, <1>4 DEF Blk, At, Filled, Shaped

LEMMA ReceiverKnows ==
  ASSUME QueueInv, NEW t \in Receiver, pc[t] \in Holding, cur[t] # NoMsg
  PROVE  /\ Q(t) \in Queue /\ B(t) \in 1 .. Len(blk[Q(t)]) /\ At(t, Q(t), B(t)) /\ cur[t] = <<B(t), 1>>
         /\ Blk(t) = blk[Q(t)][B(t)] /\ Blk(t) \in Block
         /\ Attended(Q(t), B(t)) /\ OneMessage(Blk(t), B(t))
         /\ \A u \in Receiver \ {t} : HasMsg(u) => ~(Q(u) = Q(t) /\ B(u) = B(t))
         /\ Consumed(Q(t), B(t)) /\ Done(Q(t), B(t)) /\ ~Blk(t).freed
         /\ Blk(t).ref = IF pc[t] \in Counted THEN 1 ELSE 0
<1>1. Types /\ Placing /\ Receivers /\ Filled /\ Shaped /\ t \in Thread /\ HasMsg(t)
  BY Kinds DEF QueueInv, HasMsg
<1>2. Q(t) \in Queue /\ blk[Q(t)] \in Seq(Block)
  BY <1>1, OnQueue DEF Holding, Counted
<1>3. /\ B(t) \in 1 .. Len(blk[Q(t)]) /\ At(t, Q(t), B(t)) /\ Consumed(Q(t), B(t))
      /\ blk[Q(t)][B(t)].ref = IF pc[t] \in Counted THEN 1 ELSE 0
  BY <1>1 DEF Receivers, Receives
<1>4. \A u \in Receiver \ {t} : HasMsg(u) => ~(Q(u) = Q(t) /\ B(u) = B(t))
  BY <1>1 DEF Receivers
<1>5. Attended(Q(t), B(t)) /\ OneMessage(blk[Q(t)][B(t)], B(t))
  BY <1>1, <1>2, <1>3 DEF Filled, Shaped
<1>6. Done(Q(t), B(t)) /\ ~blk[Q(t)][B(t)].freed
  <2>1. Holds(t, Q(t), B(t))
    BY <1>3 DEF Holds
  <2> QED BY <1>3, <1>5, <2>1 DEF Attended, Consumed
<1> QED BY <1>2, <1>3, <1>4, <1>5, <1>6 DEF Blk, At

LEMMA TakeNon0Step == ASSUME QueueInv, NEW t \in Sender, TakeNon0(t) PROVE Advance
<1> SUFFICES ASSUME NEW q, NEW i, q = Q(t), i = B(t) PROVE Advance
  OBVIOUS
<1> DEFINE b == [Blk(t) EXCEPT !.non0 = TRUE]
<1>1. /\ Types /\ Placing /\ Locked /\ t \in Thread /\ t \notin Receiver
  BY Kinds DEF QueueInv
<1>2. /\ pc[t] = "non0" /\ Goto(t, "count") /\ path' = path /\ cur' = cur
      /\ blk' = [blk EXCEPT ![q][i] = b] /\ UNCHANGED <<data, last, read>>
      /\ lock_write' = [lock_write EXCEPT ![q] = None] /\ lock_read' = lock_read
      /\ UNCHANGED <<ref, op, owed>>
  BY DEF TakeNon0, SetBlk
<1>3. /\ q \in Queue /\ i \in 1 .. Len(blk[q]) /\ At(t, q, i) /\ cur[t] = <<i, 1>>
      /\ Blk(t) = blk[q][i] /\ Blk(t) \in Block /\ Attended(q, i) /\ OneMessage(Blk(t), i)
      /\ \A u \in Sender \ {t} : pc[u] \in Sending => ~(Q(u) = q /\ B(u) = i)
      /\ ~Done(q, i)
  BY <1>2, SenderKnows DEF Sending, Filling
<1>4. /\ Stays(t) /\ pc'[t] = "count" /\ cur'[t] = cur[t] /\ path'[t] = path[t] /\ Q(t)' = q /\ B(t)' = i
  BY <1>1, <1>2, GoesOn
<1>5. b \in Block /\ b.ref = blk[q][i].ref /\ b.msgs = blk[q][i].msgs /\ b.freed = blk[q][i].freed /\ b.non0
      /\ b.next = blk[q][i].next /\ b.size = blk[q][i].size /\ b.first = blk[q][i].first
      /\ b.last = blk[q][i].last /\ b.full = blk[q][i].full /\ Len(b.msgs) = 1
  BY <1>3 DEF Block, OneMessage
<1> HIDE DEF b
<1>6. /\ blk' \in [Queue -> Seq(Block)] /\ blk'[q][i] = b /\ Len(blk'[q]) = Len(blk[q])
  BY <1>1, <1>2, <1>3, <1>5, OneBlock DEF Types
<1>7. Types'
  BY <1>1, <1>2, <1>3, <1>6 DEF Types, Goto, SenderPcs, Sending, Filling
<1>8. Fills(t, q, i)'
  BY <1>3, <1>4 DEF Fills, At, Filling
<1>9. Attended(q, i)'
  <2>1. ~(i <= Detached0(q)) /\ ~blk[q][i].freed /\ blk[q][i].ref = 1
    BY <1>3 DEF Attended, Consumed
  <2>2. ~b.msgs[1].done /\ ~b.freed /\ b.ref = 1
    BY <1>3, <1>5, <2>1 DEF Done
  <2> QED BY <1>1, <1>2, <1>3, <1>5, <1>8, <2>1, <2>2, AttendedHere
<1>10. Settled(t)' /\ LocksHeld(t)'
  BY <1>1, <1>2, <1>4 DEF Placing, Settled, LocksHeld, SenderPcs, Sending, Filling, Fetching
<1>11. Sends(t)'
  BY <1>3, <1>4, <1>5, <1>6 DEF Sends, Filling, Gated, At, Done
<1>12. \A p \in Queue : \A u \in Thread \ {t} : lock_write[p] = u => lock_write'[p] = u
  BY <1>1, <1>2, <1>3 DEF Types, Locked, LocksHeld
<1>13. /\ b.msgs[1].off = blk[q][i].msgs[1].off /\ b.msgs[1].size = blk[q][i].msgs[1].size
       /\ b.msgs[1].nr = blk[q][i].msgs[1].nr /\ (b.msgs[1].done <=> Done(q, i))
  BY <1>5 DEF Done
<1>14. \A p \in Queue : \A u \in Thread \ {t} : lock_read[p] = u => lock_read'[p] = u
  BY <1>2
<1>15. /\ t \in Thread /\ t \notin Receiver /\ q \in Queue /\ i \in 1 .. Len(blk[q]) /\ At(t, q, i) /\ ~Done(q, i)
       /\ \A u \in Sender \ {t} : pc[u] \in Sending => ~(Q(u) = q /\ B(u) = i)
       /\ blk' = [blk EXCEPT ![q][i] = b] /\ UNCHANGED <<data, last, read>>
  BY <1>1, <1>2, <1>3
<1> QED BY <1>4, <1>5, <1>7, <1>9, <1>10, <1>11, <1>12, <1>13, <1>14, <1>15, BlockStep

LEMMA AllocDoneStep == ASSUME QueueInv, NEW t \in Sender, AllocDone(t) PROVE Advance
<1> SUFFICES ASSUME NEW q, NEW i, q = Q(t), i = B(t) PROVE Advance
  OBVIOUS
<1> DEFINE m == [blk[q][i].msgs EXCEPT ![1].done = TRUE]
           b == [Blk(t) EXCEPT !.ref = @ - 1, !.msgs[cur[t][2]].done = TRUE]
<1>1. /\ Types /\ Placing /\ Senders /\ t \in Thread /\ t \notin Receiver
  BY Kinds DEF QueueInv
<1>2. /\ pc[t] = "open" /\ Goto(t, IF Blk(t).ref = 1 THEN "release" ELSE "wake") /\ path' = path /\ cur' = cur
      /\ blk' = [blk EXCEPT ![q][i] = b] /\ UNCHANGED <<data, last, read>>
      /\ UNCHANGED lockVars /\ UNCHANGED <<ref, op, owed>>
  BY DEF AllocDone, SetBlk
<1>3. /\ q \in Queue /\ i \in 1 .. Len(blk[q]) /\ At(t, q, i) /\ cur[t] = <<i, 1>>
      /\ Blk(t) = blk[q][i] /\ Blk(t) \in Block /\ Attended(q, i) /\ OneMessage(Blk(t), i)
      /\ \A u \in Sender \ {t} : pc[u] \in Sending => ~(Q(u) = q /\ B(u) = i)
      /\ ~Done(q, i)
  BY <1>2, SenderKnows DEF Sending, Filling
<1>4. ~(i <= Detached0(q)) /\ ~Consumed(q, i) /\ ~blk[q][i].freed /\ blk[q][i].ref = 1
  BY <1>3 DEF Attended, Consumed
<1>5. Goto(t, "release")
  BY <1>2, <1>3, <1>4
<1>6. /\ Stays(t) /\ pc'[t] = "release" /\ cur'[t] = cur[t] /\ path'[t] = path[t]
      /\ Q(t)' = q /\ B(t)' = i
  BY <1>1, <1>2, <1>5, GoesOn
<1>7. /\ m \in Seq(Message) /\ Len(m) = 1 /\ m[1].done
      /\ m[1].off = blk[q][i].msgs[1].off /\ m[1].size = blk[q][i].msgs[1].size
      /\ m[1].nr = blk[q][i].msgs[1].nr
  <2>1. blk[q][i].msgs \in Seq(Message) /\ Len(blk[q][i].msgs) = 1 /\ blk[q][i].msgs[1] \in Message
    BY <1>3 DEF Block, OneMessage
  <2> DEFINE n == [blk[q][i].msgs[1] EXCEPT !.done = TRUE]
  <2>2. n \in Message /\ n.done /\ n.off = blk[q][i].msgs[1].off /\ n.size = blk[q][i].msgs[1].size
        /\ n.nr = blk[q][i].msgs[1].nr
    BY <2>1 DEF Message
  <2>3. m = [blk[q][i].msgs EXCEPT ![1] = n]
    BY <2>1
  <2> HIDE DEF m, n
  <2>4. m \in Seq(Message) /\ Len(m) = 1 /\ m[1] = n
    BY <2>1, <2>2, <2>3
  <2> QED BY <2>2, <2>4
<1>8. b = [blk[q][i] EXCEPT !.ref = 0, !.msgs = m]
  BY <1>3, <1>4 DEF Block
<1> HIDE DEF m, b
<1>9. /\ b.ref = 0 /\ b.freed = blk[q][i].freed /\ b.non0 = blk[q][i].non0
      /\ b.next = blk[q][i].next /\ b.size = blk[q][i].size /\ b.first = blk[q][i].first
      /\ b.last = blk[q][i].last /\ b.full = blk[q][i].full /\ b.msgs = m /\ b \in Block
  BY <1>3, <1>7, <1>8 DEF Block
<1>10. /\ blk' \in [Queue -> Seq(Block)] /\ blk'[q][i] = b /\ Len(blk'[q]) = Len(blk[q])
  BY <1>1, <1>2, <1>3, <1>9, OneBlock DEF Types
<1>11. Types'
  BY <1>1, <1>2, <1>3, <1>5, <1>10, <1>6 DEF Types, Goto, lockVars, SenderPcs, Sending
<1>12. Attended(q, i)'
  BY <1>1, <1>2, <1>3, <1>4, <1>7, <1>8, <1>9, AttendedHere
<1>13. Settled(t)' /\ LocksHeld(t)'
  BY <1>1, <1>2, <1>6 DEF Placing, Settled, LocksHeld, SenderPcs, Sending, Filling, Fetching
<1>14. Sends(t)'
  <2>1. blk[q][i].non0
    BY <1>1, <1>2, <1>3 DEF Senders, Sends, Sending, Filling, Gated, At
  <2>2. blk'[q][i].non0 /\ Done(q, i)'
    BY <1>7, <1>9, <1>10, <2>1 DEF Done
  <2>3. At(t, q, i)' /\ i \in 1 .. Len(blk'[q])
    BY <1>3, <1>6, <1>10 DEF At
  <2>4. Done(Q(t), B(t))' /\ blk'[Q(t)'][B(t)'].non0 /\ At(t, Q(t), B(t))' /\ pc'[t] \notin Filling
    BY <1>6, <2>2, <2>3 DEF At, Done, Filling
  <2> QED BY <1>6, <2>3, <2>4 DEF Sends
<1>15. \A u \in Receiver : ~(HasMsg(u) /\ Q(u) = q /\ B(u) = i)
  BY <1>4 DEF QueueInv, Receivers, Receives
<1> QED BY <1>1, <1>2, <1>3, <1>6, <1>7, <1>9, <1>11, <1>12, <1>13, <1>14, <1>15, BlockStep DEF lockVars

LEMMA ReleaseNon0Step == ASSUME QueueInv, NEW t \in Sender, ReleaseNon0(t) PROVE Advance
<1> SUFFICES ASSUME NEW q, NEW i, q = Q(t), i = B(t) PROVE Advance
  OBVIOUS
<1> DEFINE b == [Blk(t) EXCEPT !.non0 = FALSE]
<1>1. /\ Types /\ Placing /\ Senders /\ t \in Thread /\ t \notin Receiver
  BY Kinds DEF QueueInv
<1>2. /\ pc[t] = "release" /\ Goto(t, "wake") /\ path' = path /\ cur' = cur
      /\ blk' = [blk EXCEPT ![q][i] = b] /\ UNCHANGED <<data, last, read>>
      /\ UNCHANGED lockVars /\ UNCHANGED <<ref, op, owed>>
  BY DEF ReleaseNon0, SetBlk
<1>3. /\ q \in Queue /\ i \in 1 .. Len(blk[q]) /\ At(t, q, i) /\ cur[t] = <<i, 1>>
      /\ Blk(t) = blk[q][i] /\ Blk(t) \in Block /\ Attended(q, i) /\ OneMessage(Blk(t), i)
      /\ \A u \in Sender \ {t} : pc[u] \in Sending => ~(Q(u) = q /\ B(u) = i)
      /\ Done(q, i)
  BY <1>2, SenderKnows DEF Sending, Filling
<1>4. blk[q][i].non0
  BY <1>1, <1>2, <1>3 DEF Senders, Sends, Sending, Gated
<1>5. ~blk[q][i].freed
  BY <1>3, <1>4 DEF Attended
<1>6. /\ Stays(t) /\ pc'[t] = "wake" /\ cur'[t] = cur[t] /\ path'[t] = path[t]
      /\ Q(t)' = q /\ B(t)' = i
  BY <1>1, <1>2, GoesOn
<1>7. b \in Block /\ b.ref = blk[q][i].ref /\ b.msgs = blk[q][i].msgs /\ b.freed = blk[q][i].freed
      /\ b.next = blk[q][i].next /\ b.size = blk[q][i].size /\ b.first = blk[q][i].first
      /\ b.last = blk[q][i].last /\ b.full = blk[q][i].full /\ Len(b.msgs) = 1
  BY <1>3 DEF Block, OneMessage
<1> HIDE DEF b
<1>8. /\ blk' \in [Queue -> Seq(Block)]
  BY <1>1, <1>2, <1>3, <1>7, OneBlock DEF Types
<1>9. Types'
  BY <1>1, <1>2, <1>3, <1>8 DEF Types, Goto, lockVars, SenderPcs
<1>10. Attended(q, i)'
  <2>1. b.msgs[1].done /\ ~b.freed /\ (~Consumed(q, i) => b.ref = 0)
    BY <1>3, <1>5, <1>7 DEF Attended, Done
  <2> QED BY <1>1, <1>2, <1>3, <1>7, <2>1, AttendedHere
<1>11. Settled(t)' /\ LocksHeld(t)'
  BY <1>1, <1>2, <1>6 DEF Placing, Settled, LocksHeld, SenderPcs, Fetching
<1>12. Sends(t)' /\ pc'[t] \notin Sending
  BY <1>6 DEF Sends, Sending, Filling
<1>13. b.msgs[1].done
  BY <1>3, <1>7 DEF Done
<1> QED BY <1>1, <1>2, <1>3, <1>6, <1>7, <1>9, <1>10, <1>11, <1>12, <1>13, BlockStep DEF lockVars

LEMMA RefStep == ASSUME QueueInv, NEW t \in Receiver, Ref(t) PROVE Advance
<1> SUFFICES ASSUME NEW q, NEW i, NEW x, q = Q(t), i = B(t),
                    x = IF op[t] = "wait" THEN "uncount" ELSE "sem" PROVE Advance
  OBVIOUS
<1> DEFINE b == [Blk(t) EXCEPT !.ref = @ + 1]
<1>1. /\ Types /\ Placing /\ Receivers /\ Locked /\ t \in Thread /\ t \notin Sender
  BY Kinds DEF QueueInv
<1>2. /\ pc[t] = "ref" /\ Goto(t, x) /\ path' = path /\ cur' = cur
      /\ blk' = [blk EXCEPT ![q][i] = b] /\ UNCHANGED <<data, last, read>>
      /\ lock_write' = lock_write /\ lock_read' = [lock_read EXCEPT ![q] = None]
      /\ UNCHANGED <<ref, op, owed>>
  BY DEF Ref, SetBlk
<1>3. cur[t] # NoMsg
  BY <1>1, <1>2 DEF Receivers, Receives, Holding
<1>4. /\ q \in Queue /\ i \in 1 .. Len(blk[q]) /\ At(t, q, i) /\ cur[t] = <<i, 1>>
      /\ Blk(t) = blk[q][i] /\ Blk(t) \in Block /\ OneMessage(Blk(t), i)
      /\ \A u \in Receiver \ {t} : HasMsg(u) => ~(Q(u) = q /\ B(u) = i)
      /\ Consumed(q, i) /\ Done(q, i) /\ ~Blk(t).freed /\ Blk(t).ref = 0
  BY <1>2, <1>3, ReceiverKnows DEF Holding, Counted
<1>5. /\ Stays(t) /\ pc'[t] = x /\ cur'[t] = cur[t] /\ path'[t] = path[t] /\ Q(t)' = q /\ B(t)' = i
      /\ x \in {"uncount", "sem"}
  BY <1>1, <1>2, GoesOn
<1>6. b \in Block /\ b.ref = 1 /\ b.msgs = blk[q][i].msgs /\ b.freed = blk[q][i].freed
      /\ b.non0 = blk[q][i].non0
      /\ b.next = blk[q][i].next /\ b.size = blk[q][i].size /\ b.first = blk[q][i].first
      /\ b.last = blk[q][i].last /\ b.full = blk[q][i].full /\ Len(b.msgs) = 1
  BY <1>4, SMTT(20) DEF Block, OneMessage
<1> HIDE DEF b
<1>7. /\ blk' \in [Queue -> Seq(Block)] /\ blk'[q][i] = b /\ Len(blk'[q]) = Len(blk[q])
  BY <1>1, <1>2, <1>4, <1>6, OneBlock DEF Types
<1>8. Types'
  BY <1>1, <1>2, <1>4, <1>5, <1>7 DEF Types, Goto, ReceiverPcs, Holding, Counted
<1>9. Attended(q, i)'
  <2>1. b.msgs[1].done /\ ~b.freed
    BY <1>4, <1>6 DEF Done
  <2> QED BY <1>1, <1>2, <1>4, <1>6, <2>1, AttendedHere
<1>10. Settled(t)' /\ LocksHeld(t)'
  BY <1>1, <1>2, <1>5 DEF Placing, Settled, LocksHeld, ReceiverPcs, Holding, Counted, Fetching
<1>11. Receives(t)'
  <2>1. Consumed(q, i)'
    BY <1>2, <1>4, <1>7 DEF Consumed, Detached0
  <2>2. blk'[q][i].ref = 1
    BY <1>6, <1>7
  <2> QED BY <1>3, <1>4, <1>5, <1>7, <2>1, <2>2 DEF Receives, HasMsg, Holding, Counted, At, NoMsg
<1>12. \A p \in Queue : \A u \in Thread \ {t} : lock_read[p] = u => lock_read'[p] = u
  BY <1>1, <1>2, <1>4 DEF Types, Locked, LocksHeld, Fetching
<1>13. b.msgs[1].done <=> Done(q, i)
  BY <1>6 DEF Done
<1> QED BY <1>1, <1>2, <1>4, <1>5, <1>6, <1>8, <1>9, <1>10, <1>11, <1>12, <1>13, BlockStep

LEMMA FetchDoneStep == ASSUME QueueInv, NEW t \in Receiver, FetchDone(t) PROVE Advance
<1> SUFFICES ASSUME NEW q, NEW i, q = Q(t), i = B(t) PROVE Advance
  OBVIOUS
<1> DEFINE b == [Blk(t) EXCEPT !.ref = @ - 1]
<1>1. /\ Types /\ Placing /\ Receivers /\ t \in Thread /\ t \notin Sender
  BY Kinds DEF QueueInv
<1>2. /\ pc[t] = "use" /\ Goto(t, "check") /\ path' = path /\ cur' = cur
      /\ blk' = [blk EXCEPT ![q][i] = b] /\ UNCHANGED <<data, last, read>>
      /\ UNCHANGED lockVars /\ op' = op
      /\ ref' = [ref EXCEPT ![t] = Blk(t).ref - 1]
      /\ owed' = [owed EXCEPT ![t] = Blk(t).msgs[cur[t][2]].of]
  BY DEF FetchDone, SetBlk
<1>3. cur[t] # NoMsg
  BY <1>1, <1>2 DEF Receivers, Receives, Holding, Counted
<1>4. /\ q \in Queue /\ i \in 1 .. Len(blk[q]) /\ At(t, q, i) /\ cur[t] = <<i, 1>>
      /\ Blk(t) = blk[q][i] /\ Blk(t) \in Block /\ OneMessage(Blk(t), i)
      /\ \A u \in Receiver \ {t} : HasMsg(u) => ~(Q(u) = q /\ B(u) = i)
      /\ Consumed(q, i) /\ Done(q, i) /\ ~Blk(t).freed /\ Blk(t).ref = 1
  BY <1>2, <1>3, ReceiverKnows DEF Holding, Counted
<1>5. /\ Stays(t) /\ pc'[t] = "check" /\ cur'[t] = cur[t] /\ path'[t] = path[t] /\ Q(t)' = q /\ B(t)' = i
  BY <1>1, <1>2, GoesOn
<1>6. b \in Block /\ b.ref = 0 /\ b.msgs = blk[q][i].msgs /\ b.freed = blk[q][i].freed
      /\ b.non0 = blk[q][i].non0
      /\ b.next = blk[q][i].next /\ b.size = blk[q][i].size /\ b.first = blk[q][i].first
      /\ b.last = blk[q][i].last /\ b.full = blk[q][i].full /\ Len(b.msgs) = 1
  BY <1>4, SMTT(20) DEF Block, OneMessage
<1> HIDE DEF b
<1>7. /\ blk' \in [Queue -> Seq(Block)] /\ blk'[q][i] = b /\ Len(blk'[q]) = Len(blk[q])
  BY <1>1, <1>2, <1>4, <1>6, OneBlock DEF Types
<1>8. Types'
  <2>1. ref' \in [Thread -> Nat]
    BY <1>1, <1>2, <1>4 DEF Types
  <2>2. Blk(t).msgs[1] \in Message
    BY <1>4 DEF Block, OneMessage
  <2>3. owed' \in [Receiver -> Queue \cup {None}]
    BY <1>1, <1>2, <1>4, <2>2 DEF Types, Message
  <2> QED BY <1>1, <1>2, <1>7, <2>1, <2>3 DEF Types, Goto, lockVars, ReceiverPcs, Holding
<1>9. Attended(q, i)'
  <2>1. b.msgs[1].done /\ ~b.freed
    BY <1>4, <1>6 DEF Done
  <2> QED BY <1>1, <1>2, <1>4, <1>6, <2>1, AttendedHere
<1>10. Settled(t)' /\ LocksHeld(t)'
  BY <1>1, <1>2, <1>5 DEF Placing, Settled, LocksHeld, ReceiverPcs, Holding, Fetching
<1>11. Receives(t)'
  <2>1. Consumed(q, i)'
    BY <1>2, <1>4, <1>7 DEF Consumed, Detached0
  <2>2. blk'[q][i].ref = 0
    BY <1>6, <1>7
  <2> QED BY <1>3, <1>4, <1>5, <1>7, <2>1, <2>2 DEF Receives, HasMsg, Holding, Counted, At, NoMsg
<1>12. b.msgs[1].done <=> Done(q, i)
  BY <1>6 DEF Done
<1> QED BY <1>1, <1>2, <1>4, <1>5, <1>6, <1>8, <1>9, <1>10, <1>11, <1>12, BlockStep DEF lockVars

LEMMA FreeBlockStep == ASSUME QueueInv, NEW t \in Receiver, FreeBlock(t) PROVE Advance
<1> SUFFICES ASSUME NEW q, NEW i, q = Q(t), i = B(t) PROVE Advance
  OBVIOUS
<1> DEFINE b == [Blk(t) EXCEPT !.freed = TRUE]
<1>1. /\ Types /\ Placing /\ Receivers /\ t \in Thread /\ t \notin Sender
  BY Kinds DEF QueueInv
<1>2. /\ pc[t] = "free" /\ ~Blk(t).non0 /\ Return(t)
      /\ blk' = [blk EXCEPT ![q][i] = b] /\ UNCHANGED <<data, last, read>>
      /\ UNCHANGED lockVars /\ UNCHANGED <<ref, owed>>
  BY DEF FreeBlock, SetBlk
<1>3. cur[t] # NoMsg
  BY <1>1, <1>2 DEF Receivers, Receives, Holding
<1>4. /\ q \in Queue /\ i \in 1 .. Len(blk[q]) /\ At(t, q, i)
      /\ Blk(t) = blk[q][i] /\ Blk(t) \in Block /\ OneMessage(Blk(t), i)
      /\ \A u \in Receiver \ {t} : HasMsg(u) => ~(Q(u) = q /\ B(u) = i)
      /\ Consumed(q, i) /\ Done(q, i)
  BY <1>2, <1>3, ReceiverKnows DEF Holding
<1>5. b \in Block /\ b.ref = blk[q][i].ref /\ b.msgs = blk[q][i].msgs /\ ~b.non0
      /\ b.non0 = blk[q][i].non0
      /\ b.next = blk[q][i].next /\ b.size = blk[q][i].size /\ b.first = blk[q][i].first
      /\ b.last = blk[q][i].last /\ b.full = blk[q][i].full /\ Len(b.msgs) = 1
  BY <1>2, <1>4 DEF Block, OneMessage
<1> HIDE DEF b
<1>6. Stays(t) /\ pc'[t] = "idle" /\ cur'[t] = NoMsg
  BY <1>1, <1>2, ComesBack
<1>7. Types'
  <2>1. blk' \in [Queue -> Seq(Block)]
    BY <1>1, <1>2, <1>4, <1>5, OneBlock DEF Types
  <2> QED BY <1>1, <1>2, <2>1, ComesBack DEF Types, lockVars
<1>8. \A u \in Receiver : ~Holds(u, q, i)'
  <2> SUFFICES ASSUME NEW u \in Receiver, Holds(u, q, i)' PROVE FALSE
    OBVIOUS
  <2>1. u # t
    BY <1>6 DEF Holds, Holding, Counted
  <2>2. Holds(u, q, i) /\ Q(u) = q /\ B(u) = i
    BY <2>1, <1>6 DEF Holds, At, Stays, Thread, B
  <2> QED BY <1>4, <2>1, <2>2 DEF Holds, HasMsg, At, NoMsg
<1>9. Attended(q, i)'
  <2>1. b.msgs[1].done
    BY <1>4, <1>5 DEF Done
  <2> QED BY <1>1, <1>2, <1>4, <1>5, <1>8, <2>1, AttendedHere
<1>10. Settled(t)' /\ LocksHeld(t)' /\ Receives(t)' /\ ~HasMsg(t)'
  BY <1>1, <1>6 DEF Settled, LocksHeld, Receives, HasMsg, ReceiverPcs, Fetching, Holding, Counted, NoMsg
<1>11. b.msgs[1].done <=> Done(q, i)
  BY <1>5 DEF Done
<1> QED BY <1>1, <1>2, <1>4, <1>5, <1>6, <1>7, <1>9, <1>10, <1>11, BlockStep DEF lockVars

-----------------------------------------------------------------------------
(* A new block. *)
LEMMA MsgsCounted ==
  ASSUME Types, Shaped, NEW q \in Queue
  PROVE  Msgs(q) = (1 .. Len(blk[q])) \X {1} /\ Cardinality(Msgs(q)) = Len(blk[q])
<1> DEFINE S == 1 .. Len(blk[q])
           T == S \X {1}
           f == [i \in S |-> <<i, 1>>]
<1>1. Len(blk[q]) \in Nat /\ DOMAIN blk[q] = S
  BY DEF Types
<1>2. \A i \in S : blk[q][i].msgs \in Seq(Message) /\ Len(blk[q][i].msgs) = 1
  BY BlocksTyped DEF Shaped, OneMessage, Block
<1>3. \A i \in S : DOMAIN blk[q][i].msgs = {1}
  BY <1>2
<1>4. Msgs(q) = T
  BY <1>1, <1>3 DEF Msgs
<1>5. f \in Bijection(S, T)
  BY DEF Bijection, Injection, Surjection, IsInjective
<1>6. ExistsBijection(S, T)
  BY <1>5 DEF ExistsBijection
<1>7. IsFiniteSet(S) /\ Cardinality(S) = Len(blk[q])
  BY <1>1, FS_Interval
<1>8. Cardinality(T) = Cardinality(S)
  BY <1>6, <1>7, FS_Bijection
<1> QED BY <1>4, <1>7, <1>8

FreshBlock(b, i) ==
  /\ b \in Block /\ OneMessage(b, i) /\ b.next = 0 /\ b.first = 0
  /\ b.ref = 1 /\ ~b.freed /\ ~b.msgs[1].done

(* What a message put into a block makes of it. *)
LEMMA PlacedFields ==
  ASSUME NEW c \in Block, NEW room \in Nat, NEW k \in Nat, NEW of \in Queue \cup {None},
         NEW d, d = Placed(c, room, k, of)
  PROVE  /\ d \in Block
         /\ d.next = c.next /\ d.first = c.first /\ (d.freed <=> c.freed) /\ d.size = c.size
         /\ d.last = c.last + room /\ (d.full <=> c.last + room = c.size) /\ d.ref = c.ref + 1
         /\ d.msgs = Append(c.msgs, [off |-> c.last, size |-> room, nr |-> k, of |-> of, done |-> FALSE])
<1> DEFINE m == [off |-> c.last, size |-> room, nr |-> k, of |-> of, done |-> FALSE]
<1>1. c.last + room \in Nat /\ c.ref + 1 \in Nat /\ c.msgs \in Seq(Message) /\ m \in Message
  BY DEF Block, Message
<1> HIDE DEF m
<1>2. Append(c.msgs, m) \in Seq(Message)
  BY <1>1
<1>3. PICK f \in BOOLEAN : f = (c.last + room = c.size)
  BY Zenon
<1>4. d = [c EXCEPT !.last = c.last + room, !.full = f, !.ref = c.ref + 1, !.msgs = Append(c.msgs, m)]
  BY <1>3, Zenon DEF Placed, m
<1>5. f <=> c.last + room = c.size
  BY <1>3
<1>6. /\ d \in Block
      /\ d.next = c.next /\ d.first = c.first /\ (d.freed <=> c.freed) /\ d.size = c.size
      /\ d.last = c.last + room /\ (d.full <=> f) /\ d.ref = c.ref + 1 /\ d.msgs = Append(c.msgs, m)
  <2> SUFFICES ASSUME NEW l, NEW r, NEW g, l = c.last + room, r = c.ref + 1, g = Append(c.msgs, m)
               PROVE  /\ d \in Block
                      /\ d.next = c.next /\ d.first = c.first /\ (d.freed <=> c.freed) /\ d.size = c.size
                      /\ d.last = l /\ (d.full <=> f) /\ d.ref = r /\ d.msgs = g
    OBVIOUS
  <2>1. l \in Nat /\ r \in Nat /\ g \in Seq(Message)
    BY <1>1, <1>2
  <2>2. d = [c EXCEPT !.last = l, !.full = f, !.ref = r, !.msgs = g]
    BY <1>4
  <2> QED BY <2>1, <2>2 DEF Block
<1>7. d.msgs = Append(c.msgs, [off |-> c.last, size |-> room, nr |-> k, of |-> of, done |-> FALSE])
  BY <1>6, Zenon DEF m
<1>8. d.full <=> c.last + room = c.size
  BY <1>5, <1>6
<1> QED BY <1>6, <1>7, <1>8, Zenon

Chained(q, b) == blk' = [blk EXCEPT ![q] = Append(Linked(q), b)]
Linking(t, q, n, b) ==
  /\ Chained(q, b)
  /\ data' = [data EXCEPT ![q] = IF data[q] = 0 THEN n ELSE data[q]]
  /\ last' = [last EXCEPT ![q] = n]
  /\ cur' = [cur EXCEPT ![t] = <<n, 1>>]
  /\ lock_write' = [lock_write EXCEPT ![q] = t] /\ Goto(t, "non0")

(* The last block is full, so a new one is linked behind it. *)
LEMMA NewBlockAdded ==
  ASSUME QueueInv, NEW t \in Sender, NEW q \in Queue, NEW size \in Nat \ {0}, NEW of \in Queue \cup {None},
         Alloc(t, q, size, of), NEW n, n = Len(blk[q]) + 1
  PROVE  \E b : FreshBlock(b, n) /\ Linking(t, q, n, b)
<1> DEFINE room == Larger(size, MinSize)
           m == [off |-> 0, size |-> room, nr |-> n, of |-> of, done |-> FALSE]
           b == Placed(NewBlock(room), room, n, of)
<1>1. Types /\ Shaped /\ Listed
  BY DEF QueueInv
<1>2. n \in Nat \ {0} /\ Len(blk[q]) \in Nat /\ room \in Nat \ {0}
  BY <1>1, QueueAssumption DEF Types, Larger
<1>3. NeedsBlock(q, size)
  <2>1. data[q] # 0 => last[q] \in 1 .. Len(blk[q])
    BY <1>1, <1>2 DEF Listed, Types
  <2> QED BY <1>1, <2>1 DEF NeedsBlock, Shaped, OneMessage
<1>4. Cardinality(Msgs(q)) + 1 = n
  BY <1>1, MsgsCounted
<1>5. /\ NewBlock(room) \in Block /\ NewBlock(room).next = 0 /\ NewBlock(room).first = 0
      /\ ~NewBlock(room).freed /\ NewBlock(room).size = room /\ NewBlock(room).last = 0
      /\ NewBlock(room).ref = 0 /\ NewBlock(room).msgs = <<>>
  BY <1>2 DEF NewBlock, Block
<1>6. /\ b \in Block /\ b.next = 0 /\ b.first = 0 /\ b.ref = 1 /\ ~b.freed /\ b.size = room /\ b.last = room
      /\ b.full /\ b.msgs = <<m>>
  <2> HIDE DEF room, b
  <2>1. /\ b \in Block
        /\ b.next = 0 /\ b.first = 0 /\ ~b.freed /\ b.size = room
        /\ b.last = 0 + room /\ (b.full <=> 0 + room = room) /\ b.ref = 0 + 1
        /\ b.msgs = Append(<<>>, [off |-> 0, size |-> room, nr |-> n, of |-> of, done |-> FALSE])
    <3> DEFINE k(x) == [off |-> x, size |-> room, nr |-> n, of |-> of, done |-> FALSE]
    <3>1. Append(NewBlock(room).msgs, k(NewBlock(room).last)) = Append(<<>>, k(0))
      BY <1>5
    <3> QED BY <1>2, <1>5, <3>1, PlacedFields, SMTT(20) DEF b
  <2>2. Append(<<>>, m) = <<m>>
    OBVIOUS
  <2> QED BY <1>2, <2>1, <2>2
<1>7. /\ blk' = [blk EXCEPT ![q] = Append(Linked(q), b)]
      /\ data' = IF data[q] = 0 THEN [data EXCEPT ![q] = n] ELSE data
      /\ last' = [last EXCEPT ![q] = n]
      /\ cur' = [cur EXCEPT ![t] = <<n, Len(b.msgs)>>]
      /\ IF b.ref = 1
           THEN lock_write' = [lock_write EXCEPT ![q] = t] /\ Goto(t, "non0")
           ELSE Goto(t, "count") /\ UNCHANGED lock_write
  <2>1. Placed(NewBlock(Larger(size, MinSize)), Larger(size, MinSize), Cardinality(Msgs(q)) + 1, of) = b
    BY <1>4
  <2> HIDE DEF b, room
  <2> QED BY <1>3, <2>1 DEF Alloc
<1>8. data' = [data EXCEPT ![q] = IF data[q] = 0 THEN n ELSE data[q]]
  BY <1>1, <1>7 DEF Types
<1> HIDE DEF b
<1>9. b.ref = 1 /\ Len(b.msgs) = 1 /\ FreshBlock(b, n)
  BY <1>2, <1>6 DEF FreshBlock, OneMessage
<1> QED BY <1>7, <1>8, <1>9 DEF Linking, Chained

(* The other blocks stay as they are, but for the link. *)
Relinked(q, i, n) == [blk[q][i] EXCEPT !.next = IF data[q] # 0 /\ i = Len(blk[q]) THEN n ELSE @]

LEMMA OthersAppended ==
  ASSUME Types, Listed, NEW q \in Queue, NEW b \in Block, NEW n, n = Len(blk[q]) + 1,
         Chained(q, b)
  PROVE  /\ n \in Nat \ {0} /\ blk' \in [Queue -> Seq(Block)] /\ Len(blk'[q]) = n /\ blk'[q][n] = b
         /\ \A p \in Queue : p # q => blk'[p] = blk[p]
         /\ \A i \in 1 .. Len(blk[q]) :
              /\ blk[q][i] \in Block
              /\ blk'[q][i] = Relinked(q, i, n)
<1>1. blk[q] \in Seq(Block) /\ Len(blk[q]) \in Nat /\ n \in Nat \ {0} /\ data[q] \in Nat
  BY DEF Types
<1>2. data[q] # 0 => last[q] = Len(blk[q]) /\ Len(blk[q]) \in 1 .. Len(blk[q])
  BY <1>1 DEF Listed
<1>3. ASSUME NEW i \in 1 .. Len(blk[q]), NEW k \in Nat
      PROVE  [blk[q][i] EXCEPT !.next = k] \in Block /\ blk[q][i] \in Block
             /\ blk[q][i] = [blk[q][i] EXCEPT !.next = blk[q][i].next]
  <2>1. blk[q][i] \in Block
    BY <1>1
  <2>2. [blk[q][i] EXCEPT !.next = k] \in Block
    BY <2>1 DEF Block
  <2>3. blk[q][i] = [blk[q][i] EXCEPT !.next = blk[q][i].next]
    BY <2>1 DEF Block
  <2> QED BY <2>1, <2>2, <2>3
<1>4. /\ Linked(q) \in Seq(Block) /\ Len(Linked(q)) = Len(blk[q])
      /\ \A i \in 1 .. Len(blk[q]) :
           Linked(q)[i] = [blk[q][i] EXCEPT !.next = IF data[q] # 0 /\ i = Len(blk[q]) THEN n ELSE @]
  <2>1. CASE data[q] = 0
    <3>1. Linked(q) = blk[q]
      BY <2>1 DEF Linked
    <3>2. ASSUME NEW i \in 1 .. Len(blk[q])
          PROVE  [blk[q][i] EXCEPT !.next = IF data[q] # 0 /\ i = Len(blk[q]) THEN n ELSE @] = blk[q][i]
      BY <1>1, <1>3, <2>1
    <3> QED BY <1>1, <3>1, <3>2
  <2>2. CASE data[q] # 0
    <3> DEFINE l == [blk[q][Len(blk[q])] EXCEPT !.next = n]
    <3>1. l \in Block
      BY <1>1, <1>2, <1>3, <2>2
    <3>2. Linked(q) = [blk[q] EXCEPT ![Len(blk[q])] = l]
      BY <1>2, <2>2 DEF Linked
    <3>3. ASSUME NEW i \in 1 .. Len(blk[q]), i # Len(blk[q])
          PROVE  [blk[q][i] EXCEPT !.next = IF data[q] # 0 /\ i = Len(blk[q]) THEN n ELSE @] = blk[q][i]
      BY <1>1, <1>3, <3>3
    <3>4. [blk[q][Len(blk[q])] EXCEPT !.next =
              IF data[q] # 0 /\ Len(blk[q]) = Len(blk[q]) THEN n ELSE @] = l
      BY <2>2
    <3> HIDE DEF l
    <3>5. /\ [blk[q] EXCEPT ![Len(blk[q])] = l] \in Seq(Block)
          /\ Len([blk[q] EXCEPT ![Len(blk[q])] = l]) = Len(blk[q])
          /\ [blk[q] EXCEPT ![Len(blk[q])] = l][Len(blk[q])] = l
          /\ \A i \in 1 .. Len(blk[q]) : i # Len(blk[q]) => [blk[q] EXCEPT ![Len(blk[q])] = l][i] = blk[q][i]
      BY <1>1, <1>2, <2>2, <3>1
    <3>6. ASSUME NEW i \in 1 .. Len(blk[q])
          PROVE  Linked(q)[i] = [blk[q][i] EXCEPT !.next = IF data[q] # 0 /\ i = Len(blk[q]) THEN n ELSE @]
      <4>1. CASE i = Len(blk[q])
        BY <3>2, <3>4, <3>5, <4>1
      <4>2. CASE i # Len(blk[q])
        BY <3>2, <3>3, <3>5, <4>2
      <4> QED BY <4>1, <4>2
    <3> QED BY <3>2, <3>5, <3>6
  <2> QED BY <2>1, <2>2
<1>5. blk' \in [Queue -> Seq(Block)] /\ blk'[q] = Append(Linked(q), b)
      /\ \A p \in Queue : p # q => blk'[p] = blk[p]
  BY <1>4 DEF Types, Chained
<1>6. /\ Len(blk'[q]) = n /\ blk'[q][n] = b
      /\ \A i \in 1 .. Len(blk[q]) : blk'[q][i] = Linked(q)[i]
  BY <1>1, <1>4, <1>5, AppendProperties
<1>7. \A i \in 1 .. Len(blk[q]) : blk[q][i] \in Block
  BY <1>1
<1> QED BY <1>1, <1>4, <1>5, <1>6, <1>7 DEF Relinked

LEMMA AllocStep ==
  ASSUME QueueInv, NEW t \in Sender, NEW q \in Queue, NEW size \in Nat \ {0}, NEW of \in Queue \cup {None},
         Alloc(t, q, size, of), pc[t] \in {"idle", "parent"},
         NEW y \in Seq(Queue), y # <<>>, y[Len(y)] = q, path' = [path EXCEPT ![t] = y]
  PROVE  Advance
<1> SUFFICES ASSUME NEW n, n = Len(blk[q]) + 1 PROVE Advance
  OBVIOUS
<1>1. /\ Types /\ Placing /\ Shaped /\ Listed /\ Ordered /\ Filled /\ Locked /\ Senders /\ Receivers
      /\ t \in Thread /\ t \notin Receiver
  BY Kinds DEF QueueInv
<1>0. PICK b : FreshBlock(b, n) /\ Linking(t, q, n, b)
  BY NewBlockAdded
<1>2. /\ FreshBlock(b, n)
      /\ Chained(q, b)
      /\ data' = [data EXCEPT ![q] = IF data[q] = 0 THEN n ELSE data[q]]
      /\ last' = [last EXCEPT ![q] = n]
      /\ cur' = [cur EXCEPT ![t] = <<n, 1>>]
      /\ lock_write' = [lock_write EXCEPT ![q] = t] /\ Goto(t, "non0")
  BY <1>0 DEF Linking
<1>3. /\ n \in Nat \ {0} /\ blk' \in [Queue -> Seq(Block)] /\ Len(blk'[q]) = n /\ blk'[q][n] = b
      /\ \A p \in Queue : p # q => blk'[p] = blk[p]
      /\ \A i \in 1 .. Len(blk[q]) :
           /\ blk[q][i] \in Block
           /\ blk'[q][i] = Relinked(q, i, n)
  <2>1. b \in Block /\ Types /\ Listed
    BY <1>1, <1>2 DEF FreshBlock
  <2> QED BY <1>2, <2>1, OthersAppended
<1>4. lock_write[q] = None /\ UNCHANGED <<read, lock_read, ref, op, owed>>
  BY DEF Alloc
<1>5. Stays(t) /\ pc'[t] = "non0" /\ path'[t] = y /\ cur'[t] = <<n, 1>> /\ Q(t)' = q /\ B(t)' = n
  <2>1. Stays(t) /\ pc'[t] = "non0" /\ path'[t] = y /\ cur'[t] = <<n, 1>>
    BY <1>1, <1>2, Moves DEF Goto
  <2> QED BY <2>1 DEF Q, B
<1>6. Types'
  <2>1. data' \in [Queue -> Nat] /\ last' \in [Queue -> Nat] /\ cur' \in [Thread -> Nat \X Nat]
    BY <1>1, <1>2, <1>3 DEF Types
  <2>2. /\ lock_write' \in [Queue -> Thread \cup {None}] /\ pc' \in [Thread -> SenderPcs \cup ReceiverPcs]
        /\ path' \in [Thread -> Seq(Queue)]
    BY <1>1, <1>2 DEF Types, Goto, SenderPcs, Sending, Filling
  <2> QED BY <1>1, <1>3, <1>4, <2>1, <2>2 DEF Types
<1>7. \A p \in Queue : /\ Len(blk[p]) \in Nat /\ data[p] \in Nat /\ data[p] <= Len(blk[p])
                       /\ data'[p] = IF p = q /\ data[q] = 0 THEN n ELSE data[p]
                       /\ Len(blk'[p]) = IF p = q THEN n ELSE Len(blk[p])
  <2>1. ASSUME NEW p \in Queue PROVE Len(blk[p]) \in Nat /\ data[p] \in Nat /\ data[p] <= Len(blk[p])
    BY <1>1 DEF Types, Listed
  <2>2. ASSUME NEW p \in Queue PROVE data'[p] = IF p = q /\ data[q] = 0 THEN n ELSE data[p]
    BY <1>1, <1>2 DEF Types
  <2>3. ASSUME NEW p \in Queue PROVE Len(blk'[p]) = IF p = q THEN n ELSE Len(blk[p])
    BY <1>3
  <2> QED BY <2>1, <2>2, <2>3
<1>8. /\ \A p \in Queue : Detached0(p)' = Detached0(p) /\ Detached0(p) \in Nat /\ Detached0(p) <= Len(blk[p])
      /\ \A p \in Queue, k \in Nat : Consumed(p, k)' <=> Consumed(p, k)
      /\ ~Consumed(q, n)' /\ ~(n <= Detached0(q))
  <2>1. ASSUME NEW p \in Queue
        PROVE  Detached0(p)' = Detached0(p) /\ Detached0(p) \in Nat /\ Detached0(p) <= Len(blk[p])
    <3>1. /\ Len(blk[p]) \in Nat /\ data[p] \in Nat /\ data[p] <= Len(blk[p])
          /\ data'[p] = IF p = q /\ data[q] = 0 THEN n ELSE data[p]
          /\ Len(blk'[p]) = IF p = q THEN n ELSE Len(blk[p])
      BY <1>7
    <3> QED BY <1>3, <3>1, SMTT(20) DEF Detached0
  <2>2. \A p \in Queue, k \in Nat : Consumed(p, k)' <=> Consumed(p, k)
    BY <1>4, <2>1 DEF Consumed
  <2>3. ~(n <= Detached0(q))
    BY <1>7, <2>1
  <2> QED BY <1>3, <2>1, <2>2, <2>3 DEF Consumed
<1>9. ASSUME NEW p \in Queue, NEW i \in 1 .. Len(blk[p])
      PROVE  /\ i \in Nat /\ blk'[p][i].first = blk[p][i].first /\ blk'[p][i].last = blk[p][i].last
             /\ blk'[p][i].size = blk[p][i].size /\ (blk'[p][i].full <=> blk[p][i].full)
             /\ blk'[p][i].msgs = blk[p][i].msgs /\ blk'[p][i].ref = blk[p][i].ref
             /\ (blk'[p][i].freed <=> blk[p][i].freed) /\ (blk'[p][i].non0 <=> blk[p][i].non0)
             /\ blk'[p][i].next = IF p = q /\ data[q] # 0 /\ i = Len(blk[q]) THEN n ELSE blk[p][i].next
  <2>1. CASE p = q
    <3> DEFINE c == blk[q][i]
               k == IF data[q] # 0 /\ i = Len(blk[q]) THEN n ELSE c.next
    <3>1. c \in Block /\ blk'[q][i] = [c EXCEPT !.next = k]
      BY <1>3, <2>1 DEF Relinked
    <3> HIDE DEF c, k
    <3>2. LET d == [c EXCEPT !.next = k]
          IN /\ d.first = c.first /\ d.last = c.last /\ d.size = c.size /\ d.full = c.full /\ d.msgs = c.msgs
             /\ d.ref = c.ref /\ d.freed = c.freed /\ d.non0 = c.non0 /\ d.next = k
      BY <3>1 DEF Block
    <3> QED BY <2>1, <3>1, <3>2 DEF c, k
  <2>2. CASE p # q
    BY <1>3, <2>2
  <2> QED BY <2>1, <2>2
<1>10. ASSUME NEW p \in Queue, NEW i \in 1 .. Len(blk'[p])
       PROVE  i \in 1 .. Len(blk[p]) \/ (p = q /\ i = n /\ blk'[p][i] = b)
  BY <1>3, <1>7
<1>11. Shaped'
  <2> SUFFICES ASSUME NEW p \in Queue, NEW i \in 1 .. Len(blk'[p]) PROVE OneMessage(blk'[p][i], i)
    BY DEF Shaped
  <2>1. CASE p = q /\ i = n /\ blk'[p][i] = b
    BY <1>2, <2>1 DEF FreshBlock
  <2>2. CASE i \in 1 .. Len(blk[p])
    <3>1. OneMessage(blk[p][i], i)
      BY <1>1, <2>2 DEF Shaped
    <3>2. /\ blk'[p][i].first = blk[p][i].first /\ blk'[p][i].last = blk[p][i].last
          /\ blk'[p][i].size = blk[p][i].size /\ (blk'[p][i].full <=> blk[p][i].full)
          /\ blk'[p][i].msgs = blk[p][i].msgs
      BY <1>9, <2>2
    <3> QED BY <3>1, <3>2 DEF OneMessage
  <2> QED BY <1>10, <2>1, <2>2
<1>12. Ordered'
  <2> SUFFICES ASSUME NEW p \in Queue, NEW i \in 1 .. Len(blk'[p])
               PROVE  blk'[p][i].first = IF Consumed(p, i)' THEN blk'[p][i].size ELSE 0
    BY DEF Ordered
  <2>1. CASE p = q /\ i = n /\ blk'[p][i] = b
    BY <1>2, <1>8, <2>1 DEF FreshBlock
  <2>2. CASE i \in 1 .. Len(blk[p])
    <3>1. blk[p][i].first = IF Consumed(p, i) THEN blk[p][i].size ELSE 0
      BY <1>1, <2>2 DEF Ordered
    <3> QED BY <1>8, <1>9, <2>2, <3>1
  <2> QED BY <1>10, <2>1, <2>2
<1>13. Listed'
  <2>1. ASSUME NEW p \in Queue PROVE data'[p] <= Len(blk'[p])
    <3>1. Len(blk[p]) \in Nat /\ data[p] \in Nat /\ data[p] <= Len(blk[p]) /\ n \in Nat
      BY <1>3, <1>7
    <3>2. CASE p = q
      BY <1>7, <3>1, <3>2
    <3>3. CASE p # q
      BY <1>7, <3>1, <3>3
    <3> QED BY <3>2, <3>3
  <2>2. \A p \in Queue : last'[p] = IF data'[p] = 0 THEN 0 ELSE Len(blk'[p])
    BY <1>1, <1>2, <1>3, <1>7 DEF Listed, Types
  <2>3. ASSUME NEW p \in Queue, NEW i \in 1 .. Len(blk'[p])
        PROVE  blk'[p][i].next = IF i <= Detached0(p) \/ i = Len(blk'[p]) THEN 0 ELSE i + 1
    <3>1. CASE p = q /\ i = n /\ blk'[p][i] = b
      BY <1>2, <1>3, <3>1 DEF FreshBlock
    <3>2. CASE i \in 1 .. Len(blk[p])
      <4>1. blk[p][i].next = IF i <= Detached0(p) \/ i = Len(blk[p]) THEN 0 ELSE i + 1
        BY <1>1, <3>2 DEF Listed
      <4>2. data[p] = 0 => i <= Detached0(p)
        BY <3>2 DEF Detached0
      <4>3. data[p] # 0 => ~(Len(blk[p]) <= Detached0(p))
        BY <1>7 DEF Detached0
      <4>4. /\ blk'[p][i].next = IF p = q /\ data[q] # 0 /\ i = Len(blk[q]) THEN n ELSE blk[p][i].next
            /\ Len(blk'[p]) = IF p = q THEN n ELSE Len(blk[p])
            /\ Len(blk[p]) \in Nat /\ i \in Nat
        BY <1>7, <1>9, <3>2
      <4> QED BY <3>2, <4>1, <4>2, <4>3, <4>4
    <3> QED BY <1>10, <3>1, <3>2
  <2>4. \A p \in Queue : read'[p] \in {0, Detached0(p)}
    BY <1>1, <1>4 DEF Listed
  <2> QED BY <1>8, <2>1, <2>2, <2>3, <2>4 DEF Listed
<1>14. Placing' /\ Locked'
  <2>1. Settled(t)' /\ LocksHeld(t)'
    BY <1>1, <1>2, <1>5 DEF Settled, LocksHeld, SenderPcs, Sending, Filling, Fetching, Types
  <2>2. \A p \in Queue : \A u \in Thread \ {t} : lock_write[p] = u => lock_write'[p] = u
    BY <1>1, <1>2, <1>4, QueueAssumption DEF Types, Thread
  <2> QED BY <1>1, <1>4, <1>5, <2>1, <2>2, OthersPlaced, OthersLocked
<1>15. Senders'
  <2>1. ASSUME NEW u \in Sender, u # t, pc[u] \in Sending
        PROVE  /\ Len(blk'[Q(u)]) >= Len(blk[Q(u)]) /\ Len(blk'[Q(u)]) \in Nat /\ Len(blk[Q(u)]) \in Nat
               /\ Done(Q(u), B(u))' <=> Done(Q(u), B(u))
               /\ blk[Q(u)][B(u)].non0 => blk'[Q(u)][B(u)].non0
               /\ Q(t)' = Q(u) => B(t)' # B(u)
    <3>1. Q(u) \in Queue /\ B(u) \in 1 .. Len(blk[Q(u)]) /\ Q(u)' = Q(u) /\ B(u)' = B(u)
      BY <1>1, <1>5, <2>1, OnQueue DEF Senders, Sends, Sending, Filling, Stays, Thread
    <3>2. Done(Q(u), B(u))' <=> Done(Q(u), B(u))
      BY <1>9, <3>1, SMTT(20) DEF Done
    <3>3. /\ Len(blk[Q(u)]) \in Nat /\ Len(blk'[Q(u)]) = IF Q(u) = q THEN n ELSE Len(blk[Q(u)])
      BY <1>7, <3>1
    <3>4. blk[Q(u)][B(u)].non0 => blk'[Q(u)][B(u)].non0
      BY <1>9, <3>1
    <3> QED BY <1>5, <3>1, <3>2, <3>3, <3>4
  <2>2. Sends(t)'
    BY <1>2, <1>3, <1>5 DEF Sends, At, Done, FreshBlock, Filling, Gated
  <2> QED BY <1>1, <1>5, <2>1, <2>2, OthersSend
<1>16. Receivers'
  <2>1. ASSUME NEW u \in Receiver, u # t, HasMsg(u)
        PROVE  /\ Len(blk'[Q(u)]) >= Len(blk[Q(u)]) /\ Len(blk'[Q(u)]) \in Nat /\ Len(blk[Q(u)]) \in Nat
               /\ Consumed(Q(u), B(u)) => Consumed(Q(u), B(u))'
               /\ blk'[Q(u)][B(u)].ref = blk[Q(u)][B(u)].ref
    <3>1. Q(u) \in Queue /\ B(u) \in 1 .. Len(blk[Q(u)]) /\ Q(u)' = Q(u) /\ B(u)' = B(u)
      BY <1>1, <1>5, <2>1, OnQueue DEF Receivers, Receives, HasMsg, Holding, Counted, Stays, Thread
    <3>2. Consumed(Q(u), B(u)) => Consumed(Q(u), B(u))'
      BY <1>8, <3>1 DEF Consumed, Detached0
    <3> QED BY <1>3, <1>7, <1>9, <3>1, <3>2
  <2>2. ASSUME NEW u \in Receiver, u # t, pc[u] \in {"detach", "blocked", "take"}
        PROVE  read'[Q(u)] = read[Q(u)] /\ (data[Q(u)] # 0 => data'[Q(u)] # 0)
    <3>1. Q(u) \in Queue /\ Q(u)' = Q(u)
      BY <1>1, <1>5, <2>2, OnQueue DEF Stays, Thread
    <3> QED BY <1>3, <1>4, <1>7, <3>1
  <2> QED BY <1>1, <1>5, <2>1, <2>2, OthersReceive
<1>17. Filled'
  <2>1. Attended(q, n)'
    <3>1. ~Done(q, n)' /\ blk'[q][n].ref = 1 /\ ~blk'[q][n].freed
      BY <1>2, <1>3 DEF Done, FreshBlock
    <3>2. Fills(t, q, n)'
      BY <1>5 DEF Fills, At, Filling
    <3>3. ~(n <= Detached0(q)')
      BY <1>8
    <3> QED BY <3>1, <3>2, <3>3 DEF Attended
  <2>2. ASSUME NEW p \in Queue, NEW i \in 1 .. Len(blk[p]) PROVE Attended(p, i)'
    <3>1. Attended(p, i)
      BY <1>1 DEF Filled
    <3>2. Done(p, i)' <=> Done(p, i)
      BY <1>9 DEF Done
    <3>3. ~Fills(t, p, i)
      BY DEF Fills, Filling
    <3>4. i \in Nat /\ (i <= Detached0(p)' <=> i <= Detached0(p)) /\ (Consumed(p, i)' <=> Consumed(p, i))
      BY <1>8
    <3>5. /\ blk'[p][i].ref = blk[p][i].ref
          /\ (blk'[p][i].freed <=> blk[p][i].freed) /\ (blk'[p][i].non0 <=> blk[p][i].non0)
      BY <1>9
    <3> QED BY <1>1, <1>5, <3>1, <3>2, <3>3, <3>4, <3>5, OthersAttended
  <2> QED BY <1>10, <2>1, <2>2 DEF Filled
<1>18. Opens(q, n)
  <2>1. \A p \in Queue : \A i \in 1 .. Len(blk[p]) : DoneKept(p, i) /\ ConsumedKept(p, i)
    BY <1>8, <1>9 DEF DoneKept, ConsumedKept, Done
  <2>2. ~Done(q, n)' /\ ~Consumed(q, n)'
    BY <1>2, <1>3, <1>8 DEF Done, FreshBlock
  <2> QED BY <1>7, <2>1, <2>2 DEF Opens, Kept
<1> QED BY <1>6, <1>11, <1>12, <1>13, <1>14, <1>15, <1>16, <1>17, <1>3, <1>18 DEF QueueInv, Advance, Seen

LEMMA SendStep == ASSUME QueueInv, NEW t \in Sender, Send(t) PROVE Advance
<1>1. PICK q \in SendTo[t], size \in Size : Alloc(t, q, size, None) /\ path' = [path EXCEPT ![t] = <<q>>]
  BY DEF Send
<1>2. q \in Queue /\ size \in Nat \ {0} /\ pc[t] = "idle"
  BY <1>1, QueueAssumption DEF Send
<1>3. <<q>> \in Seq(Queue) /\ <<q>> # <<>> /\ <<q>>[Len(<<q>>)] = q
  BY <1>2
<1> QED BY <1>1, <1>2, <1>3, AllocStep

LEMMA SendParentStep == ASSUME QueueInv, NEW t \in Sender, SendParent(t) PROVE Advance
<1> SUFFICES ASSUME NEW p, p = Parent[Q(t)] PROVE Advance
  OBVIOUS
<1>1. Types /\ Placing /\ t \in Thread
  BY Kinds DEF QueueInv
<1>2. pc[t] = "parent" /\ Alloc(t, p, SubSize, Q(t)) /\ path' = [path EXCEPT ![t] = Append(path[t], p)]
  BY DEF SendParent
<1>3. Q(t) \in Queue /\ path[t] \in Seq(Queue)
  BY <1>1, <1>2, OnQueue
<1>4. p \in Queue
  BY <1>1, <1>2, <1>3, QueueAssumption DEF Placing, Settled
<1>5. /\ Append(path[t], p) \in Seq(Queue) /\ Append(path[t], p) # <<>>
      /\ Append(path[t], p)[Len(Append(path[t], p))] = p
  BY <1>3, <1>4, AppendProperties, EmptySeq
<1> QED BY <1>2, <1>3, <1>4, <1>5, QueueAssumption, AllocStep

-----------------------------------------------------------------------------
(* The first block is taken off the senders' list, once it is complete. *)
LEMMA DetachedStep ==
  ASSUME QueueInv, NEW t \in Receiver, NEW q, NEW i, q = Q(t), i = data[q], i # 0,
         pc[t] \in {"detach", "blocked"}, Done(q, i), Detached(q, i), Goto(t, "take"),
         UNCHANGED <<lock_read, path, cur, ref, op, owed>>,
         lock_write' \in [Queue -> Thread \cup {None}],
         \A p \in Queue : \A u \in Thread \ {t} : lock_write[p] = u => lock_write'[p] = u
  PROVE  Advance
<1> DEFINE b == [blk[q][i] EXCEPT !.next = 0]
<1>1. /\ Types /\ Placing /\ Shaped /\ Listed /\ Ordered /\ Filled /\ Locked /\ Senders /\ Receivers
      /\ t \in Thread /\ t \notin Sender
  BY Kinds DEF QueueInv
<1>2. q \in Queue /\ Len(blk[q]) \in Nat /\ i \in 1 .. Len(blk[q]) /\ i \in Nat
  <2>1. q \in Queue
    BY <1>1, OnQueue
  <2> QED BY <1>1, <2>1 DEF Types, Listed
<1>3. read[q] = 0 /\ lock_read[q] = t /\ cur[t] = NoMsg
  BY <1>1 DEF Receivers, Receives, Locked, LocksHeld, Fetching, Holding, Counted
<1>4. /\ Detached0(q) = i - 1 /\ last[q] = Len(blk[q])
      /\ blk[q][i].next = IF i = Len(blk[q]) THEN 0 ELSE i + 1
  BY <1>1, <1>2 DEF Listed, Detached0
<1>5. b \in Block /\ b.next = 0 /\ b.first = blk[q][i].first /\ b.last = blk[q][i].last
      /\ b.size = blk[q][i].size /\ b.full = blk[q][i].full /\ b.msgs = blk[q][i].msgs
      /\ b.ref = blk[q][i].ref /\ b.freed = blk[q][i].freed /\ b.non0 = blk[q][i].non0
  <2>1. blk[q][i] \in Block
    BY <1>1, <1>2, BlocksTyped
  <2> QED BY <2>1 DEF Block
<1>6. blk' = [blk EXCEPT ![q][i] = b]
  BY DEF Detached
<1> HIDE DEF b
<1>7. /\ blk' \in [Queue -> Seq(Block)] /\ blk'[q][i] = b
      /\ \A p \in Queue : Len(blk'[p]) = Len(blk[p]) /\ Len(blk[p]) \in Nat
      /\ \A p \in Queue : \A k \in 1 .. Len(blk[p]) : p # q \/ k # i => blk'[p][k] = blk[p][k]
  BY <1>1, <1>2, <1>5, <1>6, OneBlock DEF Types
<1>8. /\ read' = [read EXCEPT ![q] = i]
      /\ data' = [data EXCEPT ![q] = IF i = Len(blk[q]) THEN 0 ELSE i + 1]
      /\ last' = [last EXCEPT ![q] = IF i = Len(blk[q]) THEN 0 ELSE Len(blk[q])]
  BY <1>1, <1>4 DEF Detached, Types
<1>9. Stays(t) /\ pc'[t] = "take" /\ cur'[t] = cur[t] /\ path'[t] = path[t] /\ Q(t)' = q
  BY <1>1, GoesOn
<1>10. Types'
  <2>1. read' \in [Queue -> Nat] /\ data' \in [Queue -> Nat] /\ last' \in [Queue -> Nat]
    BY <1>1, <1>2, <1>8 DEF Types
  <2> QED BY <1>1, <1>7, <2>1 DEF Types, Goto, ReceiverPcs, Fetching
<1>11. /\ read'[q] = i /\ data'[q] = (IF i = Len(blk[q]) THEN 0 ELSE i + 1)
       /\ last'[q] = (IF i = Len(blk[q]) THEN 0 ELSE Len(blk[q]))
       /\ \A p \in Queue \ {q} : read'[p] = read[p] /\ data'[p] = data[p] /\ last'[p] = last[p]
  BY <1>1, <1>2, <1>8 DEF Types
<1>12. /\ Detached0(q)' = i
       /\ \A p \in Queue \ {q} : Detached0(p)' = Detached0(p)
       /\ \A p \in Queue : \A k \in Nat \ {0} : Consumed(p, k)' <=> Consumed(p, k)
  <2>1. Detached0(q)' = i /\ \A p \in Queue \ {q} : Detached0(p)' = Detached0(p)
    BY <1>2, <1>7, <1>11 DEF Detached0
  <2>2. ASSUME NEW k \in Nat \ {0} PROVE Consumed(q, k)' <=> Consumed(q, k)
    BY <1>2, <1>3, <1>4, <1>11, <2>1 DEF Consumed
  <2>3. ASSUME NEW p \in Queue \ {q}, NEW k \in Nat \ {0} PROVE Consumed(p, k)' <=> Consumed(p, k)
    BY <1>11, <2>1 DEF Consumed
  <2> QED BY <2>1, <2>2, <2>3
<1>13. ASSUME NEW p \in Queue, NEW k \in 1 .. Len(blk[p])
       PROVE  /\ k \in Nat \ {0} /\ blk'[p][k].first = blk[p][k].first /\ blk'[p][k].last = blk[p][k].last
              /\ blk'[p][k].size = blk[p][k].size /\ (blk'[p][k].full <=> blk[p][k].full)
              /\ blk'[p][k].msgs = blk[p][k].msgs /\ blk'[p][k].ref = blk[p][k].ref
              /\ (blk'[p][k].freed <=> blk[p][k].freed) /\ (blk'[p][k].non0 <=> blk[p][k].non0)
              /\ (Done(p, k)' <=> Done(p, k))
  BY <1>5, <1>7 DEF Done
<1>14. Shaped'
  BY <1>1, <1>7, <1>13 DEF Shaped, OneMessage
<1>15. Ordered'
  BY <1>1, <1>7, <1>12, <1>13 DEF Ordered
<1>16. Listed'
  <2>1. ASSUME NEW p \in Queue, p # q
        PROVE  /\ data'[p] <= Len(blk'[p])
               /\ last'[p] = IF data'[p] = 0 THEN 0 ELSE Len(blk'[p])
               /\ \A k \in 1 .. Len(blk'[p]) :
                    blk'[p][k].next = IF k <= Detached0(p)' \/ k = Len(blk'[p]) THEN 0 ELSE k + 1
               /\ read'[p] \in {0, Detached0(p)'}
    BY <1>1, <1>7, <1>11, <1>12, <2>1 DEF Listed
  <2>2. data'[q] <= Len(blk'[q]) /\ last'[q] = IF data'[q] = 0 THEN 0 ELSE Len(blk'[q])
    BY <1>2, <1>7, <1>11
  <2>3. ASSUME NEW k \in 1 .. Len(blk[q])
        PROVE  blk'[q][k].next = IF k <= i \/ k = Len(blk[q]) THEN 0 ELSE k + 1
    <3>1. CASE k = i
      BY <1>5, <1>7, <3>1
    <3>2. CASE k # i
      BY <1>1, <1>2, <1>4, <1>7, <3>2 DEF Listed
    <3> QED BY <3>1, <3>2
  <2> QED BY <1>2, <1>7, <1>11, <1>12, <2>1, <2>2, <2>3 DEF Listed
<1>17. Placing' /\ Locked'
  <2>1. Settled(t)' /\ LocksHeld(t)'
    BY <1>1, <1>3, <1>9 DEF Placing, Settled, LocksHeld, ReceiverPcs, Fetching
  <2> QED BY <1>1, <1>9, <2>1, OthersPlaced, OthersLocked
<1>18. Senders'
  <2>1. ASSUME NEW u \in Sender, u # t, pc[u] \in Sending
        PROVE  /\ Len(blk'[Q(u)]) >= Len(blk[Q(u)]) /\ Len(blk'[Q(u)]) \in Nat /\ Len(blk[Q(u)]) \in Nat
               /\ Done(Q(u), B(u))' <=> Done(Q(u), B(u))
               /\ blk[Q(u)][B(u)].non0 => blk'[Q(u)][B(u)].non0
    <3>1. Q(u) \in Queue /\ B(u) \in 1 .. Len(blk[Q(u)]) /\ Q(u)' = Q(u) /\ B(u)' = B(u)
      BY <1>1, <1>9, <2>1, OnQueue DEF Senders, Sends, Sending, Filling, Stays, Thread
    <3>2. Done(Q(u), B(u))' <=> Done(Q(u), B(u))
      BY <1>13, <3>1 DEF Done
    <3> QED BY <1>7, <1>13, <3>1, <3>2
  <2> QED BY <1>1, <1>9, <2>1, OthersSend
<1>19. Receivers'
  <2>1. ASSUME NEW u \in Receiver, u # t, HasMsg(u)
        PROVE  /\ Len(blk'[Q(u)]) >= Len(blk[Q(u)]) /\ Len(blk'[Q(u)]) \in Nat /\ Len(blk[Q(u)]) \in Nat
               /\ Consumed(Q(u), B(u)) => Consumed(Q(u), B(u))'
               /\ blk'[Q(u)][B(u)].ref = blk[Q(u)][B(u)].ref
    <3>1. Q(u) \in Queue /\ B(u) \in 1 .. Len(blk[Q(u)]) /\ Q(u)' = Q(u) /\ B(u)' = B(u)
      BY <1>1, <1>9, <2>1, OnQueue DEF Receivers, Receives, HasMsg, Holding, Counted, Stays, Thread
    <3>2. Consumed(Q(u), B(u)) => Consumed(Q(u), B(u))'
      <4>1. B(u) \in Nat \ {0}
        BY <1>7, <3>1
      <4> QED BY <1>12, <3>1, <4>1 DEF Consumed, Detached0
    <3> QED BY <1>7, <1>13, <3>1, <3>2
  <2>2. ASSUME NEW u \in Receiver, u # t, pc[u] \in {"detach", "blocked", "take"}
        PROVE  read'[Q(u)] = read[Q(u)] /\ (data[Q(u)] # 0 => data'[Q(u)] # 0)
    <3>1. Q(u) \in Queue /\ lock_read[Q(u)] = u
      BY <1>1, <2>2, OnQueue DEF Thread, Locked, LocksHeld, Fetching
    <3>2. Q(u) # q
      BY <1>3, <2>2, <3>1
    <3> QED BY <1>11, <3>1, <3>2
  <2>3. Receives(t)' /\ ~HasMsg(t)'
    BY <1>2, <1>3, <1>9, <1>11 DEF Receives, HasMsg, Holding, Counted
  <2> QED BY <1>1, <1>9, <2>1, <2>2, <2>3, OthersReceive
<1>20. Filled'
  <2>1. Attended(q, i)'
    <3>1. Attended(q, i) /\ ~Consumed(q, i)
      BY <1>1, <1>2, <1>4 DEF Filled, Consumed
    <3>2. blk[q][i].ref = 0 /\ ~blk[q][i].freed
      BY <3>1 DEF Attended
    <3> QED BY <1>2, <1>13, <3>2 DEF Attended
  <2>2. ASSUME NEW p \in Queue, NEW k \in 1 .. Len(blk[p]), p # q \/ k # i PROVE Attended(p, k)'
    <3>1. Attended(p, k) /\ k \in Nat \ {0}
      BY <1>1, <1>13 DEF Filled
    <3>2. k <= Detached0(p)' <=> k <= Detached0(p)
      BY <1>2, <1>4, <1>12, <2>2, <3>1
    <3>3. ~Holds(t, p, k)'
      BY <1>9 DEF Holds, Holding, Counted
    <3> QED BY <1>1, <1>9, <1>12, <1>13, <3>1, <3>2, <3>3, OthersAttended
  <2> QED BY <1>7, <2>1, <2>2 DEF Filled
<1>21. Unseen
  BY <1>7, <1>12, <1>13 DEF Unseen, Kept, DoneKept, ConsumedKept
<1> QED BY <1>10, <1>14, <1>15, <1>16, <1>17, <1>18, <1>19, <1>20, <1>21 DEF QueueInv, Advance, Seen

LEMMA DetachStep == ASSUME QueueInv, NEW t \in Receiver, Detach(t) PROVE Advance
<1> SUFFICES ASSUME NEW q, NEW i, q = Q(t), i = data[q] PROVE Advance
  OBVIOUS
<1>1. /\ Types /\ Placing /\ Filled /\ Listed /\ t \in Thread
  BY Kinds DEF QueueInv
<1>2. /\ pc[t] = "detach" /\ i # 0 /\ blk[q][i].ref = 0 /\ Detached(q, i) /\ Goto(t, "take")
      /\ UNCHANGED lockVars /\ UNCHANGED <<path, cur, ref, op, owed>>
  BY DEF Detach
<1>3. q \in Queue
  BY <1>1, <1>2, OnQueue
<1>4. i \in 1 .. Len(blk[q])
  BY <1>1, <1>2, <1>3 DEF Types, Listed
<1>5. Done(q, i)
  BY <1>1, <1>2, <1>3, <1>4 DEF Filled, Attended
<1>6. lock_write' \in [Queue -> Thread \cup {None}]
  BY <1>1, <1>2 DEF Types, lockVars
<1> QED BY <1>2, <1>5, <1>6, DetachedStep DEF lockVars

(* While the thread holds both locks no sender is on its way to            *)
(* lock_non_0_ref, so a free lock_non_0_ref means a complete block.        *)
LEMMA DetachWaitStep == ASSUME QueueInv, NEW t \in Receiver, DetachWait(t) PROVE Advance
<1> SUFFICES ASSUME NEW q, NEW i, q = Q(t), i = data[q] PROVE Advance
  OBVIOUS
<1>1. /\ Types /\ Placing /\ Filled /\ Listed /\ Locked /\ Senders /\ Receivers /\ t \in Thread /\ t \notin Sender
  BY Kinds DEF QueueInv
<1>2. /\ pc[t] = "blocked" /\ ~blk[q][i].non0 /\ Detached(q, i) /\ Goto(t, "take")
      /\ lock_write' = [lock_write EXCEPT ![q] = None] /\ lock_read' = lock_read
      /\ UNCHANGED <<path, cur, ref, op, owed>>
  BY DEF DetachWait
<1>3. q \in Queue /\ i # 0 /\ lock_write[q] = t
  BY <1>1, <1>2, OnQueue DEF Receivers, Receives, Locked, LocksHeld
<1>4. i \in 1 .. Len(blk[q])
  BY <1>1, <1>3 DEF Types, Listed
<1>5. Done(q, i)
  <2> SUFFICES ASSUME ~Done(q, i) PROVE FALSE
    OBVIOUS
  <2>1. PICK s \in Sender : Fills(s, q, i)
    BY <1>1, <1>3, <1>4 DEF Filled, Attended
  <2>2. Q(s) = q /\ B(s) = i /\ pc[s] \in Filling /\ s \in Thread /\ s # t
    BY <1>1, <2>1 DEF Fills, At, B, Thread
  <2>3. CASE pc[s] = "non0"
    BY <1>1, <1>3, <2>2, <2>3 DEF Locked, LocksHeld
  <2>4. CASE pc[s] \in Gated
    BY <1>1, <1>2, <2>2, <2>4 DEF Senders, Sends, Sending
  <2> QED BY <2>2, <2>3, <2>4 DEF Filling, Gated
<1>6. /\ lock_write' \in [Queue -> Thread \cup {None}]
      /\ \A p \in Queue : \A u \in Thread \ {t} : lock_write[p] = u => lock_write'[p] = u
  BY <1>1, <1>2, <1>3 DEF Types
<1> QED BY <1>2, <1>3, <1>5, <1>6, DetachedStep

-----------------------------------------------------------------------------
(* The message of the block being read, which a receiver has now.          *)
LEMMA TakeStep == ASSUME QueueInv, NEW t \in Receiver, Take(t) PROVE Advance
<1> SUFFICES ASSUME NEW q, NEW i, q = Q(t), i = read[q] PROVE Advance
  OBVIOUS
<1> DEFINE b == [blk[q][i] EXCEPT !.first = blk[q][i].size]
<1>1. /\ Types /\ Placing /\ Shaped /\ Listed /\ Ordered /\ Filled /\ Locked /\ Senders /\ Receivers
      /\ t \in Thread /\ t \notin Sender
  BY Kinds DEF QueueInv
<1>2. pc[t] = "take" /\ Goto(t, "ref") /\ UNCHANGED <<data, last, lockVars, path, ref, op, owed>>
  BY DEF Take
<1>3. q \in Queue /\ Len(blk[q]) \in Nat /\ i # 0 /\ i = Detached0(q) /\ lock_read[q] = t
  <2>1. q \in Queue
    BY <1>1, <1>2, OnQueue
  <2> QED BY <1>1, <1>2, <2>1 DEF Receivers, Receives, Listed, Locked, LocksHeld, Fetching, Types
<1>4. i \in 1 .. Len(blk[q]) /\ i \in Nat \ {0}
  BY <1>1, <1>3 DEF Types, Listed, Detached0
<1>5. blk[q][i] \in Block /\ OneMessage(blk[q][i], i) /\ Attended(q, i) /\ ~Consumed(q, i) /\ blk[q][i].first = 0
  <2>1. blk[q][i] \in Block /\ OneMessage(blk[q][i], i) /\ Attended(q, i) /\ ~Consumed(q, i)
    BY <1>1, <1>3, <1>4, BlocksTyped DEF Shaped, Filled, Consumed
  <2> QED BY <1>1, <1>3, <1>4, <2>1 DEF Ordered
<1>6. Done(q, i) /\ blk[q][i].ref = 0 /\ ~blk[q][i].freed
  BY <1>3, <1>4, <1>5 DEF Attended
<1>7. (CHOOSE k \in DOMAIN blk[q][i].msgs : blk[q][i].msgs[k].off = blk[q][i].first) = 1
  <2>1. DOMAIN blk[q][i].msgs = {1} /\ blk[q][i].msgs[1].off = blk[q][i].first
    BY <1>5 DEF Block, OneMessage
  <2> QED BY <2>1
<1>8. /\ blk[q][i].first + blk[q][i].msgs[1].size = blk[q][i].size
      /\ blk[q][i].size >= blk[q][i].last
  BY <1>5 DEF Block, OneMessage
<1>9. /\ blk' = [blk EXCEPT ![q][i] = b]
      /\ read' = [read EXCEPT ![q] = 0]
      /\ cur' = [cur EXCEPT ![t] = <<i, 1>>]
  BY <1>7, <1>8 DEF Take
<1>10. /\ b \in Block /\ b.first = blk[q][i].size /\ b.next = blk[q][i].next /\ b.last = blk[q][i].last
       /\ b.size = blk[q][i].size /\ b.full = blk[q][i].full /\ b.msgs = blk[q][i].msgs
       /\ b.ref = blk[q][i].ref /\ b.freed = blk[q][i].freed /\ b.non0 = blk[q][i].non0
  BY <1>5 DEF Block
<1> HIDE DEF b
<1>11. /\ blk' \in [Queue -> Seq(Block)] /\ blk'[q][i] = b
       /\ \A p \in Queue : Len(blk'[p]) = Len(blk[p]) /\ Len(blk[p]) \in Nat
       /\ \A p \in Queue : \A k \in 1 .. Len(blk[p]) : p # q \/ k # i => blk'[p][k] = blk[p][k]
  BY <1>1, <1>3, <1>4, <1>9, <1>10, OneBlock DEF Types
<1>12. Stays(t) /\ pc'[t] = "ref" /\ cur'[t] = <<i, 1>> /\ path'[t] = path[t] /\ Q(t)' = q /\ B(t)' = i
  <2>1. path' = [path EXCEPT ![t] = path[t]]
    BY <1>1, <1>2 DEF Types
  <2>2. Stays(t) /\ pc'[t] = "ref" /\ cur'[t] = <<i, 1>> /\ path'[t] = path[t] /\ Q(t)' = q
    BY <1>1, <1>2, <1>9, <2>1, Moves DEF Goto
  <2> QED BY <2>2 DEF B
<1>13. Types'
  <2>1. read' \in [Queue -> Nat] /\ cur' \in [Thread -> Nat \X Nat]
    BY <1>1, <1>4, <1>9 DEF Types
  <2> QED BY <1>1, <1>2, <1>11, <2>1 DEF Types, Goto, lockVars, ReceiverPcs, Fetching
<1>14. read'[q] = 0 /\ \A p \in Queue \ {q} : read'[p] = read[p]
  BY <1>1, <1>3, <1>9 DEF Types
<1>15. /\ \A p \in Queue : Detached0(p)' = Detached0(p)
       /\ Consumed(q, i)'
       /\ \A p \in Queue : \A k \in Nat \ {0} : p # q \/ k # i => (Consumed(p, k)' <=> Consumed(p, k))
  <2>1. \A p \in Queue : Detached0(p)' = Detached0(p)
    BY <1>2, <1>11 DEF Detached0
  <2>2. Consumed(q, i)'
    BY <1>3, <1>4, <1>14, <2>1 DEF Consumed
  <2>3. ASSUME NEW k \in Nat \ {0}, k # i PROVE Consumed(q, k)' <=> Consumed(q, k)
    BY <1>3, <1>14, <2>1, <2>3 DEF Consumed
  <2>4. ASSUME NEW p \in Queue \ {q}, NEW k \in Nat \ {0} PROVE Consumed(p, k)' <=> Consumed(p, k)
    BY <1>14, <2>1 DEF Consumed
  <2> QED BY <2>1, <2>2, <2>3, <2>4
<1>16. ASSUME NEW p \in Queue, NEW k \in 1 .. Len(blk[p])
       PROVE  /\ k \in Nat \ {0} /\ blk'[p][k].next = blk[p][k].next /\ blk'[p][k].last = blk[p][k].last
              /\ blk'[p][k].size = blk[p][k].size /\ (blk'[p][k].full <=> blk[p][k].full)
              /\ blk'[p][k].msgs = blk[p][k].msgs /\ blk'[p][k].ref = blk[p][k].ref
              /\ (blk'[p][k].freed <=> blk[p][k].freed) /\ (blk'[p][k].non0 <=> blk[p][k].non0)
              /\ (Done(p, k)' <=> Done(p, k))
              /\ blk'[p][k].first = IF p = q /\ k = i THEN blk[p][k].size ELSE blk[p][k].first
  BY <1>10, <1>11 DEF Done
<1>17. Shaped'
  BY <1>1, <1>11, <1>16 DEF Shaped, OneMessage
<1>18. Ordered'
  BY <1>1, <1>11, <1>15, <1>16 DEF Ordered
<1>19. Listed'
  BY <1>1, <1>2, <1>11, <1>14, <1>15, <1>16 DEF Listed
<1>20. Placing' /\ Locked'
  <2>1. Settled(t)' /\ LocksHeld(t)'
    BY <1>1, <1>2, <1>3, <1>12 DEF Placing, Settled, LocksHeld, ReceiverPcs, Fetching, lockVars
  <2> QED BY <1>1, <1>2, <1>12, <2>1, OthersPlaced, OthersLocked DEF lockVars
<1>21. Senders'
  <2>1. ASSUME NEW u \in Sender, u # t, pc[u] \in Sending
        PROVE  /\ Len(blk'[Q(u)]) >= Len(blk[Q(u)]) /\ Len(blk'[Q(u)]) \in Nat /\ Len(blk[Q(u)]) \in Nat
               /\ Done(Q(u), B(u))' <=> Done(Q(u), B(u))
               /\ blk[Q(u)][B(u)].non0 => blk'[Q(u)][B(u)].non0
    <3>1. Q(u) \in Queue /\ B(u) \in 1 .. Len(blk[Q(u)]) /\ Q(u)' = Q(u) /\ B(u)' = B(u)
      BY <1>1, <1>12, <2>1, OnQueue DEF Senders, Sends, Sending, Filling, Stays, Thread
    <3>2. Done(Q(u), B(u))' <=> Done(Q(u), B(u))
      BY <1>16, <3>1 DEF Done
    <3> QED BY <1>11, <1>16, <3>1, <3>2
  <2> QED BY <1>1, <1>12, <2>1, OthersSend
<1>22. Receivers'
  <2>1. ASSUME NEW u \in Receiver, u # t, HasMsg(u)
        PROVE  /\ Len(blk'[Q(u)]) >= Len(blk[Q(u)]) /\ Len(blk'[Q(u)]) \in Nat /\ Len(blk[Q(u)]) \in Nat
               /\ Consumed(Q(u), B(u)) => Consumed(Q(u), B(u))'
               /\ blk'[Q(u)][B(u)].ref = blk[Q(u)][B(u)].ref
               /\ Q(t)' = Q(u) => B(t)' # B(u)
    <3>1. Q(u) \in Queue /\ B(u) \in 1 .. Len(blk[Q(u)]) /\ Q(u)' = Q(u) /\ B(u)' = B(u) /\ Consumed(Q(u), B(u))
      BY <1>1, <1>12, <2>1, OnQueue DEF Receivers, Receives, HasMsg, Holding, Counted, Stays, Thread
    <3>2. B(u) \in Nat \ {0} /\ (Q(u) = q => B(u) # i)
      BY <1>5, <1>11, <3>1
    <3>3. Consumed(Q(u), B(u)) => Consumed(Q(u), B(u))'
      BY <1>15, <3>1, <3>2 DEF Consumed, Detached0
    <3> QED BY <1>11, <1>12, <1>16, <3>1, <3>2, <3>3
  <2>2. ASSUME NEW u \in Receiver, u # t, pc[u] \in {"detach", "blocked", "take"}
        PROVE  read'[Q(u)] = read[Q(u)] /\ (data[Q(u)] # 0 => data'[Q(u)] # 0)
    <3>1. Q(u) \in Queue /\ lock_read[Q(u)] = u
      BY <1>1, <2>2, OnQueue DEF Thread, Locked, LocksHeld, Fetching
    <3>2. Q(u) # q
      BY <1>3, <2>2, <3>1
    <3> QED BY <1>2, <1>14, <3>1, <3>2
  <2>3. Receives(t)'
    <3>1. blk'[q][i].ref = 0
      BY <1>3, <1>4, <1>6, <1>16
    <3>2. cur'[t] # NoMsg /\ At(t, q, i)'
      BY <1>4, <1>12 DEF NoMsg, At
    <3> QED BY <1>3, <1>4, <1>11, <1>12, <1>15, <3>1, <3>2 DEF Receives, HasMsg, Holding, Counted
  <2> QED BY <1>1, <1>12, <2>1, <2>2, <2>3, OthersReceive
<1>23. Filled'
  <2>1. Attended(q, i)'
    BY <1>3, <1>4, <1>6, <1>16 DEF Attended
  <2>2. ASSUME NEW p \in Queue, NEW k \in 1 .. Len(blk[p]), p # q \/ k # i PROVE Attended(p, k)'
    <3>1. Attended(p, k) /\ k \in Nat \ {0}
      BY <1>1, <1>16 DEF Filled
    <3>2. ~Holds(t, p, k)'
      BY <1>12, <2>2 DEF Holds, At
    <3> QED BY <1>1, <1>12, <1>15, <1>16, <2>2, <3>1, <3>2, OthersAttended
  <2> QED BY <1>11, <2>1, <2>2 DEF Filled
<1>24. Takes(q, i)
  <2>1. \A p \in Queue : Kept(p) /\ \A k \in 1 .. Len(blk[p]) : DoneKept(p, k) /\ (p # q \/ k # i => ConsumedKept(p, k))
    BY <1>11, <1>15, <1>16 DEF Kept, DoneKept, ConsumedKept
  <2>2. \A k \in 1 .. Len(blk[q]) : Consumed(q, k) <=> k < i
    BY <1>3, <1>4 DEF Consumed
  <2> QED BY <1>6, <1>15, <2>1, <2>2 DEF Takes
<1> QED BY <1>3, <1>4, <1>13, <1>17, <1>18, <1>19, <1>20, <1>21, <1>22, <1>23, <1>24 DEF QueueInv, Advance, Seen

-----------------------------------------------------------------------------
(* The specification. *)
LEMMA Start == Init => QueueInv
<1> SUFFICES ASSUME Init PROVE QueueInv
  OBVIOUS
<1>1. /\ \A q \in Queue : blk[q] = <<>> /\ data[q] = 0 /\ last[q] = 0 /\ read[q] = 0
      /\ \A t \in Thread : pc[t] = "idle" /\ cur[t] = NoMsg
  BY DEF Init
<1>2. Types
  <2>1. <<>> \in Seq(Block) /\ <<>> \in Seq(Queue) /\ NoMsg \in Nat \X Nat /\ "idle" \in SenderPcs
    BY DEF NoMsg, SenderPcs
  <2> QED BY <2>1 DEF Types, Init
<1>3. Placing
  BY <1>1 DEF Placing, Settled, SenderPcs, ReceiverPcs
<1>4. \A q \in Queue : Len(blk[q]) = 0 /\ Detached0(q) = 0
  BY <1>1 DEF Detached0
<1>5. Shaped /\ Ordered /\ Filled
  BY <1>4 DEF Shaped, Ordered, Filled
<1>6. Listed
  BY <1>1, <1>4 DEF Listed
<1>7. Locked
  BY <1>1 DEF Locked, LocksHeld, Fetching
<1>8. Senders
  BY <1>1 DEF Senders, Sends, Sending, Filling, Thread
<1>9. Receivers
  BY <1>1 DEF Receivers, Receives, HasMsg, Holding, Counted, Thread
<1> QED BY <1>2, <1>3, <1>5, <1>6, <1>7, <1>8, <1>9 DEF QueueInv

LEMMA Stutter == ASSUME QueueInv, UNCHANGED vars PROVE Advance
<1>1. /\ blk' = blk /\ data' = data /\ last' = last /\ read' = read /\ lock_write' = lock_write
      /\ lock_read' = lock_read /\ pc' = pc /\ path' = path /\ cur' = cur /\ ref' = ref /\ op' = op
      /\ owed' = owed
  BY DEF vars
<1>2. Types' /\ Placing' /\ Shaped' /\ Locked'
  <2>1. Types'
    BY <1>1 DEF QueueInv, Types
  <2>2. Placing'
    BY <1>1 DEF QueueInv, Placing, Settled, Q
  <2>3. Shaped'
    BY <1>1 DEF QueueInv, Shaped, OneMessage
  <2>4. Locked'
    BY <1>1 DEF QueueInv, Locked, LocksHeld, Q
  <2> QED BY <2>1, <2>2, <2>3, <2>4
<1>3. Listed' /\ Ordered'
  BY <1>1 DEF QueueInv, Listed, Ordered, Detached0, Consumed
<1>4. Filled'
  <2> SUFFICES ASSUME NEW q \in Queue, NEW i \in 1 .. Len(blk[q]) PROVE Attended(q, i)'
    BY <1>1 DEF Filled
  <2>1. Attended(q, i)
    BY DEF QueueInv, Filled
  <2>2. \A t \in Thread : (Fills(t, q, i)' <=> Fills(t, q, i)) /\ (Holds(t, q, i)' <=> Holds(t, q, i))
    BY <1>1 DEF Fills, Holds, At, Q
  <2>3. (Done(q, i)' <=> Done(q, i)) /\ (Consumed(q, i)' <=> Consumed(q, i)) /\ Detached0(q)' = Detached0(q)
    BY <1>1 DEF Done, Consumed, Detached0
  <2> QED BY <1>1, <2>1, <2>2, <2>3 DEF Attended, Thread
<1>5. Senders' /\ Receivers'
  BY <1>1 DEF QueueInv, Senders, Sends, Receivers, Receives, HasMsg, Done, Consumed, Detached0, At, Q, B
<1>6. Unseen
  BY <1>1 DEF Unseen, Kept, DoneKept, ConsumedKept, Done, Consumed, Detached0
<1> QED BY <1>2, <1>3, <1>4, <1>5, <1>6 DEF QueueInv, Advance, Seen

LEMMA EveryStep == ASSUME QueueInv, [Next]_vars PROVE Advance
<1>1. ASSUME NEW t \in Sender, Send(t) \/ SenderStep(t) PROVE Advance
  BY <1>1, SendStep, SendParentStep, TakeNon0Step, CountStep, AllocDoneStep, ReleaseNon0Step, WakeStep,
     WriteFdStep DEF SenderStep
<1>2. ASSUME NEW t \in Receiver, ReceiverStep(t) PROVE Advance
  <2>1. CASE Wait(t) \/ Poll(t) \/ ReadFd(t)
    BY <2>1, BeginStep DEF Wait, Poll, ReadFd
  <2>2. CASE FetchStep(t)
    BY <2>2, LockReadStep, EmptyStep, DetachStep, DetachBusyStep, DetachWaitStep, TakeStep, RefStep,
       PollSemStep, UncountStep, FetchDoneStep, CheckFreeStep, FreeBlockStep DEF FetchStep
  <2> QED BY <1>2, <2>1, <2>2 DEF ReceiverStep
<1>3. CASE UNCHANGED vars
  BY <1>3, Stutter
<1> QED BY <1>1, <1>2, <1>3 DEF Next, Idle

LEMMA AlwaysInv == Spec => []QueueInv
<1>1. QueueInv /\ [Next]_vars => QueueInv'
  BY EveryStep DEF Advance
<1> QED BY <1>1, Start, PTL DEF Spec

(* No thread touches a block that was freed and no pointer of a queue is   *)
(* left to one: the last look at lock_non_0_ref keeps a block whose sender *)
(* is still to release it, and lock_read keeps the others away from the    *)
(* block that is read (eina_thread_queue.c:299).                           *)
THEOREM BlocksOutliveUse == Spec => []NoUseAfterFree
<1>1. ASSUME QueueInv PROVE NoUseAfterFree
  <2>1. /\ Types /\ Placing /\ Listed /\ Filled /\ Senders /\ Receivers /\ Locked
    BY <1>1 DEF QueueInv
  <2>2. ASSUME NEW q \in Queue, NEW i \in 1 .. Len(blk[q]), ~Consumed(q, i) PROVE ~blk[q][i].freed
    BY <2>1, <2>2 DEF Filled, Attended
  <2>3. ASSUME NEW q \in Queue, NEW i \in {data[q], last[q], read[q]} \ {0} PROVE ~blk[q][i].freed
    <3>1. data[q] \in Nat /\ Len(blk[q]) \in Nat /\ data[q] <= Len(blk[q])
      BY <2>1 DEF Types, Listed
    <3>2. i \in 1 .. Len(blk[q]) /\ ~Consumed(q, i)
      BY <2>1, <3>1 DEF Listed, Consumed, Detached0
    <3> QED BY <2>2, <3>2
  <2>4. ASSUME NEW t \in Thread, NEW i \in Touches(t) PROVE ~blk[Q(t)][i].freed
    <3>1. pc[t] # "idle" /\ Q(t) \in Queue
      BY <2>1, <2>4, OnQueue DEF Touches
    <3>2. CASE pc[t] = "take"
      BY <2>1, <2>3, <3>1, <3>2 DEF Touches, Receivers, Receives, Placing, Settled, SenderPcs, Sending, Filling, Thread
    <3>3. CASE pc[t] \in {"detach", "blocked"}
      BY <2>3, <3>1, <3>3 DEF Touches
    <3>4. CASE pc[t] \in {"non0", "open"}
      <4>1. t \in Sender /\ pc[t] \in Filling /\ i = B(t)
        BY <2>1, <2>4, <3>4 DEF Touches, Placing, Settled, ReceiverPcs, Fetching, Holding, Counted, Thread, Filling
      <4>2. i \in 1 .. Len(blk[Q(t)]) /\ ~Done(Q(t), i) /\ Attended(Q(t), i)
        BY <1>1, <4>1, SenderKnows DEF Sending
      <4> QED BY <4>2 DEF Attended, Consumed
    <3>5. CASE pc[t] = "release"
      <4>1. t \in Sender /\ i = B(t)
        BY <2>1, <2>4, <3>5 DEF Touches, Placing, Settled, ReceiverPcs, Fetching, Holding, Counted, Thread
      <4>2. Attended(Q(t), i) /\ blk[Q(t)][i].non0
        BY <1>1, <2>1, <3>5, <4>1, SenderKnows DEF Senders, Sends, Sending, Gated
      <4> QED BY <4>2 DEF Attended
    <3>6. CASE pc[t] \in {"ref", "use", "check", "free"}
      <4>1. t \in Receiver /\ i = B(t) /\ pc[t] \in Holding
        BY <2>1, <2>4, <3>6 DEF Touches, Placing, Settled, SenderPcs, Sending, Filling, Holding, Counted, Thread
      <4>2. cur[t] # NoMsg
        BY <2>1, <3>6, <4>1 DEF Receivers, Receives, Holding, Counted
      <4> QED BY <1>1, <4>1, <4>2, ReceiverKnows
    <3> QED BY <2>4, <3>2, <3>3, <3>4, <3>5, <3>6 DEF Touches
  <2> QED BY <2>3, <2>4 DEF NoUseAfterFree
<1> QED BY <1>1, AlwaysInv, PTL

-----------------------------------------------------------------------------
(* The queue as its users see it. *)
Completed(q) == {i \in 1 .. Len(blk[q]) : Done(q, i)}
Given(q) == {i \in 1 .. Len(blk[q]) : Consumed(q, i)}
Viewed ==
  \A q \in Queue : Cardinality(Msgs(q)) = Len(blk[q]) /\ CompleteMsgs(q) = Completed(q) /\ TakenMsgs(q) = Given(q)

LEMMA View == QueueInv => Viewed
<1> SUFFICES ASSUME QueueInv, NEW q \in Queue
             PROVE  /\ Cardinality(Msgs(q)) = Len(blk[q])
                    /\ CompleteMsgs(q) = Completed(q) /\ TakenMsgs(q) = Given(q)
  BY DEF Viewed
<1>1. Types /\ Shaped /\ Ordered /\ Len(blk[q]) \in Nat
  BY DEF QueueInv, Types
<1>2. Msgs(q) = (1 .. Len(blk[q])) \X {1} /\ Cardinality(Msgs(q)) = Len(blk[q])
  BY <1>1, MsgsCounted
<1>3. ASSUME NEW i \in 1 .. Len(blk[q])
      PROVE  /\ Msg(q, <<i, 1>>).nr = i
             /\ Msg(q, <<i, 1>>).done <=> Done(q, i)
             /\ Taken(q, <<i, 1>>) <=> Consumed(q, i)
  <2>1. OneMessage(blk[q][i], i) /\ blk[q][i] \in Block
    BY <1>1, BlocksTyped DEF Shaped
  <2>2. blk[q][i].first = IF Consumed(q, i) THEN blk[q][i].size ELSE 0
    BY <1>1 DEF Ordered
  <2>3. blk[q][i].msgs[1].off = 0 /\ blk[q][i].size \in Nat \ {0} /\ blk[q][i].msgs[1].nr = i
    BY <2>1 DEF OneMessage, Block
  <2> QED BY <2>2, <2>3 DEF Msg, Taken, Done
<1>4. \A m \in Msgs(q) : m = <<m[1], 1>> /\ m[1] \in 1 .. Len(blk[q])
  BY <1>2
<1>5. \A i \in 1 .. Len(blk[q]) : <<i, 1>> \in Msgs(q)
  BY <1>2
<1>6. CompleteMsgs(q) = Completed(q)
  <2>1. ASSUME NEW x \in CompleteMsgs(q) PROVE x \in Completed(q)
    <3>1. PICK m \in Msgs(q) : Msg(q, m).done /\ x = Msg(q, m).nr
      BY DEF CompleteMsgs
    <3>2. PICK i \in 1 .. Len(blk[q]) : m = <<i, 1>>
      BY <1>4
    <3> QED BY <1>3, <3>1, <3>2 DEF Completed
  <2>2. ASSUME NEW x \in Completed(q) PROVE x \in CompleteMsgs(q)
    <3>1. x \in 1 .. Len(blk[q]) /\ Done(q, x)
      BY DEF Completed
    <3>2. <<x, 1>> \in Msgs(q) /\ Msg(q, <<x, 1>>).done /\ x = Msg(q, <<x, 1>>).nr
      BY <1>3, <1>5, <3>1
    <3> QED BY <3>2 DEF CompleteMsgs
  <2> QED BY <2>1, <2>2
<1>7. TakenMsgs(q) = Given(q)
  <2>1. ASSUME NEW x \in TakenMsgs(q) PROVE x \in Given(q)
    <3>1. PICK m \in Msgs(q) : Taken(q, m) /\ x = Msg(q, m).nr
      BY DEF TakenMsgs
    <3>2. PICK i \in 1 .. Len(blk[q]) : m = <<i, 1>>
      BY <1>4
    <3> QED BY <1>3, <3>1, <3>2 DEF Given
  <2>2. ASSUME NEW x \in Given(q) PROVE x \in TakenMsgs(q)
    <3>1. x \in 1 .. Len(blk[q]) /\ Consumed(q, x)
      BY DEF Given
    <3>2. <<x, 1>> \in Msgs(q) /\ Taken(q, <<x, 1>>) /\ x = Msg(q, <<x, 1>>).nr
      BY <1>3, <1>5, <3>1
    <3> QED BY <3>2 DEF TakenMsgs
  <2> QED BY <2>1, <2>2
<1> QED BY <1>2, <1>6, <1>7

allocated == [q \in Queue |-> Cardinality(Msgs(q))]
complete == [q \in Queue |-> CompleteMsgs(q)]
taken == [q \in Queue |-> TakenMsgs(q)]

(* Messages are given out in the order of their allocation, each once, and *)
(* none before it is complete: a step of the queue opens, completes or     *)
(* takes a message of the service, or is one that its users do not see.    *)
LEMMA ServiceStep ==
  ASSUME Viewed, Viewed', Seen, \A q \in Queue : Len(blk[q]) \in Nat
  PROVE  [Service!Next]_(Service!vars)
<1>1. ASSUME NEW q \in Queue
      PROVE  allocated[q] = Len(blk[q]) /\ complete[q] = Completed(q) /\ taken[q] = Given(q)
  BY DEF Viewed, allocated, complete, taken
<1>2. ASSUME NEW q \in Queue
      PROVE  allocated'[q] = Len(blk'[q]) /\ complete'[q] = Completed(q)' /\ taken'[q] = Given(q)'
  BY DEF Viewed, allocated, complete, taken
<1>3. /\ \A q \in Queue : Kept(q) => Len(blk'[q]) = Len(blk[q])
      /\ \A q \in Queue : Kept(q) /\ (\A i \in 1 .. Len(blk[q]) : DoneKept(q, i)) => Completed(q)' = Completed(q)
      /\ \A q \in Queue : Kept(q) /\ (\A i \in 1 .. Len(blk[q]) : ConsumedKept(q, i)) => Given(q)' = Given(q)
  BY DEF Kept, DoneKept, ConsumedKept, Completed, Given
<1>4. CASE Unseen
  <2>1. allocated' = allocated /\ complete' = complete /\ taken' = taken
    <3>1. \A q \in Queue : allocated'[q] = allocated[q] /\ complete'[q] = complete[q] /\ taken'[q] = taken[q]
      BY <1>1, <1>2, <1>3, <1>4 DEF Unseen
    <3> QED BY <3>1 DEF allocated, complete, taken
  <2> QED BY <2>1 DEF allocated, complete, taken, Service!vars
<1>5. ASSUME NEW q \in Queue, NEW n \in Nat, Opens(q, n) PROVE Service!Open(q)
  <2>1. \A p \in Queue : allocated'[p] = IF p = q THEN allocated[q] + 1 ELSE allocated[p]
    BY <1>1, <1>2, <1>3, <1>5 DEF Opens
  <2>2. ASSUME NEW p \in Queue PROVE complete'[p] = complete[p] /\ taken'[p] = taken[p]
    <3>1. CASE p = q
      <4>1. 1 .. Len(blk'[q]) = (1 .. Len(blk[q])) \cup {n}
        BY <1>5 DEF Opens
      <4>2. Completed(q)' = Completed(q)
        BY <1>5, <4>1 DEF Opens, Completed, DoneKept
      <4>3. Given(q)' = Given(q)
        BY <1>5, <4>1 DEF Opens, Given, ConsumedKept
      <4> QED BY <1>1, <1>2, <3>1, <4>2, <4>3
    <3>2. CASE p # q
      BY <1>1, <1>2, <1>3, <1>5, <3>2 DEF Opens
    <3> QED BY <3>1, <3>2
  <2>3. /\ allocated' = [allocated EXCEPT ![q] = allocated[q] + 1]
        /\ complete' = complete /\ taken' = taken
    BY <2>1, <2>2 DEF allocated, complete, taken
  <2> QED BY <2>3 DEF Service!Open, allocated, complete, taken
<1>6. ASSUME NEW q \in Queue, NEW i \in 1 .. Len(blk[q]), Completes(q, i) PROVE Service!Complete(q)
  <2>1. \A p \in Queue : allocated'[p] = allocated[p] /\ taken'[p] = taken[p]
    BY <1>1, <1>2, <1>3, <1>6 DEF Completes
  <2>2. \A p \in Queue \ {q} : complete'[p] = complete[p]
    BY <1>1, <1>2, <1>3, <1>6 DEF Completes
  <2>3. complete'[q] = complete[q] \cup {i}
    <3>1. Completed(q)' = Completed(q) \cup {i}
      BY <1>6 DEF Completes, Completed, Kept, DoneKept
    <3> QED BY <1>1, <1>2, <3>1
  <2>4. i \in (1 .. allocated[q]) \ complete[q]
    BY <1>1, <1>6 DEF Completes, Completed
  <2>5. /\ complete' = [complete EXCEPT ![q] = complete[q] \cup {i}]
        /\ allocated' = allocated /\ taken' = taken
    BY <2>1, <2>2, <2>3 DEF allocated, complete, taken
  <2> QED BY <2>4, <2>5 DEF Service!Complete, allocated, complete, taken
<1>7. ASSUME NEW q \in Queue, NEW i \in 1 .. Len(blk[q]), Takes(q, i) PROVE Service!Take(q)
  <2>1. \A p \in Queue : allocated'[p] = allocated[p] /\ complete'[p] = complete[p]
    BY <1>1, <1>2, <1>3, <1>7 DEF Takes
  <2>2. \A p \in Queue \ {q} : taken'[p] = taken[p]
    BY <1>1, <1>2, <1>3, <1>7 DEF Takes
  <2>3. taken[q] = 1 .. (i - 1) /\ taken'[q] = 1 .. i
    <3>1. Given(q) = 1 .. (i - 1)
      BY <1>7 DEF Takes, Given
    <3>2. Given(q)' = 1 .. i
      <4>1. \A k \in 1 .. Len(blk[q]) : Consumed(q, k)' <=> k <= i
        BY <1>7 DEF Takes, ConsumedKept
      <4> QED BY <1>7, <4>1 DEF Takes, Given, Kept
    <3> QED BY <1>1, <1>2, <3>1, <3>2
  <2>4. i \in complete[q] \ taken[q]
    BY <1>1, <1>7, <2>3 DEF Takes, Completed
  <2>5. /\ taken' = [taken EXCEPT ![q] = 1 .. i]
        /\ allocated' = allocated /\ complete' = complete
    BY <2>1, <2>2, <2>3 DEF allocated, complete, taken
  <2> QED BY <2>3, <2>4, <2>5 DEF Service!Take, allocated, complete, taken
<1> QED BY <1>4, <1>5, <1>6, <1>7 DEF Seen, Service!Next

(* The queue of eina_thread_queue.c is the service MessageService describes *)
(* for each queue: a message is allocated, completed by the send, and       *)
(* received once, in the order of allocation; every other step of the       *)
(* locks, semaphores and blocks leaves that view alone.                     *)
THEOREM QueueImplementsService == Spec => ServiceSpec
<1>1. Init => Service!Init
  <2> SUFFICES ASSUME Init PROVE Service!Init
    OBVIOUS
  <2>1. QueueInv /\ Viewed
    BY Start, View
  <2>2. ASSUME NEW q \in Queue
        PROVE  Cardinality(Msgs(q)) = 0 /\ CompleteMsgs(q) = {} /\ TakenMsgs(q) = {}
    <3>1. Len(blk[q]) = 0
      BY DEF Init
    <3> QED BY <2>1, <3>1 DEF Viewed, Completed, Given
  <2> QED BY <2>2 DEF Service!Init
<1>2. QueueInv /\ QueueInv' /\ [Next]_vars => [Service!Next]_(Service!vars)
  <2> SUFFICES ASSUME QueueInv, QueueInv', [Next]_vars PROVE [Service!Next]_(Service!vars)
    OBVIOUS
  <2>1. Viewed /\ Viewed'
    BY View, PTL
  <2>2. Seen
    BY EveryStep DEF Advance
  <2>3. \A q \in Queue : Len(blk[q]) \in Nat
    BY DEF QueueInv, Types
  <2> QED BY <2>1, <2>2, <2>3, ServiceStep
<1> QED BY <1>1, <1>2, AlwaysInv, PTL DEF Spec, ServiceSpec, Service!Spec
=============================================================================
