------------------------ MODULE EcoreThreadJobProofs ------------------------
(***************************************************************************)
(* Proofs about the jobs of EcoreThread, for every number of jobs, threads *)
(* and messages: a job is in one place at a time, its messages come before *)
(* its one last callback, nothing refers to it when it is freed, who       *)
(* waited for it is told when it is over, and the pool implements the      *)
(* abstract job service.                                                   *)
(***************************************************************************)
EXTENDS EcoreThreadProofs

-----------------------------------------------------------------------------
(* Lists of jobs and lists of calls: what is in them, and that nothing is  *)
(* in them twice.                                                          *)
Entries(s)  == {j \in Jobs : \E k \in 1 .. Len(s) : s[k] = j}
Distinct(s) == \A i, k \in 1 .. Len(s) : s[i] = s[k] => i = k

Ended(x, j) == x.op = "handler" /\ x.on = j
Handlers(c) == {j \in Jobs : \E k \in 1 .. Len(c) : Ended(c[k], j)}
HandledOnce(c) ==
  \A i, k \in 1 .. Len(c) : c[i].op = "handler" /\ c[k].op = "handler" /\ c[i].on = c[k].on => i = k

LEMMA EntriesAppend ==
  ASSUME NEW S, NEW s \in Seq(S), NEW j \in Jobs, j \in S
  PROVE  /\ Entries(Append(s, j)) = Entries(s) \cup {j}
         /\ Distinct(s) /\ j \notin Entries(s) => Distinct(Append(s, j))
<1> DEFINE u == Append(s, j)
<1>1. /\ Len(s) \in Nat /\ Len(u) = Len(s) + 1 /\ u[Len(s) + 1] = j
      /\ \A i \in 1 .. Len(s) : u[i] = s[i]
  OBVIOUS
<1> HIDE DEF u
<1>2. Entries(u) = Entries(s) \cup {j}
  <2>1. \A i \in 1 .. Len(u) : i \in 1 .. Len(s) \/ i = Len(s) + 1
    BY <1>1
  <2>2. \A i \in 1 .. Len(s) : i \in 1 .. Len(u)
    BY <1>1
  <2>3. Len(s) + 1 \in 1 .. Len(u)
    BY <1>1
  <2> QED BY <1>1, <2>1, <2>2, <2>3 DEF Entries
<1>3. Distinct(s) /\ j \notin Entries(s) => Distinct(u)
  BY <1>1 DEF Distinct, Entries
<1> QED BY <1>2, <1>3 DEF u

LEMMA TailRight ==
  ASSUME NEW S, NEW s \in Seq(S), s # <<>>
  PROVE  /\ Len(s) \in Nat /\ Len(s) >= 1 /\ Tail(s) \in Seq(S) /\ Len(Tail(s)) = Len(s) - 1
         /\ Head(s) = s[1] /\ Head(s) \in S
         /\ \A i \in 1 .. Len(s) - 1 : Tail(s)[i] = s[i + 1]
OBVIOUS

LEMMA EntriesTail ==
  ASSUME NEW S, NEW s \in Seq(S), s # <<>>, S \subseteq Jobs, Distinct(s)
  PROVE  /\ Entries(Tail(s)) = Entries(s) \ {Head(s)} /\ Distinct(Tail(s))
         /\ Head(s) \in Entries(s)
<1> DEFINE u == Tail(s)
<1>1. /\ Len(s) \in Nat /\ Len(s) >= 1 /\ Len(u) = Len(s) - 1
      /\ Head(s) = s[1] /\ Head(s) \in Jobs /\ \A i \in 1 .. Len(u) : u[i] = s[i + 1]
  BY TailRight
<1> HIDE DEF u
<1>2. \A i \in 1 .. Len(u) : i + 1 \in 1 .. Len(s) /\ i + 1 # 1
  BY <1>1
<1>3. \A i \in 1 .. Len(s) : i # 1 => i - 1 \in 1 .. Len(u) /\ u[i - 1] = s[i]
  <2> SUFFICES ASSUME NEW i \in 1 .. Len(s), i # 1 PROVE i - 1 \in 1 .. Len(u) /\ u[i - 1] = s[i]
    OBVIOUS
  <2>1. i - 1 \in 1 .. Len(u) /\ (i - 1) + 1 = i
    BY <1>1
  <2> QED BY <1>1, <2>1
<1>4. 1 \in 1 .. Len(s)
  BY <1>1
<1>5. Distinct(u)
  <2> SUFFICES ASSUME NEW i \in 1 .. Len(u), NEW k \in 1 .. Len(u), u[i] = u[k] PROVE i = k
    BY DEF Distinct
  <2>1. i + 1 = k + 1
    BY <1>1, <1>2 DEF Distinct
  <2> QED BY <1>1, <2>1
<1>6. Entries(u) = Entries(s) \ {Head(s)}
  <2>1. ASSUME NEW j \in Entries(u) PROVE j \in Entries(s) \ {Head(s)}
    BY <1>1, <1>2, <1>4 DEF Entries, Distinct
  <2>2. ASSUME NEW j \in Entries(s), j # Head(s) PROVE j \in Entries(u)
    BY <1>1, <1>3, <2>2 DEF Entries
  <2> QED BY <2>1, <2>2
<1> QED BY <1>1, <1>4, <1>5, <1>6 DEF Entries, u

LEMMA HandlersAppend ==
  ASSUME NEW S, NEW c \in Seq(S), NEW x \in S
  PROVE  /\ Handlers(Append(c, x)) = Handlers(c) \cup {j \in Jobs : Ended(x, j)}
         /\ HandledOnce(c) /\ (x.op = "handler" => x.on \in Jobs /\ x.on \notin Handlers(c))
              => HandledOnce(Append(c, x))
<1> DEFINE u == Append(c, x)
<1>1. /\ Len(c) \in Nat /\ Len(u) = Len(c) + 1 /\ u[Len(c) + 1] = x
      /\ \A i \in 1 .. Len(c) : u[i] = c[i]
  OBVIOUS
<1> HIDE DEF u
<1>2. \A i \in 1 .. Len(u) : i \in 1 .. Len(c) \/ i = Len(c) + 1
  BY <1>1
<1>3. (\A i \in 1 .. Len(c) : i \in 1 .. Len(u)) /\ Len(c) + 1 \in 1 .. Len(u)
  BY <1>1
<1>4. Handlers(u) = Handlers(c) \cup {j \in Jobs : Ended(x, j)}
  BY <1>1, <1>2, <1>3 DEF Handlers
<1>5. HandledOnce(c) /\ (x.op = "handler" => x.on \in Jobs /\ x.on \notin Handlers(c)) => HandledOnce(u)
  BY <1>1, <1>2 DEF HandledOnce, Handlers, Ended
<1> QED BY <1>4, <1>5 DEF u

LEMMA HandlersTail ==
  ASSUME NEW S, NEW c \in Seq(S), c # <<>>, HandledOnce(c)
  PROVE  /\ Handlers(Tail(c)) = Handlers(c) \ {j \in Jobs : Ended(Head(c), j)}
         /\ HandledOnce(Tail(c))
         /\ {j \in Jobs : Ended(Head(c), j)} \subseteq Handlers(c)
<1> DEFINE u == Tail(c)
<1>1. /\ Len(c) \in Nat /\ Len(c) >= 1 /\ Len(u) = Len(c) - 1
      /\ Head(c) = c[1] /\ \A i \in 1 .. Len(u) : u[i] = c[i + 1]
  BY TailRight
<1> HIDE DEF u
<1>2. \A i \in 1 .. Len(u) : i + 1 \in 1 .. Len(c) /\ i + 1 # 1
  BY <1>1
<1>3. \A i \in 1 .. Len(c) : i # 1 => i - 1 \in 1 .. Len(u) /\ u[i - 1] = c[i]
  <2> SUFFICES ASSUME NEW i \in 1 .. Len(c), i # 1 PROVE i - 1 \in 1 .. Len(u) /\ u[i - 1] = c[i]
    OBVIOUS
  <2>1. i - 1 \in 1 .. Len(u) /\ (i - 1) + 1 = i
    BY <1>1
  <2> QED BY <1>1, <2>1
<1>4. 1 \in 1 .. Len(c)
  BY <1>1
<1>5. HandledOnce(u)
  <2> SUFFICES ASSUME NEW i \in 1 .. Len(u), NEW k \in 1 .. Len(u), u[i].op = "handler", u[k].op = "handler",
                      u[i].on = u[k].on
               PROVE i = k
    BY DEF HandledOnce
  <2>1. i + 1 = k + 1
    BY <1>1, <1>2 DEF HandledOnce
  <2> QED BY <1>1, <2>1
<1>6. Handlers(u) = Handlers(c) \ {j \in Jobs : Ended(Head(c), j)}
  <2>1. ASSUME NEW j \in Handlers(u) PROVE j \in Handlers(c) /\ ~Ended(Head(c), j)
    BY <1>1, <1>2, <1>4 DEF Handlers, Ended, HandledOnce
  <2>2. ASSUME NEW j \in Handlers(c), ~Ended(Head(c), j) PROVE j \in Handlers(u)
    BY <1>1, <1>3, <2>2 DEF Handlers
  <2>3. Handlers(c) \subseteq Jobs /\ Handlers(u) \subseteq Jobs
    BY DEF Handlers
  <2> QED BY <2>1, <2>2, <2>3
<1>7. {j \in Jobs : Ended(Head(c), j)} \subseteq Handlers(c)
  BY <1>1, <1>4 DEF Handlers
<1> QED BY <1>5, <1>6, <1>7 DEF u

LEMMA Nothing ==
  /\ Entries(<<>>) = {} /\ Distinct(<<>>) /\ Handlers(<<>>) = {} /\ HandledOnce(<<>>)
<1>1. Len(<<>>) = 0
  OBVIOUS
<1> QED BY <1>1 DEF Entries, Distinct, Handlers, HandledOnce

LEMMA EntriesRemove ==
  ASSUME NEW S, NEW s \in Seq(S), Distinct(s), NEW e
  PROVE  Entries(RemoveFirst(s, e)) = Entries(s) \ {e} /\ Distinct(RemoveFirst(s, e))
<1> DEFINE I == {i \in 1 .. Len(s) : s[i] = e}
<1>1. CASE I = {}
  <2>1. RemoveFirst(s, e) = s
    BY <1>1 DEF RemoveFirst
  <2> QED BY <1>1, <2>1 DEF Entries
<1>2. CASE I # {}
  <2>1. I \in SUBSET Nat
    OBVIOUS
  <2>2. Min(I) \in I
    <3> HIDE DEF I
    <3> QED BY <1>2, <2>1, Smallest
  <2>3. RemoveFirst(s, e) = SubSeq(s, 1, Min(I) - 1) \o SubSeq(s, Min(I) + 1, Len(s))
    BY <1>2 DEF RemoveFirst, RemoveAt, SelectInSeq
  <2>4. PICK m : m = Min(I) /\ m \in 1 .. Len(s) /\ s[m] = e
    BY <2>2
  <2> HIDE DEF I
  <2> DEFINE a == SubSeq(s, 1, m - 1)
             b == SubSeq(s, m + 1, Len(s))
             u == a \o b
  <2>5. PICK n \in Nat : n = Len(s) /\ m \in 1 .. n
    BY <2>4
  <2>6. /\ a \in Seq(S) /\ b \in Seq(S) /\ Len(a) = m - 1 /\ Len(b) = n - m
        /\ \A i \in 1 .. m - 1 : a[i] = s[i]
        /\ \A i \in 1 .. n - m : b[i] = s[m + i]
    <3>1. m - 1 \in Int /\ m + 1 \in Int /\ m - 1 <= n /\ m + 1 <= n + 1
      BY <2>5
    <3> QED BY <2>5, <3>1
  <2>7. /\ Len(u) = n - 1
        /\ \A i \in 1 .. n - 1 : u[i] = IF i < m THEN s[i] ELSE s[i + 1]
    <3>1. Len(u) = Len(a) + Len(b) /\ \A i \in 1 .. Len(a) + Len(b) : u[i] = IF i <= Len(a) THEN a[i] ELSE b[i - Len(a)]
      <4> HIDE DEF a, b
      <4> QED BY <2>6, ConcatProperties
    <3> HIDE DEF a, b, u
    <3>2. Len(u) = n - 1
      BY <2>5, <2>6, <3>1
    <3>3. ASSUME NEW i \in 1 .. n - 1 PROVE u[i] = IF i < m THEN s[i] ELSE s[i + 1]
      <4>1. u[i] = IF i <= m - 1 THEN a[i] ELSE b[i - (m - 1)]
        BY <2>5, <2>6, <3>1
      <4>2. CASE i < m
        <5>1. i \in 1 .. m - 1 /\ i <= m - 1
          BY <2>5, <4>2
        <5> QED BY <2>6, <4>1, <4>2, <5>1
      <4>3. CASE ~(i < m)
        <5>1. i - (m - 1) \in 1 .. n - m /\ m + (i - (m - 1)) = i + 1 /\ ~(i <= m - 1)
          BY <2>5, <4>3
        <5> QED BY <2>6, <4>1, <4>3, <5>1
      <4> QED BY <4>2, <4>3
    <3> QED BY <3>2, <3>3
  <2> HIDE DEF a, b, u
  <2>8. ASSUME NEW i \in 1 .. Len(u)
        PROVE  \E k \in 1 .. n : k # m /\ u[i] = s[k] /\ k = IF i < m THEN i ELSE i + 1
    <3>1. CASE i < m
      <4>1. i \in 1 .. n /\ i # m
        BY <2>5, <2>7, <3>1
      <4> QED BY <2>7, <3>1, <4>1
    <3>2. CASE ~(i < m)
      <4>1. i + 1 \in 1 .. n /\ i + 1 # m
        BY <2>5, <2>7, <3>2
      <4> QED BY <2>7, <3>2, <4>1
    <3> QED BY <3>1, <3>2
  <2>9. ASSUME NEW k \in 1 .. n, k # m PROVE \E i \in 1 .. Len(u) : u[i] = s[k]
    <3>1. CASE k < m
      <4>1. k \in 1 .. Len(u)
        BY <2>5, <2>7, <3>1
      <4> QED BY <2>7, <3>1, <4>1
    <3>2. CASE ~(k < m)
      <4>1. k - 1 \in 1 .. Len(u) /\ ~(k - 1 < m) /\ (k - 1) + 1 = k
        BY <2>5, <2>7, <2>9, <3>2
      <4>2. u[k - 1] = s[k]
        BY <2>7, <4>1
      <4> QED BY <4>1, <4>2
    <3> QED BY <3>1, <3>2
  <2>10. Entries(u) = Entries(s) \ {e}
    <3>1. ASSUME NEW j \in Entries(u) PROVE j \in Entries(s) /\ j # e
      BY <2>4, <2>5, <2>8 DEF Entries, Distinct
    <3>2. ASSUME NEW j \in Entries(s), j # e PROVE j \in Entries(u)
      BY <2>4, <2>5, <2>9, <3>2 DEF Entries
    <3> QED BY <3>1, <3>2
  <2>11. Distinct(u)
    <3> SUFFICES ASSUME NEW i \in 1 .. Len(u), NEW k \in 1 .. Len(u), u[i] = u[k] PROVE i = k
      BY DEF Distinct
    <3>1. (IF i < m THEN i ELSE i + 1) = (IF k < m THEN k ELSE k + 1)
      BY <2>5, <2>8 DEF Distinct
    <3> QED BY <2>5, <2>7, <3>1
  <2> QED BY <2>3, <2>4, <2>10, <2>11 DEF a, b, u
<1> QED BY <1>1, <1>2

EndKinds   == {"kill", "failed"}
StartKinds == {"direct", "directRetry"}
-----------------------------------------------------------------------------
(* What the steps of the main loop's thread make of its stack, frame by    *)
(* frame.                                                                  *)
Turned(k) == [Top EXCEPT !.kind = k]
LessOne   == [Top EXCEPT !.todo = Tail(@)]
Wrapper(j, i) == [Frame("wrap", j) EXCEPT !.waiter = i]
Waiter(j) == [Frame("wait", j) EXCEPT !.func = job[j].func, !.waiting = TRUE]

Plain(f, k, j) ==
  f \in FrameRecord /\ f.kind = k /\ f.on = j /\ f.todo = <<>> /\ f.func = "user" /\ f.waiting = FALSE

LEMMA FrameIs ==
  ASSUME NEW k \in FrameKinds, NEW j \in Jobs \cup {None}
  PROVE  Plain(Frame(k, j), k, j)
BY DEF Frame, FrameRecord, Funcs, Plain

LEMMA UserIs ==
  User \in FrameRecord /\ User.kind = "user" /\ User.todo = <<>> /\ User.waiting = FALSE
BY DEF User, Frame, FrameRecord, Funcs, FrameKinds

LEMMA FlushIs ==
  ASSUME CoreInv
  PROVE  Flush \in FrameRecord /\ Flush.kind = "flush" /\ Flush.todo = calls /\ Flush.waiting = FALSE
BY DEF CoreInv, Types, Flush, Frame, FrameRecord, Funcs, FrameKinds

LEMMA WrapperIs ==
  ASSUME NEW j \in Jobs, NEW i \in Nat
  PROVE  Wrapper(j, i) \in FrameRecord /\ Wrapper(j, i).kind = "wrap" /\ Wrapper(j, i).on = j /\ Wrapper(j, i).todo = <<>> /\ Wrapper(j, i).waiter = i /\ Wrapper(j, i).waiting = FALSE
<1>1. Plain(Frame("wrap", j), "wrap", j)
  BY FrameIs DEF FrameKinds
<1> QED BY <1>1 DEF Wrapper, FrameRecord, Plain

LEMMA WaiterIs ==
  ASSUME CoreInv, NEW j \in Jobs
  PROVE  Waiter(j) \in FrameRecord /\ Waiter(j).kind = "wait" /\ Waiter(j).on = j /\ Waiter(j).todo = <<>> /\ Waiter(j).waiting = TRUE
            /\ Waiter(j).func = job[j].func
<1>1. Plain(Frame("wait", j), "wait", j)
  BY FrameIs DEF FrameKinds
<1>2. job[j].func \in Funcs
  BY DEF CoreInv, Types, JobRec
<1> QED BY <1>1, <1>2 DEF Waiter, FrameRecord, Plain

LEMMA TopIs ==
  ASSUME CoreInv
  PROVE  Top \in FrameRecord /\ Top = stack[Len(stack)] /\ Len(stack) \in 1 .. Len(stack) /\ Len(stack) \in Nat
         /\ stack \in Seq(FrameRecord) /\ Top.todo \in Seq(Call)
         /\ (Top.kind \notin {"user", "flush"} => Top.on \in Jobs)
<1>1. stack \in Seq(FrameRecord) /\ Len(stack) \in Nat /\ Len(stack) \in 1 .. Len(stack)
  BY DEF CoreInv, Good
<1>2. Top \in FrameRecord /\ Top = stack[Len(stack)]
  BY <1>1 DEF Top
<1>3. Top.kind \notin {"user", "flush"} => Top.on \in Jobs
  BY <1>1, <1>2 DEF CoreInv, Good
<1> QED BY <1>1, <1>2, <1>3 DEF FrameRecord

LEMMA TurnedIs ==
  ASSUME CoreInv, NEW k \in FrameKinds
  PROVE  Turned(k) \in FrameRecord /\ Turned(k).kind = k /\ Turned(k).on = Top.on /\ Turned(k).todo = Top.todo /\ Turned(k).waiting = Top.waiting
            /\ Turned(k).func = Top.func
BY TopIs DEF Turned, FrameRecord

LEMMA LessOneIs ==
  ASSUME CoreInv, Top.kind = "flush", Top.todo # <<>>
  PROVE  LessOne \in FrameRecord /\ LessOne.kind = "flush" /\ LessOne.todo = Tail(Top.todo)
         /\ LessOne.waiting = Top.waiting /\ Rest = Append(Below, LessOne)
<1>1. Top \in FrameRecord /\ Top.todo \in Seq(Call)
  BY TopIs
<1>2. Tail(Top.todo) \in Seq(Call)
  BY <1>1
<1> QED BY <1>1, <1>2 DEF LessOne, FrameRecord, Rest

LEMMA TwoAppended ==
  ASSUME NEW s \in Seq(FrameRecord), NEW e \in FrameRecord, NEW f \in FrameRecord
  PROVE  s \o <<e, f>> = Append(Append(s, e), f)
OBVIOUS

(* The rest of the stack below its top.                                    *)
LEMMA BelowIs ==
  ASSUME CoreInv, Top.kind # "user" \/ Len(stack) > 1
  PROVE  Below \in Seq(FrameRecord) /\ Len(Below) = Len(stack) - 1 /\ Len(Below) \in Nat
         /\ \A i \in 1 .. Len(Below) : Below[i] = stack[i] /\ i \in 1 .. Len(stack) /\ i < Len(stack)
<1>1. Settled(Below) /\ Len(stack) \in Nat /\ Len(Below) = Len(stack) - 1 /\ Len(Below) \in Nat
      /\ \A i \in 1 .. Len(Below) : Below[i] = stack[i]
  BY PopKeeps DEF CoreInv
<1> QED BY <1>1 DEF Settled, Good

(* The last callback of a job begins, or the main loop breaks down.        *)
Broken == UNCHANGED <<ghost, stack>> /\ fault' # "none"

LEMMA FinalForms ==
  ASSUME CoreInv, NEW j \in Jobs, NEW b \in Seq(FrameRecord), NEW how, CallFinal(j, how, b)
  PROVE  \/ /\ job[j].func # "wrap"
            /\ Report(j, how) /\ stack' = Append(b, User)
         \/ /\ job[j].func = "wrap" /\ job[j].waiter # 0 /\ stack[job[j].waiter].func = "user"
            /\ Report(j, how) /\ stack' = Append(Append(b, Wrapper(j, job[j].waiter)), User)
         \/ Broken
<1>1. job[j].waiter \in Nat
  BY DEF CoreInv, Types, JobRec
<1>2. Wrapper(j, job[j].waiter) \in FrameRecord /\ User \in FrameRecord
  BY <1>1, WrapperIs, UserIs
<1>3. b \o <<Wrapper(j, job[j].waiter), User>> = Append(Append(b, Wrapper(j, job[j].waiter)), User)
  BY <1>2, TwoAppended
<1> QED BY <1>3 DEF CallFinal, Broken, Wrapper

LEMMA KillForms ==
  ASSUME CoreInv, NEW j \in Jobs, NEW b \in Seq(FrameRecord), Kill(j, b)
  PROVE  LET c == Append(b, Frame("kill", j))
         IN \/ /\ job[j].func # "wrap"
               /\ Report(j, Outcome(j)) /\ stack' = Append(c, User)
            \/ /\ job[j].func = "wrap" /\ job[j].waiter # 0 /\ stack[job[j].waiter].func = "user"
               /\ Report(j, Outcome(j)) /\ stack' = Append(Append(c, Wrapper(j, job[j].waiter)), User)
            \/ Broken
<1>1. Frame("kill", j) \in FrameRecord
  BY FrameIs DEF FrameKinds, Plain
<1>2. Append(b, Frame("kill", j)) \in Seq(FrameRecord)
  BY <1>1
<1>3. CallFinal(j, Outcome(j), Append(b, Frame("kill", j)))
  BY DEF Kill
<1> QED BY <1>2, <1>3, FinalForms

LEMMA FlushForms ==
  ASSUME CoreInv
  PROVE  /\ CreateFails => stack' = Append(Append(Below, Turned("retry")), Flush) /\ Top.kind = "relock"
         /\ CreateDirectFails => stack' = Append(Append(Below, Turned("directRetry")), Flush) /\ Top.kind = "direct"
         /\ WaitFlush => stack' = Append(Append(Below, Turned("waited")), Flush) /\ Top.kind = "wait"
<1>1. Flush \in FrameRecord /\ \A k \in FrameKinds : Turned(k) \in FrameRecord
  BY FlushIs, TurnedIs
<1>2. Top.kind # "user" => Below \in Seq(FrameRecord)
  BY BelowIs
<1>3. ASSUME CreateFails PROVE stack' = Append(Append(Below, Turned("retry")), Flush) /\ Top.kind = "relock"
  <2>1. Top.kind = "relock" /\ stack' = Below \o <<Turned("retry"), Flush>>
    BY <1>3 DEF CreateFails, At, Turned
  <2> QED BY <1>1, <1>2, <2>1, TwoAppended DEF FrameKinds
<1>4. ASSUME CreateDirectFails PROVE stack' = Append(Append(Below, Turned("directRetry")), Flush) /\ Top.kind = "direct"
  <2>1. Top.kind = "direct" /\ stack' = Below \o <<Turned("directRetry"), Flush>>
    BY <1>4 DEF CreateDirectFails, At, Turned
  <2> QED BY <1>1, <1>2, <2>1, TwoAppended DEF FrameKinds
<1>5. ASSUME WaitFlush PROVE stack' = Append(Append(Below, Turned("waited")), Flush) /\ Top.kind = "wait"
  <2>1. Top.kind = "wait" /\ stack' = Below \o <<Turned("waited"), Flush>>
    BY <1>5 DEF WaitFlush, At, Turned
  <2> QED BY <1>1, <1>2, <2>1, TwoAppended DEF FrameKinds
<1> QED BY <1>3, <1>4, <1>5

LEMMA TurnForms ==
  ASSUME CoreInv
  PROVE  /\ RetryFailsFeedback => stack' = Append(Below, Turned("onError")) /\ Top.kind \in {"retry", "relockTried"}
         /\ \A t \in Threads : CreateDirect(t) =>
               stack' = Append(Below, Turned("counted")) /\ Top.kind \in StartKinds
         /\ WaitAgain => stack' = Append(Below, Turned("wait")) /\ Top.kind = "waited"
<1>1. ASSUME RetryFailsFeedback PROVE stack' = Append(Below, Turned("onError")) /\ Top.kind \in {"retry", "relockTried"}
  <2>1. Top.kind \in {"retry", "relockTried"} /\ Become("onError")
    BY <1>1 DEF RetryFailsFeedback, At
  <2> QED BY <2>1, Becomes DEF Turned, FrameKinds
<1>2. ASSUME NEW t \in Threads, CreateDirect(t)
      PROVE  stack' = Append(Below, Turned("counted")) /\ Top.kind \in StartKinds
  <2>1. Top.kind \in StartKinds /\ Become("counted")
    BY <1>2 DEF CreateDirect, At, StartKinds
  <2> QED BY <2>1, Becomes DEF Turned, FrameKinds, StartKinds
<1>3. ASSUME WaitAgain PROVE stack' = Append(Below, Turned("wait")) /\ Top.kind = "waited"
  <2>1. Top.kind = "waited" /\ Become("wait")
    BY <1>3 DEF WaitAgain, At
  <2> QED BY <2>1, Becomes DEF Turned, FrameKinds
<1> QED BY <1>1, <1>2, <1>3

(* Both lists of frames a give-up may leave.                               *)
LEMMA GiveUpForms ==
  ASSUME CoreInv, RetryFails \/ OnError
  PROVE  /\ Top.kind \in {"retry", "onError"} /\ Top.on \in Jobs
         /\ \/ /\ count # 0 /\ stack' = Below /\ UNCHANGED <<pendShort, pendFeedback, ghost>>
            \/ /\ count = 0 /\ Dropped(Top.on) /\ Report(Top.on, "cancel")
               /\ stack' = Append(Append(Below, Frame("failed", Top.on)), User)
<1>1. Top.kind \in {"retry", "onError"} /\ GiveUp(Top.on)
  BY DEF RetryFails, OnError, At
<1>2. Top.on \in Jobs /\ Below \in Seq(FrameRecord)
  BY <1>1, TopIs, BelowIs
<1>3. Frame("failed", Top.on) \in FrameRecord /\ User \in FrameRecord
  <2>1. "failed" \in FrameKinds /\ Top.on \in Jobs \cup {None}
    BY <1>2 DEF FrameKinds
  <2>2. Plain(Frame("failed", Top.on), "failed", Top.on)
    BY <2>1, FrameIs
  <2> QED BY <2>2, UserIs DEF Plain
<1>4. Below \o <<Frame("failed", Top.on), User>> = Append(Append(Below, Frame("failed", Top.on)), User)
  BY <1>2, <1>3, TwoAppended
<1> QED BY <1>1, <1>2, <1>4 DEF GiveUp, Pop, pend

LEMMA NotifyForm ==
  ASSUME CoreInv, NEW j \in Jobs, Notify(j)
  PROVE  stack' = Append(Append(Append(Below, LessOne), Frame("notify", j)), User)
<1>1. Top.kind = "flush" /\ Top.todo # <<>> /\ stack' = Rest \o <<Frame("notify", j), User>>
  BY DEF Notify, NextCall, At
<1>2. Rest = Append(Below, LessOne) /\ LessOne \in FrameRecord /\ Below \in Seq(FrameRecord)
  BY <1>1, LessOneIs, BelowIs
<1>3. Frame("notify", j) \in FrameRecord /\ User \in FrameRecord
  BY FrameIs, UserIs DEF FrameKinds, Plain
<1>4. Rest \in Seq(FrameRecord)
  BY <1>2
<1> QED BY <1>1, <1>2, <1>3, <1>4, TwoAppended
-----------------------------------------------------------------------------
(* The order of the activations.  The messages of a job are delivered      *)
(* without a flush below the delivery, unless the program waits in one or  *)
(* threads are refused: both are excluded here, or there are no messages.  *)
CalmHere == MaxSend = 0 \/ ("createFails" \notin Liberties /\ "waitInNotify" \notin Liberties)

Alone   == {"mark", "wait", "onError"}
Openers == Creators \cup {"onError"}
Quiet   == {"user", "relock", "direct", "counted", "mark"}
Refused == {"retry", "relockTried", "onError", "failed", "directRetry"}

Dumb(c) == MaxSend = 0 => \A k \in 1 .. Len(c) : c[k].op # "notify"

FrameRight(f) ==
  /\ f.kind # "flush" => f.todo = <<>>
  /\ f.kind \in StartKinds => f.on \in Direct
  /\ f.kind \in Refused => "createFails" \in Liberties
  /\ MaxSend = 0 => f.kind # "notify"
  /\ Dumb(f.todo)

Hushed(s)   == \A i \in 1 .. Len(s) : s[i].kind # "notify"
Unopened(s) == \A i \in 1 .. Len(s) : s[i].kind \notin Openers

Shape(s) ==
  /\ \A i \in 1 .. Len(s) :
       /\ FrameRight(s[i])
       /\ s[i].kind = "wrap" => i - 1 \in 1 .. Len(s) /\ s[i - 1].kind = "kill" /\ s[i - 1].on = s[i].on
       /\ s[i].kind \in Alone => i = Len(s)
  /\ \A i, k \in 1 .. Len(s) : s[i].kind \in Openers /\ s[k].kind \in Openers => i = k
  /\ \A i, k \in 1 .. Len(s) : i < k /\ s[i].kind = "notify" => s[k].kind \in Quiet

Ready(s) == s \in Seq(FrameRecord) /\ Shape(s) /\ \A i \in 1 .. Len(s) : s[i].kind \notin Alone

ShapeInv == Shape(stack) /\ Dumb(calls)

LEMMA PushShape ==
  ASSUME NEW s, Ready(s), NEW f \in FrameRecord, FrameRight(f),
         f.kind = "wrap" => Len(s) \in 1 .. Len(s) /\ s[Len(s)].kind = "kill" /\ s[Len(s)].on = f.on,
         f.kind \in Openers => Unopened(s),
         f.kind \in Quiet \/ Hushed(s)
  PROVE  /\ Shape(Append(s, f)) /\ Append(s, f) \in Seq(FrameRecord)
         /\ f.kind \notin Alone => Ready(Append(s, f))
         /\ Hushed(s) /\ f.kind # "notify" => Hushed(Append(s, f))
         /\ Unopened(s) /\ f.kind \notin Openers => Unopened(Append(s, f))
         /\ Len(Append(s, f)) \in 1 .. Len(Append(s, f)) /\ Append(s, f)[Len(Append(s, f))] = f
<1> DEFINE u == Append(s, f)
<1>1. /\ u \in Seq(FrameRecord) /\ Len(s) \in Nat /\ Len(u) = Len(s) + 1 /\ u[Len(s) + 1] = f
      /\ \A i \in 1 .. Len(s) : u[i] = s[i]
  BY DEF Ready
<1> HIDE DEF u
<1>2. \A i \in 1 .. Len(u) : i \in 1 .. Len(s) \/ i = Len(s) + 1
  BY <1>1
<1>3. ASSUME NEW i \in 1 .. Len(u)
      PROVE  /\ FrameRight(u[i])
             /\ u[i].kind = "wrap" => i - 1 \in 1 .. Len(u) /\ u[i - 1].kind = "kill" /\ u[i - 1].on = u[i].on
             /\ u[i].kind \in Alone => i = Len(u) /\ f.kind \in Alone
  <2>1. CASE i = Len(s) + 1
    <3>1. u[i] = f /\ i - 1 = Len(s) /\ i = Len(u)
      BY <1>1, <2>1
    <3>2. f.kind = "wrap" => i - 1 \in 1 .. Len(u) /\ u[i - 1] = s[i - 1]
      BY <1>1, <3>1
    <3> QED BY <3>1, <3>2
  <2>2. CASE i # Len(s) + 1
    <3>1. i \in 1 .. Len(s) /\ u[i] = s[i]
      BY <1>1, <1>2, <2>2
    <3>2. /\ FrameRight(s[i]) /\ s[i].kind \notin Alone
          /\ s[i].kind = "wrap" => i - 1 \in 1 .. Len(s) /\ s[i - 1].kind = "kill" /\ s[i - 1].on = s[i].on
      BY <3>1 DEF Ready, Shape
    <3>3. i - 1 \in 1 .. Len(s) => i - 1 \in 1 .. Len(u) /\ u[i - 1] = s[i - 1]
      BY <1>1
    <3> QED BY <3>1, <3>2, <3>3
  <2> QED BY <2>1, <2>2
<1>4. ASSUME NEW i \in 1 .. Len(u), NEW k \in 1 .. Len(u)
      PROVE  /\ u[i].kind \in Openers /\ u[k].kind \in Openers => i = k
             /\ i < k /\ u[i].kind = "notify" => u[k].kind \in Quiet
  <2>1. CASE i = Len(s) + 1 /\ k = Len(s) + 1
    BY <1>1, <2>1
  <2>2. CASE i = Len(s) + 1 /\ k # Len(s) + 1
    <3>1. k \in 1 .. Len(s) /\ u[k] = s[k] /\ u[i] = f /\ ~(i < k)
      BY <1>1, <1>2, <2>2
    <3> QED BY <3>1 DEF Unopened
  <2>3. CASE i # Len(s) + 1 /\ k = Len(s) + 1
    <3>1. i \in 1 .. Len(s) /\ u[i] = s[i] /\ u[k] = f
      BY <1>1, <1>2, <2>3
    <3> QED BY <3>1 DEF Unopened, Hushed
  <2>4. CASE i # Len(s) + 1 /\ k # Len(s) + 1
    <3>1. i \in 1 .. Len(s) /\ u[i] = s[i] /\ k \in 1 .. Len(s) /\ u[k] = s[k]
      BY <1>1, <1>2, <2>4
    <3> QED BY <3>1 DEF Ready, Shape
  <2> QED BY <2>1, <2>2, <2>3, <2>4
<1>5. Shape(u)
  BY <1>3, <1>4 DEF Shape
<1>6. (f.kind \notin Alone => Ready(u)) /\ (Hushed(s) /\ f.kind # "notify" => Hushed(u))
      /\ (Unopened(s) /\ f.kind \notin Openers => Unopened(u))
  BY <1>1, <1>2, <1>3, <1>5 DEF Ready, Hushed, Unopened
<1>7. Len(u) \in 1 .. Len(u) /\ u[Len(u)] = f
  BY <1>1
<1> QED BY <1>1, <1>5, <1>6, <1>7 DEF u

LEMMA PopShape ==
  ASSUME CoreInv, ShapeInv, Top.kind # "user" \/ Len(stack) > 1
  PROVE  /\ Ready(Below) /\ FrameRight(Top)
         /\ Top.kind \notin Quiet => Hushed(Below)
         /\ Top.kind \in Openers => Unopened(Below)
         /\ Unopened(stack) => Unopened(Below)
         /\ Hushed(stack) => Hushed(Below)
<1>1. /\ Below \in Seq(FrameRecord) /\ Len(Below) = Len(stack) - 1 /\ Len(Below) \in Nat
      /\ \A i \in 1 .. Len(Below) : Below[i] = stack[i] /\ i \in 1 .. Len(stack) /\ i < Len(stack)
  BY BelowIs
<1>2. Top = stack[Len(stack)] /\ Len(stack) \in 1 .. Len(stack) /\ Len(stack) \in Nat
  BY TopIs
<1>3. Shape(stack)
  BY DEF ShapeInv
<1>4. FrameRight(Top)
  BY <1>2, <1>3 DEF Shape
<1>5. ASSUME NEW i \in 1 .. Len(Below)
      PROVE  /\ FrameRight(Below[i]) /\ Below[i].kind \notin Alone
             /\ Below[i].kind = "wrap" =>
                  i - 1 \in 1 .. Len(Below) /\ Below[i - 1].kind = "kill" /\ Below[i - 1].on = Below[i].on
             /\ Below[i].kind = "notify" => Top.kind \in Quiet
             /\ Below[i].kind \in Openers => Top.kind \notin Openers
  <2>1. Below[i] = stack[i] /\ i \in 1 .. Len(stack) /\ i < Len(stack) /\ i # Len(stack)
    BY <1>1
  <2>2. /\ FrameRight(stack[i]) /\ stack[i].kind \notin Alone
        /\ stack[i].kind = "wrap" => i - 1 \in 1 .. Len(stack) /\ stack[i - 1].kind = "kill" /\ stack[i - 1].on = stack[i].on
        /\ stack[i].kind = "notify" => Top.kind \in Quiet
        /\ stack[i].kind \in Openers => Top.kind \notin Openers
    BY <1>2, <1>3, <2>1 DEF Shape
  <2>3. i - 1 \in 1 .. Len(stack) => i - 1 \in 1 .. Len(Below)
    BY <1>1, <1>2
  <2>4. i - 1 \in 1 .. Len(stack) => Below[i - 1] = stack[i - 1]
    BY <1>1, <2>3
  <2> QED BY <2>1, <2>2, <2>3, <2>4
<1>6. \A i, k \in 1 .. Len(Below) :
        /\ Below[i].kind \in Openers /\ Below[k].kind \in Openers => i = k
        /\ i < k /\ Below[i].kind = "notify" => Below[k].kind \in Quiet
  BY <1>1, <1>3 DEF Shape
<1>7. Shape(Below)
  BY <1>5, <1>6 DEF Shape
<1> QED BY <1>1, <1>4, <1>5, <1>7 DEF Ready, Hushed, Unopened

LEMMA ReadyTop ==
  ASSUME CoreInv, ShapeInv, Top.kind \notin Alone PROVE Ready(stack)
BY TopIs DEF ShapeInv, Ready, Shape

LEMMA DumbAppend ==
  ASSUME NEW c \in Seq(Call), Dumb(c), NEW x \in Call, x.op # "notify" \/ MaxSend # 0 PROVE Dumb(Append(c, x))
<1>1. /\ Len(c) \in Nat /\ Len(Append(c, x)) = Len(c) + 1 /\ Append(c, x)[Len(c) + 1] = x
      /\ \A i \in 1 .. Len(c) : Append(c, x)[i] = c[i]
  OBVIOUS
<1>2. \A i \in 1 .. Len(Append(c, x)) : i \in 1 .. Len(c) \/ i = Len(c) + 1
  BY <1>1
<1> QED BY <1>1, <1>2 DEF Dumb

LEMMA DumbTail ==
  ASSUME NEW c \in Seq(Call), Dumb(c), c # <<>> PROVE Dumb(Tail(c)) /\ (Head(c).op = "notify" => MaxSend # 0)
<1>1. /\ Len(c) \in Nat /\ Len(c) >= 1 /\ Len(Tail(c)) = Len(c) - 1 /\ Head(c) = c[1]
      /\ \A i \in 1 .. Len(Tail(c)) : Tail(c)[i] = c[i + 1]
  BY TailRight
<1>2. (\A i \in 1 .. Len(Tail(c)) : i + 1 \in 1 .. Len(c)) /\ 1 \in 1 .. Len(c)
  BY <1>1
<1> QED BY <1>1, <1>2 DEF Dumb

LEMMA DumbNothing == Dumb(<<>>)
<1>1. Len(<<>>) = 0
  OBVIOUS
<1> QED BY <1>1 DEF Dumb
(* The calls that are posted.                                              *)
NotifyOf(j) == [op |-> "notify", on |-> j]
JoinOf(t)   == [op |-> "join", on |-> t]

LEMMA CallIs ==
  /\ \A j \in Jobs : /\ Handler(j) \in Call /\ Handler(j).op = "handler" /\ Handler(j).on = j
                     /\ NotifyOf(j) \in Call /\ NotifyOf(j).op = "notify" /\ NotifyOf(j).on = j
  /\ \A t \in Threads : JoinOf(t) \in Call /\ JoinOf(t).op = "join" /\ JoinOf(t).on = t
BY DEF Handler, NotifyOf, JoinOf, Call

LEMMA CallWas ==
  ASSUME NEW x \in Call
  PROVE  /\ x.op = "handler" => x.on \in Jobs /\ x = Handler(x.on)
         /\ x.op = "notify" => x.on \in Jobs /\ x = NotifyOf(x.on)
<1>1. CASE x \in [op : {"handler", "notify"}, on : Jobs]
  BY <1>1 DEF Handler, NotifyOf
<1>2. CASE x \in [op : {"join"}, on : Threads]
  BY <1>2
<1> QED BY <1>1, <1>2 DEF Call

LEMMA OneMore ==
  ASSUME NEW S, NEW c \in Seq(S), NEW x \in S PROVE c \o <<x>> = Append(c, x)
OBVIOUS

LEMMA JoinForm ==
  ASSUME NEW t \in Threads, NEW c \in Seq(Call), PostJoin(t, c) PROVE calls' = Append(c, JoinOf(t))
<1>1. JoinOf(t) \in Call /\ calls' = c \o <<JoinOf(t)>>
  BY CallIs DEF PostJoin, JoinOf
<1> QED BY <1>1, OneMore

LEMMA ThreadForms ==
  ASSUME CoreInv, NEW t \in Threads, ThreadStep(t) \/ FunctionStep(t)
  PROVE  /\ UNCHANGED <<stack, waits, fault, max>>
         /\ (PostHandler(t) \/ Send(t) \/ Leave(t) \/ LeaveDirect(t)) \/ UNCHANGED calls
         /\ PostHandler(t) => Work(t) \in Jobs /\ calls' = Append(calls, Handler(Work(t)))
         /\ Send(t) => Work(t) \in Jobs /\ calls' = Append(calls, NotifyOf(Work(t))) /\ MaxSend # 0
         /\ Leave(t) => calls' = Append(calls, JoinOf(t))
         /\ LeaveDirect(t) => Work(t) \in Jobs /\ calls' = Append(Append(calls, Handler(Work(t))), JoinOf(t))
<1>1. calls \in Seq(Call) /\ (thread[t].pc \in HoldStates => Work(t) \in Jobs /\ job[Work(t)] \in JobRec)
  BY Holding DEF CoreInv, Types
<1>2. UNCHANGED <<stack, waits, fault, max>>
  BY DEF ThreadStep, FunctionStep, PickShort, PickFeedback, MarkRunning, Start, Finish, LeaveRunning, Requeue,
         PostHandler, TestOnce, TestTwice, Test, Leave, StartDirect, LeaveDirect, Send, Reschedule, CancelSelf,
         Cut, main, pool
<1>3. (PostHandler(t) \/ Send(t) \/ Leave(t) \/ LeaveDirect(t)) \/ UNCHANGED calls
  BY DEF ThreadStep, FunctionStep, PickShort, PickFeedback, MarkRunning, Start, Finish, LeaveRunning, Requeue,
         TestOnce, TestTwice, Test, StartDirect, Reschedule, CancelSelf, Cut
<1>4. PostHandler(t) => Work(t) \in Jobs /\ calls' = Append(calls, Handler(Work(t)))
  BY <1>1 DEF PostHandler, In, HoldStates
<1>5. ASSUME Send(t) PROVE Work(t) \in Jobs /\ calls' = Append(calls, NotifyOf(Work(t))) /\ MaxSend # 0
  <2>1. Work(t) \in Jobs /\ job[Work(t)].send \in Nat /\ job[Work(t)].send < MaxSend
    BY <1>1, <1>5 DEF Send, In, HoldStates, JobRec
  <2> QED BY <1>5, <2>1, BoundsAssumption DEF Send, NotifyOf
<1>6. Leave(t) => calls' = Append(calls, JoinOf(t))
  BY <1>1, JoinForm DEF Leave
<1>7. ASSUME LeaveDirect(t)
      PROVE  Work(t) \in Jobs /\ calls' = Append(Append(calls, Handler(Work(t))), JoinOf(t))
  <2>1. Work(t) \in Jobs
    BY <1>1, <1>7 DEF LeaveDirect, In, HoldStates
  <2>2. Append(calls, Handler(Work(t))) \in Seq(Call)
    BY <1>1, <2>1, CallIs
  <2> QED BY <1>7, <2>1, <2>2, JoinForm DEF LeaveDirect
<1> QED BY <1>2, <1>3, <1>4, <1>5, <1>6, <1>7

LEMMA ThreadShape ==
  ASSUME CoreInv, ShapeInv, NEW t \in Threads, ThreadStep(t) \/ FunctionStep(t)
  PROVE  ShapeInv'
<1>1. /\ stack' = stack
      /\ (PostHandler(t) \/ Send(t) \/ Leave(t) \/ LeaveDirect(t)) \/ UNCHANGED calls
      /\ PostHandler(t) => Work(t) \in Jobs /\ calls' = Append(calls, Handler(Work(t)))
      /\ Send(t) => Work(t) \in Jobs /\ calls' = Append(calls, NotifyOf(Work(t))) /\ MaxSend # 0
      /\ Leave(t) => calls' = Append(calls, JoinOf(t))
      /\ LeaveDirect(t) => Work(t) \in Jobs /\ calls' = Append(Append(calls, Handler(Work(t))), JoinOf(t))
  BY ThreadForms
<1>2. calls \in Seq(Call) /\ Dumb(calls)
  BY DEF CoreInv, Types, ShapeInv
<1>3. Dumb(calls')
  <2>1. CASE UNCHANGED calls
    BY <1>2, <2>1
  <2>2. CASE PostHandler(t) \/ Send(t) \/ Leave(t)
    <3>1. PICK x \in Call : calls' = Append(calls, x) /\ (x.op # "notify" \/ MaxSend # 0)
      <4>1. CASE PostHandler(t)
        BY <1>1, <4>1, CallIs
      <4>2. CASE Send(t)
        BY <1>1, <4>2, CallIs
      <4>3. CASE Leave(t)
        BY <1>1, <4>3, CallIs
      <4> QED BY <2>2, <4>1, <4>2, <4>3
    <3> QED BY <1>2, <3>1, DumbAppend
  <2>3. CASE LeaveDirect(t)
    <3> DEFINE c == Append(calls, Handler(Work(t)))
    <3>1. c \in Seq(Call) /\ Dumb(c)
      BY <1>1, <1>2, <2>3, CallIs, DumbAppend
    <3>2. calls' = Append(c, JoinOf(t))
      BY <1>1, <2>3
    <3> HIDE DEF c
    <3> QED BY <3>1, <3>2, CallIs, DumbAppend
  <2> QED BY <1>1, <2>1, <2>2, <2>3
<1>4. Shape(stack)' <=> Shape(stack')
  BY DEF Shape, FrameRight, Dumb
<1>5. Dumb(calls)' <=> Dumb(calls')
  BY DEF Dumb
<1> QED BY <1>1, <1>3, <1>4, <1>5 DEF ShapeInv

LEMMA ShapePrimed ==
  ASSUME Shape(stack'), Dumb(calls') PROVE ShapeInv'
<1>1. Shape(stack)' <=> Shape(stack')
  BY DEF Shape, FrameRight, Dumb
<1>2. Dumb(calls)' <=> Dumb(calls')
  BY DEF Dumb
<1> QED BY <1>1, <1>2 DEF ShapeInv

(* Frames of their own kind that carry no calls.                           *)
LEMMA PlainFrame ==
  ASSUME NEW f \in FrameRecord, f.kind \notin StartKinds \cup Refused \cup {"flush", "notify"}, f.todo = <<>>
  PROVE  FrameRight(f)
BY DumbNothing DEF FrameRight

LEMMA PushPlain ==
  ASSUME CoreInv, ShapeInv, Top.kind \notin Alone, NEW f \in FrameRecord, FrameRight(f), f.kind # "wrap",
         f.kind \in Openers => Unopened(stack),
         f.kind \in Quiet \/ Hushed(stack), stack' = Append(stack, f), Dumb(calls')
  PROVE  ShapeInv'
BY ReadyTop, PushShape, ShapePrimed

LEMMA PopPlain ==
  ASSUME CoreInv, ShapeInv, Top.kind # "user" \/ Len(stack) > 1, stack' = Below, Dumb(calls')
  PROVE  ShapeInv'
BY PopShape, ShapePrimed DEF Ready

LEMMA UserShape ==
  ASSUME CoreInv, ShapeInv, CalmHere, UserStep PROVE ShapeInv'
<1>0. Dumb(calls)
  BY DEF ShapeInv
<1>1. ASSUME NEW j \in Jobs, Run(j) PROVE ShapeInv'
  <2>1. Top.kind = "user" /\ ~Locked /\ QueueJob(j, stack, "relock") /\ calls' = calls
    BY <1>1 DEF Run, InUser
  <2>2. Plain(Frame("relock", j), "relock", j)
    BY FrameIs DEF FrameKinds
  <2>3. Unopened(stack)
    <3>1. \A i \in 1 .. Len(stack) : stack[i].kind # "retry"
      BY <2>1, TopIs DEF Locked, LockFrames
    <3>2. \A i \in 1 .. Len(stack) : stack[i].kind \notin Relocks \cup {"onError"}
      BY <2>1, TopIs DEF CoreInv, Good, ShapeInv, Shape, Alone, Relocks
    <3> QED BY <3>1, <3>2 DEF Unopened, Openers, Creators
  <2>4. CASE stack' = stack
    BY <1>0, <2>1, <2>4, ShapePrimed DEF ShapeInv
  <2>5. CASE stack' = Append(stack, Frame("relock", j))
    <3>1. FrameRight(Frame("relock", j))
      BY <2>2, PlainFrame DEF StartKinds, Refused, Plain
    <3> QED BY <1>0, <2>1, <2>2, <2>3, <2>5, <3>1, PushPlain DEF Plain, Alone, Quiet
  <2> QED BY <2>1, <2>4, <2>5 DEF QueueJob
<1>2. ASSUME NEW j \in Jobs, RunSelfLock(j) \/ CancelSelfLock(j) \/ CancelKilled(j) PROVE ShapeInv'
  <2>1. stack' = stack /\ calls' = calls
    BY <1>2 DEF RunSelfLock, CancelSelfLock, SelfLock, CancelKilled, main
  <2> QED BY <2>1, ShapePrimed DEF ShapeInv
<1>3. ASSUME NEW n \in 1 .. MaxLimit, MaxSet(n) PROVE ShapeInv'
  <2>1. stack' = stack /\ calls' = calls
    BY <1>3 DEF MaxSet, main
  <2> QED BY <2>1, ShapePrimed DEF ShapeInv
<1>4. ASSUME NEW j \in Jobs, RunDirect(j) PROVE ShapeInv'
  <2>1. Plain(Frame("direct", j), "direct", j)
    BY FrameIs DEF FrameKinds
  <2>2. Top.kind = "user" /\ stack' = Append(stack, Frame("direct", j)) /\ j \in Direct /\ calls' = calls
    BY <1>4 DEF RunDirect, InUser, Push
  <2>3. FrameRight(Frame("direct", j))
    BY <2>1, <2>2, DumbNothing DEF FrameRight, Refused, Plain
  <2> QED BY <1>0, <2>1, <2>2, <2>3, PushPlain DEF Plain, Alone, Quiet, Openers, Creators, Relocks
<1>5. ASSUME NEW j \in Jobs, Cancel(j) PROVE ShapeInv'
  <2>1. Plain(Frame("mark", j), "mark", j)
    BY FrameIs DEF FrameKinds
  <2>2. Top.kind = "user" /\ stack' = Append(stack, Frame("mark", j)) /\ calls' = calls
    BY <1>5 DEF Cancel, InUser, Push
  <2>3. FrameRight(Frame("mark", j))
    BY <2>1, PlainFrame DEF StartKinds, Refused, Plain
  <2> QED BY <1>0, <2>1, <2>2, <2>3, PushPlain DEF Plain, Alone, Quiet, Openers, Creators, Relocks
<1>6. ASSUME NEW j \in Jobs, Wait(j) PROVE ShapeInv'
  <2>1. Waiter(j) \in FrameRecord /\ Waiter(j).kind = "wait" /\ Waiter(j).todo = <<>>
    BY WaiterIs
  <2>2. Top.kind = "user" /\ stack' = Append(stack, Waiter(j)) /\ calls' = calls
    BY <1>6 DEF Wait, InUser, Push, Waiter
  <2>3. FrameRight(Waiter(j))
    BY <2>1, PlainFrame DEF StartKinds, Refused, Plain
  <2>4. Hushed(stack)
    <3>1. CASE MaxSend = 0
      BY <3>1, TopIs DEF ShapeInv, Shape, FrameRight, Hushed
    <3>2. CASE "waitInNotify" \notin Liberties
      BY <1>6, <3>2, TopIs DEF Wait, Allowed, Hushed
    <3> QED BY <3>1, <3>2 DEF CalmHere
  <2> QED BY <1>0, <2>1, <2>2, <2>3, <2>4, PushPlain DEF Plain, Alone, Openers, Creators, Relocks
<1> QED BY <1>1, <1>2, <1>3, <1>4, <1>5, <1>6 DEF UserStep
LEMMA NoMessages ==
  ASSUME CoreInv, ShapeInv, CalmHere, "createFails" \in Liberties PROVE Hushed(stack) /\ MaxSend = 0
BY DEF CalmHere, ShapeInv, Shape, FrameRight, Hushed

LEMMA FlushRight ==
  ASSUME CoreInv, ShapeInv PROVE Flush \in FrameRecord /\ FrameRight(Flush) /\ Flush.kind = "flush"
BY FlushIs DEF ShapeInv, FrameRight, StartKinds, Refused

(* The last activation turns into another kind.                            *)
LEMMA TurnedRight ==
  ASSUME CoreInv, ShapeInv, Top.kind \notin {"user", "flush"},
         NEW k \in FrameKinds \ {"notify", "flush"},
         k \in StartKinds => Top.kind \in StartKinds, k \in Refused => "createFails" \in Liberties
  PROVE  Turned(k) \in FrameRecord /\ FrameRight(Turned(k)) /\ Turned(k).kind = k
<1>1. /\ Turned(k) \in FrameRecord /\ Turned(k).kind = k /\ Turned(k).on = Top.on /\ Turned(k).todo = Top.todo
      /\ Turned(k).waiting = Top.waiting /\ Turned(k).func = Top.func
  BY TurnedIs
<1>2. FrameRight(Top)
  BY PopShape
<1> QED BY <1>1, <1>2, DumbNothing DEF FrameRight

LEMMA FlushShape ==
  ASSUME CoreInv, ShapeInv, CalmHere, Top.kind \in {"relock", "direct", "wait"},
         NEW k \in {"retry", "directRetry", "waited"},
         k = "retry" <=> Top.kind = "relock", k = "directRetry" <=> Top.kind = "direct",
         k # "waited" => "createFails" \in Liberties,
         stack' = Append(Append(Below, Turned(k)), Flush), calls' = <<>>
  PROVE  ShapeInv'
<1> DEFINE f == Turned(k)
           u == Append(Below, f)
<1>1. f \in FrameRecord /\ FrameRight(f) /\ f.kind = k
  BY TurnedRight DEF FrameKinds, StartKinds, Refused
<1>2. Ready(Below) /\ Hushed(Below) /\ (k = "retry" => Unopened(Below))
  <2>1. /\ Ready(Below) /\ (Top.kind \notin Quiet => Hushed(Below)) /\ (Hushed(stack) => Hushed(Below))
        /\ (Top.kind \in Openers => Unopened(Below))
    BY PopShape
  <2> QED BY <2>1, NoMessages DEF Quiet, Openers, Creators, Relocks
<1> HIDE DEF f
<1>3. Ready(u) /\ Hushed(u)
  BY <1>1, <1>2, PushShape DEF Alone, Openers, Creators, Relocks
<1> HIDE DEF u
<1>4. Flush \in FrameRecord /\ FrameRight(Flush) /\ Flush.kind = "flush"
  BY FlushRight
<1>5. Shape(Append(u, Flush))
  BY <1>3, <1>4, PushShape DEF Openers, Creators, Relocks
<1> QED BY <1>5, DumbNothing, ShapePrimed DEF f, u

LEMMA TurnShape ==
  ASSUME CoreInv, ShapeInv, CalmHere, UNCHANGED calls, NEW k \in {"onError", "counted", "wait"},
         k = "onError" => Top.kind \in Openers /\ "createFails" \in Liberties,
         k = "counted" => Top.kind \in StartKinds, k = "wait" => Top.kind = "waited",
         stack' = Append(Below, Turned(k))
  PROVE  ShapeInv'
<1>0. Dumb(calls) /\ Top.kind \notin {"user", "flush"}
  BY DEF ShapeInv, Openers, Creators, Relocks, StartKinds
<1>1. Turned(k) \in FrameRecord /\ FrameRight(Turned(k)) /\ Turned(k).kind = k
  BY <1>0, TurnedRight DEF FrameKinds, StartKinds, Refused
<1>2. Ready(Below) /\ (Hushed(Below) \/ k = "counted") /\ (k = "onError" => Unopened(Below))
  <2>1. /\ Ready(Below) /\ (Top.kind \notin Quiet => Hushed(Below)) /\ (Hushed(stack) => Hushed(Below))
        /\ (Top.kind \in Openers => Unopened(Below))
    BY <1>0, PopShape
  <2> QED BY <2>1, NoMessages DEF Quiet
<1>3. Shape(Append(Below, Turned(k)))
  BY <1>1, <1>2, PushShape DEF Openers, Creators, Relocks, Quiet
<1> QED BY <1>0, <1>3, ShapePrimed

(* What is below a last callback: nothing that delivers messages.          *)
LEMMA FinalShape ==
  ASSUME CoreInv, ShapeInv, UNCHANGED calls, NEW b, Ready(b), Hushed(b),
         NEW j \in Jobs, Kill(j, b)
  PROVE  ShapeInv'
<1> DEFINE f == Frame("kill", j)
           c == Append(b, f)
           w == Wrapper(j, job[j].waiter)
<1>0. b \in Seq(FrameRecord) /\ job[j].waiter \in Nat /\ Dumb(calls)
  BY DEF Ready, CoreInv, Types, JobRec, ShapeInv
<1>1. f \in FrameRecord /\ FrameRight(f) /\ f.kind = "kill" /\ f.on = j
  <2>1. Plain(Frame("kill", j), "kill", j)
    BY FrameIs DEF FrameKinds
  <2> QED BY <2>1, PlainFrame DEF Plain, StartKinds, Refused
<1>2. w \in FrameRecord /\ FrameRight(w) /\ w.kind = "wrap" /\ w.on = j
  <2>1. w \in FrameRecord /\ w.kind = "wrap" /\ w.on = j /\ w.todo = <<>> /\ w.waiter = job[j].waiter /\ w.waiting = FALSE
    BY <1>0, WrapperIs
  <2> HIDE DEF w
  <2> QED BY <2>1, PlainFrame DEF StartKinds, Refused
<1>3. User \in FrameRecord /\ FrameRight(User) /\ User.kind = "user"
  BY UserIs, PlainFrame DEF StartKinds, Refused
<1>4. \/ stack' = Append(c, User) \/ stack' = Append(Append(c, w), User) \/ stack' = stack
  <2>1. LET cc == Append(b, Frame("kill", j))
         IN \/ /\ job[j].func # "wrap"
               /\ Report(j, Outcome(j)) /\ stack' = Append(cc, User)
            \/ /\ job[j].func = "wrap" /\ job[j].waiter # 0 /\ stack[job[j].waiter].func = "user"
               /\ Report(j, Outcome(j)) /\ stack' = Append(Append(cc, Wrapper(j, job[j].waiter)), User)
            \/ Broken
    BY <1>0, KillForms
  <2> QED BY <2>1 DEF Broken
<1> HIDE DEF f, w
<1>5. /\ Ready(c) /\ Hushed(c) /\ Len(c) \in 1 .. Len(c) /\ c[Len(c)] = f
  BY <1>1, PushShape DEF Alone, Openers, Creators, Relocks
<1> HIDE DEF c
<1>6. Shape(Append(c, User))
  BY <1>3, <1>5, PushShape DEF Openers, Creators, Relocks
<1> DEFINE d == Append(c, w)
<1>7. Ready(d) /\ Hushed(d)
  BY <1>1, <1>2, <1>5, PushShape DEF Alone, Openers, Creators, Relocks
<1> HIDE DEF d
<1>8. Shape(Append(d, User))
  BY <1>3, <1>7, PushShape DEF Openers, Creators, Relocks
<1>9. Shape(stack')
  BY <1>4, <1>6, <1>8 DEF d, ShapeInv
<1> QED BY <1>0, <1>9, ShapePrimed

(* A flush has taken its next call.                                        *)
LEMMA RestShape ==
  ASSUME CoreInv, ShapeInv, At("flush"), Top.todo # <<>>
  PROVE  Ready(Rest) /\ Hushed(Rest) /\ (Head(Top.todo).op = "notify" => MaxSend # 0)
<1>1. Top.kind = "flush" /\ Top.todo \in Seq(Call)
  BY TopIs DEF At
<1>2. Ready(Below) /\ Hushed(Below) /\ FrameRight(Top)
  BY <1>1, PopShape DEF Quiet
<1>3. LessOne \in FrameRecord /\ LessOne.kind = "flush" /\ LessOne.todo = Tail(Top.todo)
         /\ LessOne.waiting = Top.waiting /\ Rest = Append(Below, LessOne)
  BY <1>1, LessOneIs
<1>4. Dumb(Tail(Top.todo)) /\ (Head(Top.todo).op = "notify" => MaxSend # 0)
  BY <1>1, <1>2, DumbTail DEF FrameRight
<1>5. FrameRight(LessOne)
  BY <1>3, <1>4 DEF FrameRight, StartKinds, Refused
<1> QED BY <1>2, <1>3, <1>4, <1>5, PushShape DEF Alone, Openers, Creators, Relocks

LEMMA DeliverShape ==
  ASSUME CoreInv, ShapeInv, (\E t \in Threads : Join(t))
                   \/ (\E j \in Jobs : HandlerKeeps(j) \/ HandlerKills(j) \/ Notify(j))
  PROVE  ShapeInv'
<1>1. At("flush") /\ Top.todo # <<>> /\ calls' = calls
  BY DEF Join, HandlerKeeps, HandlerKills, Notify, NextCall
<1>2. Ready(Rest) /\ Hushed(Rest) /\ (Head(Top.todo).op = "notify" => MaxSend # 0) /\ Dumb(calls)
  BY <1>1, RestShape DEF ShapeInv
<1>3. CASE stack' = Rest
  BY <1>1, <1>2, <1>3, ShapePrimed DEF Ready
<1>4. ASSUME NEW j \in Jobs, HandlerKills(j) PROVE ShapeInv'
  BY <1>1, <1>2, <1>4, FinalShape DEF HandlerKills
<1>5. ASSUME NEW j \in Jobs, Notify(j) PROVE ShapeInv'
  <2> DEFINE u == Append(Rest, Frame("notify", j))
  <2>1. Plain(Frame("notify", j), "notify", j)
    BY FrameIs DEF FrameKinds
  <2>2. MaxSend # 0
    BY <1>2, <1>5 DEF Notify, NextCall
  <2>3. FrameRight(Frame("notify", j))
    BY <2>1, <2>2, DumbNothing DEF Plain, FrameRight, StartKinds, Refused
  <2>4. Ready(u)
    BY <1>2, <2>1, <2>3, PushShape DEF Plain, Alone, Openers, Creators, Relocks
  <2>5. stack' = Append(u, User)
    <3>1. stack' = Append(Append(Append(Below, LessOne), Frame("notify", j)), User)
      BY <1>5, NotifyForm
    <3>2. Rest = Append(Below, LessOne)
      BY DEF Rest, LessOne
    <3> QED BY <3>1, <3>2
  <2>6. User \in FrameRecord /\ FrameRight(User) /\ User.kind = "user"
    BY UserIs, PlainFrame DEF StartKinds, Refused
  <2> HIDE DEF u
  <2>7. Shape(Append(u, User))
    BY <2>4, <2>6, PushShape DEF Quiet, Openers, Creators, Relocks
  <2> QED BY <1>1, <1>2, <2>5, <2>7, ShapePrimed
<1> QED BY <1>3, <1>4, <1>5 DEF Join, HandlerKeeps

LEMMA WrapDoneShape ==
  ASSUME CoreInv, ShapeInv, WrapDone PROVE ShapeInv'
<1> DEFINE i == Top.waiter
           u == [Below EXCEPT ![i].waiting = FALSE]
<1>1. Top.kind = "wrap" /\ stack' = u /\ calls' = calls
  BY DEF WrapDone, At
<1>2. Ready(Below) /\ Dumb(calls)
  BY <1>1, PopShape DEF ShapeInv
<1>3. /\ Len(u) = Len(Below) /\ Len(Below) \in Nat
      /\ \A m \in 1 .. Len(Below) : u[m].kind = Below[m].kind /\ u[m].on = Below[m].on /\ u[m].todo = Below[m].todo
  <2>1. Below \in Seq(FrameRecord) /\ \A m \in 1 .. Len(Below) : Below[m] \in FrameRecord
    BY <1>2 DEF Ready
  <2>2. Len(u) = Len(Below) /\ \A m \in 1 .. Len(Below) : u[m] = IF m = i THEN [Below[i] EXCEPT !.waiting = FALSE] ELSE Below[m]
    BY <2>1
  <2> QED BY <2>1, <2>2 DEF FrameRecord
<1> HIDE DEF u
<1>4. \A m \in 1 .. Len(u) : FrameRight(u[m])
  BY <1>2, <1>3 DEF Ready, Shape, FrameRight
<1>5. Shape(u)
  <2>1. ASSUME NEW m \in 1 .. Len(u)
        PROVE  /\ u[m].kind = "wrap" => m - 1 \in 1 .. Len(u) /\ u[m - 1].kind = "kill" /\ u[m - 1].on = u[m].on
               /\ u[m].kind \in Alone => m = Len(u)
    BY <1>2, <1>3 DEF Ready, Shape
  <2>2. \A m, k \in 1 .. Len(u) : u[m].kind \in Openers /\ u[k].kind \in Openers => m = k
    BY <1>2, <1>3 DEF Ready, Shape
  <2>3. \A m, k \in 1 .. Len(u) : m < k /\ u[m].kind = "notify" => u[k].kind \in Quiet
    BY <1>2, <1>3 DEF Ready, Shape
  <2> QED BY <1>4, <2>1, <2>2, <2>3 DEF Shape
<1> QED BY <1>1, <1>2, <1>5, ShapePrimed

LEMMA GiveUpShape ==
  ASSUME CoreInv, ShapeInv, CalmHere, RetryFails \/ OnError PROVE ShapeInv'
<1>1. /\ Top.kind \in {"retry", "onError"} /\ Top.on \in Jobs
      /\ \/ /\ count # 0 /\ stack' = Below /\ UNCHANGED <<pendShort, pendFeedback, ghost>>
         \/ /\ count = 0 /\ Dropped(Top.on) /\ Report(Top.on, "cancel")
            /\ stack' = Append(Append(Below, Frame("failed", Top.on)), User)
  BY GiveUpForms
<1>2. calls' = calls /\ Dumb(calls)
  BY DEF RetryFails, OnError, ShapeInv
<1>3. CASE stack' = Below
  BY <1>1, <1>2, <1>3, PopPlain
<1>4. CASE stack' = Append(Append(Below, Frame("failed", Top.on)), User)
  <2> DEFINE u == Append(Below, Frame("failed", Top.on))
  <2>1. Ready(Below) /\ Hushed(Below) /\ FrameRight(Top)
    BY <1>1, PopShape DEF Quiet
  <2>2. Plain(Frame("failed", Top.on), "failed", Top.on)
    BY <1>1, FrameIs DEF FrameKinds
  <2>3. FrameRight(Frame("failed", Top.on))
    BY <1>1, <2>1, <2>2, DumbNothing DEF Plain, FrameRight, StartKinds, Refused
  <2>4. Ready(u)
    BY <2>1, <2>2, <2>3, PushShape DEF Plain, Alone, Openers, Creators, Relocks
  <2>5. User \in FrameRecord /\ FrameRight(User) /\ User.kind = "user"
    BY UserIs, PlainFrame DEF StartKinds, Refused
  <2>6. stack' = Append(u, User)
    BY <1>4
  <2> HIDE DEF u
  <2>7. Shape(Append(u, User))
    BY <2>4, <2>5, PushShape DEF Quiet, Openers, Creators, Relocks
  <2> QED BY <1>2, <2>6, <2>7, ShapePrimed
<1> QED BY <1>1, <1>3, <1>4

LEMMA RetryDirectShape ==
  ASSUME CoreInv, ShapeInv, CalmHere, RetryDirectFails PROVE ShapeInv'
<1>1. /\ Top.kind = "directRetry" /\ ~Locked /\ calls' = calls /\ "createFails" \in Liberties
      /\ stack' = IF count = max THEN Below ELSE Append(Below, Frame("relockTried", Top.on))
  BY DEF RetryDirectFails, At, QueueJob, Allowed
<1>2. Top.on \in Jobs /\ Dumb(calls)
  BY <1>1, TopIs DEF ShapeInv
<1>3. CASE stack' = Below
  BY <1>1, <1>2, <1>3, PopPlain
<1>4. CASE stack' = Append(Below, Frame("relockTried", Top.on))
  <2>1. Plain(Frame("relockTried", Top.on), "relockTried", Top.on)
    BY <1>2, FrameIs DEF FrameKinds
  <2>2. FrameRight(Frame("relockTried", Top.on))
    BY <1>1, <2>1, DumbNothing DEF Plain, FrameRight, StartKinds
  <2>3. Ready(Below) /\ Hushed(Below)
    BY <1>1, PopShape, NoMessages
  <2>4. Unopened(Below)
    <3>1. \A i \in 1 .. Len(stack) : stack[i].kind # "retry"
      BY <1>1, TopIs DEF Locked, LockFrames
    <3>2. \A i \in 1 .. Len(stack) : stack[i].kind \notin Relocks \cup {"onError"}
      BY <1>1, TopIs DEF CoreInv, Good, ShapeInv, Shape, Alone, Relocks
    <3>3. Unopened(stack)
      BY <3>1, <3>2 DEF Unopened, Openers, Creators
    <3> QED BY <1>1, <3>3, PopShape
  <2>5. Shape(Append(Below, Frame("relockTried", Top.on)))
    BY <2>1, <2>2, <2>3, <2>4, PushShape DEF Plain
  <2> QED BY <1>1, <1>2, <1>4, <2>5, ShapePrimed
<1> QED BY <1>1, <1>3, <1>4

LEMMA MainShape ==
  ASSUME CoreInv, ShapeInv, CalmHere, MainStep PROVE ShapeInv'
<1>0. Dumb(calls) /\ Dumb(<<>>)
  BY DumbNothing DEF ShapeInv
<1>1. ASSUME (\E t \in Threads : Create(t)) \/ Failed \/ CountDirect \/ CancelMark \/ WaitOver \/ WaitTimeout
             \/ Return \/ FlushEnd \/ NotifyDone \/ KillDone
      PROVE  ShapeInv'
  <2>1. stack' = Below /\ calls' = calls /\ (Top.kind # "user" \/ Len(stack) > 1)
    BY <1>1 DEF Create, Failed, CountDirect, CancelMark, WaitOver, WaitTimeout, Return, FlushEnd, NotifyDone,
       KillDone, Pop, At
  <2> QED BY <1>0, <2>1, PopPlain
<1>2. ASSUME CreateFails \/ CreateDirectFails \/ WaitFlush PROVE ShapeInv'
  <2>1. CASE CreateFails
    BY <2>1, FlushForms, FlushShape DEF CreateFails, Allowed
  <2>2. CASE CreateDirectFails
    BY <2>2, FlushForms, FlushShape DEF CreateDirectFails, Allowed
  <2>3. CASE WaitFlush
    BY <2>3, FlushForms, FlushShape DEF WaitFlush
  <2> QED BY <1>2, <2>1, <2>2, <2>3
<1>3. ASSUME RetryFailsFeedback \/ WaitAgain \/ \E t \in Threads : CreateDirect(t) PROVE ShapeInv'
  <2>1. CASE RetryFailsFeedback
    BY <2>1, TurnForms, TurnShape DEF RetryFailsFeedback, Allowed, Openers, Creators, Relocks
  <2>2. CASE WaitAgain
    BY <2>2, TurnForms, TurnShape DEF WaitAgain
  <2>3. ASSUME NEW t \in Threads, CreateDirect(t) PROVE ShapeInv'
    BY <2>3, TurnForms, TurnShape DEF CreateDirect
  <2> QED BY <1>3, <2>1, <2>2, <2>3
<1>4. ASSUME LoopFlush PROVE ShapeInv'
  <2>1. Top.kind = "user" /\ Len(stack) = 1 /\ stack' = Append(stack, Flush) /\ calls' = <<>>
    BY <1>4 DEF LoopFlush, At, Push
  <2>2. Hushed(stack)
    <3>1. stack[1].kind = "user"
      BY DEF CoreInv, Good
    <3> QED BY <2>1, <3>1 DEF Hushed
  <2> QED BY <1>0, <2>1, <2>2, FlushRight, PushPlain DEF Alone, Openers, Creators, Relocks
<1>5. ASSUME NotifyKills PROVE ShapeInv'
  <2>1. Top.kind = "notify" /\ Kill(Top.on, Below) /\ calls' = calls
    BY <1>5 DEF NotifyKills, At
  <2>2. Top.on \in Jobs /\ Ready(Below) /\ Hushed(Below)
    BY <2>1, TopIs, PopShape DEF Quiet
  <2> QED BY <2>1, <2>2, FinalShape
<1>6. ASSUME DirectSelfLock PROVE ShapeInv'
  <2>1. stack' = stack /\ calls' = calls
    BY <1>6 DEF DirectSelfLock, SelfLock
  <2> QED BY <2>1, ShapePrimed DEF ShapeInv
<1> QED BY <1>1, <1>2, <1>3, <1>4, <1>5, <1>6, DeliverShape, WrapDoneShape, GiveUpShape, RetryDirectShape DEF MainStep

LEMMA ShapeStep ==
  ASSUME CoreInv, ShapeInv, CalmHere, [Next]_vars PROVE ShapeInv'
<1>1. CASE UNCHANGED vars
  <2>1. stack' = stack /\ calls' = calls
    BY <1>1 DEF vars
  <2> QED BY <2>1, ShapePrimed DEF ShapeInv
<1> QED BY <1>1, UserShape, MainShape, ThreadShape DEF Next

LEMMA ShapeInit ==
  ASSUME Init PROVE ShapeInv
<1>1. User \in FrameRecord /\ User.kind = "user" /\ User.todo = <<>> /\ User.waiting = FALSE
  BY UserIs
<1>2. FrameRight(User)
  BY <1>1, PlainFrame DEF StartKinds, Refused
<1>3. stack = <<User>> /\ calls = <<>>
  BY DEF Init
<1> HIDE DEF User
<1>4. Len(stack) = 1 /\ stack[1] = User
  BY <1>3
<1>5. Shape(stack)
  BY <1>1, <1>2, <1>4 DEF Shape, Alone, Openers, Creators, Relocks
<1> QED BY <1>3, <1>5, DumbNothing DEF ShapeInv
-----------------------------------------------------------------------------
(* The jobs in the hands of the threads.                                   *)
AtWork == {"start", "body", "cleanup"}

Hands(r) == /\ r.pc \notin HoldStates => r.work = None
            /\ r.own /\ r.pc \in HoldStates => r.work \in Direct

Occupied == \A j \in running : \E t \in Threads : Work(t) = j /\ ~thread[t].own /\ thread[t].pc \in AtWork

HandsInv == (\A t \in Threads : Hands(thread[t])) /\ Occupied

LEMMA SetHands ==
  ASSUME CoreInv, HandsInv, NEW t \in Threads, NEW r \in ThreadRecord,
         thread' = [thread EXCEPT ![t] = r], Hands(r), r.own = thread[t].own,
         running' = running \/ (running' = running \cup {Work(t)} /\ r.work = Work(t) /\ ~r.own /\ r.pc \in AtWork)
                            \/ running' = running \ {Work(t)},
         Work(t) \in running' /\ ~thread[t].own /\ thread[t].pc \in AtWork => r.work = Work(t) /\ r.pc \in AtWork
  PROVE  HandsInv'
<1>1. \A u \in Threads : thread'[u] = IF u = t THEN r ELSE thread[u]
  BY DEF CoreInv, Types
<1>2. \A u \in Threads : Hands(thread'[u])
  BY <1>1 DEF HandsInv
<1>3. ASSUME NEW j \in running' PROVE \E u \in Threads : thread'[u].work = j /\ ~thread'[u].own /\ thread'[u].pc \in AtWork
  <2>1. CASE j \in running
    <3>1. PICK u \in Threads : Work(u) = j /\ ~thread[u].own /\ thread[u].pc \in AtWork
      BY <2>1 DEF HandsInv, Occupied
    <3>2. CASE u = t
      BY <1>1, <3>1, <3>2, <1>3
    <3>3. CASE u # t
      BY <1>1, <3>1, <3>3 DEF Work
    <3> QED BY <3>2, <3>3
  <2>2. CASE j \notin running
    BY <1>1, <1>3, <2>2
  <2> QED BY <2>1, <2>2
<1> QED BY <1>2, <1>3 DEF HandsInv, Occupied, Hands, Work

LEMMA SameHands ==
  ASSUME HandsInv, UNCHANGED <<thread, running>> PROVE HandsInv'
BY DEF HandsInv, Occupied, Hands, Work

(* What a step of a thread makes of its record.                            *)
Carried(r, t) == r.work = Work(t) /\ (r.pc \in HoldStates <=> thread[t].pc \in HoldStates)
Carrier(t) == \/ MarkRunning(t) \/ Start(t) \/ Finish(t) \/ LeaveRunning(t) \/ TestOnce(t) \/ TestTwice(t)
              \/ Leave(t) \/ StartDirect(t) \/ Send(t) \/ Reschedule(t) \/ CancelSelf(t) \/ Cut(t)
              \/ (PickShort(t) /\ pendShort = <<>>) \/ (PickFeedback(t) /\ pendFeedback = <<>>)

Becomes1(t, r) == r \in ThreadRecord /\ thread' = [thread EXCEPT ![t] = r] /\ r.own = thread[t].own

LEMMA GoesCarries ==
  ASSUME CoreInv, NEW t \in Threads, NEW p \in WorkStates \cup {"over"}, Goes(t, p),
         p \in HoldStates <=> thread[t].pc \in HoldStates
  PROVE  \E r : Becomes1(t, r) /\ Carried(r, t) /\ r.pc = p
<1> DEFINE r == [thread[t] EXCEPT !.pc = p]
<1>1. thread[t] \in ThreadRecord
  BY Holding
<1>2. r \in ThreadRecord /\ r.pc = p /\ r.work = Work(t) /\ r.own = thread[t].own
  BY <1>1 DEF ThreadRecord, WorkStates, HoldStates, Work
<1>3. thread' = [thread EXCEPT ![t] = r]
  BY DEF Goes
<1> HIDE DEF r
<1> QED BY <1>2, <1>3 DEF Carried, Becomes1

CarriedOn(t) ==
  \E r : /\ Becomes1(t, r) /\ Carried(r, t)
         /\ MarkRunning(t) => r.pc = "start" /\ ~r.own
         /\ ~thread[t].own /\ thread[t].pc \in AtWork => r.pc \in AtWork \/ LeaveRunning(t)

LEMMA CarrierIs ==
  ASSUME CoreInv, NEW t \in Threads, Carrier(t) PROVE CarriedOn(t)
<1> USE DEF In, HoldStates, WorkStates, AtWork
<1>0. thread[t] \in ThreadRecord /\ (thread[t].pc \in PoolStates => ~thread[t].own)
  BY Holding
<1>1. CASE MarkRunning(t)
  <2>1. Goes(t, "start") /\ thread[t].pc = "taken" /\ ~thread[t].own
    BY <1>0, <1>1 DEF MarkRunning, PoolStates
  <2>2. \E r : Becomes1(t, r) /\ Carried(r, t) /\ r.pc = "start"
    BY <2>1, GoesCarries
  <2> QED BY <2>1, <2>2 DEF CarriedOn, Becomes1
<1>2. CASE Start(t) \/ StartDirect(t)
  <2>1. /\ thread[t].pc \in {"start", "direct"} /\ ~MarkRunning(t)
        /\ Goes(t, "cleanup") \/ Goes(t, "body")
    BY <1>2 DEF Start, StartDirect, Enter, MarkRunning
  <2>2. \E r : Becomes1(t, r) /\ Carried(r, t) /\ r.pc \in {"cleanup", "body"}
    BY <2>1, GoesCarries
  <2> QED BY <2>1, <2>2 DEF CarriedOn
<1>3. CASE Finish(t)
  <2>1. thread[t].pc = "body" /\ Goes(t, Cleanup(t)) /\ Cleanup(t) \in {"cleanup", "directEnd"}
        /\ (~thread[t].own => Cleanup(t) = "cleanup")
    BY <1>3 DEF Finish, Cleanup
  <2>2. \E r : Becomes1(t, r) /\ Carried(r, t) /\ r.pc = Cleanup(t)
    BY <2>1, GoesCarries
  <2> QED BY <2>1, <2>2 DEF CarriedOn, MarkRunning
<1>4. CASE LeaveRunning(t)
  <2>1. Goes(t, "requeue") /\ thread[t].pc = "cleanup"
    BY <1>4 DEF LeaveRunning
  <2>2. \E r : Becomes1(t, r) /\ Carried(r, t) /\ r.pc = "requeue"
    BY <2>1, GoesCarries
  <2> QED BY <1>4, <2>1, <2>2 DEF CarriedOn, MarkRunning
<1>5. CASE TestOnce(t) \/ TestTwice(t) \/ Leave(t) \/ (PickShort(t) /\ pendShort = <<>>) \/ (PickFeedback(t) /\ pendFeedback = <<>>)
  <2>1. /\ thread[t].pc \in {"test", "sleep", "leave", "short", "feedback"}
        /\ Goes(t, "sleep") \/ Goes(t, "leave") \/ Goes(t, "short") \/ Goes(t, "over") \/ Goes(t, "feedback") \/ Goes(t, "test")
    BY <1>5 DEF TestOnce, TestTwice, Test, Leave, PickShort, PickFeedback
  <2>2. \E r : Becomes1(t, r) /\ Carried(r, t)
    BY <2>1, GoesCarries
  <2> QED BY <2>1, <2>2 DEF CarriedOn, MarkRunning
<1>6. CASE Send(t) \/ Reschedule(t)
  <2>1. thread[t].pc = "body" /\ thread' = [thread EXCEPT ![t] = thread[t]]
    BY <1>6 DEF Send, Reschedule, CoreInv, Types
  <2> QED BY <1>0, <2>1 DEF CarriedOn, Becomes1, Carried, MarkRunning, Work
<1>7. CASE CancelSelf(t)
  <2> DEFINE r == [thread[t] EXCEPT !.asked = TRUE]
  <2>1. thread[t].pc = "body" /\ thread' = [thread EXCEPT ![t] = r]
    BY <1>7 DEF CancelSelf
  <2>2. r \in ThreadRecord /\ r.pc = thread[t].pc /\ r.work = Work(t) /\ r.own = thread[t].own
    BY <1>0 DEF ThreadRecord, Work
  <2> HIDE DEF r
  <2> QED BY <2>1, <2>2 DEF CarriedOn, Becomes1, Carried, MarkRunning
<1>8. CASE Cut(t)
  <2> DEFINE r == [thread[t] EXCEPT !.pc = Cleanup(t), !.dying = TRUE]
  <2>1. thread[t].pc = "body" /\ thread' = [thread EXCEPT ![t] = r]
    BY <1>8 DEF Cut
  <2>2. /\ r \in ThreadRecord /\ r.work = Work(t) /\ r.own = thread[t].own
        /\ r.pc = IF thread[t].own THEN "directEnd" ELSE "cleanup"
    BY <1>0 DEF ThreadRecord, Work, Cleanup
  <2> HIDE DEF r
  <2> QED BY <2>1, <2>2 DEF CarriedOn, Becomes1, Carried, MarkRunning
<1> QED BY <1>1, <1>2, <1>3, <1>4, <1>5, <1>6, <1>7, <1>8 DEF Carrier

(* It takes a job from a list, or lets go of the one it has.               *)
TakenBy(t, j) == \E r : Becomes1(t, r) /\ r.work = j /\ r.pc = "taken"
LetGo(t)      == \E r : Becomes1(t, r) /\ r.work = None /\ r.pc \notin HoldStates

LEMMA TakerIs ==
  ASSUME CoreInv, NEW t \in Threads
  PROVE  /\ PickShort(t) /\ pendShort # <<>> => TakenBy(t, Head(pendShort))
         /\ PickFeedback(t) /\ pendFeedback # <<>> => TakenBy(t, Head(pendFeedback))
<1>1. ASSUME NEW j \in Jobs, Take(t, j) PROVE TakenBy(t, j)
  <2> DEFINE r == [thread[t] EXCEPT !.pc = "taken", !.work = j]
  <2>1. thread[t] \in ThreadRecord /\ thread' = [thread EXCEPT ![t] = r]
    BY <1>1, Holding DEF Take
  <2>2. r \in ThreadRecord /\ r.pc = "taken" /\ r.work = j /\ r.own = thread[t].own
    BY <2>1 DEF ThreadRecord
  <2> HIDE DEF r
  <2> QED BY <2>1, <2>2 DEF TakenBy, Becomes1
<1>2. (pendShort # <<>> => Head(pendShort) \in Jobs) /\ (pendFeedback # <<>> => Head(pendFeedback) \in Jobs)
  <2>1. pendShort # <<>> => Head(pendShort) \in Short
    BY TailRight DEF CoreInv, Types
  <2>2. pendFeedback # <<>> => Head(pendFeedback) \in Feedback \cup Direct
    BY TailRight DEF CoreInv, Types
  <2> QED BY <2>1, <2>2 DEF Jobs
<1> QED BY <1>1, <1>2 DEF PickShort, PickFeedback

LEMMA LeaverIs ==
  ASSUME CoreInv, NEW t \in Threads, Requeue(t) \/ PostHandler(t) \/ LeaveDirect(t)
  PROVE  LetGo(t) /\ thread[t].pc \in {"requeue", "directEnd"}
<1>0. thread[t] \in ThreadRecord
  BY Holding
<1>1. ASSUME NEW p \in {"leave", "feedback", "test", "over"}, thread' = [thread EXCEPT ![t].pc = p, ![t].work = None]
      PROVE  LetGo(t)
  <2> DEFINE r == [thread[t] EXCEPT !.pc = p, !.work = None]
  <2>1. thread' = [thread EXCEPT ![t] = r]
    BY <1>1
  <2>2. r \in ThreadRecord /\ r.pc = p /\ r.work = None /\ r.own = thread[t].own
    BY <1>0 DEF ThreadRecord
  <2> HIDE DEF r
  <2> QED BY <2>1, <2>2 DEF LetGo, Becomes1, HoldStates
<1>2. NextPlace(t) \in {"leave", "feedback", "test"}
  BY DEF NextPlace
<1>3. CASE Requeue(t) \/ PostHandler(t)
  BY <1>1, <1>2, <1>3 DEF Requeue, PostHandler, Released, In
<1>4. CASE LeaveDirect(t)
  BY <1>1, <1>4 DEF LeaveDirect, In
<1> QED BY <1>3, <1>4

LEMMA HandsThread ==
  ASSUME CoreInv, HandsInv, NEW t \in Threads, ThreadStep(t) \/ FunctionStep(t) PROVE HandsInv'
<1>0. thread[t] \in ThreadRecord /\ Hands(thread[t])
  BY Holding DEF HandsInv
<1>1. CASE Carrier(t)
  <2>1. PICK r : /\ Becomes1(t, r) /\ Carried(r, t)
                 /\ MarkRunning(t) => r.pc = "start" /\ ~r.own
                 /\ ~thread[t].own /\ thread[t].pc \in AtWork => r.pc \in AtWork \/ LeaveRunning(t)
    BY <1>1, CarrierIs DEF CarriedOn
  <2>2. /\ MarkRunning(t) => running' = running \cup {Work(t)}
        /\ LeaveRunning(t) => running' = running \ {Work(t)}
        /\ MarkRunning(t) \/ LeaveRunning(t) \/ running' = running
    BY <1>1 DEF Carrier, MarkRunning, LeaveRunning, Start, Finish, TestOnce, TestTwice, Test, Leave, StartDirect,
      Send, Reschedule, CancelSelf, Cut, PickShort, PickFeedback, pool
  <2>3. r.own = thread[t].own /\ r.work = thread[t].work /\ (r.pc \in HoldStates <=> thread[t].pc \in HoldStates)
    BY <2>1 DEF Carried, Becomes1, Work
  <2>4. Hands(r)
    BY <1>0, <2>3 DEF Hands
  <2>5. r \in ThreadRecord /\ thread' = [thread EXCEPT ![t] = r] /\ r.work = Work(t)
    BY <2>1 DEF Becomes1, Carried
  <2>6. Work(t) \in running' /\ ~thread[t].own /\ thread[t].pc \in AtWork => r.work = Work(t) /\ r.pc \in AtWork
    BY <2>1, <2>2, <2>5
  <2>7. \/ running' = running \/ running' = running \ {Work(t)}
        \/ (running' = running \cup {Work(t)} /\ r.work = Work(t) /\ ~r.own /\ r.pc \in AtWork)
    BY <2>1, <2>2, <2>5 DEF AtWork
  <2> QED BY <2>3, <2>4, <2>5, <2>6, <2>7, SetHands
<1>2. ASSUME NEW j \in Jobs, TakenBy(t, j), PickShort(t) \/ PickFeedback(t) PROVE HandsInv'
  <2>1. PICK r : Becomes1(t, r) /\ r.work = j /\ r.pc = "taken"
    BY <1>2 DEF TakenBy
  <2>2. thread[t].pc \in {"short", "feedback"} /\ ~thread[t].own /\ running' = running
    BY <1>2, Holding DEF PickShort, PickFeedback, In, PoolStates, pool
  <2>3. Hands(r)
    BY <2>1, <2>2 DEF Hands, Becomes1, HoldStates
  <2> QED BY <2>1, <2>2, <2>3, SetHands DEF Becomes1, AtWork
<1>3. CASE Requeue(t) \/ PostHandler(t) \/ LeaveDirect(t)
  <2>1. PICK r : Becomes1(t, r) /\ r.work = None /\ r.pc \notin HoldStates
    BY <1>3, LeaverIs DEF LetGo
  <2>2. running' = running /\ thread[t].pc \notin AtWork
    BY <1>3, LeaverIs DEF Requeue, PostHandler, LeaveDirect, pool, AtWork
  <2>3. Hands(r)
    BY <2>1 DEF Hands
  <2> QED BY <2>1, <2>2, <2>3, SetHands DEF Becomes1
<1>4. CASE PickShort(t) /\ pendShort # <<>>
  BY <1>2, <1>4, TakerIs, TailRight DEF CoreInv, Types, Jobs
<1>5. CASE PickFeedback(t) /\ pendFeedback # <<>>
  BY <1>2, <1>5, TakerIs, TailRight DEF CoreInv, Types, Jobs
<1> QED BY <1>1, <1>3, <1>4, <1>5 DEF ThreadStep, FunctionStep, Carrier

LEMMA HandsStep ==
  ASSUME CoreInv, ShapeInv, HandsInv, [Next]_vars PROVE HandsInv'
<1>1. ASSUME NEW j \in Jobs, Cancel(j) PROVE HandsInv'
  <2>1. running' = running /\ (UNCHANGED thread \/ thread' = [thread EXCEPT ![job[j].self].asked = TRUE])
    BY <1>1 DEF Cancel, AskThread, pool
  <2>2. CASE job[j].self \in Threads /\ thread' = [thread EXCEPT ![job[j].self].asked = TRUE]
    <3> DEFINE t == job[j].self
               r == [thread[t] EXCEPT !.asked = TRUE]
    <3>1. thread[t] \in ThreadRecord /\ Hands(thread[t])
      BY <2>2, Holding DEF HandsInv
    <3>2. r \in ThreadRecord /\ r.pc = thread[t].pc /\ r.work = Work(t) /\ r.own = thread[t].own
      BY <3>1 DEF ThreadRecord, Work
    <3>3. thread' = [thread EXCEPT ![t] = r]
      BY <2>2
    <3> HIDE DEF r, t
    <3>4. t \in Threads
      BY <2>2 DEF t
    <3>5. Hands(r)
      BY <3>1, <3>2 DEF Hands, Work
    <3> QED BY <2>1, <3>2, <3>3, <3>4, <3>5, SetHands
  <2>3. CASE ~(job[j].self \in Threads) \/ UNCHANGED thread
    BY <2>1, <2>3, SameHands DEF CoreInv, Types
  <2> QED BY <2>1, <2>2, <2>3
<1>2. ASSUME NEW t \in Threads, Create(t) PROVE HandsInv'
  <2> DEFINE r == [thread[t] EXCEPT !.pc = "short"]
  <2>1. thread[t] \in ThreadRecord /\ Hands(thread[t]) /\ thread[t].pc = "none" /\ running' = running
        /\ thread' = [thread EXCEPT ![t] = r]
    BY <1>2, Holding DEF HandsInv, Create, StartPool
  <2>2. r \in ThreadRecord /\ r.pc = "short" /\ r.work = Work(t) /\ r.own = thread[t].own
    BY <2>1 DEF ThreadRecord, Work
  <2> HIDE DEF r
  <2>3. Hands(r)
    BY <2>1, <2>2 DEF Hands, Work, HoldStates
  <2> QED BY <2>1, <2>2, <2>3, SetHands DEF AtWork
<1>3. ASSUME NEW t \in Threads, Join(t) PROVE HandsInv'
  <2> DEFINE r == [thread[t] EXCEPT !.pc = "joined"]
  <2>1. thread[t] \in ThreadRecord /\ Hands(thread[t]) /\ thread[t].pc = "over" /\ running' = running
        /\ thread' = [thread EXCEPT ![t] = r]
    BY <1>3, Holding DEF HandsInv, Join, pool
  <2>2. r \in ThreadRecord /\ r.pc = "joined" /\ r.work = Work(t) /\ r.own = thread[t].own
    BY <2>1 DEF ThreadRecord, Work
  <2> HIDE DEF r
  <2>3. Hands(r)
    BY <2>1, <2>2 DEF Hands, Work, HoldStates
  <2> QED BY <2>1, <2>2, <2>3, SetHands DEF AtWork
<1>4. ASSUME NEW t \in Threads, CreateDirect(t) PROVE HandsInv'
  <2> DEFINE r == [thread[t] EXCEPT !.pc = "direct", !.own = TRUE, !.work = Top.on]
  <2>1. thread[t] \in ThreadRecord /\ thread[t].pc = "none" /\ running' = running
        /\ thread' = [thread EXCEPT ![t] = r] /\ Top.kind \in StartKinds
    BY <1>4, Holding DEF CreateDirect, pool, StartKinds, At
  <2>2. Top.on \in Direct
    BY <2>1, PopShape DEF FrameRight, StartKinds
  <2>3. r \in ThreadRecord /\ r.pc = "direct" /\ r.own /\ r.work = Top.on
    BY <2>1, <2>2 DEF ThreadRecord, Jobs
  <2> HIDE DEF r
  <2>4. \A u \in Threads : thread'[u] = IF u = t THEN r ELSE thread[u]
    BY <2>1 DEF CoreInv, Types
  <2>5. \A u \in Threads : Hands(thread'[u])
    <3>1. Hands(r)
      BY <2>2, <2>3 DEF Hands, HoldStates
    <3> QED BY <2>4, <3>1 DEF HandsInv
  <2>6. \A j \in running' : \E u \in Threads : thread'[u].work = j /\ ~thread'[u].own /\ thread'[u].pc \in AtWork
    <3> SUFFICES ASSUME NEW j \in running PROVE \E u \in Threads : thread'[u].work = j /\ ~thread'[u].own /\ thread'[u].pc \in AtWork
      BY <2>1
    <3>1. PICK u \in Threads : Work(u) = j /\ ~thread[u].own /\ thread[u].pc \in AtWork
      BY DEF HandsInv, Occupied
    <3>2. u # t
      BY <2>1, <3>1 DEF AtWork
    <3> QED BY <2>4, <3>1, <3>2 DEF Work
  <2> QED BY <2>5, <2>6 DEF HandsInv, Occupied, Hands, Work
<1>5. CASE UNCHANGED <<thread, running>>
  BY <1>5, SameHands
<1>6. ASSUME UserStep, ~(\E j \in Jobs : Cancel(j)) PROVE UNCHANGED <<thread, running>>
  BY <1>6 DEF UserStep, Run, RunSelfLock, RunDirect, CancelSelfLock, SelfLock, CancelKilled, Wait, MaxSet, pool
<1>7. ASSUME MainStep, ~(\E t \in Threads : Create(t) \/ CreateDirect(t) \/ Join(t)) PROVE UNCHANGED <<thread, running>>
  BY <1>7 DEF MainStep, CreateFails, RetryFails, RetryFailsFeedback, OnError, Failed, CountDirect, CreateDirectFails,
     RetryDirectFails, DirectSelfLock, SelfLock, CancelMark, WaitFlush, WaitAgain, WaitOver, WaitTimeout, WrapDone,
     Return, LoopFlush, FlushEnd, HandlerKeeps, HandlerKills, Notify, NotifyDone, NotifyKills, KillDone, pool
<1> QED BY <1>1, <1>2, <1>3, <1>4, <1>5, <1>6, <1>7, HandsThread DEF Next, vars

LEMMA HandsInit ==
  ASSUME Init PROVE HandsInv
BY DEF Init, HandsInv, Hands, Occupied, HoldStates
-----------------------------------------------------------------------------
(* Where the jobs are.  An activation carries the jobs whose handler it    *)
(* has yet to call, and the one it starts, ends or takes back.             *)
StackSites == {"direct", "todo", "kill", "failed"}

Carries(f, x) ==
  IF x = "todo" THEN Handlers(f.todo)
  ELSE {j \in Jobs : j = f.on /\ f.kind \in (IF x = "direct" THEN StartKinds ELSE {x})}

CarriedIn(s, x) == {j \in Jobs : \E i \in 1 .. Len(s) : j \in Carries(s[i], x)}

Separate(s) ==
  /\ \A i \in 1 .. Len(s) : HandledOnce(s[i].todo)
  /\ \A x \in StackSites : \A i, k \in 1 .. Len(s) :
       \A j \in Jobs : j \in Carries(s[i], x) /\ j \in Carries(s[k], x) => i = k

(* A frame that carries nothing.                                           *)
Light(f) == f.todo = <<>> /\ f.kind \notin StartKinds \cup EndKinds

LEMMA LightIs ==
  ASSUME NEW f, Light(f), NEW x \in StackSites PROVE Carries(f, x) = {} /\ HandledOnce(f.todo)
BY Nothing DEF Light, Carries, EndKinds, StackSites

LEMMA PushCarries ==
  ASSUME NEW s \in Seq(FrameRecord), NEW f \in FrameRecord
  PROVE  /\ \A x \in StackSites : CarriedIn(Append(s, f), x) = CarriedIn(s, x) \cup Carries(f, x)
         /\ Separate(s) /\ HandledOnce(f.todo) /\ (\A x \in StackSites : CarriedIn(s, x) \cap Carries(f, x) = {})
              => Separate(Append(s, f))
<1> DEFINE u == Append(s, f)
<1>1. /\ Len(s) \in Nat /\ Len(u) = Len(s) + 1 /\ u[Len(s) + 1] = f
      /\ \A i \in 1 .. Len(s) : u[i] = s[i]
  OBVIOUS
<1> HIDE DEF u
<1>2. \A i \in 1 .. Len(u) : i \in 1 .. Len(s) \/ i = Len(s) + 1
  BY <1>1
<1>3. (\A i \in 1 .. Len(s) : i \in 1 .. Len(u)) /\ Len(s) + 1 \in 1 .. Len(u)
  BY <1>1
<1>4. ASSUME NEW x \in StackSites PROVE CarriedIn(u, x) = CarriedIn(s, x) \cup Carries(f, x)
  <2>1. Carries(f, x) \subseteq Jobs
    BY DEF Carries, Handlers
  <2> QED BY <1>1, <1>2, <1>3, <2>1 DEF CarriedIn
<1>5. ASSUME Separate(s), HandledOnce(f.todo), \A x \in StackSites : CarriedIn(s, x) \cap Carries(f, x) = {}
      PROVE  Separate(u)
  <2>1. \A i \in 1 .. Len(u) : HandledOnce(u[i].todo)
    BY <1>1, <1>2, <1>5 DEF Separate
  <2>2. ASSUME NEW x \in StackSites, NEW i \in 1 .. Len(u), NEW k \in 1 .. Len(u), NEW j \in Jobs,
               j \in Carries(u[i], x), j \in Carries(u[k], x)
        PROVE  i = k
    <3>1. CASE i \in 1 .. Len(s) /\ k \in 1 .. Len(s)
      BY <1>1, <1>5, <2>2, <3>1 DEF Separate
    <3>2. CASE i \in 1 .. Len(s) /\ k = Len(s) + 1
      BY <1>1, <1>5, <2>2, <3>2 DEF CarriedIn
    <3>3. CASE i = Len(s) + 1 /\ k \in 1 .. Len(s)
      BY <1>1, <1>5, <2>2, <3>3 DEF CarriedIn
    <3> QED BY <1>2, <3>1, <3>2, <3>3
  <2> QED BY <2>1, <2>2 DEF Separate
<1> QED BY <1>4, <1>5 DEF u

LEMMA PushLight ==
  ASSUME NEW s \in Seq(FrameRecord), Separate(s), NEW f \in FrameRecord, Light(f)
  PROVE  /\ Append(s, f) \in Seq(FrameRecord) /\ Separate(Append(s, f))
         /\ \A x \in StackSites : CarriedIn(Append(s, f), x) = CarriedIn(s, x)
<1>1. HandledOnce(f.todo) /\ \A x \in StackSites : Carries(f, x) = {}
  BY LightIs DEF StackSites
<1>2. Append(s, f) \in Seq(FrameRecord)
  OBVIOUS
<1>3. Separate(Append(s, f)) /\ \A x \in StackSites : CarriedIn(Append(s, f), x) = CarriedIn(s, x) \cup Carries(f, x)
  BY <1>1, PushCarries
<1> QED BY <1>1, <1>2, <1>3

LEMMA PopCarries ==
  ASSUME CoreInv, Separate(stack), Top.kind # "user" \/ Len(stack) > 1
  PROVE  /\ Below \in Seq(FrameRecord) /\ Separate(Below) /\ HandledOnce(Top.todo)
         /\ \A x \in StackSites : /\ CarriedIn(Below, x) = CarriedIn(stack, x) \ Carries(Top, x)
                                  /\ Carries(Top, x) \subseteq CarriedIn(stack, x)
<1>1. /\ Below \in Seq(FrameRecord) /\ Len(Below) = Len(stack) - 1 /\ Len(Below) \in Nat
      /\ \A i \in 1 .. Len(Below) : Below[i] = stack[i] /\ i \in 1 .. Len(stack) /\ i < Len(stack)
  BY BelowIs
<1>2. Top = stack[Len(stack)] /\ Len(stack) \in 1 .. Len(stack) /\ Len(stack) \in Nat
  BY TopIs
<1>3. \A i \in 1 .. Len(stack) : i \in 1 .. Len(Below) \/ i = Len(stack)
  BY <1>1, <1>2
<1>4. Separate(Below) /\ HandledOnce(Top.todo)
  BY <1>1, <1>2 DEF Separate
<1>5. ASSUME NEW x \in StackSites
      PROVE  /\ CarriedIn(Below, x) = CarriedIn(stack, x) \ Carries(Top, x)
             /\ Carries(Top, x) \subseteq CarriedIn(stack, x)
  <2>1. Carries(Top, x) \subseteq Jobs
    BY DEF Carries, Handlers
  <2>2. Carries(Top, x) \subseteq CarriedIn(stack, x)
    BY <1>2, <2>1 DEF CarriedIn
  <2>3. ASSUME NEW j \in CarriedIn(Below, x) PROVE j \in CarriedIn(stack, x) /\ j \notin Carries(Top, x)
    <3>1. PICK i \in 1 .. Len(Below) : j \in Jobs /\ j \in Carries(Below[i], x)
      BY DEF CarriedIn
    <3>2. Below[i] = stack[i] /\ i \in 1 .. Len(stack) /\ i # Len(stack)
      BY <1>1, <1>2, <3>1
    <3> QED BY <1>2, <3>1, <3>2 DEF CarriedIn, Separate
  <2>4. ASSUME NEW j \in CarriedIn(stack, x), j \notin Carries(Top, x) PROVE j \in CarriedIn(Below, x)
    BY <1>1, <1>2, <1>3, <2>4 DEF CarriedIn
  <2> QED BY <2>2, <2>3, <2>4
<1> QED BY <1>1, <1>4, <1>5

Held   == {j \in Jobs : \E t \in Threads : Work(t) = j}
Gone   == {j \in Jobs : job[j].mem = "freed"}
New    == {j \in Jobs : job[j].mem = "unborn"}
Killed == {j \in Jobs : job[j].kill}

Sites == StackSites \cup {"new", "short", "feedback", "thread", "call", "messages", "gone"}

Site(x) ==
  IF x = "new" THEN New ELSE IF x = "gone" THEN Gone
  ELSE IF x = "short" THEN Entries(pendShort) ELSE IF x = "feedback" THEN Entries(pendFeedback)
  ELSE IF x = "thread" THEN Held ELSE IF x = "call" THEN Handlers(calls)
  ELSE IF x = "messages" THEN Killed \ (CarriedIn(stack, "kill") \cup Gone)
  ELSE CarriedIn(stack, x)

(* Every job is in one place, and there only once.                         *)
Placement == \A j \in Jobs : \E x \in Sites : \A y \in Sites : j \in Site(y) <=> y = x

OneHolder == \A t, u \in Threads : Work(t) \in Jobs /\ Work(t) = Work(u) => t = u

Single ==
  /\ Distinct(pendShort) /\ Distinct(pendFeedback) /\ HandledOnce(calls) /\ Separate(stack) /\ OneHolder

PlaceInv == Placement /\ Single

LEMMA SiteIs ==
  /\ Site("new") = New /\ Site("gone") = Gone
  /\ Site("short") = Entries(pendShort) /\ Site("feedback") = Entries(pendFeedback)
  /\ Site("thread") = Held /\ Site("call") = Handlers(calls)
  /\ Site("messages") = Killed \ (CarriedIn(stack, "kill") \cup Gone)
  /\ \A x \in StackSites : Site(x) = CarriedIn(stack, x)
  /\ \A x \in Sites : Site(x) \subseteq Jobs
  /\ StackSites \subseteq Sites /\ {"new", "short", "feedback", "thread", "call", "messages", "gone"} \subseteq Sites
<1>1. \A x \in StackSites : Site(x) = CarriedIn(stack, x)
  BY DEF Site, StackSites
<1>2. \A x \in Sites : Site(x) \subseteq Jobs
  BY DEF Site, New, Gone, Entries, Held, Handlers, Killed, CarriedIn
<1> QED BY <1>1, <1>2 DEF Site, Sites

(* The jobs of a set M go from one place to another.                       *)
Moves(M, x, y) ==
  \A z \in Sites : Site(z)' = IF z = x THEN Site(z) \ M ELSE IF z = y THEN Site(z) \cup M ELSE Site(z)

LEMMA MovesKeep ==
  ASSUME Placement, NEW M, NEW x \in Sites, NEW y \in Sites, x # y, M \subseteq Site(x), Moves(M, x, y)
  PROVE  Placement'
<1> SUFFICES ASSUME NEW j \in Jobs PROVE \E a \in Sites : \A b \in Sites : j \in Site(b)' <=> b = a
  BY DEF Placement
<1>1. PICK a \in Sites : \A b \in Sites : j \in Site(b) <=> b = a
  BY DEF Placement
<1>2. CASE j \in M
  BY <1>1, <1>2 DEF Moves
<1>3. CASE j \notin M
  BY <1>1, <1>3 DEF Moves
<1> QED BY <1>2, <1>3

LEMMA StaysKeep ==
  ASSUME Placement, \A z \in Sites : Site(z)' = Site(z) PROVE Placement'
BY DEF Placement

LEMMA Elsewhere ==
  ASSUME Placement, NEW x \in Sites, NEW y \in Sites, x # y PROVE Site(x) \cap Site(y) = {}
BY SiteIs DEF Placement

(* What the places are made of, after a step.                              *)
LEMMA SitesAfter ==
  /\ Site("new")' = New' /\ Site("gone")' = Gone'
  /\ Site("short")' = Entries(pendShort') /\ Site("feedback")' = Entries(pendFeedback')
  /\ Site("thread")' = Held' /\ Site("call")' = Handlers(calls')
  /\ Site("messages")' = Killed' \ (CarriedIn(stack', "kill") \cup Gone')
  /\ \A x \in StackSites : Site(x)' = CarriedIn(stack', x)
<1>1. Entries(pendShort)' = Entries(pendShort') /\ Entries(pendFeedback)' = Entries(pendFeedback')
  BY DEF Entries
<1>2. Handlers(calls)' = Handlers(calls')
  BY DEF Handlers, Ended
<1>3. \A x \in StackSites : CarriedIn(stack, x)' = CarriedIn(stack', x)
  BY DEF CarriedIn, Carries, Handlers, Ended
<1>4. "kill" \in StackSites
  BY DEF StackSites
<1>5. \A x \in StackSites : Site(x)' = CarriedIn(stack, x)'
  BY DEF Site, StackSites
<1> QED BY <1>1, <1>2, <1>3, <1>4, <1>5 DEF Site
(* A stack that carries the jobs the present one carries.                  *)
Bears(s) == /\ s \in Seq(FrameRecord) /\ Separate(s)
            /\ \A x \in StackSites : CarriedIn(s, x) = CarriedIn(stack, x)

LEMMA BearsPushed ==
  ASSUME NEW s, Bears(s), NEW f \in FrameRecord, Light(f) PROVE Bears(Append(s, f))
BY PushLight DEF Bears

LEMMA BearsPopped ==
  ASSUME CoreInv, Single, Light(Top), Top.kind # "user" \/ Len(stack) > 1 PROVE Bears(Below)
<1>1. \A x \in StackSites : Carries(Top, x) = {}
  BY LightIs DEF StackSites
<1> QED BY <1>1, PopCarries DEF Bears, Single

LEMMA BearsSelf ==
  ASSUME CoreInv, Single PROVE Bears(stack)
BY TopIs DEF Bears, Single

(* The threads hold what they held, one more job, or one less.             *)
LEMMA HeldKept ==
  ASSUME CoreInv, Single, NEW t \in Threads, NEW r, thread' = [thread EXCEPT ![t] = r], r.work = Work(t)
  PROVE  Held' = Held /\ OneHolder'
<1>1. \A u \in Threads : thread'[u].work = Work(u)
  BY DEF CoreInv, Types, Work
<1> QED BY <1>1 DEF Held, OneHolder, Single, Work

LEMMA HeldSame ==
  ASSUME Single, UNCHANGED thread PROVE Held' = Held /\ OneHolder'
BY DEF Held, OneHolder, Single, Work

LEMMA HeldTaken ==
  ASSUME CoreInv, Single, NEW t \in Threads, NEW r, thread' = [thread EXCEPT ![t] = r],
         r.work \in Jobs, Work(t) \notin Jobs, r.work \notin Held
  PROVE  Held' = Held \cup {r.work} /\ OneHolder'
<1>1. \A u \in Threads : thread'[u].work = IF u = t THEN r.work ELSE Work(u)
  BY DEF CoreInv, Types, Work
<1>2. Held' = {j \in Jobs : \E u \in Threads : thread'[u].work = j}
  BY DEF Held, Work
<1>3. Held' = Held \cup {r.work}
  BY <1>1, <1>2 DEF Held
<1>4. OneHolder'
  BY <1>1 DEF Held, OneHolder, Single, Work
<1> QED BY <1>3, <1>4

LEMMA HeldLeft ==
  ASSUME CoreInv, Single, NEW t \in Threads, NEW r, thread' = [thread EXCEPT ![t] = r],
         r.work \notin Jobs, Work(t) \in Jobs
  PROVE  Held' = Held \ {Work(t)} /\ OneHolder' /\ Work(t) \in Held
<1>1. \A u \in Threads : thread'[u].work = IF u = t THEN r.work ELSE Work(u)
  BY DEF CoreInv, Types, Work
<1>2. Held' = {j \in Jobs : \E u \in Threads : thread'[u].work = j}
  BY DEF Held, Work
<1>3. Held' = Held \ {Work(t)}
  BY <1>1, <1>2 DEF Held, Single, OneHolder
<1>4. OneHolder'
  BY <1>1 DEF Held, OneHolder, Single, Work
<1> QED BY <1>3, <1>4 DEF Held

(* The state of a job.                                                     *)
SameLives == New' = New /\ Gone' = Gone /\ Killed' = Killed

LEMMA LivesKept ==
  ASSUME CoreInv, NEW j, NEW r, job' = [job EXCEPT ![j] = r], j \in Jobs => r.mem = job[j].mem /\ r.kill = job[j].kill
  PROVE  SameLives
<1>1. \A i \in Jobs : job'[i].mem = job[i].mem /\ job'[i].kill = job[i].kill
  BY DEF CoreInv, Types
<1> QED BY <1>1 DEF SameLives, New, Gone, Killed

LEMMA LivesSame ==
  ASSUME UNCHANGED job PROVE SameLives
BY DEF SameLives, New, Gone, Killed

(* A step that moves no job.                                               *)
SameQueues == /\ UNCHANGED <<pendShort, pendFeedback>>
              /\ Handlers(calls') = Handlers(calls) /\ HandledOnce(calls')

LEMMA QueuesSame ==
  ASSUME Single, UNCHANGED <<pendShort, pendFeedback, calls>> PROVE SameQueues
BY DEF Single, SameQueues

LEMMA SinglePrimed ==
  ASSUME Distinct(pendShort'), Distinct(pendFeedback'), HandledOnce(calls'), Separate(stack'), OneHolder'
  PROVE  Single'
<1>1. Distinct(pendShort)' /\ Distinct(pendFeedback)' /\ HandledOnce(calls)'
  BY DEF Distinct, HandledOnce
<1>2. Separate(stack)' <=> Separate(stack')
  BY DEF Separate, Carries, Handlers, Ended, HandledOnce
<1> QED BY <1>1, <1>2 DEF Single

(* The jobs that had their last callback, or are in it.                    *)
Dead == CarriedIn(stack, "kill") \cup CarriedIn(stack, "failed") \cup Gone

(* The stations of a job: submitted, it waits, is held by a thread, waits  *)
(* again or is over, and then is dead.                                     *)
WaitSites == {"short", "feedback", "direct"}
OverSites == {"call", "todo", "messages"}
DeadSites == {"kill", "failed", "gone"}

Way(x, y) ==
  \/ x = "new" /\ y \in WaitSites
  \/ x \in WaitSites /\ y \in WaitSites \cup {"thread"}
  \/ x = "thread" /\ y \in WaitSites \cup OverSites
  \/ x \in OverSites /\ y \in OverSites
  \/ x \in DeadSites /\ y \in DeadSites

OnTheWay   == \A i \in Jobs : \A x, y \in Sites : i \in Site(x) /\ i \in Site(y)' => x = y \/ Way(x, y)
OthersStay(j) == \A i \in Jobs \ {j} : \A z \in Sites : i \in Site(z)' <=> i \in Site(z)

Calmly  == PlaceInv' /\ Dead' = Dead /\ New' \subseteq New /\ OnTheWay
Ends(j) == PlaceInv' /\ Dead' = Dead \cup {j} /\ New' = New /\ j \notin Dead \cup New /\ OthersStay(j)

LEMMA DeadIs ==
  /\ Dead = Site("kill") \cup Site("failed") \cup Site("gone")
  /\ Dead' = Site("kill")' \cup Site("failed")' \cup Site("gone")'
  /\ Dead' = CarriedIn(stack', "kill") \cup CarriedIn(stack', "failed") \cup Gone'
<1>1. "kill" \in StackSites /\ "failed" \in StackSites
  BY DEF StackSites
<1>2. Dead = Site("kill") \cup Site("failed") \cup Site("gone")
  BY <1>1, SiteIs DEF Dead
<1>3. Dead' = CarriedIn(stack', "kill") \cup CarriedIn(stack', "failed") \cup Gone'
  BY DEF Dead, CarriedIn, Carries, Handlers, Ended
<1> QED BY <1>1, <1>2, <1>3, SitesAfter

LEMMA StaysPut ==
  ASSUME PlaceInv, SameLives, SameQueues, Held' = Held, OneHolder', Bears(stack') PROVE Calmly
<1>0. "kill" \in StackSites /\ "failed" \in StackSites
  BY DEF StackSites
<1>1. \A z \in Sites : Site(z)' = Site(z)
  <2>1. \A z \in StackSites : Site(z)' = Site(z)
    BY SitesAfter, SiteIs DEF Bears
  <2>2. Site("messages")' = Site("messages")
    BY <1>0, SitesAfter, SiteIs DEF Bears, SameLives
  <2> QED BY <2>1, <2>2, SitesAfter, SiteIs DEF Sites, SameLives, SameQueues
<1>2. Placement'
  BY <1>1, StaysKeep DEF PlaceInv
<1>3. Single'
  BY SinglePrimed DEF PlaceInv, Single, SameQueues, Bears
<1>4. Dead' = Dead /\ New' \subseteq New
  BY <1>0, <1>1, DeadIs, SiteIs DEF SameLives
<1>5. OnTheWay
  BY <1>1 DEF OnTheWay, PlaceInv, Placement
<1> QED BY <1>2, <1>3, <1>4, <1>5 DEF PlaceInv, Calmly

(* A step that moves jobs.                                                 *)
Tidy == /\ Distinct(pendShort') /\ Distinct(pendFeedback') /\ HandledOnce(calls') /\ Separate(stack') /\ OneHolder'

LEMMA MovesPlace ==
  ASSUME PlaceInv, NEW M, NEW x \in Sites, NEW y \in Sites, x # y, M \subseteq Site(x), Moves(M, x, y), Tidy
  PROVE  /\ x \notin {"kill", "failed", "gone"} /\ y \notin {"kill", "failed", "gone", "new"} /\ Way(x, y) => Calmly
         /\ x \in {"kill", "failed"} /\ y = "gone" => Calmly
         /\ \A j : x \notin {"kill", "failed", "gone", "new"} /\ y \in {"kill", "failed"} /\ M = {j} => Ends(j)
<1>1. PlaceInv'
  BY MovesKeep, SinglePrimed DEF PlaceInv, Tidy
<1>2. {"kill", "failed", "gone", "new"} \subseteq Sites
  BY DEF Sites, StackSites
<1>3. \A z \in {"kill", "failed", "gone", "new"} :
        Site(z)' = IF z = x THEN Site(z) \ M ELSE IF z = y THEN Site(z) \cup M ELSE Site(z)
  BY <1>2 DEF Moves
<1>4. New' = IF x = "new" THEN New \ M ELSE IF y = "new" THEN New \cup M ELSE New
  BY <1>3, SitesAfter, SiteIs
<1>8. Way(x, y) => OnTheWay
  <2> SUFFICES ASSUME Way(x, y), NEW i \in Jobs, NEW a \in Sites, NEW b \in Sites, i \in Site(a), i \in Site(b)'
               PROVE  a = b \/ Way(a, b)
    BY DEF OnTheWay
  <2>1. \A c \in Sites : i \in Site(c) <=> c = a
    BY DEF PlaceInv, Placement
  <2>2. CASE i \in M
    <3>1. a = x
      BY <2>1, <2>2
    <3>2. b = y
      BY <2>1, <2>2, <3>1 DEF Moves
    <3> QED BY <3>1, <3>2
  <2>3. CASE i \notin M
    BY <2>1, <2>3 DEF Moves
  <2> QED BY <2>2, <2>3
<1>9. \A j : M = {j} => OthersStay(j)
  BY DEF OthersStay, Moves
<1>5. CASE x \notin {"kill", "failed", "gone"} /\ y \notin {"kill", "failed", "gone", "new"} /\ Way(x, y)
  <2>1. Dead' = Dead /\ New' \subseteq New
    BY <1>3, <1>4, <1>5, DeadIs
  <2> QED BY <1>1, <1>5, <1>8, <2>1 DEF Calmly
<1>6. CASE x \in {"kill", "failed"} /\ y = "gone"
  <2>1. Dead' = Dead /\ New' \subseteq New
    BY <1>3, <1>4, <1>6, DeadIs
  <2>2. Way(x, y)
    BY <1>6 DEF Way, DeadSites
  <2> QED BY <1>1, <1>6, <1>8, <2>1, <2>2 DEF Calmly
<1>7. ASSUME NEW j, x \notin {"kill", "failed", "gone", "new"}, y \in {"kill", "failed"}, M = {j} PROVE Ends(j)
  <2>1. Dead' = Dead \cup {j} /\ New' = New
    BY <1>3, <1>4, <1>7, DeadIs
  <2>2. \A z \in {"kill", "failed", "gone", "new"} : j \notin Site(z)
    BY <1>2, <1>7, Elsewhere DEF PlaceInv
  <2>3. j \notin Dead \cup New
    BY <2>2, DeadIs, SiteIs
  <2> QED BY <1>1, <1>7, <1>9, <2>1, <2>3 DEF Ends
<1> QED BY <1>5, <1>6, <1>7

LEMMA MovesCalm ==
  ASSUME PlaceInv, NEW M, NEW x \in Sites, NEW y \in Sites, x # y, M \subseteq Site(x), Moves(M, x, y), Tidy,
         x \notin {"kill", "failed", "gone"}, y \notin {"kill", "failed", "gone", "new"}, Way(x, y)
  PROVE  Calmly
BY MovesPlace

(* The next call of a flush is taken.                                      *)
LEMMA RestBears ==
  ASSUME CoreInv, Single, At("flush"), Top.todo # <<>>
  PROVE  LET M == {j \in Jobs : Ended(Head(Top.todo), j)}
         IN /\ Rest \in Seq(FrameRecord) /\ Separate(Rest)
            /\ M \subseteq CarriedIn(stack, "todo")
            /\ CarriedIn(Rest, "todo") = CarriedIn(stack, "todo") \ M
            /\ \A x \in StackSites \ {"todo"} : CarriedIn(Rest, x) = CarriedIn(stack, x)
<1> DEFINE M == {j \in Jobs : Ended(Head(Top.todo), j)}
<1>1. /\ Top.kind = "flush" /\ Top.todo \in Seq(Call)
      /\ LessOne \in FrameRecord /\ LessOne.kind = "flush" /\ LessOne.todo = Tail(Top.todo)
      /\ Rest = Append(Below, LessOne)
  BY TopIs, LessOneIs DEF At
<1>2. /\ Below \in Seq(FrameRecord) /\ Separate(Below) /\ HandledOnce(Top.todo)
      /\ \A x \in StackSites : /\ CarriedIn(Below, x) = CarriedIn(stack, x) \ Carries(Top, x)
                               /\ Carries(Top, x) \subseteq CarriedIn(stack, x)
  BY <1>1, PopCarries DEF Single
<1>3. Handlers(Tail(Top.todo)) = Handlers(Top.todo) \ M /\ HandledOnce(Tail(Top.todo)) /\ M \subseteq Handlers(Top.todo)
  BY <1>1, <1>2, HandlersTail
<1>4. /\ Carries(Top, "todo") = Handlers(Top.todo) /\ Carries(LessOne, "todo") = Handlers(Top.todo) \ M
      /\ \A x \in StackSites \ {"todo"} : Carries(Top, x) = {} /\ Carries(LessOne, x) = {}
  BY <1>1, <1>3 DEF Carries, StackSites, StartKinds
<1>5. "todo" \in StackSites
  BY DEF StackSites
<1>6. /\ \A x \in StackSites : CarriedIn(Rest, x) = CarriedIn(Below, x) \cup Carries(LessOne, x)
      /\ (\A x \in StackSites : CarriedIn(Below, x) \cap Carries(LessOne, x) = {}) => Separate(Rest)
  BY <1>1, <1>2, <1>3, PushCarries
<1>7. \A x \in StackSites : CarriedIn(Below, x) \cap Carries(LessOne, x) = {}
  BY <1>2, <1>4
<1>8. Rest \in Seq(FrameRecord)
  BY <1>1, <1>2
<1> HIDE DEF M
<1>9. M \subseteq CarriedIn(stack, "todo") /\ CarriedIn(Rest, "todo") = CarriedIn(stack, "todo") \ M
  BY <1>2, <1>3, <1>4, <1>5, <1>6
<1>10. \A x \in StackSites \ {"todo"} : CarriedIn(Rest, x) = CarriedIn(stack, x)
  BY <1>2, <1>4, <1>6
<1> QED BY <1>6, <1>7, <1>8, <1>9, <1>10 DEF M

(* The last callback begins above b.                                       *)
LEMMA KillBears ==
  ASSUME CoreInv, NEW j \in Jobs, NEW b \in Seq(FrameRecord), Separate(b), j \notin CarriedIn(b, "kill"), Kill(j, b)
  PROVE  \/ /\ Separate(stack') /\ CarriedIn(stack', "kill") = CarriedIn(b, "kill") \cup {j}
            /\ \A x \in StackSites \ {"kill"} : CarriedIn(stack', x) = CarriedIn(b, x)
         \/ Broken
<1> DEFINE f == Frame("kill", j)
           c == Append(b, f)
           w == Wrapper(j, job[j].waiter)
<1>0. job[j].waiter \in Nat
  BY DEF CoreInv, Types, JobRec
<1>1. f \in FrameRecord /\ f.kind = "kill" /\ f.on = j /\ f.todo = <<>>
  <2>1. Plain(Frame("kill", j), "kill", j)
    BY FrameIs DEF FrameKinds
  <2> QED BY <2>1 DEF Plain
<1>2. w \in FrameRecord /\ Light(w)
  <2>1. w \in FrameRecord /\ w.kind = "wrap" /\ w.on = j /\ w.todo = <<>> /\ w.waiter = job[j].waiter /\ w.waiting = FALSE
    BY <1>0, WrapperIs
  <2> HIDE DEF w
  <2> QED BY <2>1 DEF Light, StartKinds, EndKinds
<1>3. User \in FrameRecord /\ Light(User)
  BY UserIs DEF Light, StartKinds, EndKinds
<1>4. \/ stack' = Append(c, User) \/ stack' = Append(Append(c, w), User) \/ Broken
  <2>1. LET cc == Append(b, Frame("kill", j))
         IN \/ /\ job[j].func # "wrap"
               /\ Report(j, Outcome(j)) /\ stack' = Append(cc, User)
            \/ /\ job[j].func = "wrap" /\ job[j].waiter # 0 /\ stack[job[j].waiter].func = "user"
               /\ Report(j, Outcome(j)) /\ stack' = Append(Append(cc, Wrapper(j, job[j].waiter)), User)
            \/ Broken
    BY <1>0, KillForms
  <2> QED BY <2>1
<1> HIDE DEF f, w
<1>5. HandledOnce(f.todo) /\ \A x \in StackSites : Carries(f, x) = IF x = "kill" THEN {j} ELSE {}
  BY <1>1, Nothing DEF Carries, StackSites, StartKinds
<1>6. c \in Seq(FrameRecord)
  BY <1>1
<1>7. /\ Separate(c) /\ \A x \in StackSites : CarriedIn(c, x) = CarriedIn(b, x) \cup Carries(f, x)
  BY <1>1, <1>5, PushCarries
<1> HIDE DEF c
<1> DEFINE d == Append(c, w)
<1>8. /\ Separate(Append(c, User))
      /\ \A x \in StackSites : CarriedIn(Append(c, User), x) = CarriedIn(c, x)
  BY <1>3, <1>6, <1>7, PushLight
<1>9. d \in Seq(FrameRecord) /\ Separate(d) /\ \A x \in StackSites : CarriedIn(d, x) = CarriedIn(c, x)
  BY <1>2, <1>6, <1>7, PushLight
<1> HIDE DEF d
<1>10. /\ Separate(Append(d, User))
       /\ \A x \in StackSites : CarriedIn(Append(d, User), x) = CarriedIn(d, x)
  BY <1>3, <1>9, PushLight
<1>11. "kill" \in StackSites
  BY DEF StackSites
<1>12. CASE stack' = Append(c, User)
  BY <1>5, <1>7, <1>8, <1>11, <1>12
<1>13. CASE stack' = Append(d, User)
  BY <1>5, <1>7, <1>9, <1>10, <1>11, <1>13
<1> QED BY <1>4, <1>12, <1>13 DEF d
-----------------------------------------------------------------------------
(* Every step moves each job at most once, and none is lost.               *)
LEMMA PairIs ==
  ASSUME NEW c \in Seq(Call), HandledOnce(c), NEW x \in Call, x.op # "handler"
  PROVE  Handlers(Append(c, x)) = Handlers(c) /\ HandledOnce(Append(c, x))
<1>1. {j \in Jobs : Ended(x, j)} = {}
  BY DEF Ended
<1>2. /\ Handlers(Append(c, x)) = Handlers(c) \cup {j \in Jobs : Ended(x, j)}
      /\ HandledOnce(c) /\ (x.op = "handler" => x.on \in Jobs /\ x.on \notin Handlers(c))
              => HandledOnce(Append(c, x))
  BY HandlersAppend
<1> DEFINE M == {j \in Jobs : Ended(x, j)}
<1> HIDE DEF M
<1>3. Handlers(Append(c, x)) = Handlers(c) \cup M /\ M = {}
  BY <1>1, <1>2 DEF M
<1> QED BY <1>2, <1>3

LEMMA CallsSame ==
  ASSUME CoreInv, Single, NEW x \in Call, x.op # "handler", calls' = Append(calls, x)
  PROVE  Handlers(calls') = Handlers(calls) /\ HandledOnce(calls')
<1>1. calls \in Seq(Call) /\ HandledOnce(calls)
  BY DEF CoreInv, Types, Single
<1>2. Handlers(Append(calls, x)) = Handlers(calls) /\ HandledOnce(Append(calls, x))
  BY <1>1, PairIs
<1> QED BY <1>2

LEMMA CallsMore ==
  ASSUME CoreInv, Single, NEW j \in Jobs, j \notin Handlers(calls)
  PROVE  LET c == Append(calls, Handler(j))
         IN c \in Seq(Call) /\ Handlers(c) = Handlers(calls) \cup {j} /\ HandledOnce(c)
<1>1. Handler(j) \in Call /\ Handler(j).op = "handler" /\ Handler(j).on = j
  BY CallIs
<1>2. {i \in Jobs : Ended(Handler(j), i)} = {j}
  BY <1>1 DEF Ended
<1>3. calls \in Seq(Call) /\ HandledOnce(calls)
  BY DEF CoreInv, Types, Single
<1>4. Append(calls, Handler(j)) \in Seq(Call)
  BY <1>1, <1>3
<1> QED BY <1>1, <1>2, <1>3, <1>4, HandlersAppend

LEMMA CarrierPlace ==
  ASSUME CoreInv, PlaceInv, NEW t \in Threads, Carrier(t) PROVE Calmly
<1>1. PICK r : Becomes1(t, r) /\ Carried(r, t)
  BY CarrierIs DEF CarriedOn
<1>2. Single /\ Held' = Held /\ OneHolder'
  BY <1>1, HeldKept DEF PlaceInv, Becomes1, Carried
<1>3. ThreadStep(t) \/ FunctionStep(t)
  BY DEF Carrier, ThreadStep, FunctionStep
<1>4. stack' = stack /\ Bears(stack)
  BY <1>2, <1>3, ThreadForms, BearsSelf
<1>5. SameLives
  <2>0. thread[t].pc \in HoldStates => Work(t) \in Jobs /\ job[Work(t)] \in JobRec
    BY Holding
  <2>1. CASE Start(t) \/ StartDirect(t)
    <3> DEFINE q == [job[Work(t)] EXCEPT !.self = t]
    <3>1. job' = [job EXCEPT ![Work(t)] = q]
      BY <2>1 DEF Start, StartDirect
    <3>2. job[Work(t)] \in JobRec
      BY <2>0, <2>1 DEF Start, StartDirect, In, HoldStates
    <3>3. q.mem = job[Work(t)].mem /\ q.kill = job[Work(t)].kill
      BY <3>2 DEF JobRec
    <3> HIDE DEF q
    <3> QED BY <3>1, <3>3, LivesKept
  <2>2. CASE Send(t)
    <3> DEFINE q == [job[Work(t)] EXCEPT !.send = @ + 1]
    <3>1. job' = [job EXCEPT ![Work(t)] = q]
      BY <2>2 DEF Send
    <3>2. job[Work(t)] \in JobRec
      BY <2>0, <2>2 DEF Send, In, HoldStates
    <3>3. q.mem = job[Work(t)].mem /\ q.kill = job[Work(t)].kill
      BY <3>2 DEF JobRec
    <3> HIDE DEF q
    <3> QED BY <3>1, <3>3, LivesKept
  <2>3. CASE Reschedule(t)
    <3> DEFINE q == [job[Work(t)] EXCEPT !.reschedule = TRUE]
    <3>1. job' = [job EXCEPT ![Work(t)] = q]
      BY <2>3 DEF Reschedule
    <3>2. job[Work(t)] \in JobRec
      BY <2>0, <2>3 DEF Reschedule, In, HoldStates
    <3>3. q.mem = job[Work(t)].mem /\ q.kill = job[Work(t)].kill
      BY <3>2 DEF JobRec
    <3> HIDE DEF q
    <3> QED BY <3>1, <3>3, LivesKept
  <2>4. CASE CancelSelf(t)
    <3> DEFINE q == [job[Work(t)] EXCEPT !.cancel = TRUE]
    <3>1. job' = [job EXCEPT ![Work(t)] = q]
      BY <2>4 DEF CancelSelf
    <3>2. job[Work(t)] \in JobRec
      BY <2>0, <2>4 DEF CancelSelf, In, HoldStates
    <3>3. q.mem = job[Work(t)].mem /\ q.kill = job[Work(t)].kill
      BY <3>2 DEF JobRec
    <3> HIDE DEF q
    <3> QED BY <3>1, <3>3, LivesKept
  <2>5. CASE ~(Start(t) \/ StartDirect(t) \/ Send(t) \/ Reschedule(t) \/ CancelSelf(t))
    <3>1. UNCHANGED job
      BY <2>5 DEF Carrier, MarkRunning, Finish, LeaveRunning, TestOnce, TestTwice, Test, Leave, Cut, PickShort, PickFeedback
    <3> QED BY <3>1, LivesSame
  <2> QED BY <2>1, <2>2, <2>3, <2>4, <2>5
<1>6. SameQueues
  <2>1. UNCHANGED <<pendShort, pendFeedback>>
    BY DEF Carrier, MarkRunning, Start, Finish, LeaveRunning, TestOnce, TestTwice, Test, Leave, StartDirect,
      Send, Reschedule, CancelSelf, Cut, PickShort, PickFeedback, pend
  <2>2. CASE Leave(t) \/ Send(t)
    <3>1. \E x \in Call : x.op # "handler" /\ calls' = Append(calls, x)
      BY <1>3, <2>2, ThreadForms, CallIs
    <3> QED BY <1>2, <2>1, <3>1, CallsSame DEF SameQueues
  <2>3. CASE ~(Leave(t) \/ Send(t))
    <3>1. UNCHANGED calls
      BY <2>3 DEF Carrier, MarkRunning, Start, Finish, LeaveRunning, TestOnce, TestTwice, Test, StartDirect,
        Reschedule, CancelSelf, Cut, PickShort, PickFeedback
    <3> QED BY <1>2, <2>1, <3>1, QueuesSame
  <2> QED BY <2>2, <2>3
<1> QED BY <1>2, <1>4, <1>5, <1>6, StaysPut

LEMMA TakePlace ==
  ASSUME CoreInv, HandsInv, PlaceInv, NEW t \in Threads,
         (PickShort(t) /\ pendShort # <<>>) \/ (PickFeedback(t) /\ pendFeedback # <<>>)
  PROVE  Calmly
<1>0. Single /\ Work(t) = None /\ None \notin Jobs
  <2>1. thread[t].pc \in {"short", "feedback"}
    BY DEF PickShort, PickFeedback, In
  <2> QED BY <2>1, JobsAssumption DEF PlaceInv, HandsInv, Hands, HoldStates, Work
<1>1. /\ UNCHANGED <<job, calls, stack>> /\ SameLives
      /\ PickShort(t) => pendFeedback' = pendFeedback
      /\ PickFeedback(t) => pendShort' = pendShort
      /\ PickShort(t) /\ pendShort # <<>> => pendShort' = Tail(pendShort)
      /\ PickFeedback(t) /\ pendFeedback # <<>> => pendFeedback' = Tail(pendFeedback)
  BY LivesSame DEF PickShort, PickFeedback, main
<1>2. "thread" \in Sites /\ "short" \in Sites /\ "feedback" \in Sites
  BY DEF Sites
<1>3. CASE PickShort(t) /\ pendShort # <<>>
  <2> DEFINE j == Head(pendShort)
  <2>1. /\ Entries(pendShort') = Entries(pendShort) \ {j} /\ Distinct(pendShort') /\ j \in Entries(pendShort)
        /\ j \in Jobs /\ TakenBy(t, j)
    <3>1. Short \subseteq Jobs /\ pendShort \in Seq(Short) /\ Distinct(pendShort)
      BY <1>0 DEF Jobs, CoreInv, Types, Single
    <3>2. Entries(Tail(pendShort)) = Entries(pendShort) \ {j} /\ Distinct(Tail(pendShort)) /\ j \in Entries(pendShort)
      BY <1>3, <3>1, EntriesTail
    <3>3. TakenBy(t, j)
      BY <1>3, TakerIs
    <3> HIDE DEF j
    <3> QED BY <1>1, <1>3, <3>2, <3>3 DEF Entries
  <2> HIDE DEF j
  <2>2. j \notin Held
    BY <1>2, <2>1, Elsewhere, SiteIs DEF PlaceInv
  <2>3. Held' = Held \cup {j} /\ OneHolder'
    BY <1>0, <2>1, <2>2, HeldTaken DEF TakenBy, Becomes1
  <2>4. Moves({j}, "short", "thread")
    BY <1>1, <1>3, <2>1, <2>3, SitesAfter, SiteIs DEF Moves, SameLives, Sites
  <2>5. Tidy
    BY <1>0, <1>1, <1>3, <2>1, <2>3 DEF Tidy, Single
  <2> QED BY <1>2, <2>1, <2>4, <2>5, MovesCalm, SiteIs DEF Way, WaitSites, OverSites
<1>4. CASE PickFeedback(t) /\ pendFeedback # <<>>
  <2> DEFINE j == Head(pendFeedback)
  <2>1. /\ Entries(pendFeedback') = Entries(pendFeedback) \ {j} /\ Distinct(pendFeedback') /\ j \in Entries(pendFeedback)
        /\ j \in Jobs /\ TakenBy(t, j)
    <3>1. Feedback \cup Direct \subseteq Jobs /\ pendFeedback \in Seq(Feedback \cup Direct) /\ Distinct(pendFeedback)
      BY <1>0 DEF Jobs, CoreInv, Types, Single
    <3>2. Entries(Tail(pendFeedback)) = Entries(pendFeedback) \ {j} /\ Distinct(Tail(pendFeedback)) /\ j \in Entries(pendFeedback)
      BY <1>4, <3>1, EntriesTail
    <3>3. TakenBy(t, j)
      BY <1>4, TakerIs
    <3> HIDE DEF j
    <3> QED BY <1>1, <1>4, <3>2, <3>3 DEF Entries
  <2> HIDE DEF j
  <2>2. j \notin Held
    BY <1>2, <2>1, Elsewhere, SiteIs DEF PlaceInv
  <2>3. Held' = Held \cup {j} /\ OneHolder'
    BY <1>0, <2>1, <2>2, HeldTaken DEF TakenBy, Becomes1
  <2>4. Moves({j}, "feedback", "thread")
    BY <1>1, <1>4, <2>1, <2>3, SitesAfter, SiteIs DEF Moves, SameLives, Sites
  <2>5. Tidy
    BY <1>0, <1>1, <1>4, <2>1, <2>3 DEF Tidy, Single
  <2> QED BY <1>2, <2>1, <2>4, <2>5, MovesCalm, SiteIs DEF Way, WaitSites, OverSites
<1> QED BY <1>3, <1>4

LEMMA EnqueuedIs ==
  ASSUME CoreInv, Single, NEW j \in Jobs, Enqueued(j), j \notin Entries(pendShort), j \notin Entries(pendFeedback)
  PROVE  /\ Distinct(pendShort') /\ Distinct(pendFeedback')
         /\ j \in Short => Entries(pendShort') = Entries(pendShort) \cup {j} /\ pendFeedback' = pendFeedback
         /\ j \notin Short => Entries(pendFeedback') = Entries(pendFeedback) \cup {j} /\ pendShort' = pendShort
<1>1. pendShort \in Seq(Short) /\ pendFeedback \in Seq(Feedback \cup Direct) /\ Distinct(pendShort) /\ Distinct(pendFeedback)
  BY DEF CoreInv, Types, Single
<1>2. CASE j \in Short
  <2>1. /\ Entries(Append(pendShort, j)) = Entries(pendShort) \cup {j}
        /\ Distinct(pendShort) /\ j \notin Entries(pendShort) => Distinct(Append(pendShort, j))
    BY <1>1, <1>2, EntriesAppend
  <2> QED BY <1>1, <1>2, <2>1 DEF Enqueued
<1>3. CASE j \notin Short
  <2>1. j \in Feedback \cup Direct
    BY <1>3 DEF Jobs
  <2>2. /\ Entries(Append(pendFeedback, j)) = Entries(pendFeedback) \cup {j}
        /\ Distinct(pendFeedback) /\ j \notin Entries(pendFeedback) => Distinct(Append(pendFeedback, j))
    BY <1>1, <2>1, EntriesAppend
  <2> QED BY <1>1, <1>3, <2>2 DEF Enqueued
<1> QED BY <1>2, <1>3

LEMMA LeavePlace ==
  ASSUME CoreInv, PlaceInv, NEW t \in Threads, Requeue(t) \/ PostHandler(t) \/ LeaveDirect(t)
  PROVE  Calmly
<1> DEFINE j == Work(t)
<1>0. j \in Jobs /\ job[j] \in JobRec /\ LetGo(t) /\ Single
  BY LeaverIs, Holding DEF HoldStates, PlaceInv
<1> HIDE DEF j
<1>1. Held' = Held \ {j} /\ OneHolder' /\ j \in Held
  <2>1. PICK r : Becomes1(t, r) /\ r.work = None
    BY <1>0 DEF LetGo
  <2> QED BY <1>0, <2>1, HeldLeft, JobsAssumption DEF Becomes1, j
<1>2. j \notin Entries(pendShort) /\ j \notin Entries(pendFeedback) /\ j \notin Handlers(calls)
  BY <1>1, Elsewhere, SiteIs DEF PlaceInv, Sites
<1>3. "thread" \in Sites /\ "short" \in Sites /\ "feedback" \in Sites /\ "call" \in Sites
  BY DEF Sites
<1>4. CASE Requeue(t)
  <2>1. Enqueued(j) /\ UNCHANGED <<calls, stack>> /\ job' = [job EXCEPT ![j].reschedule = FALSE]
    BY <1>4 DEF Requeue, main, j
  <2>2. SameLives
    <3> DEFINE q == [job[j] EXCEPT !.reschedule = FALSE]
    <3>1. job' = [job EXCEPT ![j] = q]
      BY <2>1
    <3>2. q.mem = job[j].mem /\ q.kill = job[j].kill
      BY <1>0 DEF JobRec
    <3> HIDE DEF q
    <3> QED BY <3>1, <3>2, LivesKept
  <2>3. /\ Distinct(pendShort') /\ Distinct(pendFeedback')
        /\ j \in Short => Entries(pendShort') = Entries(pendShort) \cup {j} /\ pendFeedback' = pendFeedback
        /\ j \notin Short => Entries(pendFeedback') = Entries(pendFeedback) \cup {j} /\ pendShort' = pendShort
    BY <1>0, <1>2, <2>1, EnqueuedIs
  <2>4. Tidy
    BY <1>0, <1>1, <2>1, <2>3 DEF Tidy, Single
  <2>5. CASE j \in Short
    <3>1. Moves({j}, "thread", "short")
      BY <1>1, <2>1, <2>2, <2>3, <2>5, SitesAfter, SiteIs DEF Moves, SameLives, Sites
    <3> QED BY <1>1, <1>3, <2>4, <3>1, MovesCalm, SiteIs DEF Way, WaitSites, OverSites
  <2>6. CASE j \notin Short
    <3>1. Moves({j}, "thread", "feedback")
      BY <1>1, <2>1, <2>2, <2>3, <2>6, SitesAfter, SiteIs DEF Moves, SameLives, Sites
    <3> QED BY <1>1, <1>3, <2>4, <3>1, MovesCalm, SiteIs DEF Way, WaitSites, OverSites
  <2> QED BY <2>5, <2>6
<1>5. CASE PostHandler(t) \/ LeaveDirect(t)
  <2>1. /\ UNCHANGED <<job, pendShort, pendFeedback, stack>> /\ SameLives
        /\ calls' = Append(calls, Handler(j)) \/ calls' = Append(Append(calls, Handler(j)), JoinOf(t))
    BY <1>5, LivesSame, ThreadForms DEF PostHandler, LeaveDirect, main, pend, j, ThreadStep
  <2> DEFINE c == Append(calls, Handler(j))
  <2>2. c \in Seq(Call) /\ Handlers(c) = Handlers(calls) \cup {j} /\ HandledOnce(c)
    BY <1>0, <1>2, CallsMore
  <2>3. calls' = c \/ calls' = Append(c, JoinOf(t))
    BY <2>1
  <2> HIDE DEF c
  <2>4. Handlers(calls') = Handlers(calls) \cup {j} /\ HandledOnce(calls')
    <3>1. JoinOf(t) \in Call /\ JoinOf(t).op # "handler"
      BY CallIs
    <3>2. Handlers(Append(c, JoinOf(t))) = Handlers(c) /\ HandledOnce(Append(c, JoinOf(t)))
      BY <2>2, <3>1, PairIs
    <3> QED BY <2>2, <2>3, <3>2
  <2>5. Tidy
    BY <1>0, <1>1, <2>1, <2>4 DEF Tidy, Single
  <2>6. Moves({j}, "thread", "call")
    BY <1>1, <2>1, <2>4, SitesAfter, SiteIs DEF Moves, SameLives, Sites
  <2> QED BY <1>1, <1>3, <2>5, <2>6, MovesCalm, SiteIs DEF Way, WaitSites, OverSites
<1> QED BY <1>4, <1>5

LEMMA ThreadPlace ==
  ASSUME CoreInv, HandsInv, PlaceInv, NEW t \in Threads, ThreadStep(t) \/ FunctionStep(t) PROVE Calmly
<1>1. \/ Carrier(t) \/ (PickShort(t) /\ pendShort # <<>>) \/ (PickFeedback(t) /\ pendFeedback # <<>>)
      \/ Requeue(t) \/ PostHandler(t) \/ LeaveDirect(t)
  BY DEF ThreadStep, FunctionStep, Carrier
<1> QED BY <1>1, CarrierPlace, TakePlace, LeavePlace
LEMMA LightPlain ==
  ASSUME NEW k \in FrameKinds \ (StartKinds \cup EndKinds), NEW j \in Jobs
  PROVE  Frame(k, j) \in FrameRecord /\ Light(Frame(k, j))
<1>1. Plain(Frame(k, j), k, j)
  BY FrameIs
<1> QED BY <1>1 DEF Plain, Light

LEMMA BornIs ==
  ASSUME CoreInv, Placement, NEW j \in Jobs, job[j].mem = "unborn", job' = Born(j)
  PROVE  New' = New \ {j} /\ Gone' = Gone /\ Killed' = Killed /\ j \in New /\ j \notin Held
         /\ j \notin Entries(pendShort) /\ j \notin Entries(pendFeedback)
         /\ \A x \in StackSites : j \notin CarriedIn(stack, x)
<1> DEFINE r == [NewJob EXCEPT !.mem = "live"]
<1>1. r.mem = "live" /\ r.kill = FALSE
  BY DEF NewJob
<1>2. job' = [job EXCEPT ![j] = r]
  BY DEF Born
<1> HIDE DEF r
<1>3. \A i \in Jobs : job'[i] = IF i = j THEN r ELSE job[i]
  BY <1>2 DEF CoreInv, Types
<1>4. j \in New /\ j \in Site("new")
  BY SiteIs DEF New
<1>5. \A x \in Sites : x # "new" => j \notin Site(x)
  BY <1>4, SiteIs, Elsewhere DEF Sites
<1>6. j \notin Gone /\ j \notin Held /\ j \notin Entries(pendShort) /\ j \notin Entries(pendFeedback)
      /\ \A x \in StackSites : j \notin CarriedIn(stack, x)
  <2>1. \A x \in StackSites : x \in Sites /\ x # "new"
    BY DEF StackSites, Sites
  <2>2. \A x \in StackSites : j \notin CarriedIn(stack, x)
    BY <1>5, <2>1, SiteIs
  <2> QED BY <1>5, <2>2, SiteIs DEF Sites
<1>7. j \notin Killed
  <2>1. "kill" \in StackSites /\ "messages" \in Sites
    BY DEF StackSites, Sites
  <2> QED BY <1>5, <1>6, <2>1, SiteIs
<1> QED BY <1>1, <1>3, <1>4, <1>6, <1>7 DEF New, Gone, Killed

LEMMA RunPlace ==
  ASSUME CoreInv, PlaceInv, NEW j \in Jobs, Run(j) PROVE Calmly
<1>1. /\ job[j].mem = "unborn" /\ job' = Born(j) /\ Enqueued(j) /\ UNCHANGED <<calls, thread>> /\ Top.kind = "user"
      /\ stack' = stack \/ stack' = Append(stack, Frame("relock", j))
  BY DEF Run, QueueJob, InUser
<1>2. Single /\ Placement /\ Bears(stack)
  BY BearsSelf DEF PlaceInv
<1>3. Bears(stack')
  <2>1. "relock" \in FrameKinds \ (StartKinds \cup EndKinds)
    BY DEF FrameKinds, StartKinds, EndKinds
  <2> QED BY <1>1, <1>2, <2>1, LightPlain, BearsPushed
<1>4. /\ New' = New \ {j} /\ Gone' = Gone /\ Killed' = Killed /\ j \in New /\ j \notin Held
      /\ j \notin Entries(pendShort) /\ j \notin Entries(pendFeedback)
      /\ \A x \in StackSites : j \notin CarriedIn(stack, x)
  BY <1>1, <1>2, BornIs
<1>5. Held' = Held /\ OneHolder'
  BY <1>1, <1>2, HeldSame
<1>6. /\ Distinct(pendShort') /\ Distinct(pendFeedback')
      /\ j \in Short => Entries(pendShort') = Entries(pendShort) \cup {j} /\ pendFeedback' = pendFeedback
      /\ j \notin Short => Entries(pendFeedback') = Entries(pendFeedback) \cup {j} /\ pendShort' = pendShort
  BY <1>1, <1>2, <1>4, EnqueuedIs
<1>7. Tidy
  BY <1>1, <1>2, <1>3, <1>5, <1>6 DEF Tidy, Single, Bears
<1>8. "new" \in Sites /\ "short" \in Sites /\ "feedback" \in Sites /\ "kill" \in StackSites
  BY DEF Sites, StackSites
<1>9. CASE j \in Short
  <2>1. Moves({j}, "new", "short")
    BY <1>1, <1>3, <1>4, <1>5, <1>6, <1>8, <1>9, SitesAfter, SiteIs DEF Moves, Sites, Bears, StackSites
  <2> QED BY <1>2, <1>4, <1>7, <1>8, <2>1, MovesCalm, SiteIs DEF Way, WaitSites, OverSites
<1>10. CASE j \notin Short
  <2>1. Moves({j}, "new", "feedback")
    BY <1>1, <1>3, <1>4, <1>5, <1>6, <1>8, <1>10, SitesAfter, SiteIs DEF Moves, Sites, Bears, StackSites
  <2> QED BY <1>2, <1>4, <1>7, <1>8, <2>1, MovesCalm, SiteIs DEF Way, WaitSites, OverSites
<1> QED BY <1>9, <1>10

LEMMA RunDirectPlace ==
  ASSUME CoreInv, PlaceInv, NEW j \in Jobs, RunDirect(j) PROVE Calmly
<1> DEFINE f == Frame("direct", j)
<1>1. /\ job[j].mem = "unborn" /\ job' = Born(j) /\ UNCHANGED <<calls, thread, pendShort, pendFeedback>>
      /\ stack' = Append(stack, f)
  BY DEF RunDirect, Push, pend
<1>2. Single /\ Placement
  BY DEF PlaceInv
<1>3. f \in FrameRecord /\ f.kind = "direct" /\ f.on = j /\ f.todo = <<>>
  <2>1. Plain(Frame("direct", j), "direct", j)
    BY FrameIs DEF FrameKinds
  <2> QED BY <2>1 DEF Plain
<1> HIDE DEF f
<1>4. HandledOnce(f.todo) /\ \A x \in StackSites : Carries(f, x) = IF x = "direct" THEN {j} ELSE {}
  BY <1>3, Nothing DEF Carries, StackSites, StartKinds
<1>5. /\ New' = New \ {j} /\ Gone' = Gone /\ Killed' = Killed /\ j \in New /\ j \notin Held
      /\ j \notin Entries(pendShort) /\ j \notin Entries(pendFeedback)
      /\ \A x \in StackSites : j \notin CarriedIn(stack, x)
  BY <1>1, <1>2, BornIs
<1>6. /\ \A x \in StackSites : CarriedIn(stack', x) = CarriedIn(stack, x) \cup Carries(f, x)
      /\ Separate(stack')
  <2>1. stack \in Seq(FrameRecord) /\ Separate(stack)
    BY <1>2, TopIs DEF Single
  <2>2. /\ \A x \in StackSites : CarriedIn(Append(stack, f), x) = CarriedIn(stack, x) \cup Carries(f, x)
        /\ Separate(stack) /\ HandledOnce(f.todo) /\ (\A x \in StackSites : CarriedIn(stack, x) \cap Carries(f, x) = {})
              => Separate(Append(stack, f))
    BY <1>3, <2>1, PushCarries
  <2>3. \A x \in StackSites : CarriedIn(stack, x) \cap Carries(f, x) = {}
    BY <1>4, <1>5
  <2> QED BY <1>1, <1>4, <2>1, <2>2, <2>3
<1>7. Held' = Held /\ OneHolder'
  BY <1>1, <1>2, HeldSame
<1>8. Tidy
  BY <1>1, <1>2, <1>6, <1>7 DEF Tidy, Single
<1>9. "new" \in Sites /\ "direct" \in Sites /\ "kill" \in StackSites /\ "direct" \in StackSites
  BY DEF Sites, StackSites
<1>10. Moves({j}, "new", "direct")
  <2>1. \A z \in StackSites : Site(z)' = IF z = "direct" THEN Site(z) \cup {j} ELSE Site(z)
    BY <1>4, <1>6, SitesAfter, SiteIs
  <2>2. Site("messages")' = Site("messages")
    BY <1>5, <1>9, <2>1, SitesAfter, SiteIs
  <2>3. \A z \in {"short", "feedback", "thread", "call", "gone"} : Site(z)' = Site(z)
    BY <1>1, <1>5, <1>7, SitesAfter, SiteIs
  <2>4. Site("new")' = Site("new") \ {j}
    BY <1>5, SitesAfter, SiteIs
  <2> QED BY <2>1, <2>2, <2>3, <2>4 DEF Moves, Sites, StackSites
<1> QED BY <1>2, <1>5, <1>8, <1>9, <1>10, MovesCalm, SiteIs DEF Way, WaitSites, OverSites

LEMMA UserPlace ==
  ASSUME CoreInv, PlaceInv, UserStep PROVE Calmly
<1>1. Single /\ Bears(stack)
  BY BearsSelf DEF PlaceInv
<1>2. ASSUME NEW j \in Jobs, Cancel(j) PROVE Calmly
  <2>1. UNCHANGED <<job, pendShort, pendFeedback, calls>> /\ stack' = Append(stack, Frame("mark", j))
        /\ (UNCHANGED thread \/ thread' = [thread EXCEPT ![job[j].self].asked = TRUE])
    BY <1>2 DEF Cancel, AskThread, Push, pend
  <2>2. Held' = Held /\ OneHolder'
    <3>1. CASE job[j].self \in Threads /\ thread' = [thread EXCEPT ![job[j].self].asked = TRUE]
      <4> DEFINE t == job[j].self
                 r == [thread[t] EXCEPT !.asked = TRUE]
      <4>1. t \in Threads /\ thread[t] \in ThreadRecord /\ thread' = [thread EXCEPT ![t] = r]
        BY <3>1, Holding
      <4>2. r.work = Work(t)
        BY <4>1 DEF ThreadRecord, Work
      <4> HIDE DEF r, t
      <4> QED BY <1>1, <4>1, <4>2, HeldKept
    <3>2. CASE ~(job[j].self \in Threads) \/ UNCHANGED thread
      BY <1>1, <2>1, <3>2, HeldSame DEF CoreInv, Types
    <3> QED BY <2>1, <3>1, <3>2
  <2>3. Bears(stack')
    <3>1. "mark" \in FrameKinds \ (StartKinds \cup EndKinds)
      BY DEF FrameKinds, StartKinds, EndKinds
    <3> QED BY <1>1, <2>1, <3>1, LightPlain, BearsPushed
  <2> QED BY <1>1, <2>1, <2>2, <2>3, StaysPut, LivesSame, QueuesSame
<1>3. ASSUME NEW j \in Jobs, Wait(j) PROVE Calmly
  <2> DEFINE r == [job[j] EXCEPT !.func = "wrap", !.waiter = Len(stack) + 1]
  <2>1. UNCHANGED <<pendShort, pendFeedback, calls, thread>> /\ stack' = Append(stack, Waiter(j))
        /\ job' = [job EXCEPT ![j] = r]
    BY <1>3 DEF Wait, Push, pend, Waiter
  <2>2. r.mem = job[j].mem /\ r.kill = job[j].kill
    <3>1. job[j] \in JobRec
      BY DEF CoreInv, Types
    <3> QED BY <3>1 DEF JobRec
  <2> HIDE DEF r
  <2>3. Waiter(j) \in FrameRecord /\ Waiter(j).kind = "wait" /\ Waiter(j).todo = <<>>
    BY WaiterIs
  <2>4. Bears(stack')
    BY <1>1, <2>1, <2>3, BearsPushed DEF Light, StartKinds, EndKinds
  <2> QED BY <1>1, <2>1, <2>2, <2>4, StaysPut, LivesKept, QueuesSame, HeldSame
<1>4. ASSUME (\E j \in Jobs : RunSelfLock(j) \/ CancelSelfLock(j) \/ CancelKilled(j)) \/ \E n \in 1 .. MaxLimit : MaxSet(n)
      PROVE  Calmly
  <2>1. UNCHANGED <<job, pendShort, pendFeedback, calls, thread, stack>>
    BY <1>4 DEF RunSelfLock, CancelSelfLock, SelfLock, CancelKilled, MaxSet, pend, main
  <2>2. Bears(stack')
    BY <1>1, <2>1
  <2> QED BY <1>1, <2>1, <2>2, StaysPut, LivesSame, QueuesSame, HeldSame
<1> QED BY <1>2, <1>3, <1>4, RunPlace, RunDirectPlace DEF UserStep
LEMMA LightTurned ==
  ASSUME CoreInv, ShapeInv, Top.kind \notin {"user", "flush"}, NEW k \in FrameKinds \ (StartKinds \cup EndKinds)
  PROVE  Turned(k) \in FrameRecord /\ Light(Turned(k))
<1>1. /\ Turned(k) \in FrameRecord /\ Turned(k).kind = k /\ Turned(k).on = Top.on /\ Turned(k).todo = Top.todo
      /\ Turned(k).waiting = Top.waiting /\ Turned(k).func = Top.func
  BY TurnedIs
<1>2. FrameRight(Top)
  BY PopShape
<1> QED BY <1>1, <1>2 DEF Light, FrameRight

LEMMA LightTop ==
  ASSUME CoreInv, ShapeInv, Top.kind \notin StartKinds \cup EndKinds, Top.kind # "flush" \/ Top.todo = <<>>
  PROVE  Light(Top)
<1>1. FrameRight(Top)
  BY TopIs DEF ShapeInv, Shape
<1> QED BY <1>1 DEF Light, FrameRight

(* Steps that end an activation that carries nothing, or turn it.          *)
LEMMA PopPlace ==
  ASSUME CoreInv, ShapeInv, PlaceInv,
         (\E t \in Threads : Create(t)) \/ CountDirect \/ CancelMark \/ WaitOver \/ WaitTimeout
             \/ Return \/ FlushEnd \/ NotifyDone \/ RetryFailsFeedback \/ WaitAgain
  PROVE  Calmly
<1>0. Single
  BY DEF PlaceInv
<1>1. SameQueues
  <2>1. UNCHANGED <<pendShort, pendFeedback, calls>>
    BY DEF Create, CountDirect, CancelMark, WaitOver, WaitTimeout, Return, FlushEnd, NotifyDone,
         RetryFailsFeedback, WaitAgain, pend
  <2> QED BY <1>0, <2>1, QueuesSame
<1>2. SameLives
  <2>1. ASSUME NEW j \in Jobs, NEW c, job' = [job EXCEPT ![j].cancel = c] PROVE SameLives
    <3> DEFINE r == [job[j] EXCEPT !.cancel = c]
    <3>1. job' = [job EXCEPT ![j] = r]
      BY <2>1
    <3>2. r.mem = job[j].mem /\ r.kill = job[j].kill
      BY DEF CoreInv, Types, JobRec
    <3> HIDE DEF r
    <3> QED BY <3>1, <3>2, LivesKept
  <2>2. ASSUME NEW j \in Jobs, NEW f, Unwrap(j, f) PROVE SameLives
    <3> DEFINE r == [job[j] EXCEPT !.func = f, !.waiter = 0]
    <3>1. job' = [job EXCEPT ![j] = r]
      BY <2>2 DEF Unwrap
    <3>2. r.mem = job[j].mem /\ r.kill = job[j].kill
      BY DEF CoreInv, Types, JobRec
    <3> HIDE DEF r
    <3> QED BY <3>1, <3>2, LivesKept
  <2>3. CASE CancelMark
    <3>1. Top.on \in Jobs /\ job' = [job EXCEPT ![Top.on].cancel = TRUE]
      BY <2>3, TopIs DEF CancelMark, At
    <3> QED BY <2>1, <3>1
  <2>4. CASE WaitTimeout
    <3>1. Top.on \in Jobs /\ Unwrap(Top.on, Top.func)
      BY <2>4, TopIs DEF WaitTimeout, At
    <3> QED BY <2>2, <3>1
  <2>5. CASE ~(CancelMark \/ WaitTimeout)
    <3>1. UNCHANGED job
      BY <2>5 DEF Create, CountDirect, WaitOver, Return, FlushEnd, NotifyDone, RetryFailsFeedback, WaitAgain
    <3> QED BY <3>1, LivesSame
  <2> QED BY <2>3, <2>4, <2>5
<1>3. Held' = Held /\ OneHolder'
  <2>1. ASSUME NEW t \in Threads, Create(t) PROVE Held' = Held /\ OneHolder'
    <3> DEFINE r == [thread[t] EXCEPT !.pc = "short"]
    <3>1. thread[t] \in ThreadRecord /\ thread' = [thread EXCEPT ![t] = r]
      BY <2>1, Holding DEF Create, StartPool
    <3>2. r.work = Work(t)
      BY <3>1 DEF ThreadRecord, Work
    <3> HIDE DEF r
    <3> QED BY <1>0, <3>1, <3>2, HeldKept
  <2>2. CASE ~(\E t \in Threads : Create(t))
    <3>1. UNCHANGED thread
      BY <2>2 DEF CountDirect, CancelMark, WaitOver, WaitTimeout, Return, FlushEnd, NotifyDone,
         RetryFailsFeedback, WaitAgain
    <3> QED BY <1>0, <3>1, HeldSame
  <2> QED BY <2>1, <2>2
<1>4. Bears(stack')
  <2>1. /\ Top.kind \notin StartKinds \cup EndKinds /\ (Top.kind # "flush" \/ Top.todo = <<>>)
        /\ Top.kind # "user" \/ Len(stack) > 1
    BY DEF Create, CountDirect, CancelMark, WaitOver, WaitTimeout, Return, FlushEnd, NotifyDone,
         RetryFailsFeedback, WaitAgain, At, StartKinds, EndKinds
  <2>2. Bears(Below)
    BY <1>0, <2>1, LightTop, BearsPopped
  <2>3. CASE stack' = Below
    BY <2>2, <2>3
  <2>4. CASE RetryFailsFeedback
    <3>1. stack' = Append(Below, Turned("onError")) /\ Top.kind \in {"retry", "relockTried"}
      BY <2>4, TurnForms
    <3>2. Turned("onError") \in FrameRecord /\ Light(Turned("onError"))
      BY <3>1, LightTurned DEF FrameKinds, StartKinds, EndKinds
    <3> QED BY <2>2, <3>1, <3>2, BearsPushed
  <2>5. CASE WaitAgain
    <3>1. stack' = Append(Below, Turned("wait")) /\ Top.kind = "waited"
      BY <2>5, TurnForms
    <3>2. Turned("wait") \in FrameRecord /\ Light(Turned("wait"))
      BY <3>1, LightTurned DEF FrameKinds, StartKinds, EndKinds
    <3> QED BY <2>2, <3>1, <3>2, BearsPushed
  <2> QED BY <2>3, <2>4, <2>5 DEF Create, CountDirect, CancelMark, WaitOver, WaitTimeout, Return, FlushEnd, NotifyDone, Pop
<1> QED BY <1>1, <1>2, <1>3, <1>4, StaysPut

(* A flush takes all the calls.                                            *)
LEMMA FlushBears ==
  ASSUME CoreInv, Single, NEW s \in Seq(FrameRecord), Separate(s),
         \A x \in StackSites : CarriedIn(s, x) = CarriedIn(stack, x),
         CarriedIn(s, "todo") \cap Handlers(calls) = {}, stack' = Append(s, Flush), calls' = <<>>
  PROVE  /\ Separate(stack') /\ Handlers(calls') = {} /\ HandledOnce(calls')
         /\ \A z \in StackSites : CarriedIn(stack', z) = IF z = "todo" THEN CarriedIn(stack, z) \cup Handlers(calls)
                                                         ELSE CarriedIn(stack, z)
<1>1. Flush \in FrameRecord /\ Flush.kind = "flush" /\ Flush.todo = calls /\ Flush.waiting = FALSE
  BY FlushIs
<1> HIDE DEF Flush
<1>2. HandledOnce(Flush.todo) /\ \A x \in StackSites : Carries(Flush, x) = IF x = "todo" THEN Handlers(calls) ELSE {}
  BY <1>1 DEF Carries, StackSites, StartKinds, Single
<1>3. /\ \A x \in StackSites : CarriedIn(Append(s, Flush), x) = CarriedIn(s, x) \cup Carries(Flush, x)
      /\ Separate(s) /\ HandledOnce(Flush.todo) /\ (\A x \in StackSites : CarriedIn(s, x) \cap Carries(Flush, x) = {})
              => Separate(Append(s, Flush))
  BY <1>1, PushCarries
<1>4. \A x \in StackSites : CarriedIn(s, x) \cap Carries(Flush, x) = {}
  BY <1>2
<1> QED BY <1>2, <1>3, <1>4, Nothing

LEMMA FlushPlace ==
  ASSUME CoreInv, ShapeInv, PlaceInv, CreateFails \/ CreateDirectFails \/ WaitFlush \/ LoopFlush
  PROVE  Calmly
<1>0. Single /\ "call" \in Sites /\ "todo" \in Sites /\ "todo" \in StackSites
  BY DEF PlaceInv, Sites, StackSites
<1>1. UNCHANGED <<job, pendShort, pendFeedback, thread>> /\ calls' = <<>>
  BY DEF CreateFails, CreateDirectFails, WaitFlush, LoopFlush, pend
<1>2. CarriedIn(stack, "todo") \cap Handlers(calls) = {}
  BY <1>0, Elsewhere, SiteIs DEF PlaceInv
<1>3. PICK s \in Seq(FrameRecord) : /\ Separate(s) /\ stack' = Append(s, Flush)
                                    /\ \A x \in StackSites : CarriedIn(s, x) = CarriedIn(stack, x)
  <2>1. CASE LoopFlush
    BY <1>0, <2>1, BearsSelf DEF LoopFlush, Push, Bears
  <2>2. CASE CreateFails \/ WaitFlush
    <3>1. PICK k \in {"retry", "waited"} : stack' = Append(Append(Below, Turned(k)), Flush) /\ Top.kind \in {"relock", "wait"}
      BY <2>2, FlushForms
    <3>2. Turned(k) \in FrameRecord /\ Light(Turned(k)) /\ Light(Top)
      BY <3>1, LightTurned, LightTop DEF FrameKinds, StartKinds, EndKinds
    <3>3. Bears(Append(Below, Turned(k)))
      BY <1>0, <3>1, <3>2, BearsPopped, BearsPushed
    <3> QED BY <3>1, <3>3 DEF Bears
  <2>3. CASE CreateDirectFails
    <3> DEFINE f == Turned("directRetry")
               u == Append(Below, f)
    <3>1. stack' = Append(u, Flush) /\ Top.kind = "direct"
      BY <2>3, FlushForms
    <3>2. f \in FrameRecord /\ f.kind = "directRetry" /\ f.on = Top.on /\ f.todo = Top.todo
      <4>1. /\ Turned("directRetry") \in FrameRecord /\ Turned("directRetry").kind = "directRetry"
            /\ Turned("directRetry").on = Top.on /\ Turned("directRetry").todo = Top.todo
            /\ Turned("directRetry").waiting = Top.waiting /\ Turned("directRetry").func = Top.func
        BY TurnedIs DEF FrameKinds
      <4> QED BY <4>1
    <3> HIDE DEF f
    <3>3. /\ Below \in Seq(FrameRecord) /\ Separate(Below) /\ HandledOnce(Top.todo)
          /\ \A x \in StackSites : /\ CarriedIn(Below, x) = CarriedIn(stack, x) \ Carries(Top, x)
                                   /\ Carries(Top, x) \subseteq CarriedIn(stack, x)
      BY <1>0, <3>1, PopCarries DEF Single
    <3>4. \A x \in StackSites : Carries(f, x) = Carries(Top, x)
      BY <3>1, <3>2 DEF Carries, StackSites, StartKinds
    <3>5. /\ \A x \in StackSites : CarriedIn(u, x) = CarriedIn(Below, x) \cup Carries(f, x)
          /\ Separate(Below) /\ HandledOnce(f.todo) /\ (\A x \in StackSites : CarriedIn(Below, x) \cap Carries(f, x) = {})
              => Separate(u)
      BY <3>2, <3>3, PushCarries
    <3>6. \A x \in StackSites : CarriedIn(Below, x) \cap Carries(f, x) = {}
      BY <3>3, <3>4
    <3>7. u \in Seq(FrameRecord)
      BY <3>2, <3>3
    <3> HIDE DEF u
    <3>8. \A x \in StackSites : CarriedIn(u, x) = CarriedIn(stack, x)
      BY <3>3, <3>4, <3>5
    <3> QED BY <3>1, <3>2, <3>3, <3>5, <3>6, <3>7, <3>8
  <2> QED BY <2>1, <2>2, <2>3
<1>4. /\ Separate(stack') /\ Handlers(calls') = {} /\ HandledOnce(calls')
      /\ \A z \in StackSites : CarriedIn(stack', z) = IF z = "todo" THEN CarriedIn(stack, z) \cup Handlers(calls)
                                                         ELSE CarriedIn(stack, z)
  <2>1. CarriedIn(s, "todo") \cap Handlers(calls) = {}
    BY <1>0, <1>2, <1>3
  <2> QED BY <1>0, <1>1, <1>3, <2>1, FlushBears
<1>5. SameLives /\ Held' = Held /\ OneHolder'
  BY <1>0, <1>1, LivesSame, HeldSame
<1>6. Tidy
  BY <1>0, <1>1, <1>4, <1>5 DEF Tidy, Single
<1> DEFINE M == Handlers(calls)
<1>7. M \subseteq Site("call") /\ Handlers(calls') = Handlers(calls) \ M
  BY <1>4, SiteIs
<1>8. \A z \in StackSites : CarriedIn(stack', z) =
           IF z = "call" THEN CarriedIn(stack, z) \ M ELSE IF z = "todo" THEN CarriedIn(stack, z) \cup M ELSE CarriedIn(stack, z)
  BY <1>4 DEF StackSites
<1> HIDE DEF M
<1>9. /\ \A z \in StackSites : Site(z)' = IF z = "call" THEN Site(z) \ M ELSE IF z = "todo" THEN Site(z) \cup M ELSE Site(z)
      /\ Site("call")' = Site("call") \ M
  BY <1>7, <1>8, SitesAfter, SiteIs
<1>10. \A z \in {"short", "feedback", "gone", "new", "thread"} : Site(z)' = Site(z)
  BY <1>1, <1>5, SitesAfter, SiteIs DEF SameLives
<1>11. Site("messages")' = Site("messages")
  <2>1. "kill" \in StackSites
    BY DEF StackSites
  <2>2. CarriedIn(stack', "kill") = CarriedIn(stack, "kill")
    BY <1>8, <2>1
  <2> QED BY <1>5, <2>2, SitesAfter, SiteIs DEF SameLives
<1>12. Moves(M, "call", "todo")
  BY <1>9, <1>10, <1>11 DEF Moves, Sites, StackSites
<1> QED BY <1>0, <1>6, <1>7, <1>12, MovesCalm DEF Way, WaitSites, OverSites
(* A flush executes its next call.                                         *)
LEMMA HeadOf ==
  ASSUME NEW op, NEW x, NextCall(op, x)
  PROVE  /\ At("flush") /\ Top.todo # <<>> /\ Top.kind = "flush"
         /\ {j \in Jobs : Ended(Head(Top.todo), j)} = IF op = "handler" THEN {j \in Jobs : j = x} ELSE {}
<1>1. At("flush") /\ Top.todo # <<>> /\ Top.kind = "flush" /\ Head(Top.todo) = [op |-> op, on |-> x]
  BY DEF NextCall, At
<1> QED BY <1>1 DEF Ended

LEMMA RestTaken ==
  ASSUME CoreInv, Single, NEW j \in Jobs, NextCall("handler", j)
  PROVE  /\ Rest \in Seq(FrameRecord) /\ Separate(Rest) /\ j \in CarriedIn(stack, "todo")
         /\ CarriedIn(Rest, "todo") = CarriedIn(stack, "todo") \ {j}
         /\ \A x \in StackSites \ {"todo"} : CarriedIn(Rest, x) = CarriedIn(stack, x)
<1> DEFINE M == {i \in Jobs : Ended(Head(Top.todo), i)}
<1>1. At("flush") /\ Top.todo # <<>> /\ M = {j}
  <2>1. /\ At("flush") /\ Top.todo # <<>> /\ Top.kind = "flush"
        /\ {i \in Jobs : Ended(Head(Top.todo), i)} = IF "handler" = "handler" THEN {i \in Jobs : i = j} ELSE {}
    BY HeadOf
  <2>2. {i \in Jobs : i = j} = {j}
    OBVIOUS
  <2> QED BY <2>1, <2>2
<1>2. LET N == {i \in Jobs : Ended(Head(Top.todo), i)}
      IN /\ Rest \in Seq(FrameRecord) /\ Separate(Rest)
         /\ N \subseteq CarriedIn(stack, "todo")
         /\ CarriedIn(Rest, "todo") = CarriedIn(stack, "todo") \ N
         /\ \A x \in StackSites \ {"todo"} : CarriedIn(Rest, x) = CarriedIn(stack, x)
  BY <1>1, RestBears
<1>3. /\ Rest \in Seq(FrameRecord) /\ Separate(Rest)
      /\ M \subseteq CarriedIn(stack, "todo")
      /\ CarriedIn(Rest, "todo") = CarriedIn(stack, "todo") \ M
      /\ \A x \in StackSites \ {"todo"} : CarriedIn(Rest, x) = CarriedIn(stack, x)
  BY <1>2
<1> HIDE DEF M
<1> QED BY <1>1, <1>3

LEMMA RestLight ==
  ASSUME CoreInv, Single, NEW op, NEW x, NextCall(op, x), op # "handler" PROVE Bears(Rest)
<1> DEFINE M == {i \in Jobs : Ended(Head(Top.todo), i)}
<1>1. At("flush") /\ Top.todo # <<>> /\ M = {}
  <2>1. /\ At("flush") /\ Top.todo # <<>> /\ Top.kind = "flush"
        /\ {j \in Jobs : Ended(Head(Top.todo), j)} = IF op = "handler" THEN {j \in Jobs : j = x} ELSE {}
    BY HeadOf
  <2> QED BY <2>1
<1>2. LET N == {i \in Jobs : Ended(Head(Top.todo), i)}
      IN /\ Rest \in Seq(FrameRecord) /\ Separate(Rest)
         /\ N \subseteq CarriedIn(stack, "todo")
         /\ CarriedIn(Rest, "todo") = CarriedIn(stack, "todo") \ N
         /\ \A y \in StackSites \ {"todo"} : CarriedIn(Rest, y) = CarriedIn(stack, y)
  BY <1>1, RestBears
<1>3. /\ Rest \in Seq(FrameRecord) /\ Separate(Rest)
      /\ CarriedIn(Rest, "todo") = CarriedIn(stack, "todo") \ M
      /\ \A y \in StackSites \ {"todo"} : CarriedIn(Rest, y) = CarriedIn(stack, y)
  BY <1>2
<1> HIDE DEF M
<1> QED BY <1>1, <1>3 DEF Bears

LEMMA JoinPlace ==
  ASSUME CoreInv, PlaceInv, NEW t \in Threads, Join(t) PROVE Calmly
<1> DEFINE r == [thread[t] EXCEPT !.pc = "joined"]
<1>1. /\ NextCall("join", t) /\ thread' = [thread EXCEPT ![t] = r] /\ stack' = Rest /\ thread[t] \in ThreadRecord
      /\ UNCHANGED <<job, pendShort, pendFeedback, calls>> /\ Single
  BY Holding DEF Join, pend, PlaceInv
<1>2. r.work = Work(t)
  BY <1>1 DEF ThreadRecord, Work
<1> HIDE DEF r
<1>3. Held' = Held /\ OneHolder'
  BY <1>1, <1>2, HeldKept
<1>4. Bears(stack')
  BY <1>1, RestLight
<1> QED BY <1>1, <1>3, <1>4, StaysPut, LivesSame, QueuesSame

LEMMA NotifyPlace ==
  ASSUME CoreInv, PlaceInv, NEW j \in Jobs, Notify(j) PROVE Calmly
<1> DEFINE r == [job[j] EXCEPT !.received = @ + 1]
<1>1. /\ NextCall("notify", j) /\ job' = [job EXCEPT ![j] = r] /\ job[j] \in JobRec
      /\ UNCHANGED <<thread, pendShort, pendFeedback, calls>> /\ Single
  BY DEF Notify, pend, PlaceInv, CoreInv, Types
<1>2. r.mem = job[j].mem /\ r.kill = job[j].kill
  BY <1>1 DEF JobRec
<1> HIDE DEF r
<1>3. Bears(stack')
  <2>1. stack' = Append(Append(Append(Below, LessOne), Frame("notify", j)), User) /\ Rest = Append(Below, LessOne)
    BY NotifyForm DEF Rest, LessOne
  <2>2. Bears(Rest)
    BY <1>1, RestLight
  <2>3. "notify" \in FrameKinds \ (StartKinds \cup EndKinds)
    BY DEF FrameKinds, StartKinds, EndKinds
  <2>4. Frame("notify", j) \in FrameRecord /\ Light(Frame("notify", j))
    BY <2>3, LightPlain
  <2>5. User \in FrameRecord /\ Light(User)
    BY UserIs DEF Light, StartKinds, EndKinds
  <2>6. Bears(Append(Rest, Frame("notify", j)))
    BY <2>2, <2>4, BearsPushed
  <2> QED BY <2>1, <2>5, <2>6, BearsPushed
<1> QED BY <1>1, <1>2, <1>3, StaysPut, LivesKept, QueuesSame, HeldSame

LEMMA HandlerKeepsPlace ==
  ASSUME CoreInv, PlaceInv, NEW j \in Jobs, HandlerKeeps(j) PROVE Calmly
<1>1. /\ NextCall("handler", j) /\ job' = [job EXCEPT ![j].kill = TRUE] /\ stack' = Rest
      /\ UNCHANGED <<thread, pendShort, pendFeedback, calls>> /\ Single
  BY DEF HandlerKeeps, pend, PlaceInv
<1>2. /\ Rest \in Seq(FrameRecord) /\ Separate(Rest) /\ j \in CarriedIn(stack, "todo")
      /\ CarriedIn(Rest, "todo") = CarriedIn(stack, "todo") \ {j}
      /\ \A x \in StackSites \ {"todo"} : CarriedIn(Rest, x) = CarriedIn(stack, x)
  BY <1>1, RestTaken
<1>3. New' = New /\ Gone' = Gone /\ Killed' = Killed \cup {j}
  <2>1. \A i \in Jobs : /\ job'[i].mem = job[i].mem
                        /\ job'[i].kill = IF i = j THEN TRUE ELSE job[i].kill
    BY <1>1 DEF CoreInv, Types, JobRec
  <2> QED BY <2>1 DEF New, Gone, Killed
<1>4. Held' = Held /\ OneHolder'
  BY <1>1, HeldSame
<1>5. {"todo", "kill"} \subseteq StackSites /\ {"todo", "kill", "gone", "messages"} \subseteq Sites
  BY DEF StackSites, Sites
<1>6. j \in Site("todo") /\ j \notin Site("kill") /\ j \notin Site("gone")
  <2>1. j \in Site("todo")
    BY <1>2, <1>5, SiteIs
  <2> QED BY <1>5, <2>1, Elsewhere DEF PlaceInv
<1>7. Tidy
  BY <1>1, <1>2, <1>4 DEF Tidy, Single
<1>8. Moves({j}, "todo", "messages")
  <2>1. \A z \in StackSites : Site(z)' = IF z = "todo" THEN Site(z) \ {j} ELSE Site(z)
    BY <1>1, <1>2, SitesAfter, SiteIs
  <2>2. Site("messages")' = Site("messages") \cup {j}
    <3>1. Site("kill") = CarriedIn(stack, "kill") /\ CarriedIn(stack', "kill") = CarriedIn(stack, "kill")
      BY <1>1, <1>2, <1>5, SiteIs
    <3> QED BY <1>3, <1>6, <3>1, SitesAfter, SiteIs
  <2>3. \A z \in {"short", "feedback", "thread", "call", "gone", "new"} : Site(z)' = Site(z)
    BY <1>1, <1>3, <1>4, SitesAfter, SiteIs
  <2> QED BY <2>1, <2>2, <2>3 DEF Moves, Sites, StackSites
<1> QED BY <1>5, <1>6, <1>7, <1>8, MovesCalm DEF Way, WaitSites, OverSites

(* The last callback of a job begins.                                      *)
LEMMA MovesEnd ==
  ASSUME PlaceInv, NEW j \in Jobs, NEW x \in Sites, NEW y \in {"kill", "failed"}, j \in Site(x), Moves({j}, x, y), Tidy,
         x \notin {"kill", "failed", "gone", "new"}
  PROVE  Ends(j)
<1>1. y \in Sites /\ {j} \subseteq Site(x) /\ x # y
  BY DEF Sites, StackSites
<1> QED BY <1>1, MovesPlace

(* A step that calls it, or breaks the main loop's thread.                 *)
KillsOf(j) == (Ends(j) /\ Report(j, Outcome(j))) \/ (Calmly /\ Broken)

LEMMA KillPlace ==
  ASSUME CoreInv, PlaceInv, NEW j \in Jobs, NEW b \in Seq(FrameRecord), Separate(b), Kill(j, b),
         NEW x \in {"todo", "messages"}, j \in Site(x),
         \A z \in StackSites : CarriedIn(b, z) = CarriedIn(stack, z) \ (IF z = x THEN {j} ELSE {}),
         UNCHANGED <<job, thread, pendShort, pendFeedback, calls>>
  PROVE  KillsOf(j)
<1>1. {"todo", "kill"} \subseteq StackSites /\ {"todo", "kill", "gone", "messages"} \subseteq Sites /\ "messages" \notin StackSites
  BY DEF StackSites, Sites
<1>2. Single /\ SameLives /\ Held' = Held /\ OneHolder'
  BY LivesSame, HeldSame DEF PlaceInv
<1>3. j \notin Site("kill") /\ CarriedIn(b, "kill") = CarriedIn(stack, "kill") /\ Site("kill") = CarriedIn(stack, "kill")
  <2>1. j \notin Site("kill")
    BY <1>1, Elsewhere DEF PlaceInv
  <2>2. CarriedIn(b, "kill") = CarriedIn(stack, "kill") \ (IF "kill" = x THEN {j} ELSE {})
    BY <1>1
  <2> QED BY <1>1, <2>1, <2>2, SiteIs
<1>4. \/ /\ Separate(stack') /\ CarriedIn(stack', "kill") = CarriedIn(b, "kill") \cup {j}
         /\ \A z \in StackSites \ {"kill"} : CarriedIn(stack', z) = CarriedIn(b, z)
      \/ Broken
  BY <1>3, KillBears
<1>5. CASE Broken
  <2>1. stack' = stack /\ Bears(stack)
    BY <1>2, <1>5, BearsSelf DEF Broken
  <2> QED BY <1>2, <1>5, <2>1, StaysPut, QueuesSame DEF KillsOf
<1>6. CASE /\ Separate(stack') /\ CarriedIn(stack', "kill") = CarriedIn(b, "kill") \cup {j} /\ ~Broken
           /\ \A z \in StackSites \ {"kill"} : CarriedIn(stack', z) = CarriedIn(b, z)
  <2>1. Tidy
    BY <1>2, <1>6 DEF Tidy, Single
  <2>2. \A z \in StackSites : Site(z)' = IF z = x THEN Site(z) \ {j} ELSE IF z = "kill" THEN Site(z) \cup {j} ELSE Site(z)
    <3> SUFFICES ASSUME NEW z \in StackSites
                 PROVE  Site(z)' = IF z = x THEN Site(z) \ {j} ELSE IF z = "kill" THEN Site(z) \cup {j} ELSE Site(z)
      OBVIOUS
    <3>1. Site(z)' = CarriedIn(stack', z) /\ Site(z) = CarriedIn(stack, z)
      BY SitesAfter, SiteIs
    <3>2. CASE z = "kill"
      BY <1>3, <1>6, <3>1, <3>2
    <3>3. CASE z # "kill"
      BY <1>6, <3>1, <3>3
    <3> QED BY <3>2, <3>3
  <2>3. Site("messages")' = IF x = "messages" THEN Site("messages") \ {j} ELSE Site("messages")
    <3>1. Site("messages")' = Site("messages") \ {j}
      BY <1>2, <1>3, <1>6, SitesAfter, SiteIs DEF SameLives
    <3>2. x = "todo" => j \notin Site("messages")
      BY <1>1, Elsewhere DEF PlaceInv
    <3> QED BY <3>1, <3>2
  <2>4. \A z \in {"short", "feedback", "thread", "call", "gone", "new"} : Site(z)' = Site(z)
    BY <1>2, SitesAfter, SiteIs DEF SameLives
  <2>5. Moves({j}, x, "kill")
    BY <2>2, <2>3, <2>4 DEF Moves, Sites, StackSites
  <2>6. Ends(j)
    BY <1>1, <2>1, <2>5, MovesEnd
  <2>7. Report(j, Outcome(j))
    <3>1. LET c == Append(b, Frame("kill", j))
         IN \/ /\ job[j].func # "wrap"
               /\ Report(j, Outcome(j)) /\ stack' = Append(c, User)
            \/ /\ job[j].func = "wrap" /\ job[j].waiter # 0 /\ stack[job[j].waiter].func = "user"
               /\ Report(j, Outcome(j)) /\ stack' = Append(Append(c, Wrapper(j, job[j].waiter)), User)
            \/ Broken
      BY KillForms
    <3> QED BY <1>6, <3>1
  <2> QED BY <2>6, <2>7 DEF KillsOf
<1> QED BY <1>4, <1>5, <1>6

LEMMA HandlerKillsPlace ==
  ASSUME CoreInv, PlaceInv, NEW j \in Jobs, HandlerKills(j) PROVE KillsOf(j)
<1>1. /\ NextCall("handler", j) /\ Kill(j, Rest)
      /\ UNCHANGED <<job, thread, pendShort, pendFeedback, calls>> /\ Single
  BY DEF HandlerKills, pend, PlaceInv
<1>2. /\ Rest \in Seq(FrameRecord) /\ Separate(Rest) /\ j \in CarriedIn(stack, "todo")
      /\ CarriedIn(Rest, "todo") = CarriedIn(stack, "todo") \ {j}
      /\ \A x \in StackSites \ {"todo"} : CarriedIn(Rest, x) = CarriedIn(stack, x)
  BY <1>1, RestTaken
<1>3. \A z \in StackSites : CarriedIn(Rest, z) = CarriedIn(stack, z) \ (IF z = "todo" THEN {j} ELSE {})
  BY <1>2
<1>4. j \in Site("todo")
  BY <1>2, SiteIs DEF StackSites
<1> QED BY <1>1, <1>2, <1>3, <1>4, KillPlace

LEMMA NotifyKillsPlace ==
  ASSUME CoreInv, ShapeInv, PlaceInv, NotifyKills, Top.on \notin Dead PROVE Top.on \in Jobs /\ KillsOf(Top.on)
<1>1. /\ Top.kind = "notify" /\ Kill(Top.on, Below) /\ job[Top.on].kill
      /\ UNCHANGED <<job, thread, pendShort, pendFeedback, calls>> /\ Single
  BY DEF NotifyKills, pend, PlaceInv, At
<1>2. Top.on \in Jobs
  BY <1>1, TopIs
<1>3. Bears(Below)
  BY <1>1, LightTop, BearsPopped DEF StartKinds, EndKinds
<1>4. \A z \in StackSites : CarriedIn(Below, z) = CarriedIn(stack, z) \ (IF z = "messages" THEN {Top.on} ELSE {})
  BY <1>3 DEF Bears, StackSites
<1>5. Top.on \in Site("messages")
  BY <1>1, <1>2, SiteIs DEF Dead, Killed
<1>6. Below \in Seq(FrameRecord) /\ Separate(Below)
  BY <1>3 DEF Bears
<1>7. ASSUME NEW j \in Jobs, j = Top.on PROVE KillsOf(j)
  BY <1>1, <1>4, <1>5, <1>6, <1>7, KillPlace
<1> QED BY <1>2, <1>7
(* An activation that starts or ends a job is over.                        *)
LEMMA PopOne ==
  ASSUME CoreInv, ShapeInv, PlaceInv, NEW x \in {"kill", "failed", "direct"},
         Top.kind \in (IF x = "direct" THEN StartKinds ELSE {x})
  PROVE  /\ Top.on \in Jobs /\ Top.on \in Site(x) /\ Below \in Seq(FrameRecord) /\ Separate(Below)
         /\ \A z \in StackSites : CarriedIn(Below, z) = CarriedIn(stack, z) \ (IF z = x THEN {Top.on} ELSE {})
<1>1. Top.kind \in {"kill", "failed", "direct", "directRetry"} /\ x \in StackSites /\ x # "todo"
  BY DEF StartKinds, StackSites
<1>2. Top.on \in Jobs /\ FrameRight(Top) /\ Single
  BY <1>1, TopIs, PopShape DEF PlaceInv
<1>3. Top.todo = <<>>
  BY <1>1, <1>2 DEF FrameRight
<1>4. \A z \in StackSites : Carries(Top, z) = IF z = x THEN {Top.on} ELSE {}
  BY <1>2, <1>3, Nothing DEF Carries, StackSites, StartKinds
<1>5. /\ Below \in Seq(FrameRecord) /\ Separate(Below)
      /\ \A z \in StackSites : /\ CarriedIn(Below, z) = CarriedIn(stack, z) \ Carries(Top, z)
                               /\ Carries(Top, z) \subseteq CarriedIn(stack, z)
  BY <1>1, <1>2, PopCarries DEF Single
<1> QED BY <1>1, <1>2, <1>4, <1>5, SiteIs

(* The memory of a job is released.                                        *)
LEMMA FreedPlace ==
  ASSUME CoreInv, ShapeInv, PlaceInv, KillDone \/ Failed PROVE Calmly
<1>1. /\ stack' = Below /\ job' = [job EXCEPT ![Top.on].mem = "freed"]
      /\ UNCHANGED <<thread, pendShort, pendFeedback, calls>> /\ Single
  BY DEF KillDone, Failed, pend, PlaceInv, Freed, Pop
<1>2. PICK x \in {"kill", "failed"} : Top.kind = x
  BY DEF KillDone, Failed, At
<1>3. /\ Top.on \in Jobs /\ Top.on \in Site(x) /\ Below \in Seq(FrameRecord) /\ Separate(Below)
      /\ \A z \in StackSites : CarriedIn(Below, z) = CarriedIn(stack, z) \ (IF z = x THEN {Top.on} ELSE {})
  BY <1>2, PopOne
<1> DEFINE j == Top.on
<1>4. New' = New \ {j} /\ Gone' = Gone \cup {j} /\ Killed' = Killed
  <2>1. \A i \in Jobs : /\ job'[i].mem = IF i = j THEN "freed" ELSE job[i].mem
                        /\ job'[i].kill = job[i].kill
    BY <1>1 DEF CoreInv, Types, JobRec
  <2> QED BY <1>3, <2>1 DEF New, Gone, Killed
<1>5. {"kill", "failed"} \subseteq StackSites /\ {"kill", "failed", "gone", "messages", "new"} \subseteq Sites
  BY DEF StackSites, Sites
<1>6. j \notin Site("new") /\ j \notin Site("messages") /\ (x = "failed" => j \notin Site("kill"))
  BY <1>3, <1>5, Elsewhere DEF PlaceInv
<1>7. Held' = Held /\ OneHolder'
  BY <1>1, HeldSame
<1>8. Tidy
  BY <1>1, <1>3, <1>7 DEF Tidy, Single
<1> HIDE DEF j
<1>9. Moves({j}, x, "gone")
  <2>1. \A z \in StackSites : Site(z)' = IF z = x THEN Site(z) \ {j} ELSE Site(z)
    <3> SUFFICES ASSUME NEW z \in StackSites PROVE Site(z)' = IF z = x THEN Site(z) \ {j} ELSE Site(z)
      OBVIOUS
    <3>1. Site(z)' = CarriedIn(stack', z) /\ Site(z) = CarriedIn(stack, z)
      BY SitesAfter, SiteIs
    <3>2. CarriedIn(stack', z) = CarriedIn(stack, z) \ (IF z = x THEN {j} ELSE {})
      BY <1>1, <1>3 DEF j
    <3> QED BY <3>1, <3>2
  <2>2. Site("messages")' = Site("messages")
    <3>1. CarriedIn(stack', "kill") = CarriedIn(stack, "kill") \ (IF "kill" = x THEN {j} ELSE {})
      BY <1>1, <1>3, <1>5 DEF j
    <3>2. Site("messages")' = Killed \ (CarriedIn(stack', "kill") \cup (Gone \cup {j}))
      BY <1>4, SitesAfter
    <3>3. Site("messages") = Killed \ (CarriedIn(stack, "kill") \cup Gone)
      BY SiteIs
    <3> QED BY <1>6, <3>1, <3>2, <3>3
  <2>3. \A z \in {"short", "feedback", "thread", "call"} : Site(z)' = Site(z)
    BY <1>1, <1>7, SitesAfter, SiteIs
  <2>4. Site("gone")' = Site("gone") \cup {j} /\ Site("new")' = Site("new")
    <3>1. j \notin Site("new")
      BY <1>6 DEF j
    <3>2. Site("gone")' = Gone' /\ Site("new")' = New' /\ Site("gone") = Gone /\ Site("new") = New
      BY SitesAfter, SiteIs
    <3> QED BY <1>4, <3>1, <3>2
  <2> QED BY <2>1, <2>2, <2>3, <2>4 DEF Moves, Sites, StackSites
<1>10. {j} \subseteq Site(x) /\ x \in Sites /\ x # "gone" /\ "gone" \in Sites
  BY <1>3, <1>5 DEF j
<1> QED BY <1>8, <1>9, <1>10, MovesPlace

(* A job with a thread of its own: the thread has it, or the pool.         *)
LEMMA DirectBears ==
  ASSUME CoreInv, ShapeInv, PlaceInv, Top.kind \in StartKinds, NEW k \in FrameKinds \ (StartKinds \cup EndKinds),
         NEW f \in FrameRecord, Light(f), stack' = Below \/ stack' = Append(Below, f)
  PROVE  /\ Separate(stack')
         /\ \A z \in StackSites : CarriedIn(stack', z) = CarriedIn(stack, z) \ (IF z = "direct" THEN {Top.on} ELSE {})
<1>1. /\ Below \in Seq(FrameRecord) /\ Separate(Below)
      /\ \A z \in StackSites : CarriedIn(Below, z) = CarriedIn(stack, z) \ (IF z = "direct" THEN {Top.on} ELSE {})
  BY PopOne
<1>2. /\ Separate(Append(Below, f))
      /\ \A x \in StackSites : CarriedIn(Append(Below, f), x) = CarriedIn(Below, x)
  BY <1>1, PushLight
<1> QED BY <1>1, <1>2

LEMMA DirectMoves ==
  ASSUME PlaceInv, NEW j \in Jobs, SameLives, Handlers(calls') = Handlers(calls),
         \A z \in StackSites : CarriedIn(stack', z) = CarriedIn(stack, z) \ (IF z = "direct" THEN {j} ELSE {})
  PROVE  /\ \A z \in StackSites : Site(z)' = IF z = "direct" THEN Site(z) \ {j} ELSE Site(z)
         /\ \A z \in {"messages", "call", "gone", "new"} : Site(z)' = Site(z)
<1>1. \A z \in StackSites : Site(z)' = IF z = "direct" THEN Site(z) \ {j} ELSE Site(z)
  <2> SUFFICES ASSUME NEW z \in StackSites PROVE Site(z)' = IF z = "direct" THEN Site(z) \ {j} ELSE Site(z)
    OBVIOUS
  <2>1. Site(z)' = CarriedIn(stack', z) /\ Site(z) = CarriedIn(stack, z)
    BY SitesAfter, SiteIs
  <2> QED BY <2>1
<1>2. Site("messages")' = Site("messages")
  <2>1. "kill" \in StackSites
    BY DEF StackSites
  <2>2. CarriedIn(stack', "kill") = CarriedIn(stack, "kill") \ (IF "kill" = "direct" THEN {j} ELSE {})
    BY <2>1
  <2> QED BY <2>2, SitesAfter, SiteIs DEF SameLives
<1> QED BY <1>1, <1>2, SitesAfter, SiteIs DEF SameLives

LEMMA CreateDirectPlace ==
  ASSUME CoreInv, ShapeInv, HandsInv, PlaceInv, NEW t \in Threads, CreateDirect(t) PROVE Calmly
<1> DEFINE r == [thread[t] EXCEPT !.pc = "direct", !.own = TRUE, !.work = Top.on]
           f == Turned("counted")
           j == Top.on
<1>1. /\ thread[t].pc = "none" /\ thread' = [thread EXCEPT ![t] = r] /\ thread[t] \in ThreadRecord
      /\ stack' = Append(Below, f) /\ Top.kind \in StartKinds
      /\ UNCHANGED <<job, pendShort, pendFeedback, calls>> /\ Single
  BY TurnForms, Holding DEF CreateDirect, pend, PlaceInv
<1>2. r.work = j
  BY <1>1 DEF ThreadRecord
<1>3. f \in FrameRecord /\ Light(f)
  <2>1. Top.kind \notin {"user", "flush"} /\ "counted" \in FrameKinds \ (StartKinds \cup EndKinds)
    BY <1>1 DEF StartKinds, EndKinds, FrameKinds
  <2> QED BY <2>1, LightTurned
<1>4. j \in Jobs /\ j \in Site("direct")
  BY <1>1, PopOne
<1> HIDE DEF r, f, j
<1>5. /\ Separate(stack')
      /\ \A z \in StackSites : CarriedIn(stack', z) = CarriedIn(stack, z) \ (IF z = "direct" THEN {j} ELSE {})
  <2>1. "counted" \in FrameKinds \ (StartKinds \cup EndKinds)
    BY DEF StartKinds, EndKinds, FrameKinds
  <2> QED BY <1>1, <1>3, <2>1, DirectBears DEF j
<1>6. "direct" \in Sites /\ "thread" \in Sites
  BY DEF Sites, StackSites
<1>7. j \notin Held
  <2>1. j \notin Site("thread")
    BY <1>4, <1>6, Elsewhere DEF PlaceInv
  <2> QED BY <2>1, SiteIs
<1>8. Work(t) = None /\ None \notin Jobs
  BY <1>1, JobsAssumption DEF HandsInv, Hands, HoldStates, Work
<1>9. Held' = Held \cup {j} /\ OneHolder'
  BY <1>1, <1>2, <1>4, <1>7, <1>8, HeldTaken
<1>10. Tidy
  BY <1>1, <1>5, <1>9 DEF Tidy, Single
<1>11. Moves({j}, "direct", "thread")
  <2>1. /\ \A z \in StackSites : Site(z)' = IF z = "direct" THEN Site(z) \ {j} ELSE Site(z)
        /\ \A z \in {"messages", "call", "gone", "new"} : Site(z)' = Site(z)
    BY <1>1, <1>4, <1>5, LivesSame, DirectMoves
  <2>2. Site("thread")' = Site("thread") \cup {j} /\ \A z \in {"short", "feedback"} : Site(z)' = Site(z)
    BY <1>1, <1>9, SitesAfter, SiteIs
  <2> QED BY <2>1, <2>2 DEF Moves, Sites, StackSites
<1> QED BY <1>4, <1>6, <1>10, <1>11, MovesCalm DEF Way, WaitSites, OverSites

LEMMA RetryDirectPlace ==
  ASSUME CoreInv, ShapeInv, PlaceInv, RetryDirectFails PROVE Calmly
<1> DEFINE f == Frame("relockTried", Top.on)
           j == Top.on
<1>1. /\ Enqueued(j) /\ (stack' = Below \/ stack' = Append(Below, f)) /\ Top.kind = "directRetry"
      /\ UNCHANGED <<job, thread, calls>> /\ Single
  BY DEF RetryDirectFails, QueueJob, At, PlaceInv
<1>2. j \in Jobs /\ j \in Site("direct") /\ j \notin Short
  <2>1. Top.kind \in (IF "direct" = "direct" THEN StartKinds ELSE {"direct"})
    BY <1>1 DEF StartKinds
  <2>2. FrameRight(Top)
    BY <1>1, PopShape
  <2> QED BY <1>1, <2>1, <2>2, PopOne, JobsAssumption DEF FrameRight, StartKinds
<1>3. f \in FrameRecord /\ Light(f) /\ "relockTried" \in FrameKinds \ (StartKinds \cup EndKinds)
  <2>1. "relockTried" \in FrameKinds \ (StartKinds \cup EndKinds)
    BY DEF StartKinds, EndKinds, FrameKinds
  <2> QED BY <1>2, <2>1, LightPlain
<1> HIDE DEF f, j
<1>4. /\ Separate(stack')
      /\ \A z \in StackSites : CarriedIn(stack', z) = CarriedIn(stack, z) \ (IF z = "direct" THEN {j} ELSE {})
  <2>1. Top.kind \in StartKinds
    BY <1>1 DEF StartKinds
  <2> QED BY <1>1, <1>3, <2>1, DirectBears DEF j
<1>5. "direct" \in Sites /\ "feedback" \in Sites /\ "short" \in Sites
  BY DEF Sites, StackSites
<1>6. j \notin Entries(pendShort) /\ j \notin Entries(pendFeedback)
  <2>1. j \notin Site("short") /\ j \notin Site("feedback")
    BY <1>2, <1>5, Elsewhere DEF PlaceInv
  <2> QED BY <2>1, SiteIs
<1>7. /\ Distinct(pendShort') /\ Distinct(pendFeedback')
      /\ j \in Short => Entries(pendShort') = Entries(pendShort) \cup {j} /\ pendFeedback' = pendFeedback
      /\ j \notin Short => Entries(pendFeedback') = Entries(pendFeedback) \cup {j} /\ pendShort' = pendShort
  BY <1>1, <1>2, <1>6, EnqueuedIs
<1>8. Held' = Held /\ OneHolder'
  BY <1>1, HeldSame
<1>9. Tidy
  BY <1>1, <1>4, <1>7, <1>8 DEF Tidy, Single
<1>10. Moves({j}, "direct", "feedback")
  <2>1. /\ \A z \in StackSites : Site(z)' = IF z = "direct" THEN Site(z) \ {j} ELSE Site(z)
        /\ \A z \in {"messages", "call", "gone", "new"} : Site(z)' = Site(z)
    BY <1>1, <1>2, <1>4, LivesSame, DirectMoves
  <2>2. Site("feedback")' = Site("feedback") \cup {j} /\ \A z \in {"short", "thread"} : Site(z)' = Site(z)
    BY <1>2, <1>7, <1>8, SitesAfter, SiteIs
  <2> QED BY <2>1, <2>2 DEF Moves, Sites, StackSites
<1> QED BY <1>2, <1>5, <1>9, <1>10, MovesCalm DEF Way, WaitSites, OverSites

(* A wrapper tells its waiter; nothing else in the stack changes.          *)
LEMMA WrapDoneForm ==
  ASSUME CoreInv, WrapDone
  PROVE  /\ Top.kind = "wrap" /\ Top.on \in Jobs /\ Top.waiter \in 1 .. Len(Below) /\ stack[Top.waiter].on = Top.on
         /\ stack' \in Seq(FrameRecord) /\ Len(stack') = Len(Below) /\ Len(Below) \in Nat
         /\ \A m \in 1 .. Len(Below) :
              /\ stack'[m].kind = Below[m].kind /\ stack'[m].on = Below[m].on /\ stack'[m].todo = Below[m].todo
              /\ stack'[m].func = Below[m].func /\ stack'[m].waiter = Below[m].waiter
              /\ stack'[m].waiting = IF m = Top.waiter THEN FALSE ELSE Below[m].waiting
<1> DEFINE i == Top.waiter
           u == [Below EXCEPT ![i].waiting = FALSE]
           f == [Below[i] EXCEPT !.waiting = FALSE]
<1>1. Top.kind = "wrap" /\ stack' = u
  BY DEF WrapDone, At
<1>2. /\ Below \in Seq(FrameRecord) /\ Len(Below) = Len(stack) - 1 /\ Len(Below) \in Nat
  BY <1>1, BelowIs
<1>3. i \in 1 .. Len(Below) /\ stack[i].on = Top.on /\ Top.on \in Jobs
  <2>1. Len(stack) \in 1 .. Len(stack) /\ Top = stack[Len(stack)] /\ Top.on \in Jobs
    BY <1>1, TopIs
  <2>2. i \in 1 .. Len(stack) - 1 /\ stack[i].on = Top.on
    BY <1>1, <2>1 DEF CoreInv, Good
  <2> QED BY <1>2, <2>1, <2>2
<1> HIDE DEF i
<1>4. Below[i] \in FrameRecord
  BY <1>2, <1>3
<1>5. /\ f \in FrameRecord /\ f.kind = Below[i].kind /\ f.on = Below[i].on /\ f.waiter = Below[i].waiter
      /\ f.todo = Below[i].todo /\ f.func = Below[i].func /\ f.waiting = FALSE
  BY <1>4 DEF FrameRecord
<1>6. u = [Below EXCEPT ![i] = f]
  OBVIOUS
<1> HIDE DEF f, u
<1>7. /\ u \in Seq(FrameRecord) /\ Len(u) = Len(Below)
      /\ \A k \in 1 .. Len(Below) : u[k] = IF k = i THEN f ELSE Below[k]
  BY <1>2, <1>3, <1>5, <1>6, ExceptSeq
<1> QED BY <1>1, <1>2, <1>3, <1>5, <1>7 DEF i

LEMMA SameFrames ==
  ASSUME NEW s, Bears(s), NEW u \in Seq(FrameRecord), Len(u) = Len(s),
         \A m \in 1 .. Len(s) : u[m].kind = s[m].kind /\ u[m].on = s[m].on /\ u[m].todo = s[m].todo
  PROVE  Bears(u)
<1>1. \A x \in StackSites : \A m \in 1 .. Len(u) : Carries(u[m], x) = Carries(s[m], x)
  BY DEF Carries
<1>2. \A x \in StackSites : CarriedIn(u, x) = CarriedIn(s, x)
  BY <1>1 DEF CarriedIn
<1>3. Separate(s)
  BY DEF Bears
<1>4. \A m \in 1 .. Len(u) : HandledOnce(u[m].todo)
  BY <1>3 DEF Separate
<1>5. \A x \in StackSites : \A m, k \in 1 .. Len(u) :
             \A j \in Jobs : j \in Carries(u[m], x) /\ j \in Carries(u[k], x) => m = k
  BY <1>1, <1>3 DEF Separate
<1> QED BY <1>2, <1>4, <1>5 DEF Bears, Separate

LEMMA WrapDonePlace ==
  ASSUME CoreInv, ShapeInv, PlaceInv, WrapDone PROVE Calmly
<1> DEFINE g == stack[Top.waiter].func
           r == [job[Top.on] EXCEPT !.func = g, !.waiter = 0]
<1>1. /\ UNCHANGED <<calls, thread, pendShort, pendFeedback>>
      /\ job' = [job EXCEPT ![Top.on] = r] /\ Single
  BY DEF WrapDone, At, Unwrap, pend, PlaceInv
<1>2. /\ Top.kind = "wrap" /\ Top.on \in Jobs /\ stack' \in Seq(FrameRecord) /\ Len(stack') = Len(Below)
      /\ \A m \in 1 .. Len(Below) :
           stack'[m].kind = Below[m].kind /\ stack'[m].on = Below[m].on /\ stack'[m].todo = Below[m].todo
  BY WrapDoneForm
<1>3. job[Top.on] \in JobRec
  BY <1>2 DEF CoreInv, Types
<1>4. r.mem = job[Top.on].mem /\ r.kill = job[Top.on].kill
  BY <1>3 DEF JobRec
<1> HIDE DEF r
<1>5. SameLives
  BY <1>1, <1>2, <1>4, LivesKept
<1>6. Bears(Below)
  BY <1>1, <1>2, LightTop, BearsPopped DEF StartKinds, EndKinds
<1>7. Bears(stack')
  BY <1>2, <1>6, SameFrames
<1> QED BY <1>1, <1>5, <1>7, StaysPut, QueuesSame, HeldSame

LEMMA SelfLockPlace ==
  ASSUME CoreInv, PlaceInv, DirectSelfLock PROVE Calmly
<1>1. UNCHANGED <<job, pendShort, pendFeedback, calls, thread, stack>> /\ Single
  BY DEF DirectSelfLock, SelfLock, pend, PlaceInv
<1>2. Bears(stack')
  BY <1>1, BearsSelf
<1> QED BY <1>1, <1>2, StaysPut, LivesSame, QueuesSame, HeldSame
(* A job for which no thread could be had is taken back.                   *)
GivesOf(j) == (Ends(j) /\ Report(j, "cancel")) \/ (Calmly /\ UNCHANGED ghost)

LEMMA DroppedIs ==
  ASSUME CoreInv, Single, NEW j \in Jobs, Dropped(j)
  PROVE  /\ Distinct(pendShort') /\ Entries(pendShort') = Entries(pendShort) \ {j}
         /\ Distinct(pendFeedback') /\ Entries(pendFeedback') = Entries(pendFeedback) \ {j}
<1>1. pendShort \in Seq(Short) /\ pendFeedback \in Seq(Feedback \cup Direct) /\ Distinct(pendShort) /\ Distinct(pendFeedback)
  BY DEF CoreInv, Types, Single
<1>2. /\ Entries(RemoveFirst(pendShort, j)) = Entries(pendShort) \ {j} /\ Distinct(RemoveFirst(pendShort, j))
      /\ Entries(RemoveFirst(pendFeedback, j)) = Entries(pendFeedback) \ {j} /\ Distinct(RemoveFirst(pendFeedback, j))
  BY <1>1, EntriesRemove
<1> QED BY <1>2 DEF Dropped

LEMMA GiveUpPlace ==
  ASSUME CoreInv, ShapeInv, PlaceInv, RetryFails \/ OnError,
         count = 0 => Top.on \in Entries(pendShort) \cup Entries(pendFeedback)
  PROVE  Top.on \in Jobs /\ GivesOf(Top.on)
<1>1. /\ Top.kind \in {"retry", "onError"} /\ Top.on \in Jobs
      /\ \/ /\ count # 0 /\ stack' = Below /\ UNCHANGED <<pendShort, pendFeedback, ghost>>
         \/ /\ count = 0 /\ Dropped(Top.on) /\ Report(Top.on, "cancel")
            /\ stack' = Append(Append(Below, Frame("failed", Top.on)), User)
  BY GiveUpForms
<1>2. UNCHANGED <<job, calls, thread>> /\ Single /\ SameLives /\ Held' = Held /\ OneHolder'
  BY LivesSame, HeldSame DEF RetryFails, OnError, PlaceInv
<1>3. Bears(Below)
  BY <1>1, <1>2, LightTop, BearsPopped DEF StartKinds, EndKinds
<1>4. CASE stack' = Below /\ UNCHANGED <<pendShort, pendFeedback, ghost>>
  <2>1. Bears(stack')
    BY <1>3, <1>4
  <2> QED BY <1>1, <1>2, <1>4, <2>1, StaysPut, QueuesSame DEF GivesOf
<1>5. ASSUME NEW j \in Jobs, j = Top.on, count = 0, Dropped(j), Report(j, "cancel"),
             stack' = Append(Append(Below, Frame("failed", j)), User)
      PROVE  GivesOf(j)
  <2> DEFINE f == Frame("failed", j)
             c == Append(Below, f)
  <2>1. f \in FrameRecord /\ f.kind = "failed" /\ f.on = j /\ f.todo = <<>>
    <3>1. Plain(Frame("failed", j), "failed", j)
      BY FrameIs DEF FrameKinds
    <3> QED BY <3>1 DEF Plain
  <2>2. stack' = Append(c, User)
    BY <1>5
  <2> HIDE DEF f
  <2>3. HandledOnce(f.todo) /\ \A x \in StackSites : Carries(f, x) = IF x = "failed" THEN {j} ELSE {}
    BY <2>1, Nothing DEF Carries, StackSites, StartKinds
  <2>4. Below \in Seq(FrameRecord) /\ Separate(Below) /\ \A x \in StackSites : CarriedIn(Below, x) = CarriedIn(stack, x)
    BY <1>3 DEF Bears
  <2>5. {"kill", "failed"} \subseteq StackSites /\ {"short", "feedback", "failed"} \subseteq Sites
    BY DEF StackSites, Sites
  <2>6. PICK y \in {"short", "feedback"} : j \in Site(y)
    BY <1>5, SiteIs
  <2>7. j \notin Site("failed") /\ (y = "short" => j \notin Site("feedback")) /\ (y = "feedback" => j \notin Site("short"))
    BY <2>5, <2>6, Elsewhere DEF PlaceInv
  <2>8. /\ \A x \in StackSites : CarriedIn(c, x) = CarriedIn(Below, x) \cup Carries(f, x)
        /\ Separate(Below) /\ HandledOnce(f.todo) /\ (\A x \in StackSites : CarriedIn(Below, x) \cap Carries(f, x) = {})
              => Separate(c)
    BY <2>1, <2>4, PushCarries
  <2>9. \A x \in StackSites : CarriedIn(Below, x) \cap Carries(f, x) = {}
    BY <2>3, <2>4, <2>5, <2>7, SiteIs
  <2>10. c \in Seq(FrameRecord)
    BY <2>1, <2>4
  <2> HIDE DEF c
  <2>11. User \in FrameRecord /\ Light(User)
    BY UserIs DEF Light, StartKinds, EndKinds
  <2>12. /\ Separate(Append(c, User))
         /\ \A x \in StackSites : CarriedIn(Append(c, User), x) = CarriedIn(c, x)
    BY <2>3, <2>4, <2>8, <2>9, <2>10, <2>11, PushLight
  <2>13. Separate(stack') /\ \A x \in StackSites : CarriedIn(stack', x) = IF x = "failed" THEN CarriedIn(stack, x) \cup {j}
                                                                          ELSE CarriedIn(stack, x)
    BY <2>2, <2>3, <2>4, <2>8, <2>12
  <2>14. /\ Distinct(pendShort') /\ Entries(pendShort') = Entries(pendShort) \ {j}
         /\ Distinct(pendFeedback') /\ Entries(pendFeedback') = Entries(pendFeedback) \ {j}
    BY <1>2, <1>5, DroppedIs
  <2>15. Tidy
    BY <1>2, <2>13, <2>14 DEF Tidy, Single
  <2>16. Moves({j}, y, "failed")
    <3>1. \A z \in StackSites : Site(z)' = IF z = "failed" THEN Site(z) \cup {j} ELSE Site(z)
      <4> SUFFICES ASSUME NEW z \in StackSites PROVE Site(z)' = IF z = "failed" THEN Site(z) \cup {j} ELSE Site(z)
        OBVIOUS
      <4>1. Site(z)' = CarriedIn(stack', z) /\ Site(z) = CarriedIn(stack, z)
        BY SitesAfter, SiteIs
      <4> QED BY <2>13, <4>1
    <3>2. Site("messages")' = Site("messages")
      <4>1. CarriedIn(stack', "kill") = CarriedIn(stack, "kill")
        BY <2>5, <2>13
      <4> QED BY <1>2, <4>1, SitesAfter, SiteIs DEF SameLives
    <3>3. \A z \in {"call", "thread", "gone", "new"} : Site(z)' = Site(z)
      BY <1>2, SitesAfter, SiteIs DEF SameLives
    <3>4. Site("short")' = Site("short") \ {j} /\ Site("feedback")' = Site("feedback") \ {j}
      BY <2>14, SitesAfter, SiteIs
    <3>5. \A z \in {"short", "feedback"} : Site(z)' = IF z = y THEN Site(z) \ {j} ELSE Site(z)
      BY <2>7, <3>4
    <3> QED BY <3>1, <3>2, <3>3, <3>5 DEF Moves, Sites, StackSites
  <2>17. Ends(j)
    BY <2>5, <2>6, <2>15, <2>16, MovesEnd
  <2> QED BY <1>5, <2>17 DEF GivesOf
<1> QED BY <1>1, <1>4, <1>5
-----------------------------------------------------------------------------
(* A job whose thread is being created stays in its list, because there is *)
(* no thread of the pool that could take it: where threads may be refused  *)
(* the pool is taken to have one thread.                                   *)
Granted == "createFails" \in Liberties => MaxStart = 1 /\ "raiseMax" \notin Liberties

Pending(j) == j \in Entries(pendShort) \cup Entries(pendFeedback)

OpenInv ==
  "createFails" \in Liberties =>
    /\ max = 1
    /\ \A i \in 1 .. Len(stack) : stack[i].kind \in Openers => count = 0 /\ Pending(stack[i].on)

(* The creators of s are creators of the stack.                            *)
OpenedBy(j)   == \E k \in 1 .. Len(stack) : stack[k].kind \in Openers /\ stack[k].on = j
OpensFrom(s)  == /\ s \in Seq(FrameRecord)
                 /\ \A i \in 1 .. Len(s) : s[i].kind \in Openers => OpenedBy(s[i].on)

LEMMA OpensPush ==
  ASSUME NEW s, OpensFrom(s), NEW f \in FrameRecord, f.kind \in Openers => OpenedBy(f.on)
  PROVE  OpensFrom(Append(s, f))
<1> DEFINE u == Append(s, f)
<1>1. /\ u \in Seq(FrameRecord) /\ Len(s) \in Nat /\ Len(u) = Len(s) + 1 /\ u[Len(s) + 1] = f
      /\ \A i \in 1 .. Len(s) : u[i] = s[i]
  BY DEF OpensFrom
<1> HIDE DEF u
<1>2. \A i \in 1 .. Len(u) : i \in 1 .. Len(s) \/ i = Len(s) + 1
  BY <1>1
<1>3. OpensFrom(u)
  BY <1>1, <1>2 DEF OpensFrom
<1> QED BY <1>3 DEF u

LEMMA OpensSelf ==
  ASSUME CoreInv
  PROVE  /\ OpensFrom(stack) /\ (Top.kind \in Openers => OpenedBy(Top.on))
         /\ (Top.kind # "user" \/ Len(stack) > 1) => OpensFrom(Below)
<1>1. stack \in Seq(FrameRecord) /\ Top = stack[Len(stack)] /\ Len(stack) \in 1 .. Len(stack)
  BY TopIs
<1>2. (Top.kind # "user" \/ Len(stack) > 1) => Below \in Seq(FrameRecord)
         /\ \A i \in 1 .. Len(Below) : Below[i] = stack[i] /\ i \in 1 .. Len(stack) /\ i < Len(stack)
  BY BelowIs
<1> QED BY <1>1, <1>2 DEF OpensFrom, OpenedBy

LEMMA OpenKept ==
  ASSUME CoreInv, OpenInv, count' = count, max' = max, OpensFrom(stack'),
         \A j \in Jobs : Pending(j) => j \in Entries(pendShort') \cup Entries(pendFeedback')
  PROVE  OpenInv'
<1>1. ASSUME "createFails" \in Liberties PROVE max' = 1
  BY <1>1 DEF OpenInv
<1>2. ASSUME "createFails" \in Liberties, NEW i \in 1 .. Len(stack'), stack'[i].kind \in Openers
      PROVE  count' = 0 /\ stack'[i].on \in Entries(pendShort') \cup Entries(pendFeedback')
  <2>1. PICK k \in 1 .. Len(stack) : stack[k].kind \in Openers /\ stack[k].on = stack'[i].on
    BY <1>2 DEF OpensFrom, OpenedBy
  <2>2. count = 0 /\ Pending(stack[k].on)
    BY <1>2, <2>1 DEF OpenInv
  <2>3. stack[k].on \in Jobs
    BY <2>2 DEF Pending, Entries
  <2> QED BY <2>1, <2>2, <2>3
<1>3. \A j : Pending(j)' <=> j \in Entries(pendShort') \cup Entries(pendFeedback')
  BY DEF Pending, Entries
<1> QED BY <1>1, <1>2, <1>3 DEF OpenInv

(* The activations of the main loop's thread end or are put on top of      *)
(* others: only the submission of a job brings a creator.                  *)
LEMMA OpensKill ==
  ASSUME CoreInv, NEW j \in Jobs, NEW b, OpensFrom(b), Kill(j, b) PROVE OpensFrom(stack')
<1> DEFINE f == Frame("kill", j)
           c == Append(b, f)
           w == Wrapper(j, job[j].waiter)
<1>0. b \in Seq(FrameRecord) /\ job[j].waiter \in Nat
  BY DEF OpensFrom, CoreInv, Types, JobRec
<1>1. f \in FrameRecord /\ f.kind = "kill"
  <2>1. Plain(Frame("kill", j), "kill", j)
    BY FrameIs DEF FrameKinds
  <2> QED BY <2>1 DEF Plain
<1>2. w \in FrameRecord /\ w.kind = "wrap"
  BY <1>0, WrapperIs
<1>3. User \in FrameRecord /\ User.kind = "user"
  BY UserIs
<1>4. \/ stack' = Append(c, User) \/ stack' = Append(Append(c, w), User) \/ stack' = stack
  <2>1. LET cc == Append(b, Frame("kill", j))
         IN \/ /\ job[j].func # "wrap"
               /\ Report(j, Outcome(j)) /\ stack' = Append(cc, User)
            \/ /\ job[j].func = "wrap" /\ job[j].waiter # 0 /\ stack[job[j].waiter].func = "user"
               /\ Report(j, Outcome(j)) /\ stack' = Append(Append(cc, Wrapper(j, job[j].waiter)), User)
            \/ Broken
    BY <1>0, KillForms
  <2> QED BY <2>1 DEF Broken
<1> HIDE DEF f, w
<1>5. OpensFrom(c)
  BY <1>1, OpensPush DEF Openers, Creators, Relocks
<1> HIDE DEF c
<1> DEFINE d == Append(c, w)
<1>6. OpensFrom(d)
  BY <1>2, <1>5, OpensPush DEF Openers, Creators, Relocks
<1> HIDE DEF d
<1>7. OpensFrom(Append(c, User)) /\ OpensFrom(Append(d, User))
  BY <1>3, <1>5, <1>6, OpensPush DEF Openers, Creators, Relocks
<1> QED BY <1>4, <1>7, OpensSelf DEF d

LEMMA RestOpens ==
  ASSUME CoreInv, Top.kind = "flush", Top.todo # <<>> PROVE OpensFrom(Rest)
<1>1. LessOne \in FrameRecord /\ LessOne.kind = "flush" /\ LessOne.todo = Tail(Top.todo)
         /\ LessOne.waiting = Top.waiting /\ Rest = Append(Below, LessOne)
  BY LessOneIs
<1>2. OpensFrom(Below)
  BY OpensSelf
<1> QED BY <1>1, <1>2, OpensPush DEF Openers, Creators, Relocks

LEMMA MainOpens ==
  ASSUME CoreInv, MainStep, ~RetryDirectFails PROVE OpensFrom(stack')
<1> USE DEF Openers, Creators, Relocks
<1>0. OpensFrom(stack) /\ (Top.kind \in Openers => OpenedBy(Top.on))
         /\ ((Top.kind # "user" \/ Len(stack) > 1) => OpensFrom(Below))
  BY OpensSelf
<1>1. ASSUME (\E t \in Threads : Create(t)) \/ Failed \/ CountDirect \/ CancelMark \/ WaitOver \/ WaitTimeout
             \/ Return \/ FlushEnd \/ NotifyDone \/ KillDone
      PROVE  OpensFrom(stack')
  <2>1. stack' = Below /\ (Top.kind # "user" \/ Len(stack) > 1)
    BY <1>1 DEF Create, Failed, CountDirect, CancelMark, WaitOver, WaitTimeout, Return, FlushEnd, NotifyDone,
       KillDone, Pop, At
  <2> QED BY <1>0, <2>1
<1>2. ASSUME CreateFails \/ CreateDirectFails \/ WaitFlush PROVE OpensFrom(stack')
  <2>1. PICK k \in {"retry", "directRetry", "waited"} :
              stack' = Append(Append(Below, Turned(k)), Flush) /\ (k = "retry" => Top.kind = "relock") /\ Top.kind # "user"
    BY <1>2, FlushForms
  <2>2. Turned(k) \in FrameRecord /\ Turned(k).kind = k /\ Turned(k).on = Top.on
    BY TurnedIs DEF FrameKinds
  <2>3. OpensFrom(Append(Below, Turned(k)))
    <3>1. OpensFrom(Below) /\ (k = "retry" => OpenedBy(Top.on))
      BY <1>0, <2>1
    <3> QED BY <2>2, <3>1, OpensPush
  <2>4. Flush \in FrameRecord /\ Flush.kind = "flush"
    BY FlushIs
  <2> QED BY <2>1, <2>3, <2>4, OpensPush
<1>3. ASSUME RetryFailsFeedback \/ WaitAgain \/ \E t \in Threads : CreateDirect(t) PROVE OpensFrom(stack')
  <2>1. PICK k \in {"onError", "counted", "wait"} :
              stack' = Append(Below, Turned(k)) /\ (k = "onError" => Top.kind \in Openers) /\ Top.kind # "user"
    BY <1>3, TurnForms DEF StartKinds
  <2>2. Turned(k) \in FrameRecord /\ Turned(k).kind = k /\ Turned(k).on = Top.on
    BY TurnedIs DEF FrameKinds
  <2>3. OpensFrom(Below) /\ (k = "onError" => OpenedBy(Top.on))
    BY <1>0, <2>1
  <2> QED BY <2>1, <2>2, <2>3, OpensPush
<1>4. ASSUME LoopFlush PROVE OpensFrom(stack')
  BY <1>0, <1>4, FlushIs, OpensPush DEF LoopFlush, Push
<1>5. ASSUME NotifyKills PROVE OpensFrom(stack')
  <2>1. Top.kind = "notify" /\ Kill(Top.on, Below) /\ Top.on \in Jobs
    BY <1>5, TopIs DEF NotifyKills, At
  <2> QED BY <1>0, <2>1, OpensKill
<1>6. ASSUME DirectSelfLock PROVE OpensFrom(stack')
  BY <1>0, <1>6 DEF DirectSelfLock, SelfLock
<1>7. ASSUME (\E t \in Threads : Join(t)) \/ (\E j \in Jobs : HandlerKeeps(j) \/ HandlerKills(j) \/ Notify(j))
      PROVE  OpensFrom(stack')
  <2>1. Top.kind = "flush" /\ Top.todo # <<>>
    BY <1>7 DEF Join, HandlerKeeps, HandlerKills, Notify, NextCall, At
  <2>2. OpensFrom(Rest)
    BY <2>1, RestOpens
  <2>3. CASE stack' = Rest
    BY <2>2, <2>3
  <2>4. ASSUME NEW j \in Jobs, HandlerKills(j) PROVE OpensFrom(stack')
    BY <2>2, <2>4, OpensKill DEF HandlerKills
  <2>5. ASSUME NEW j \in Jobs, Notify(j) PROVE OpensFrom(stack')
    <3>1. stack' = Append(Append(Rest, Frame("notify", j)), User)
      <4>1. stack' = Append(Append(Append(Below, LessOne), Frame("notify", j)), User)
        BY <2>5, NotifyForm
      <4>2. Rest = Append(Below, LessOne)
        BY DEF Rest, LessOne
      <4> QED BY <4>1, <4>2
    <3>2. Frame("notify", j) \in FrameRecord /\ Frame("notify", j).kind = "notify"
      <4>1. Plain(Frame("notify", j), "notify", j)
        BY FrameIs DEF FrameKinds
      <4> QED BY <4>1 DEF Plain
    <3>3. OpensFrom(Append(Rest, Frame("notify", j)))
      BY <2>2, <3>2, OpensPush
    <3> QED BY <3>1, <3>3, UserIs, OpensPush
  <2> QED BY <1>7, <2>3, <2>4, <2>5 DEF Join, HandlerKeeps
<1>8. ASSUME WrapDone PROVE OpensFrom(stack')
  <2>1. /\ Top.kind = "wrap" /\ stack' \in Seq(FrameRecord) /\ Len(stack') = Len(Below)
        /\ \A m \in 1 .. Len(Below) : stack'[m].kind = Below[m].kind /\ stack'[m].on = Below[m].on
    BY <1>8, WrapDoneForm
  <2> QED BY <1>0, <2>1 DEF OpensFrom
<1>9. ASSUME RetryFails \/ OnError PROVE OpensFrom(stack')
  <2>1. /\ Top.kind \in {"retry", "onError"} /\ Top.on \in Jobs
        /\ \/ /\ count # 0 /\ stack' = Below /\ UNCHANGED <<pendShort, pendFeedback, ghost>>
           \/ /\ count = 0 /\ Dropped(Top.on) /\ Report(Top.on, "cancel")
              /\ stack' = Append(Append(Below, Frame("failed", Top.on)), User)
    BY <1>9, GiveUpForms
  <2>2. Frame("failed", Top.on) \in FrameRecord /\ Frame("failed", Top.on).kind = "failed"
    <3>1. Plain(Frame("failed", Top.on), "failed", Top.on)
      BY <2>1, FrameIs DEF FrameKinds
    <3> QED BY <3>1 DEF Plain
  <2>3. OpensFrom(Below) /\ OpensFrom(Append(Below, Frame("failed", Top.on)))
    BY <1>0, <2>1, <2>2, OpensPush
  <2> QED BY <2>1, <2>3, UserIs, OpensPush
<1> QED BY <1>1, <1>2, <1>3, <1>4, <1>5, <1>6, <1>7, <1>8, <1>9 DEF MainStep
LEMMA QueuedIs ==
  ASSUME CoreInv, NEW j \in Jobs, Enqueued(j)
  PROVE  /\ Entries(pendShort) \cup Entries(pendFeedback) \subseteq Entries(pendShort') \cup Entries(pendFeedback')
         /\ j \in Entries(pendShort') \cup Entries(pendFeedback')
<1>1. CASE j \in Short
  <2>1. pendShort' = Append(pendShort, j) /\ pendFeedback' = pendFeedback /\ pendShort \in Seq(Short)
    BY <1>1 DEF Enqueued, CoreInv, Types
  <2>2. Entries(Append(pendShort, j)) = Entries(pendShort) \cup {j}
    BY <1>1, <2>1, EntriesAppend
  <2> QED BY <2>1, <2>2
<1>2. CASE j \notin Short
  <2>1. pendFeedback' = Append(pendFeedback, j) /\ pendShort' = pendShort /\ pendFeedback \in Seq(Feedback \cup Direct)
        /\ j \in Feedback \cup Direct
    BY <1>2 DEF Enqueued, CoreInv, Types, Jobs
  <2>2. Entries(Append(pendFeedback, j)) = Entries(pendFeedback) \cup {j}
    BY <2>1, EntriesAppend
  <2> QED BY <2>1, <2>2
<1> QED BY <1>1, <1>2

LEMMA OpenPrimed ==
  ASSUME "createFails" \in Liberties =>
           /\ max' = 1
           /\ \A i \in 1 .. Len(stack') : stack'[i].kind \in Openers =>
                count' = 0 /\ stack'[i].on \in Entries(pendShort') \cup Entries(pendFeedback')
  PROVE  OpenInv'
<1>1. \A j : Pending(j)' <=> j \in Entries(pendShort') \cup Entries(pendFeedback')
  BY DEF Pending, Entries
<1> QED BY <1>1 DEF OpenInv

LEMMA OpenNone ==
  ASSUME OpenInv, max' = max, Unopened(stack') PROVE OpenInv'
BY OpenPrimed DEF OpenInv, Unopened

(* A new creator: the pool is not at its limit, which is one thread.       *)
LEMMA OpenNew ==
  ASSUME CoreInv, OpenInv, Counted, Limited, count # max, NEW b \in Seq(FrameRecord), Unopened(b),
         NEW f \in FrameRecord, f.on \in Jobs, Enqueued(f.on), stack' = Append(b, f), max' = max, count' = count
  PROVE  OpenInv'
<1>1. count \in Nat
  BY ThreadsAssumption, FS_Subset, FS_CardinalityType DEF Counted, PoolAlive
<1>2. count <= max
  BY DEF Limited
<1>3. "createFails" \in Liberties => max = 1
  BY DEF OpenInv
<1>4. "createFails" \in Liberties => count' = 0 /\ max' = 1
  BY <1>1, <1>2, <1>3
<1>5. f.on \in Entries(pendShort') \cup Entries(pendFeedback')
  BY QueuedIs
<1>6. Len(stack') = Len(b) + 1 /\ stack'[Len(b) + 1] = f /\ Len(b) \in Nat
      /\ \A i \in 1 .. Len(b) : stack'[i] = b[i]
  OBVIOUS
<1>7. \A i \in 1 .. Len(stack') : i \in 1 .. Len(b) \/ i = Len(b) + 1
  BY <1>6
<1>8. \A i \in 1 .. Len(stack') : stack'[i].kind \in Openers => stack'[i].on = f.on
  BY <1>6, <1>7 DEF Unopened
<1> QED BY <1>4, <1>5, <1>8, OpenPrimed

(* No thread of the pool is there while one is being created.              *)
LEMMA NoPool ==
  ASSUME CoreInv, Counted, count = 0, NEW t \in Threads
  PROVE  thread[t].pc \notin PoolStates \ {"none"}
<1>1. PoolAlive = {}
  BY ThreadsAssumption, FS_Subset, FS_EmptySet DEF Counted, PoolAlive
<1>2. thread[t].pc \in PoolStates => ~thread[t].own
  BY DEF CoreInv, ThreadsRight, Placed
<1> QED BY <1>1, <1>2 DEF PoolAlive, Alive, PoolStates

LEMMA ApartFromPool ==
  ASSUME NEW t \in Threads, ThreadStep(t) \/ FunctionStep(t), thread[t].pc \notin PoolStates \ {"none"}
  PROVE  UNCHANGED <<pendShort, pendFeedback, count>>
<1>1. StartDirect(t) \/ LeaveDirect(t) \/ Finish(t) \/ FunctionStep(t)
  BY DEF ThreadStep, In, PoolStates, PickShort, PickFeedback, MarkRunning, Start, LeaveRunning, Requeue, PostHandler,
     TestOnce, TestTwice, Test, Leave
<1> QED BY <1>1 DEF StartDirect, LeaveDirect, Finish, FunctionStep, Send, Reschedule, CancelSelf, Cut, pend, pool

LEMMA OpenThread ==
  ASSUME CoreInv, Counted, OpenInv, NEW t \in Threads, ThreadStep(t) \/ FunctionStep(t) PROVE OpenInv'
<1>1. stack' = stack /\ max' = max
  BY ThreadForms
<1>2. CASE Unopened(stack)
  BY <1>1, <1>2, OpenNone
<1>3. CASE "createFails" \notin Liberties
  BY <1>3, OpenPrimed
<1>4. CASE ~Unopened(stack) /\ "createFails" \in Liberties
  <2>1. count = 0
    BY <1>4 DEF Unopened, OpenInv
  <2>2. UNCHANGED <<pendShort, pendFeedback, count>>
    BY <2>1, NoPool, ApartFromPool
  <2>3. OpensFrom(stack')
    BY <1>1, OpensSelf
  <2> QED BY <1>1, <2>2, <2>3, OpenKept DEF Pending
<1> QED BY <1>2, <1>3, <1>4

(* While the pending lock is free no creator is there.                     *)
LEMMA NoOpener ==
  ASSUME CoreInv, ShapeInv, Top.kind \notin Openers, ~Locked PROVE Unopened(stack)
<1>1. \A i \in 1 .. Len(stack) : stack[i].kind # "retry"
  BY TopIs DEF Locked, LockFrames
<1>2. \A i \in 1 .. Len(stack) : stack[i].kind \notin Relocks \cup {"onError"}
  BY TopIs DEF CoreInv, Good, ShapeInv, Shape, Alone, Relocks, Openers, Creators
<1> QED BY <1>1, <1>2 DEF Unopened, Openers, Creators

LEMMA OpenUser ==
  ASSUME CoreInv, ShapeInv, Counted, Limited, OpenInv, Granted, UserStep PROVE OpenInv'
<1> USE DEF Openers, Creators, Relocks
<1>0. OpensFrom(stack)
  BY OpensSelf
<1>1. ASSUME NEW j \in Jobs, Run(j) PROVE OpenInv'
  <2>1. /\ Top.kind = "user" /\ ~Locked /\ Enqueued(j) /\ UNCHANGED <<count, max>>
        /\ \/ stack' = stack
           \/ stack' = Append(stack, Frame("relock", j)) /\ count # max
    BY <1>1 DEF Run, QueueJob, InUser, pool
  <2>2. Unopened(stack)
    BY <2>1, NoOpener
  <2>3. CASE stack' = stack
    BY <2>1, <2>2, <2>3, OpenNone
  <2>4. CASE stack' = Append(stack, Frame("relock", j)) /\ count # max
    <3>1. Plain(Frame("relock", j), "relock", j)
      BY FrameIs DEF FrameKinds
    <3>2. Frame("relock", j) \in FrameRecord /\ Frame("relock", j).on = j /\ stack \in Seq(FrameRecord)
      BY <3>1, TopIs DEF Plain
    <3> QED BY <2>1, <2>2, <2>4, <3>2, OpenNew
  <2> QED BY <2>1, <2>3, <2>4
<1>2. ASSUME NEW n \in 1 .. MaxLimit, MaxSet(n) PROVE OpenInv'
  <2>1. /\ UNCHANGED <<stack, count, pendShort, pendFeedback>> /\ max' = n
        /\ n > max => "raiseMax" \in Liberties
    BY <1>2 DEF MaxSet, Allowed, main, pend
  <2>2. CASE "createFails" \notin Liberties
    BY <2>2, OpenPrimed
  <2>3. CASE "createFails" \in Liberties
    <3>1. max = 1 /\ "raiseMax" \notin Liberties
      BY <2>3 DEF OpenInv, Granted
    <3>2. max' = max
      BY <2>1, <3>1, BoundsAssumption
    <3> QED BY <1>0, <2>1, <3>2, OpenKept DEF Pending
  <2> QED BY <2>2, <2>3
<1>3. ASSUME NEW j \in Jobs, RunSelfLock(j) \/ CancelSelfLock(j) \/ CancelKilled(j) PROVE OpenInv'
  <2>1. UNCHANGED <<stack, count, pendShort, pendFeedback, max>>
    BY <1>3 DEF RunSelfLock, CancelSelfLock, SelfLock, CancelKilled, main, pend, pool
  <2> QED BY <1>0, <2>1, OpenKept DEF Pending
<1>4. ASSUME NEW j \in Jobs, RunDirect(j) \/ Cancel(j) \/ Wait(j) PROVE OpenInv'
  <2>1. UNCHANGED <<count, pendShort, pendFeedback, max>>
        /\ \/ stack' = Append(stack, Frame("direct", j)) \/ stack' = Append(stack, Frame("mark", j))
           \/ stack' = Append(stack, Waiter(j))
    BY <1>4 DEF RunDirect, Cancel, Wait, Waiter, Push, pend, pool
  <2>2. Plain(Frame("direct", j), "direct", j) /\ Plain(Frame("mark", j), "mark", j)
    BY FrameIs DEF FrameKinds
  <2>3. Waiter(j) \in FrameRecord /\ Waiter(j).kind = "wait"
    BY WaiterIs
  <2>4. OpensFrom(stack')
    BY <1>0, <2>1, <2>2, <2>3, OpensPush DEF Plain
  <2> QED BY <2>1, <2>4, OpenKept DEF Pending
<1> QED BY <1>1, <1>2, <1>3, <1>4 DEF UserStep

LEMMA OpenMain ==
  ASSUME CoreInv, ShapeInv, Counted, Limited, OpenInv, MainStep PROVE OpenInv'
<1> USE DEF Openers, Creators, Relocks
<1>1. ASSUME NEW t \in Threads, Create(t) PROVE OpenInv'
  <2>1. stack' = Below /\ max' = max /\ Top.kind \in Openers
    BY <1>1 DEF Create, StartPool, Pop, At
  <2>2. Unopened(Below)
    BY <2>1, PopShape
  <2> QED BY <2>1, <2>2, OpenNone
<1>2. ASSUME RetryDirectFails PROVE OpenInv'
  <2>1. /\ Top.kind = "directRetry" /\ ~Locked /\ UNCHANGED <<count, max>> /\ Enqueued(Top.on)
        /\ \/ stack' = Below
           \/ stack' = Append(Below, Frame("relockTried", Top.on)) /\ count # max
    BY <1>2 DEF RetryDirectFails, At, QueueJob, pool
  <2>2. Unopened(stack)
    BY <2>1, NoOpener
  <2>3. Unopened(Below) /\ Below \in Seq(FrameRecord) /\ Top.on \in Jobs
    BY <2>1, <2>2, PopShape, BelowIs, TopIs
  <2>4. CASE stack' = Below
    BY <2>1, <2>3, <2>4, OpenNone
  <2>5. CASE stack' = Append(Below, Frame("relockTried", Top.on)) /\ count # max
    <3>1. Plain(Frame("relockTried", Top.on), "relockTried", Top.on)
      BY <2>3, FrameIs DEF FrameKinds
    <3>2. Frame("relockTried", Top.on) \in FrameRecord /\ Frame("relockTried", Top.on).on = Top.on
      BY <3>1 DEF Plain
    <3> HIDE DEF Openers, Creators, Relocks
    <3> QED BY <2>1, <2>3, <2>5, <3>2, OpenNew
  <2> QED BY <2>1, <2>4, <2>5
<1>3. ASSUME RetryFails \/ OnError PROVE OpenInv'
  <2>1. /\ Top.kind \in {"retry", "onError"} /\ Top.on \in Jobs
        /\ \/ /\ count # 0 /\ stack' = Below /\ UNCHANGED <<pendShort, pendFeedback, ghost>>
           \/ /\ count = 0 /\ Dropped(Top.on) /\ Report(Top.on, "cancel")
              /\ stack' = Append(Append(Below, Frame("failed", Top.on)), User)
    BY <1>3, GiveUpForms
  <2>2. max' = max
    BY <1>3 DEF RetryFails, OnError, pool
  <2>3. Unopened(Below) /\ Below \in Seq(FrameRecord)
    BY <2>1, PopShape, BelowIs
  <2>4. Frame("failed", Top.on) \in FrameRecord /\ Frame("failed", Top.on).kind = "failed"
    <3>1. Plain(Frame("failed", Top.on), "failed", Top.on)
      BY <2>1, FrameIs DEF FrameKinds
    <3> QED BY <3>1 DEF Plain
  <2>5. Unopened(stack')
    <3>1. CASE stack' = Below
      BY <2>3, <3>1
    <3>2. CASE stack' = Append(Append(Below, Frame("failed", Top.on)), User)
      <4> DEFINE f == Frame("failed", Top.on)
      <4>1. f \in FrameRecord /\ f.kind = "failed" /\ User \in FrameRecord /\ User.kind = "user"
        BY <2>4, UserIs
      <4> HIDE DEF f
      <4>2. \A i \in 1 .. Len(stack') : i \in 1 .. Len(Below) \/ i = Len(Below) + 1 \/ i = Len(Below) + 2
        BY <2>3, <3>2, <4>1 DEF f
      <4>3. /\ \A i \in 1 .. Len(Below) : Append(Append(Below, f), User)[i] = Below[i]
            /\ Append(Append(Below, f), User)[Len(Below) + 1] = f /\ Append(Append(Below, f), User)[Len(Below) + 2] = User
        BY <2>3, <4>1
      <4> QED BY <2>3, <3>2, <4>1, <4>2, <4>3 DEF Unopened, f
    <3> QED BY <2>1, <3>1, <3>2
  <2> QED BY <2>2, <2>5, OpenNone
<1>4. CASE ~RetryDirectFails /\ ~RetryFails /\ ~OnError /\ ~(\E t \in Threads : Create(t))
  <2>1. UNCHANGED <<count, max, pendShort, pendFeedback>>
    BY <1>4 DEF MainStep, CreateDirect, Join, CreateFails, RetryFailsFeedback, Failed, CountDirect, CreateDirectFails,
       DirectSelfLock, SelfLock, CancelMark, WaitFlush, WaitAgain, WaitOver, WaitTimeout, WrapDone, Return, LoopFlush,
       FlushEnd, HandlerKeeps, HandlerKills, Notify, NotifyDone, NotifyKills, KillDone, pool, pend
  <2>2. OpensFrom(stack')
    BY <1>4, MainOpens
  <2> QED BY <2>1, <2>2, OpenKept DEF Pending
<1> QED BY <1>1, <1>2, <1>3, <1>4

LEMMA OpenStep ==
  ASSUME CoreInv, ShapeInv, Counted, Limited, OpenInv, Granted, [Next]_vars PROVE OpenInv'
<1>1. CASE UNCHANGED vars
  <2>1. UNCHANGED <<count, max, pendShort, pendFeedback, stack>>
    BY <1>1 DEF vars
  <2> QED BY <2>1, OpensSelf, OpenKept DEF Pending
<1> QED BY <1>1, OpenThread, OpenUser, OpenMain DEF Next

LEMMA OpenInit ==
  ASSUME Init, Granted PROVE OpenInv
<1>1. stack = <<User>> /\ User.kind = "user" /\ max = MaxStart
  BY DEF Init, User, Frame
<1>2. Len(stack) = 1 /\ stack[1] = User
  BY <1>1
<1> QED BY <1>1, <1>2 DEF OpenInv, Granted, Openers, Creators, Relocks

-----------------------------------------------------------------------------
(* Every step of the main loop's thread but those that end a job leaves    *)
(* the places of the ended jobs alone.                                     *)
Ending == RetryFails \/ OnError \/ NotifyKills \/ \E j \in Jobs : HandlerKills(j)

LEMMA MainCalm ==
  ASSUME CoreInv, ShapeInv, HandsInv, PlaceInv, MainStep, ~Ending PROVE Calmly
<1>1. CASE (\E t \in Threads : Create(t)) \/ CountDirect \/ CancelMark \/ WaitOver \/ WaitTimeout
             \/ Return \/ FlushEnd \/ NotifyDone \/ RetryFailsFeedback \/ WaitAgain
  BY <1>1, PopPlace
<1>2. CASE CreateFails \/ CreateDirectFails \/ WaitFlush \/ LoopFlush
  BY <1>2, FlushPlace
<1>3. CASE KillDone \/ Failed
  BY <1>3, FreedPlace
<1>4. CASE (\E t \in Threads : Join(t) \/ CreateDirect(t)) \/ \E j \in Jobs : HandlerKeeps(j) \/ Notify(j)
  BY <1>4, JoinPlace, CreateDirectPlace, HandlerKeepsPlace, NotifyPlace
<1>5. CASE RetryDirectFails \/ WrapDone \/ DirectSelfLock
  BY <1>5, RetryDirectPlace, WrapDonePlace, SelfLockPlace
<1> QED BY <1>1, <1>2, <1>3, <1>4, <1>5 DEF MainStep, Ending

LEMMA StutterCalm ==
  ASSUME CoreInv, PlaceInv, UNCHANGED vars PROVE Calmly
<1>1. UNCHANGED <<job, thread, pendShort, pendFeedback, calls, stack>> /\ Single
  BY DEF vars, PlaceInv
<1>2. SameLives /\ SameQueues /\ Held' = Held /\ OneHolder'
  BY <1>1, LivesSame, QueuesSame, HeldSame
<1>3. Bears(stack')
  BY <1>1, BearsSelf
<1> QED BY <1>2, <1>3, StaysPut

LEMMA NextCalm ==
  ASSUME CoreInv, ShapeInv, HandsInv, PlaceInv, [Next]_vars, ~Ending PROVE Calmly
BY StutterCalm, ThreadPlace, UserPlace, MainCalm DEF Next

(* A job that could not be started is in its list.                         *)
LEMMA GivenUp ==
  ASSUME CoreInv, ShapeInv, OpenInv, RetryFails \/ OnError
  PROVE  count = 0 => Top.on \in Entries(pendShort) \cup Entries(pendFeedback)
<1>1. Top.kind \in {"retry", "onError"} /\ Top = stack[Len(stack)] /\ Len(stack) \in 1 .. Len(stack)
  BY GiveUpForms, TopIs
<1>2. FrameRight(Top)
  BY <1>1, PopShape
<1>3. "createFails" \in Liberties
  BY <1>1, <1>2 DEF FrameRight, Refused
<1> QED BY <1>1, <1>3 DEF OpenInv, Pending, Openers, Creators

(* What a step that ends a job does.                                       *)
EndsNow(j) == \/ Ends(j) /\ \E how \in {"end", "cancel"} : Report(j, how)
              \/ Calmly /\ UNCHANGED ghost

LEMMA EndingPlace ==
  ASSUME CoreInv, ShapeInv, PlaceInv, OpenInv, Ending, NotifyKills => Top.on \notin Dead
  PROVE  \E j \in Jobs : /\ EndsNow(j)
                         /\ RetryFails \/ OnError => j = Top.on
                         /\ NotifyKills => j = Top.on
                         /\ ~RetryFails /\ ~OnError /\ ~NotifyKills => HandlerKills(j)
<1>0. \A j : Outcome(j) \in {"end", "cancel"}
  BY DEF Outcome
<1>1. ASSUME RetryFails \/ OnError PROVE Top.on \in Jobs /\ EndsNow(Top.on)
  BY <1>1, GivenUp, GiveUpPlace DEF GivesOf, EndsNow
<1>2. ASSUME NotifyKills PROVE Top.on \in Jobs /\ EndsNow(Top.on)
  <2>1. Top.on \in Jobs /\ KillsOf(Top.on)
    BY <1>2, NotifyKillsPlace
  <2> QED BY <1>0, <2>1 DEF KillsOf, EndsNow, Broken
<1>3. ASSUME NEW j \in Jobs, HandlerKills(j) PROVE EndsNow(j)
  <2>1. KillsOf(j)
    BY <1>3, HandlerKillsPlace
  <2> QED BY <1>0, <2>1 DEF KillsOf, EndsNow, Broken
<1>4. CASE RetryFails \/ OnError
  <2>1. ~NotifyKills
    BY <1>4, GiveUpForms DEF NotifyKills, At
  <2> QED BY <1>1, <1>4, <2>1
<1>5. CASE NotifyKills
  <2>1. ~RetryFails /\ ~OnError
    BY <1>5, GiveUpForms DEF NotifyKills, At
  <2> QED BY <1>2, <1>5, <2>1
<1>6. CASE ~RetryFails /\ ~OnError /\ ~NotifyKills
  <2>1. PICK j \in Jobs : HandlerKills(j)
    BY <1>6 DEF Ending
  <2> QED BY <1>3, <1>6, <2>1
<1> QED BY <1>4, <1>5, <1>6

LEMMA PlaceInit ==
  ASSUME Init PROVE PlaceInv /\ New = Jobs /\ Dead = {}
<1>1. /\ pendShort = <<>> /\ pendFeedback = <<>> /\ calls = <<>> /\ stack = <<User>>
      /\ \A j \in Jobs : job[j].mem = "unborn" /\ job[j].kill = FALSE
      /\ \A t \in Threads : thread[t].work = None
      /\ User.todo = <<>> /\ User.kind = "user"
  BY DEF Init, NewJob, User, Frame
<1>2. Len(stack) = 1 /\ stack[1] = User
  BY <1>1
<1>3. \A x \in StackSites : CarriedIn(stack, x) = {}
  <2>1. Light(User)
    BY <1>1 DEF Light, StartKinds, EndKinds
  <2>2. \A x \in StackSites : Carries(User, x) = {}
    BY <2>1, LightIs
  <2> QED BY <1>2, <2>2 DEF CarriedIn
<1>4. Separate(stack)
  <2>1. HandledOnce(User.todo)
    BY <1>1, Nothing
  <2> QED BY <1>2, <2>1 DEF Separate
<1>5. New = Jobs /\ Gone = {} /\ Held = {} /\ Killed = {}
  BY <1>1, JobsAssumption DEF New, Gone, Held, Killed, Work
<1>6. Single
  BY <1>1, <1>4, Nothing, JobsAssumption DEF Single, OneHolder, Work
<1>7. \A z \in Sites : Site(z) = IF z = "new" THEN Jobs ELSE {}
  BY <1>1, <1>3, <1>5, Nothing, SiteIs DEF Sites, StackSites
<1>8. Placement
  <2>1. "new" \in Sites
    BY DEF Sites
  <2> QED BY <1>7, <2>1 DEF Placement
<1>9. Dead = {}
  BY <1>3, <1>5 DEF Dead, StackSites
<1> QED BY <1>5, <1>6, <1>8, <1>9 DEF PlaceInv

-----------------------------------------------------------------------------
(* What a step of the main loop's thread makes of its activations: those   *)
(* under the last one stay, and the last one gives way to ones that        *)
(* concern its own job.                                                    *)
Speakers == {"notify", "mark"}

Told(j) == Top.kind = "flush" /\ Top.todo # <<>> /\ Head(Top.todo) = NotifyOf(j)

Stem(f) ==
  /\ f.kind \in Waits => Top.kind \in Waits /\ f.on = Top.on /\ f.func = Top.func /\ f.waiting = Top.waiting
  /\ f.kind \in RunFrames => Top.kind \in RunFrames /\ f.on = Top.on
  /\ f.kind \in Speakers => (Top.kind \in Speakers /\ f.on = Top.on) \/ Told(f.on)
  /\ f.kind = "wrap" => f.waiter \in 1 .. Len(stack) - 1 /\ stack[f.waiter].func = "user"

Grown(s) ==
  /\ s \in Seq(FrameRecord) /\ Len(stack) - 1 <= Len(s)
  /\ \A i \in 1 .. Len(s) : /\ i < Len(stack) => s[i] = stack[i]
                            /\ i >= Len(stack) => Stem(s[i]) /\ (s[i].kind \in Waits => i = Len(stack))

LEMMA GrownPush ==
  ASSUME NEW s, Grown(s), Len(stack) \in Nat, NEW f \in FrameRecord, Stem(f), f.kind \in Waits => Len(s) = Len(stack) - 1
  PROVE  Grown(Append(s, f))
<1> DEFINE u == Append(s, f)
<1>1. /\ u \in Seq(FrameRecord) /\ Len(s) \in Nat /\ Len(u) = Len(s) + 1 /\ u[Len(s) + 1] = f
      /\ \A i \in 1 .. Len(s) : u[i] = s[i]
  BY DEF Grown
<1> HIDE DEF u
<1>2. \A i \in 1 .. Len(u) : i \in 1 .. Len(s) \/ i = Len(s) + 1
  BY <1>1
<1>3. Len(s) + 1 >= Len(stack) /\ Len(stack) - 1 <= Len(u)
  BY <1>1 DEF Grown
<1>4. ASSUME NEW i \in 1 .. Len(u)
      PROVE  /\ i < Len(stack) => u[i] = stack[i]
             /\ i >= Len(stack) => Stem(u[i]) /\ (u[i].kind \in Waits => i = Len(stack))
  <2>1. CASE i \in 1 .. Len(s)
    BY <1>1, <2>1 DEF Grown
  <2>2. CASE i = Len(s) + 1
    <3>1. u[i] = f /\ ~(i < Len(stack)) /\ (f.kind \in Waits => i = Len(stack))
      BY <1>1, <1>3, <2>2
    <3> QED BY <3>1
  <2> QED BY <1>2, <2>1, <2>2
<1>5. Grown(u)
  BY <1>1, <1>3, <1>4 DEF Grown
<1> QED BY <1>5 DEF u

Plainly(f) == f.kind \notin Waits \cup RunFrames \cup Speakers \cup {"wrap"}

LEMMA GrownPlain ==
  ASSUME NEW s, Grown(s), Len(stack) \in Nat, NEW f \in FrameRecord, Plainly(f) PROVE Grown(Append(s, f))
<1>1. Stem(f) /\ f.kind \notin Waits
  BY DEF Stem, Plainly
<1> QED BY <1>1, GrownPush

LEMMA GrownSelf ==
  ASSUME CoreInv
  PROVE  /\ Len(stack) \in Nat
         /\ Top.kind # "wrap" => Grown(stack)
         /\ (Top.kind # "user" \/ Len(stack) > 1) => Grown(Below)
<1>1. stack \in Seq(FrameRecord) /\ Top = stack[Len(stack)] /\ Len(stack) \in 1 .. Len(stack) /\ Len(stack) \in Nat
  BY TopIs
<1>2. Top.kind # "wrap" => Stem(Top)
  BY DEF Stem
<1>3. Top.kind # "wrap" => Grown(stack)
  <2>1. \A i \in 1 .. Len(stack) : i >= Len(stack) => i = Len(stack)
    BY <1>1
  <2> QED BY <1>1, <1>2, <2>1 DEF Grown
<1>4. (Top.kind # "user" \/ Len(stack) > 1) => Grown(Below)
  <2> SUFFICES ASSUME Top.kind # "user" \/ Len(stack) > 1 PROVE Grown(Below)
    OBVIOUS
  <2>1. Below \in Seq(FrameRecord) /\ Len(Below) = Len(stack) - 1 /\ Len(Below) \in Nat
         /\ \A i \in 1 .. Len(Below) : Below[i] = stack[i] /\ i \in 1 .. Len(stack) /\ i < Len(stack)
    BY BelowIs
  <2>2. \A i \in 1 .. Len(Below) : ~(i >= Len(stack))
    BY <1>1, <2>1
  <2> QED BY <1>1, <2>1, <2>2 DEF Grown
<1> QED BY <1>1, <1>3, <1>4

LEMMA RestGrown ==
  ASSUME CoreInv, Top.kind = "flush", Top.todo # <<>> PROVE Grown(Rest)
<1>1. LessOne \in FrameRecord /\ LessOne.kind = "flush" /\ LessOne.todo = Tail(Top.todo)
         /\ LessOne.waiting = Top.waiting /\ Rest = Append(Below, LessOne)
  BY LessOneIs
<1>2. Plainly(LessOne)
  BY <1>1 DEF Plainly, Waits, RunFrames, Speakers
<1> QED BY <1>1, <1>2, GrownSelf, GrownPlain

LEMMA UserPlainly ==
  User \in FrameRecord /\ Plainly(User) /\ \A j \in Jobs : Frame("kill", j) \in FrameRecord /\ Plainly(Frame("kill", j))
<1>1. ASSUME NEW j \in Jobs PROVE Frame("kill", j) \in FrameRecord /\ Plainly(Frame("kill", j))
  <2>1. Plain(Frame("kill", j), "kill", j)
    BY FrameIs DEF FrameKinds
  <2> QED BY <2>1 DEF Plain, Plainly, Waits, RunFrames, Speakers
<1> QED BY <1>1, UserIs DEF Plainly, Waits, RunFrames, Speakers

LEMMA KillGrown ==
  ASSUME CoreInv, NEW j \in Jobs, NEW b, Grown(b), Kill(j, b), Top.kind \in {"flush", "notify"} PROVE Grown(stack')
<1> DEFINE f == Frame("kill", j)
           c == Append(b, f)
           w == Wrapper(j, job[j].waiter)
<1>0. b \in Seq(FrameRecord) /\ job[j].waiter \in Nat
  BY DEF Grown, CoreInv, Types, JobRec
<1>1. f \in FrameRecord /\ Plainly(f) /\ User \in FrameRecord /\ Plainly(User)
  BY UserPlainly
<1>2. w \in FrameRecord /\ w.kind = "wrap" /\ w.waiter = job[j].waiter
  <2>1. PICK i \in Nat : i = job[j].waiter
    BY <1>0
  <2>2. Wrapper(j, i) \in FrameRecord /\ Wrapper(j, i).kind = "wrap" /\ Wrapper(j, i).waiter = i
    BY ONLY j \in Jobs, i \in Nat, WrapperIs
  <2> QED BY <2>1, <2>2
<1>3. Len(stack) \in Nat /\ Top.kind # "wrap" /\ Grown(stack)
  BY GrownSelf
<1>4. \/ stack' = Append(c, User)
      \/ stack' = Append(Append(c, w), User) /\ job[j].waiter # 0 /\ stack[job[j].waiter].func = "user"
      \/ stack' = stack
  <2>1. LET cc == Append(b, Frame("kill", j))
         IN \/ /\ job[j].func # "wrap"
               /\ Report(j, Outcome(j)) /\ stack' = Append(cc, User)
            \/ /\ job[j].func = "wrap" /\ job[j].waiter # 0 /\ stack[job[j].waiter].func = "user"
               /\ Report(j, Outcome(j)) /\ stack' = Append(Append(cc, Wrapper(j, job[j].waiter)), User)
            \/ Broken
    BY <1>0, KillForms
  <2> QED BY <2>1 DEF Broken
<1>5. job[j].waiter # 0 /\ stack[job[j].waiter].func = "user" => Stem(w)
  <2> SUFFICES ASSUME job[j].waiter # 0, stack[job[j].waiter].func = "user" PROVE Stem(w)
    OBVIOUS
  <2>1. Waiting(stack, j, job[j].waiter)
    BY DEF CoreInv, WaitersRight
  <2>2. job[j].waiter \in 1 .. Len(stack) /\ stack[job[j].waiter].kind \in Waits
    BY <2>1 DEF Waiting
  <2>3. job[j].waiter # Len(stack)
    BY <2>2, TopIs DEF Waits
  <2>4. job[j].waiter \in 1 .. Len(stack) - 1
    BY <1>3, <2>2, <2>3
  <2> QED BY <1>2, <2>4 DEF Stem, Waits, RunFrames, Speakers
<1> HIDE DEF f, w
<1>6. Grown(c)
  BY <1>1, <1>3, GrownPlain
<1> HIDE DEF c
<1>7. Grown(Append(c, User))
  BY <1>1, <1>3, <1>6, GrownPlain
<1>8. Stem(w) => Grown(Append(Append(c, w), User))
  <2>1. Stem(w) => Grown(Append(c, w))
    BY <1>2, <1>3, <1>6, GrownPush DEF Waits
  <2> DEFINE d == Append(c, w)
  <2> HIDE DEF d
  <2>2. Grown(d) => Grown(Append(d, User))
    BY <1>1, <1>3, GrownPlain
  <2> QED BY <2>1, <2>2 DEF d
<1> QED BY <1>3, <1>4, <1>5, <1>7, <1>8

LEMMA MainGrown ==
  ASSUME CoreInv, MainStep, ~WrapDone PROVE Grown(stack')
<1>0. Len(stack) \in Nat /\ (Top.kind # "wrap" => Grown(stack))
         /\ ((Top.kind # "user" \/ Len(stack) > 1) => Grown(Below))
  BY GrownSelf
<1>1. ASSUME (\E t \in Threads : Create(t)) \/ Failed \/ CountDirect \/ CancelMark \/ WaitOver \/ WaitTimeout
             \/ Return \/ FlushEnd \/ NotifyDone \/ KillDone
      PROVE  Grown(stack')
  <2>1. stack' = Below /\ (Top.kind # "user" \/ Len(stack) > 1)
    BY <1>1 DEF Create, Failed, CountDirect, CancelMark, WaitOver, WaitTimeout, Return, FlushEnd, NotifyDone,
       KillDone, Pop, At
  <2> QED BY <1>0, <2>1
<1>2. ASSUME CreateFails \/ CreateDirectFails \/ WaitFlush PROVE Grown(stack')
  <2>1. PICK k \in {"retry", "directRetry", "waited"} :
              /\ stack' = Append(Append(Below, Turned(k)), Flush)
              /\ Top.kind = (IF k = "retry" THEN "relock" ELSE IF k = "directRetry" THEN "direct" ELSE "wait")
    BY <1>2, FlushForms
  <2>2. Turned(k) \in FrameRecord /\ Turned(k).kind = k /\ Turned(k).on = Top.on /\ Turned(k).waiting = Top.waiting
            /\ Turned(k).func = Top.func
    BY TurnedIs DEF FrameKinds
  <2>3. Stem(Turned(k))
    BY <2>1, <2>2 DEF Stem, Waits, RunFrames, Speakers
  <2>4. Grown(Append(Below, Turned(k)))
    BY <1>0, <2>1, <2>2, <2>3, BelowIs, GrownPush
  <2>5. Flush \in FrameRecord /\ Plainly(Flush)
    BY FlushIs DEF Plainly, Waits, RunFrames, Speakers
  <2> QED BY <1>0, <2>1, <2>4, <2>5, GrownPlain
<1>3. ASSUME RetryFailsFeedback \/ WaitAgain \/ \E t \in Threads : CreateDirect(t) PROVE Grown(stack')
  <2>1. PICK k \in {"onError", "counted", "wait"} :
              /\ stack' = Append(Below, Turned(k))
              /\ Top.kind \in (IF k = "onError" THEN {"retry", "relockTried"} ELSE IF k = "counted" THEN StartKinds ELSE {"waited"})
    BY <1>3, TurnForms
  <2>2. Turned(k) \in FrameRecord /\ Turned(k).kind = k /\ Turned(k).on = Top.on /\ Turned(k).waiting = Top.waiting
            /\ Turned(k).func = Top.func
    BY TurnedIs DEF FrameKinds
  <2>3. Stem(Turned(k))
    BY <2>1, <2>2 DEF Stem, Waits, RunFrames, Speakers, StartKinds
  <2>4. Top.kind # "user"
    BY <2>1 DEF StartKinds
  <2> QED BY <1>0, <2>1, <2>2, <2>3, <2>4, BelowIs, GrownPush
<1>4. ASSUME LoopFlush PROVE Grown(stack')
  <2>1. stack' = Append(stack, Flush) /\ Top.kind = "user"
    BY <1>4 DEF LoopFlush, Push, At
  <2>2. Flush \in FrameRecord /\ Plainly(Flush)
    BY FlushIs DEF Plainly, Waits, RunFrames, Speakers
  <2> QED BY <1>0, <2>1, <2>2, GrownPlain
<1>5. ASSUME NotifyKills PROVE Grown(stack')
  <2>1. Top.kind = "notify" /\ Kill(Top.on, Below) /\ Top.on \in Jobs
    BY <1>5, TopIs DEF NotifyKills, At
  <2> QED BY <1>0, <2>1, KillGrown
<1>6. ASSUME DirectSelfLock PROVE Grown(stack')
  <2>1. stack' = stack /\ Top.kind # "wrap"
    BY <1>6 DEF DirectSelfLock, SelfLock, At
  <2> QED BY <1>0, <2>1
<1>7. ASSUME (\E t \in Threads : Join(t)) \/ (\E j \in Jobs : HandlerKeeps(j) \/ HandlerKills(j) \/ Notify(j))
      PROVE  Grown(stack')
  <2>1. Top.kind = "flush" /\ Top.todo # <<>>
    BY <1>7 DEF Join, HandlerKeeps, HandlerKills, Notify, NextCall, At
  <2>2. Grown(Rest)
    BY <2>1, RestGrown
  <2>3. CASE stack' = Rest
    BY <2>2, <2>3
  <2>4. ASSUME NEW j \in Jobs, HandlerKills(j) PROVE Grown(stack')
    BY <2>1, <2>2, <2>4, KillGrown DEF HandlerKills
  <2>5. ASSUME NEW j \in Jobs, Notify(j) PROVE Grown(stack')
    <3>1. stack' = Append(Append(Rest, Frame("notify", j)), User)
      <4>1. stack' = Append(Append(Append(Below, LessOne), Frame("notify", j)), User)
        BY <2>5, NotifyForm
      <4>2. Rest = Append(Below, LessOne)
        BY DEF Rest, LessOne
      <4> QED BY <4>1, <4>2
    <3>2. Frame("notify", j) \in FrameRecord /\ Frame("notify", j).kind = "notify" /\ Frame("notify", j).on = j
      <4>1. Plain(Frame("notify", j), "notify", j)
        BY FrameIs DEF FrameKinds
      <4> QED BY <4>1 DEF Plain
    <3>3. Stem(Frame("notify", j))
      <4>1. Told(j)
        BY <2>5 DEF Notify, NextCall, At, Told, NotifyOf
      <4> QED BY <3>2, <4>1 DEF Stem, Waits, RunFrames, Speakers
    <3>4. Grown(Append(Rest, Frame("notify", j)))
      BY <1>0, <2>2, <3>2, <3>3, GrownPush DEF Waits
    <3> QED BY <1>0, <3>1, <3>4, UserPlainly, GrownPlain
  <2> QED BY <1>7, <2>3, <2>4, <2>5 DEF Join, HandlerKeeps
<1>8. ASSUME RetryDirectFails PROVE Grown(stack')
  <2>1. /\ Top.kind = "directRetry" /\ (stack' = Below \/ stack' = Append(Below, Frame("relockTried", Top.on)))
        /\ Top.on \in Jobs
    BY <1>8, TopIs DEF RetryDirectFails, At, QueueJob
  <2>2. Frame("relockTried", Top.on) \in FrameRecord /\ Frame("relockTried", Top.on).kind = "relockTried"
        /\ Frame("relockTried", Top.on).on = Top.on
    <3>1. Plain(Frame("relockTried", Top.on), "relockTried", Top.on)
      BY <2>1, FrameIs DEF FrameKinds
    <3> QED BY <3>1 DEF Plain
  <2>3. Stem(Frame("relockTried", Top.on)) /\ Frame("relockTried", Top.on).kind \notin Waits
    BY <2>1, <2>2 DEF Stem, Waits, RunFrames, Speakers
  <2> QED BY <1>0, <2>1, <2>2, <2>3, GrownPush
<1>9. ASSUME RetryFails \/ OnError PROVE Grown(stack')
  <2>1. /\ Top.kind \in {"retry", "onError"} /\ Top.on \in Jobs
        /\ \/ /\ count # 0 /\ stack' = Below /\ UNCHANGED <<pendShort, pendFeedback, ghost>>
           \/ /\ count = 0 /\ Dropped(Top.on) /\ Report(Top.on, "cancel")
              /\ stack' = Append(Append(Below, Frame("failed", Top.on)), User)
    BY <1>9, GiveUpForms
  <2>2. Frame("failed", Top.on) \in FrameRecord /\ Frame("failed", Top.on).kind = "failed"
        /\ Frame("failed", Top.on).on = Top.on
    <3>1. Plain(Frame("failed", Top.on), "failed", Top.on)
      BY <2>1, FrameIs DEF FrameKinds
    <3> QED BY <3>1 DEF Plain
  <2>3. Stem(Frame("failed", Top.on)) /\ Frame("failed", Top.on).kind \notin Waits
    BY <2>1, <2>2 DEF Stem, Waits, RunFrames, Speakers
  <2>4. Grown(Below) /\ Grown(Append(Below, Frame("failed", Top.on)))
    BY <1>0, <2>1, <2>2, <2>3, GrownPush
  <2> QED BY <1>0, <2>1, <2>4, UserPlainly, GrownPlain
<1> QED BY <1>1, <1>2, <1>3, <1>4, <1>5, <1>6, <1>7, <1>8, <1>9 DEF MainStep

-----------------------------------------------------------------------------
(* The messages on their way: in the queue of calls, counted from its      *)
(* start, and in the flushes, counted from their ends.                     *)
TodoAt(s, i) == IF i \in 1 .. Len(s) THEN s[i].todo ELSE <<>>

Queued(c, j)  == {k \in 1 .. Len(c) : c[k] = NotifyOf(j)}
Flushed(s, j) ==
  {p \in Nat \X Nat : /\ p[2] \in 1 .. Len(TodoAt(s, p[1]))
                      /\ TodoAt(s, p[1])[Len(TodoAt(s, p[1])) + 1 - p[2]] = NotifyOf(j)}

CountsRight ==
  \A j \in Jobs : /\ IsFiniteSet(Flushed(stack, j))
                  /\ job[j].send = job[j].received + Cardinality(Queued(calls, j)) + Cardinality(Flushed(stack, j))

LEMMA QueuedFinite ==
  ASSUME NEW c \in Seq(Call), NEW j PROVE IsFiniteSet(Queued(c, j)) /\ Cardinality(Queued(c, j)) \in Nat
<1>1. Len(c) \in Nat
  OBVIOUS
<1>2. IsFiniteSet(1 .. Len(c))
  BY <1>1, FS_Interval
<1>3. Queued(c, j) \in SUBSET (1 .. Len(c))
  BY DEF Queued
<1> QED BY <1>2, <1>3, FS_Subset, FS_CardinalityType

LEMMA QueuedAppend ==
  ASSUME NEW c \in Seq(Call), NEW x \in Call, NEW j \in Jobs
  PROVE  /\ x # NotifyOf(j) => Queued(Append(c, x), j) = Queued(c, j)
         /\ x = NotifyOf(j) => Cardinality(Queued(Append(c, x), j)) = Cardinality(Queued(c, j)) + 1
<1> DEFINE d == Append(c, x)
<1>1. Len(d) = Len(c) + 1 /\ d[Len(c) + 1] = x /\ Len(c) \in Nat /\ \A k \in 1 .. Len(c) : d[k] = c[k]
  OBVIOUS
<1> HIDE DEF d
<1>2. \A k : k \in 1 .. Len(d) <=> k \in 1 .. Len(c) \/ k = Len(c) + 1
  BY <1>1
<1>3. Queued(d, j) = Queued(c, j) \cup (IF x = NotifyOf(j) THEN {Len(c) + 1} ELSE {})
  BY <1>1, <1>2 DEF Queued
<1>4. Len(c) + 1 \notin Queued(c, j)
  BY <1>1 DEF Queued
<1>5. IsFiniteSet(Queued(c, j))
  BY QueuedFinite
<1>6. Cardinality(Queued(c, j) \cup {Len(c) + 1}) = Cardinality(Queued(c, j)) + 1
  BY <1>4, <1>5, FS_AddElement
<1> QED BY <1>3, <1>6 DEF d

LEMMA QueuedNothing ==
  ASSUME NEW j PROVE Queued(<<>>, j) = {} /\ Cardinality(Queued(<<>>, j)) = 0
<1>1. Queued(<<>>, j) = {}
  BY DEF Queued
<1> QED BY <1>1, FS_EmptySet

LEMMA FlushedSame ==
  ASSUME NEW s, NEW u, \A i \in Nat : TodoAt(u, i) = TodoAt(s, i), NEW j PROVE Flushed(u, j) = Flushed(s, j)
BY DEF Flushed

(* A flush takes the calls of the queue.                                   *)
LEMMA FlushedMore ==
  ASSUME NEW s, NEW u, NEW n \in Nat, NEW c \in Seq(Call), TodoAt(s, n) = <<>>,
         \A i \in Nat : TodoAt(u, i) = IF i = n THEN c ELSE TodoAt(s, i),
         NEW j \in Jobs, IsFiniteSet(Flushed(s, j))
  PROVE  /\ IsFiniteSet(Flushed(u, j))
         /\ Cardinality(Flushed(u, j)) = Cardinality(Flushed(s, j)) + Cardinality(Queued(c, j))
<1> DEFINE M == {p \in Nat \X Nat : p[1] = n /\ p[2] \in 1 .. Len(c) /\ c[Len(c) + 1 - p[2]] = NotifyOf(j)}
           f == [k \in Queued(c, j) |-> <<n, Len(c) + 1 - k>>]
<1>1. Len(c) \in Nat
  OBVIOUS
<1>2. Flushed(u, j) = Flushed(s, j) \cup M
  <2>1. ASSUME NEW p \in Nat \X Nat PROVE p \in Flushed(u, j) <=> p \in Flushed(s, j) \cup M
    <3>1. CASE p[1] = n
      <4>1. TodoAt(u, p[1]) = c /\ TodoAt(s, p[1]) = <<>>
        BY <3>1
      <4>2. p \notin Flushed(s, j)
        BY <4>1 DEF Flushed
      <4> QED BY <3>1, <4>1, <4>2 DEF Flushed
    <3>2. CASE p[1] # n
      <4>1. TodoAt(u, p[1]) = TodoAt(s, p[1])
        BY <3>2
      <4> QED BY <3>2, <4>1 DEF Flushed
    <3> QED BY <3>1, <3>2
  <2>2. Flushed(u, j) \subseteq Nat \X Nat /\ Flushed(s, j) \subseteq Nat \X Nat /\ M \subseteq Nat \X Nat
    BY DEF Flushed
  <2> QED BY <2>1, <2>2
<1>3. Flushed(s, j) \cap M = {}
  <2>1. \A p \in M : p[1] = n
    OBVIOUS
  <2>2. \A p \in Flushed(s, j) : p[2] \in 1 .. Len(TodoAt(s, p[1]))
    BY DEF Flushed
  <2>3. ASSUME NEW p, p \in M, p \in Flushed(s, j) PROVE FALSE
    <3>1. p[2] \in 1 .. Len(<<>>)
      BY <2>1, <2>2, <2>3
    <3> QED BY <3>1
  <2> QED BY <2>3
<1>4. IsFiniteSet(Queued(c, j)) /\ Queued(c, j) \subseteq 1 .. Len(c) /\ \A k \in Queued(c, j) : c[k] = NotifyOf(j)
  BY QueuedFinite DEF Queued
<1>5. \A k \in Queued(c, j) : f[k] \in M
  <2> SUFFICES ASSUME NEW k \in Queued(c, j) PROVE f[k] \in M
    OBVIOUS
  <2>1. k \in 1 .. Len(c) /\ c[k] = NotifyOf(j) /\ f[k] = <<n, Len(c) + 1 - k>>
    BY <1>4
  <2>2. Len(c) + 1 - k \in 1 .. Len(c) /\ Len(c) + 1 - (Len(c) + 1 - k) = k
    BY <1>1, <2>1
  <2> QED BY <2>1, <2>2
<1>6. f \in Injection(Queued(c, j), M)
  <2>1. f \in [Queued(c, j) -> M]
    BY <1>5
  <2>2. \A a, b \in Queued(c, j) : f[a] = f[b] => a = b
    BY <1>1, <1>4
  <2> QED BY <2>1, <2>2 DEF Injection, IsInjective
<1>7. f \in Surjection(Queued(c, j), M)
  <2>1. ASSUME NEW p \in M PROVE \E k \in Queued(c, j) : f[k] = p
    <3> DEFINE k == Len(c) + 1 - p[2]
    <3>1. p = <<n, p[2]>> /\ p[2] \in 1 .. Len(c) /\ c[k] = NotifyOf(j)
      OBVIOUS
    <3>2. k \in 1 .. Len(c) /\ Len(c) + 1 - k = p[2]
      BY <1>1, <3>1
    <3>3. k \in Queued(c, j)
      BY <3>1, <3>2 DEF Queued
    <3> QED BY <3>1, <3>2, <3>3
  <2> QED BY <1>5, <2>1 DEF Surjection
<1>8. ExistsBijection(Queued(c, j), M)
  BY <1>6, <1>7 DEF ExistsBijection, Bijection
<1> HIDE DEF M, f
<1>9. IsFiniteSet(M) /\ Cardinality(M) = Cardinality(Queued(c, j))
  BY <1>4, <1>8, FS_Bijection
<1>10. Cardinality(Flushed(s, j)) \in Nat /\ Cardinality(M) \in Nat
  BY <1>9, FS_CardinalityType
<1>11. IsFiniteSet(Flushed(s, j) \cup M) /\ Cardinality(Flushed(s, j) \cup M)
          = Cardinality(Flushed(s, j)) + Cardinality(M) - Cardinality(Flushed(s, j) \cap M)
  BY <1>9, FS_Union
<1>12. Cardinality(Flushed(s, j) \cap M) = 0
  BY <1>3, FS_EmptySet
<1> QED BY <1>2, <1>9, <1>10, <1>11, <1>12

(* One call of a flush is done.                                            *)
Lessened(s, u, x, j) ==
  /\ IsFiniteSet(Flushed(u, j))
  /\ x # NotifyOf(j) => Flushed(u, j) = Flushed(s, j)
  /\ x = NotifyOf(j) => Cardinality(Flushed(u, j)) = Cardinality(Flushed(s, j)) - 1 /\ Cardinality(Flushed(s, j)) > 0

LEMMA FlushedLess ==
  ASSUME NEW s, NEW u, NEW n \in Nat, TodoAt(s, n) \in Seq(Call), TodoAt(s, n) # <<>>,
         \A i \in Nat : TodoAt(u, i) = IF i = n THEN Tail(TodoAt(s, n)) ELSE TodoAt(s, i),
         NEW j \in Jobs, IsFiniteSet(Flushed(s, j))
  PROVE  Lessened(s, u, Head(TodoAt(s, n)), j)
<1> DEFINE d == TodoAt(s, n)
           L == Len(d)
           x == <<n, L>>
<1>1. /\ L \in Nat /\ L >= 1 /\ Tail(d) \in Seq(Call) /\ Len(Tail(d)) = L - 1
      /\ Head(d) = d[1] /\ \A i \in 1 .. L - 1 : Tail(d)[i] = d[i + 1]
  BY TailRight
<1>2. \A p \in Nat \X Nat : p \in Flushed(u, j) <=> p \in Flushed(s, j) /\ p # x
  <2> SUFFICES ASSUME NEW p \in Nat \X Nat PROVE p \in Flushed(u, j) <=> p \in Flushed(s, j) /\ p # x
    OBVIOUS
  <2>1. CASE p[1] # n
    <3>1. TodoAt(u, p[1]) = TodoAt(s, p[1]) /\ p # x
      BY <2>1
    <3> QED BY <3>1 DEF Flushed
  <2>2. CASE p[1] = n
    <3> DEFINE q == p[2]
    <3>1. TodoAt(u, p[1]) = Tail(d) /\ TodoAt(s, p[1]) = d /\ (p = x <=> q = L) /\ q \in Nat
      BY <2>2
    <3> HIDE DEF d
    <3>2. p \in Flushed(u, j) <=> q \in 1 .. L - 1 /\ Tail(d)[L - 1 + 1 - q] = NotifyOf(j)
      BY <1>1, <3>1 DEF Flushed
    <3>3. p \in Flushed(s, j) <=> q \in 1 .. L /\ d[L + 1 - q] = NotifyOf(j)
      BY <3>1 DEF Flushed
    <3>4. ASSUME q \in 1 .. L - 1 PROVE Tail(d)[L - 1 + 1 - q] = d[L + 1 - q]
      <4>1. L - 1 + 1 - q \in 1 .. L - 1 /\ L - 1 + 1 - q + 1 = L + 1 - q
        BY <1>1, <3>4
      <4> QED BY <1>1, <4>1
    <3>5. q \in 1 .. L - 1 <=> q \in 1 .. L /\ q # L
      BY <1>1, <3>1
    <3> QED BY <3>1, <3>2, <3>3, <3>4, <3>5
  <2> QED BY <2>1, <2>2
<1>3. Flushed(u, j) = Flushed(s, j) \ {x}
  <2>1. Flushed(u, j) \subseteq Nat \X Nat /\ Flushed(s, j) \subseteq Nat \X Nat
    BY DEF Flushed
  <2> QED BY <1>2, <2>1
<1>4. x \in Flushed(s, j) <=> Head(d) = NotifyOf(j)
  <2>1. x \in Nat \X Nat /\ x[1] = n /\ x[2] = L /\ L \in 1 .. L /\ L + 1 - L = 1
    BY <1>1
  <2>2. x \in Flushed(s, j) <=> d[L + 1 - L] = NotifyOf(j)
    BY <2>1 DEF Flushed
  <2> QED BY <1>1, <2>1, <2>2
<1> HIDE DEF x
<1>5. /\ IsFiniteSet(Flushed(s, j) \ {x})
      /\ Cardinality(Flushed(s, j) \ {x}) = IF x \in Flushed(s, j) THEN Cardinality(Flushed(s, j)) - 1 ELSE Cardinality(Flushed(s, j))
  BY FS_RemoveElement
<1>6. x \in Flushed(s, j) => Cardinality(Flushed(s, j)) > 0
  <2>1. Cardinality(Flushed(s, j)) \in Nat
    BY FS_CardinalityType
  <2>2. x \in Flushed(s, j) => Cardinality(Flushed(s, j)) # 0
    BY FS_EmptySet
  <2> QED BY <2>1, <2>2
<1>7. Head(d) # NotifyOf(j) => Flushed(u, j) = Flushed(s, j)
  BY <1>3, <1>4
<1>8. Head(d) = NotifyOf(j) => Cardinality(Flushed(u, j)) = Cardinality(Flushed(s, j)) - 1 /\ Cardinality(Flushed(s, j)) > 0
  BY <1>3, <1>4, <1>5, <1>6
<1> QED BY <1>3, <1>5, <1>7, <1>8 DEF Lessened

SameTodos(s, u) == \A i \in Nat : TodoAt(u, i) = TodoAt(s, i)

SameMail == \A j \in Jobs : job'[j].send = job[j].send /\ job'[j].received = job[j].received

LEMMA TodoPush ==
  ASSUME NEW s \in Seq(FrameRecord), NEW f \in FrameRecord
  PROVE  /\ \A i \in Nat : TodoAt(Append(s, f), i) = IF i = Len(s) + 1 THEN f.todo ELSE TodoAt(s, i)
         /\ TodoAt(s, Len(s) + 1) = <<>> /\ Len(s) + 1 \in Nat
         /\ f.todo = <<>> => SameTodos(s, Append(s, f))
<1> DEFINE u == Append(s, f)
<1>1. Len(u) = Len(s) + 1 /\ u[Len(s) + 1] = f /\ Len(s) \in Nat /\ \A k \in 1 .. Len(s) : u[k] = s[k]
  OBVIOUS
<1> HIDE DEF u
<1>2. TodoAt(s, Len(s) + 1) = <<>>
  <2>1. Len(s) + 1 \notin 1 .. Len(s)
    BY <1>1
  <2> QED BY <2>1 DEF TodoAt
<1>3. ASSUME NEW i \in Nat PROVE TodoAt(u, i) = IF i = Len(s) + 1 THEN f.todo ELSE TodoAt(s, i)
  <2>1. i \in 1 .. Len(u) <=> i \in 1 .. Len(s) \/ i = Len(s) + 1
    BY <1>1
  <2>2. CASE i = Len(s) + 1
    BY <1>1, <2>1, <2>2 DEF TodoAt
  <2>3. CASE i # Len(s) + 1
    BY <1>1, <2>1, <2>3 DEF TodoAt
  <2> QED BY <2>2, <2>3
<1>4. f.todo = <<>> => SameTodos(s, u)
  BY <1>2, <1>3 DEF SameTodos
<1>5. \A i \in Nat : TodoAt(u, i) = IF i = Len(s) + 1 THEN f.todo ELSE TodoAt(s, i)
  BY <1>3
<1> QED BY <1>1, <1>2, <1>4, <1>5 DEF u

LEMMA TodoPop ==
  ASSUME CoreInv, Top.kind # "user" \/ Len(stack) > 1
  PROVE  /\ \A i \in Nat : TodoAt(Below, i) = IF i = Len(stack) THEN <<>> ELSE TodoAt(stack, i)
         /\ TodoAt(stack, Len(stack)) = Top.todo
         /\ Top.todo = <<>> => SameTodos(stack, Below)
<1>1. stack \in Seq(FrameRecord) /\ Top = stack[Len(stack)] /\ Len(stack) \in 1 .. Len(stack) /\ Len(stack) \in Nat
  BY TopIs
<1>2. Below \in Seq(FrameRecord) /\ Len(Below) = Len(stack) - 1 /\ Len(Below) \in Nat
         /\ \A i \in 1 .. Len(Below) : Below[i] = stack[i] /\ i \in 1 .. Len(stack) /\ i < Len(stack)
  BY BelowIs
<1>3. TodoAt(stack, Len(stack)) = Top.todo
  BY <1>1 DEF TodoAt
<1>4. ASSUME NEW i \in Nat PROVE TodoAt(Below, i) = IF i = Len(stack) THEN <<>> ELSE TodoAt(stack, i)
  <2>1. i \in 1 .. Len(Below) <=> i \in 1 .. Len(stack) /\ i # Len(stack)
    BY <1>1, <1>2
  <2> QED BY <1>2, <2>1 DEF TodoAt
<1>5. Top.todo = <<>> => SameTodos(stack, Below)
  BY <1>3, <1>4 DEF SameTodos
<1> QED BY <1>3, <1>4, <1>5

LEMMA SameChain ==
  ASSUME NEW s, NEW u, NEW v, SameTodos(s, u), SameTodos(u, v) PROVE SameTodos(s, v)
BY DEF SameTodos

(* Two activations that have nothing to call.                              *)
LEMMA TodoTwo ==
  ASSUME NEW s \in Seq(FrameRecord), NEW e \in FrameRecord, e.todo = <<>>, NEW f \in FrameRecord, f.todo = <<>>
  PROVE  SameTodos(s, Append(Append(s, e), f))
<1> DEFINE u == Append(s, e)
<1>1. u \in Seq(FrameRecord) /\ SameTodos(s, u)
  BY TodoPush
<1> HIDE DEF u
<1>2. SameTodos(u, Append(u, f))
  BY <1>1, TodoPush
<1>3. SameTodos(s, Append(u, f))
  BY <1>1, <1>2, SameChain
<1> QED BY <1>3 DEF u

LEMMA KillTodos ==
  ASSUME CoreInv, NEW j \in Jobs, NEW b \in Seq(FrameRecord), Kill(j, b) PROVE SameTodos(b, stack') \/ stack' = stack
<1> DEFINE f == Frame("kill", j)
           c == Append(b, f)
           w == Wrapper(j, job[j].waiter)
<1>0. job[j].waiter \in Nat
  BY DEF CoreInv, Types, JobRec
<1>1. f \in FrameRecord /\ f.todo = <<>>
  <2>1. Plain(Frame("kill", j), "kill", j)
    BY FrameIs DEF FrameKinds
  <2> QED BY <2>1 DEF Plain
<1>2. w \in FrameRecord /\ w.todo = <<>> /\ User \in FrameRecord /\ User.todo = <<>>
  BY <1>0, WrapperIs, UserIs
<1>3. stack' = Append(c, User) \/ stack' = Append(Append(c, w), User) \/ stack' = stack
  <2>1. LET cc == Append(b, Frame("kill", j))
         IN \/ /\ job[j].func # "wrap"
               /\ Report(j, Outcome(j)) /\ stack' = Append(cc, User)
            \/ /\ job[j].func = "wrap" /\ job[j].waiter # 0 /\ stack[job[j].waiter].func = "user"
               /\ Report(j, Outcome(j)) /\ stack' = Append(Append(cc, Wrapper(j, job[j].waiter)), User)
            \/ Broken
    BY KillForms
  <2> QED BY <2>1 DEF Broken
<1> HIDE DEF f, w
<1>4. c \in Seq(FrameRecord) /\ SameTodos(b, c)
  BY <1>1, TodoPush
<1> HIDE DEF c
<1>5. SameTodos(c, Append(c, User)) /\ SameTodos(c, Append(Append(c, w), User))
  BY <1>2, <1>4, TodoPush, TodoTwo
<1>6. CASE stack' = Append(c, User)
  <2>1. SameTodos(c, stack')
    BY <1>5, <1>6
  <2> QED BY <1>4, <2>1, SameChain
<1>7. CASE stack' = Append(Append(c, w), User)
  <2>1. SameTodos(c, stack')
    BY <1>5, <1>7
  <2> QED BY <1>4, <2>1, SameChain
<1> QED BY <1>3, <1>6, <1>7

LEMMA CountsPrimed ==
  ASSUME \A j \in Jobs :
           /\ IsFiniteSet(Flushed(stack', j))
           /\ job'[j].send = job'[j].received + Cardinality(Queued(calls', j)) + Cardinality(Flushed(stack', j))
  PROVE  CountsRight'
<1>1. \A j \in Jobs : Queued(calls, j)' = Queued(calls', j) /\ Flushed(stack, j)' = Flushed(stack', j)
  BY DEF Queued, Flushed, TodoAt
<1> QED BY <1>1 DEF CountsRight

SameQueue == \A j \in Jobs : Cardinality(Queued(calls', j)) = Cardinality(Queued(calls, j))

LEMMA CountsStay ==
  ASSUME CountsRight, SameMail, SameQueue, SameTodos(stack, stack')
  PROVE  CountsRight'
<1>1. ASSUME NEW j \in Jobs PROVE Flushed(stack', j) = Flushed(stack, j)
  <2>1. \A i \in Nat : TodoAt(stack', i) = TodoAt(stack, i)
    BY DEF SameTodos
  <2> QED BY <2>1, FlushedSame
<1> QED BY <1>1, CountsPrimed DEF CountsRight, SameMail, SameQueue

LEMMA CountsTaken ==
  ASSUME CoreInv, CountsRight, SameMail, calls' = <<>>, NEW s \in Seq(FrameRecord), SameTodos(stack, s),
         stack' = Append(s, Flush)
  PROVE  CountsRight'
<1>1. Flush \in FrameRecord /\ Flush.todo = calls /\ calls \in Seq(Call)
  BY FlushIs DEF CoreInv, Types
<1>2. /\ \A i \in Nat : TodoAt(stack', i) = IF i = Len(s) + 1 THEN calls ELSE TodoAt(s, i)
      /\ TodoAt(s, Len(s) + 1) = <<>> /\ Len(s) + 1 \in Nat
  BY <1>1, TodoPush
<1>3. ASSUME NEW j \in Jobs
      PROVE  /\ IsFiniteSet(Flushed(stack', j))
             /\ job'[j].send = job'[j].received + Cardinality(Queued(calls', j)) + Cardinality(Flushed(stack', j))
  <2>1. Flushed(s, j) = Flushed(stack, j) /\ IsFiniteSet(Flushed(s, j))
    BY FlushedSame DEF SameTodos, CountsRight
  <2>2. /\ IsFiniteSet(Flushed(stack', j))
        /\ Cardinality(Flushed(stack', j)) = Cardinality(Flushed(s, j)) + Cardinality(Queued(calls, j))
    BY <1>1, <1>2, <2>1, FlushedMore
  <2>3. Cardinality(Queued(calls', j)) = 0
    BY QueuedNothing
  <2>4. job'[j].send = job[j].received + Cardinality(Queued(calls, j)) + Cardinality(Flushed(stack, j))
        /\ job'[j].received = job[j].received
    BY DEF CountsRight, SameMail
  <2>5. job[j].received \in Nat /\ Cardinality(Queued(calls, j)) \in Nat /\ Cardinality(Flushed(stack, j)) \in Nat
    BY <1>1, <2>1, QueuedFinite, FS_CardinalityType DEF CoreInv, Types, JobRec
  <2> QED BY <2>1, <2>2, <2>3, <2>4, <2>5
<1> QED BY <1>3, CountsPrimed

LEMMA RestTodos ==
  ASSUME CoreInv, Top.kind = "flush", Top.todo # <<>>
  PROVE  /\ \A i \in Nat : TodoAt(Rest, i) = IF i = Len(stack) THEN Tail(TodoAt(stack, Len(stack))) ELSE TodoAt(stack, i)
         /\ TodoAt(stack, Len(stack)) = Top.todo /\ Top.todo \in Seq(Call) /\ Len(stack) \in Nat
         /\ Rest \in Seq(FrameRecord)
<1>1. LessOne \in FrameRecord /\ LessOne.kind = "flush" /\ LessOne.todo = Tail(Top.todo)
         /\ LessOne.waiting = Top.waiting /\ Rest = Append(Below, LessOne)
  BY LessOneIs
<1>2. /\ \A i \in Nat : TodoAt(Below, i) = IF i = Len(stack) THEN <<>> ELSE TodoAt(stack, i)
      /\ TodoAt(stack, Len(stack)) = Top.todo
  BY TodoPop
<1>3. Below \in Seq(FrameRecord) /\ Len(Below) = Len(stack) - 1 /\ Len(Below) \in Nat
  BY BelowIs
<1>4. Len(stack) \in Nat /\ Top.todo \in Seq(Call)
  BY TopIs
<1>5. \A i \in Nat : TodoAt(Rest, i) = IF i = Len(Below) + 1 THEN Tail(Top.todo) ELSE TodoAt(Below, i)
  BY <1>1, <1>3, TodoPush
<1>6. Len(Below) + 1 = Len(stack)
  BY <1>3, <1>4
<1> QED BY <1>1, <1>2, <1>3, <1>4, <1>5, <1>6

(* A call that is no message is done.                                      *)
LEMMA CountsRest ==
  ASSUME CoreInv, CountsRight, SameMail, calls' = calls, Top.kind = "flush", Top.todo # <<>>,
         \A j \in Jobs : Head(Top.todo) # NotifyOf(j), SameTodos(Rest, stack')
  PROVE  CountsRight'
<1> DEFINE n == Len(stack)
<1>1. /\ \A i \in Nat : TodoAt(Rest, i) = IF i = n THEN Tail(TodoAt(stack, n)) ELSE TodoAt(stack, i)
      /\ TodoAt(stack, n) = Top.todo /\ Top.todo \in Seq(Call) /\ n \in Nat
  BY RestTodos
<1>2. \A i \in Nat : TodoAt(stack', i) = IF i = n THEN Tail(TodoAt(stack, n)) ELSE TodoAt(stack, i)
  BY <1>1 DEF SameTodos
<1> HIDE DEF n
<1>3. ASSUME NEW j \in Jobs PROVE Flushed(stack', j) = Flushed(stack, j)
  <2>1. IsFiniteSet(Flushed(stack, j))
    BY DEF CountsRight
  <2>2. TodoAt(stack, n) \in Seq(Call) /\ TodoAt(stack, n) # <<>> /\ Head(TodoAt(stack, n)) # NotifyOf(j)
    BY <1>1
  <2>3. Lessened(stack, stack', Head(TodoAt(stack, n)), j)
    BY <1>1, <1>2, <2>1, <2>2, FlushedLess
  <2> QED BY <2>2, <2>3 DEF Lessened
<1> QED BY <1>3, CountsPrimed DEF CountsRight, SameMail

LEMMA CountsNotify ==
  ASSUME CoreInv, CountsRight, NEW j \in Jobs, Notify(j) PROVE CountsRight' /\ Owing(j)
<1> DEFINE n == Len(stack)
<1>1. Top.kind = "flush" /\ Top.todo # <<>> /\ Head(Top.todo) = NotifyOf(j) /\ calls' = calls
      /\ job' = [job EXCEPT ![j].received = @ + 1]
  BY DEF Notify, NextCall, At, NotifyOf
<1>2. /\ \A i \in Nat : TodoAt(Rest, i) = IF i = n THEN Tail(TodoAt(stack, n)) ELSE TodoAt(stack, i)
      /\ TodoAt(stack, n) = Top.todo /\ Top.todo \in Seq(Call) /\ n \in Nat /\ Rest \in Seq(FrameRecord)
  BY <1>1, RestTodos
<1>3. SameTodos(Rest, stack')
  <2>1. stack' = Append(Append(Append(Below, LessOne), Frame("notify", j)), User) /\ Rest = Append(Below, LessOne)
    BY NotifyForm DEF Rest, LessOne
  <2>2. Plain(Frame("notify", j), "notify", j)
    BY FrameIs DEF FrameKinds
  <2>3. Frame("notify", j) \in FrameRecord /\ Frame("notify", j).todo = <<>> /\ User \in FrameRecord /\ User.todo = <<>>
    BY <2>2, UserIs DEF Plain
  <2>4. stack' = Append(Append(Rest, Frame("notify", j)), User)
    BY <2>1
  <2> QED BY <1>2, <2>3, <2>4, TodoTwo
<1>4. \A i \in Nat : TodoAt(stack', i) = IF i = n THEN Tail(TodoAt(stack, n)) ELSE TodoAt(stack, i)
  BY <1>2, <1>3 DEF SameTodos
<1> HIDE DEF n
<1>5. ASSUME NEW k \in Jobs
      PROVE  /\ IsFiniteSet(Flushed(stack', k))
             /\ Cardinality(Flushed(stack', k)) = Cardinality(Flushed(stack, k)) - (IF k = j THEN 1 ELSE 0)
             /\ k = j => Cardinality(Flushed(stack, k)) > 0
             /\ Cardinality(Flushed(stack, k)) \in Nat /\ Cardinality(Queued(calls, k)) \in Nat
             /\ job[k].received \in Nat /\ job[k].send \in Nat
             /\ job'[k].send = job[k].send /\ job'[k].received = job[k].received + (IF k = j THEN 1 ELSE 0)
  <2>1. IsFiniteSet(Flushed(stack, k)) /\ calls \in Seq(Call) /\ job[k] \in JobRec /\ job \in [Jobs -> JobRec]
    BY DEF CountsRight, CoreInv, Types
  <2>2. TodoAt(stack, n) \in Seq(Call) /\ TodoAt(stack, n) # <<>> /\ (Head(TodoAt(stack, n)) = NotifyOf(k) <=> k = j)
    BY <1>1, <1>2 DEF NotifyOf
  <2>3. /\ IsFiniteSet(Flushed(stack', k))
        /\ k # j => Flushed(stack', k) = Flushed(stack, k)
        /\ k = j => Cardinality(Flushed(stack', k)) = Cardinality(Flushed(stack, k)) - 1 /\ Cardinality(Flushed(stack, k)) > 0
    <3> DEFINE u == stack'
    <3>1. \A i \in Nat : TodoAt(u, i) = IF i = n THEN Tail(TodoAt(stack, n)) ELSE TodoAt(stack, i)
      BY <1>4
    <3> HIDE DEF u
    <3>2. Lessened(stack, u, Head(TodoAt(stack, n)), k)
      BY <1>2, <2>1, <2>2, <3>1, FlushedLess
    <3> QED BY <2>2, <3>2 DEF u, Lessened
  <2>4. Cardinality(Flushed(stack, k)) \in Nat /\ Cardinality(Queued(calls, k)) \in Nat
    BY <2>1, QueuedFinite, FS_CardinalityType
  <2>5. job[k].received \in Nat /\ job[k].send \in Nat
    BY <2>1 DEF JobRec
  <2>6. job'[k].send = job[k].send /\ job'[k].received = job[k].received + (IF k = j THEN 1 ELSE 0)
    BY <1>1, <2>1, <2>5 DEF JobRec
  <2> QED BY <2>2, <2>3, <2>4, <2>5, <2>6
<1>6. CountsRight'
  <2>1. ASSUME NEW k \in Jobs
        PROVE  /\ IsFiniteSet(Flushed(stack', k))
               /\ job'[k].send = job'[k].received + Cardinality(Queued(calls', k)) + Cardinality(Flushed(stack', k))
    <3>1. job[k].send = job[k].received + Cardinality(Queued(calls, k)) + Cardinality(Flushed(stack, k))
      BY DEF CountsRight
    <3> QED BY <1>1, <1>5, <3>1
  <2> QED BY <2>1, CountsPrimed
<1>7. Owing(j)
  <2>1. job[j].send = job[j].received + Cardinality(Queued(calls, j)) + Cardinality(Flushed(stack, j))
    BY DEF CountsRight
  <2> QED BY <1>5, <2>1 DEF Owing
<1> QED BY <1>6, <1>7

-----------------------------------------------------------------------------
(* What the steps leave of a job's record.                                 *)
SameFields(i) ==
  /\ job'[i].send = job[i].send /\ job'[i].received = job[i].received
  /\ job'[i].reschedule = job[i].reschedule /\ job'[i].func = job[i].func /\ job'[i].waiter = job[i].waiter

SameJobs == \A i \in Jobs : SameFields(i)

LEMMA FieldsPut ==
  ASSUME CoreInv, NEW j, NEW r, job' = [job EXCEPT ![j] = r],
         j \in Jobs => /\ r.send = job[j].send /\ r.received = job[j].received
                       /\ r.reschedule = job[j].reschedule /\ r.func = job[j].func /\ r.waiter = job[j].waiter
  PROVE  SameJobs
<1>1. \A i \in Jobs : job'[i] = IF i = j THEN r ELSE job[i]
  BY DEF CoreInv, Types
<1> QED BY <1>1 DEF SameJobs, SameFields

LEMMA FieldsKept ==
  ASSUME CoreInv, NEW j, NEW c, \/ job' = [job EXCEPT ![j].self = c] \/ job' = [job EXCEPT ![j].cancel = c]
                                \/ job' = [job EXCEPT ![j].kill = c] \/ job' = [job EXCEPT ![j].mem = c]
  PROVE  SameJobs
<1>0. j \in Jobs => job[j] \in JobRec
  BY DEF CoreInv, Types
<1>1. CASE job' = [job EXCEPT ![j].self = c]
  <2> DEFINE r == [job[j] EXCEPT !.self = c]
  <2>1. job' = [job EXCEPT ![j] = r]
    BY <1>1
  <2>2. j \in Jobs => /\ r.send = job[j].send /\ r.received = job[j].received
                       /\ r.reschedule = job[j].reschedule /\ r.func = job[j].func /\ r.waiter = job[j].waiter
    BY <1>0 DEF JobRec
  <2> HIDE DEF r
  <2> QED BY <2>1, <2>2, FieldsPut
<1>2. CASE job' = [job EXCEPT ![j].cancel = c]
  <2> DEFINE r == [job[j] EXCEPT !.cancel = c]
  <2>1. job' = [job EXCEPT ![j] = r]
    BY <1>2
  <2>2. j \in Jobs => /\ r.send = job[j].send /\ r.received = job[j].received
                       /\ r.reschedule = job[j].reschedule /\ r.func = job[j].func /\ r.waiter = job[j].waiter
    BY <1>0 DEF JobRec
  <2> HIDE DEF r
  <2> QED BY <2>1, <2>2, FieldsPut
<1>3. CASE job' = [job EXCEPT ![j].kill = c]
  <2> DEFINE r == [job[j] EXCEPT !.kill = c]
  <2>1. job' = [job EXCEPT ![j] = r]
    BY <1>3
  <2>2. j \in Jobs => /\ r.send = job[j].send /\ r.received = job[j].received
                       /\ r.reschedule = job[j].reschedule /\ r.func = job[j].func /\ r.waiter = job[j].waiter
    BY <1>0 DEF JobRec
  <2> HIDE DEF r
  <2> QED BY <2>1, <2>2, FieldsPut
<1>4. CASE job' = [job EXCEPT ![j].mem = c]
  <2> DEFINE r == [job[j] EXCEPT !.mem = c]
  <2>1. job' = [job EXCEPT ![j] = r]
    BY <1>4
  <2>2. j \in Jobs => /\ r.send = job[j].send /\ r.received = job[j].received
                       /\ r.reschedule = job[j].reschedule /\ r.func = job[j].func /\ r.waiter = job[j].waiter
    BY <1>0 DEF JobRec
  <2> HIDE DEF r
  <2> QED BY <2>1, <2>2, FieldsPut
<1> QED BY <1>1, <1>2, <1>3, <1>4

LEMMA FieldsSame ==
  ASSUME UNCHANGED job PROVE SameJobs
BY DEF SameJobs, SameFields

LEMMA ThreadFields ==
  ASSUME CoreInv, NEW t \in Threads, ThreadStep(t) \/ FunctionStep(t), ~Send(t), ~Reschedule(t), ~Requeue(t)
  PROVE  SameJobs
<1>1. CASE Start(t) \/ StartDirect(t) \/ CancelSelf(t)
  <2>1. job' = [job EXCEPT ![Work(t)].self = t] \/ job' = [job EXCEPT ![Work(t)].cancel = TRUE]
    BY <1>1 DEF Start, StartDirect, CancelSelf
  <2> QED BY <2>1, FieldsKept
<1>2. CASE ~(Start(t) \/ StartDirect(t) \/ CancelSelf(t))
  <2>1. UNCHANGED job
    BY <1>2 DEF ThreadStep, FunctionStep, PickShort, PickFeedback, MarkRunning, Finish, LeaveRunning, PostHandler,
       TestOnce, TestTwice, Test, Leave, LeaveDirect, Cut
  <2> QED BY <2>1, FieldsSame
<1> QED BY <1>1, <1>2

LEMMA UserFields ==
  ASSUME CoreInv, UserStep, \A j \in Jobs : ~Run(j) /\ ~RunDirect(j) /\ ~Wait(j)
  PROVE  SameJobs
<1>1. UNCHANGED job
  BY DEF UserStep, RunSelfLock, CancelSelfLock, SelfLock, Cancel, CancelKilled, MaxSet
<1> QED BY <1>1, FieldsSame

LEMMA MainFields ==
  ASSUME CoreInv, MainStep, \A j \in Jobs : ~Notify(j), ~WaitTimeout, ~WrapDone
  PROVE  SameJobs
<1>1. CASE CancelMark \/ Failed \/ KillDone \/ \E j \in Jobs : HandlerKeeps(j)
  <2>1. \E j : \/ job' = [job EXCEPT ![j].cancel = TRUE] \/ job' = [job EXCEPT ![j].kill = TRUE]
               \/ job' = [job EXCEPT ![j].mem = "freed"]
    BY <1>1 DEF CancelMark, Failed, KillDone, Freed, HandlerKeeps
  <2> QED BY <2>1, FieldsKept
<1>2. CASE ~(CancelMark \/ Failed \/ KillDone \/ \E j \in Jobs : HandlerKeeps(j))
  <2>1. UNCHANGED job
    BY <1>2 DEF MainStep, Create, CreateDirect, Join, CreateFails, RetryFails, RetryFailsFeedback, OnError, CountDirect,
       CreateDirectFails, RetryDirectFails, DirectSelfLock, SelfLock, WaitFlush, WaitAgain, WaitOver, Return, LoopFlush,
       FlushEnd, HandlerKills, NotifyDone, NotifyKills
  <2> QED BY <2>1, FieldsSame
<1> QED BY <1>1, <1>2

(* The steps of a job's record that matter here.                           *)
SendPuts(w) ==
  /\ w \in Jobs /\ w \in Held /\ w \notin Short
  /\ \A i \in Jobs : /\ job'[i].send = IF i = w THEN job[i].send + 1 ELSE job[i].send
                     /\ job'[i].received = job[i].received /\ job'[i].reschedule = job[i].reschedule
                     /\ job'[i].func = job[i].func /\ job'[i].waiter = job[i].waiter

LEMMA SendFields ==
  ASSUME CoreInv, NEW t \in Threads, Send(t) PROVE SendPuts(Work(t))
<1> DEFINE w == Work(t)
           r == [job[w] EXCEPT !.send = @ + 1]
<1>0. thread[t].pc \in HoldStates => w \in Jobs /\ w \in Held /\ job[w] \in JobRec
  BY Holding DEF Held
<1>1. w \in Jobs /\ w \in Held /\ w \notin Short /\ job[w] \in JobRec /\ job' = [job EXCEPT ![w] = r]
  BY <1>0 DEF Send, In, HoldStates
<1>2. r.send = job[w].send + 1 /\ r.received = job[w].received
             /\ r.reschedule = job[w].reschedule /\ r.func = job[w].func /\ r.waiter = job[w].waiter
  BY <1>1 DEF JobRec
<1> HIDE DEF r, w
<1>3. \A i \in Jobs : job'[i] = IF i = w THEN r ELSE job[i]
  BY <1>1 DEF CoreInv, Types
<1>4. SendPuts(w)
  BY <1>1, <1>2, <1>3 DEF SendPuts
<1> QED BY <1>4 DEF w

AgainPuts(w, b) ==
  /\ w \in Jobs /\ w \in Held
  /\ \A i \in Jobs : /\ job'[i].send = job[i].send /\ job'[i].received = job[i].received
                     /\ i # w => job'[i].reschedule = job[i].reschedule
                     /\ i = w => (job'[i].reschedule <=> b = 1)
                     /\ job'[i].func = job[i].func /\ job'[i].waiter = job[i].waiter

LEMMA RescheduleFields ==
  ASSUME CoreInv, NEW t \in Threads, Reschedule(t) PROVE AgainPuts(Work(t), 1)
<1> DEFINE w == Work(t)
           r == [job[w] EXCEPT !.reschedule = TRUE]
<1>0. thread[t].pc \in HoldStates => w \in Jobs /\ w \in Held /\ job[w] \in JobRec
  BY Holding DEF Held
<1>1. w \in Jobs /\ w \in Held /\ job[w] \in JobRec /\ job' = [job EXCEPT ![w] = r]
  BY <1>0 DEF Reschedule, In, HoldStates
<1>2. r.send = job[w].send /\ r.received = job[w].received
             /\ r.reschedule = TRUE /\ r.func = job[w].func /\ r.waiter = job[w].waiter
  BY <1>1 DEF JobRec
<1> HIDE DEF r, w
<1>3. \A i \in Jobs : job'[i] = IF i = w THEN r ELSE job[i]
  BY <1>1 DEF CoreInv, Types
<1>4. AgainPuts(w, 1)
  BY <1>1, <1>2, <1>3 DEF AgainPuts
<1> QED BY <1>4 DEF w

LEMMA RequeueFields ==
  ASSUME CoreInv, NEW t \in Threads, Requeue(t) PROVE AgainPuts(Work(t), 0)
<1> DEFINE w == Work(t)
           r == [job[w] EXCEPT !.reschedule = FALSE]
<1>0. thread[t].pc \in HoldStates => w \in Jobs /\ w \in Held /\ job[w] \in JobRec
  BY Holding DEF Held
<1>1. w \in Jobs /\ w \in Held /\ job[w] \in JobRec /\ job' = [job EXCEPT ![w] = r]
  BY <1>0 DEF Requeue, In, HoldStates
<1>2. r.send = job[w].send /\ r.received = job[w].received
             /\ r.reschedule = FALSE /\ r.func = job[w].func /\ r.waiter = job[w].waiter
  BY <1>1 DEF JobRec
<1> HIDE DEF r, w
<1>3. \A i \in Jobs : job'[i] = IF i = w THEN r ELSE job[i]
  BY <1>1 DEF CoreInv, Types
<1>4. AgainPuts(w, 0)
  BY <1>1, <1>2, <1>3 DEF AgainPuts
<1> QED BY <1>4 DEF w
-----------------------------------------------------------------------------
(* Every step keeps the account of the messages.                           *)
LEMMA QueueKept ==
  ASSUME CoreInv, NEW x \in Call, x.op # "notify", calls' = Append(calls, x) PROVE SameQueue
<1>1. calls \in Seq(Call)
  BY DEF CoreInv, Types
<1>2. ASSUME NEW j \in Jobs PROVE Cardinality(Queued(calls', j)) = Cardinality(Queued(calls, j))
  <2>1. x # NotifyOf(j)
    BY CallIs
  <2>2. Queued(Append(calls, x), j) = Queued(calls, j)
    BY <1>1, <2>1, QueuedAppend
  <2> QED BY <2>2
<1> QED BY <1>2 DEF SameQueue

LEMMA QueueSame ==
  ASSUME UNCHANGED calls PROVE SameQueue
BY DEF SameQueue, Queued

LEMMA QueueKeptTwice ==
  ASSUME CoreInv, NEW x \in Call, x.op # "notify", NEW y \in Call, y.op # "notify", calls' = Append(Append(calls, x), y)
  PROVE  SameQueue
<1> DEFINE c == Append(calls, x)
<1>1. calls \in Seq(Call) /\ c \in Seq(Call)
  BY DEF CoreInv, Types
<1>2. ASSUME NEW j \in Jobs PROVE Cardinality(Queued(calls', j)) = Cardinality(Queued(calls, j))
  <2>1. x # NotifyOf(j) /\ y # NotifyOf(j)
    BY CallIs
  <2>2. Queued(c, j) = Queued(calls, j)
    BY <1>1, <2>1, QueuedAppend
  <2> HIDE DEF c
  <2>3. Queued(Append(c, y), j) = Queued(c, j)
    BY <1>1, <2>1, QueuedAppend
  <2>4. calls' = Append(c, y)
    BY DEF c
  <2> QED BY <2>2, <2>3, <2>4
<1> QED BY <1>2 DEF SameQueue

LEMMA TodosSame ==
  ASSUME UNCHANGED stack PROVE SameTodos(stack, stack')
BY DEF SameTodos

LEMMA CountsSend ==
  ASSUME CoreInv, CountsRight, NEW t \in Threads, Send(t) PROVE CountsRight'
<1> DEFINE w == Work(t)
<1>1. SendPuts(w) /\ stack' = stack /\ calls' = Append(calls, NotifyOf(w)) /\ calls \in Seq(Call) /\ w \in Jobs
  BY SendFields, ThreadForms DEF FunctionStep, CoreInv, Types
<1> HIDE DEF w
<1>2. NotifyOf(w) \in Call /\ \A j \in Jobs : NotifyOf(w) = NotifyOf(j) <=> w = j
  BY <1>1, CallIs DEF NotifyOf
<1>3. ASSUME NEW j \in Jobs
      PROVE  /\ IsFiniteSet(Flushed(stack', j))
             /\ job'[j].send = job'[j].received + Cardinality(Queued(calls', j)) + Cardinality(Flushed(stack', j))
  <2>1. Flushed(stack', j) = Flushed(stack, j) /\ IsFiniteSet(Flushed(stack, j))
        /\ job[j].send = job[j].received + Cardinality(Queued(calls, j)) + Cardinality(Flushed(stack, j))
    BY <1>1 DEF CountsRight
  <2>2. /\ NotifyOf(w) # NotifyOf(j) => Queued(Append(calls, NotifyOf(w)), j) = Queued(calls, j)
        /\ NotifyOf(w) = NotifyOf(j)
             => Cardinality(Queued(Append(calls, NotifyOf(w)), j)) = Cardinality(Queued(calls, j)) + 1
    BY <1>1, <1>2, QueuedAppend
  <2>3. Cardinality(Queued(calls, j)) \in Nat /\ Cardinality(Flushed(stack, j)) \in Nat /\ job[j].received \in Nat
    BY <1>1, <2>1, QueuedFinite, FS_CardinalityType DEF CoreInv, Types, JobRec
  <2>4. Cardinality(Queued(calls', j)) = Cardinality(Queued(calls, j)) + (IF j = w THEN 1 ELSE 0)
    <3>1. CASE j = w
      BY <1>1, <1>2, <2>2, <3>1
    <3>2. CASE j # w
      <4>1. Queued(calls', j) = Queued(calls, j)
        BY <1>1, <1>2, <2>2, <3>2
      <4> QED BY <2>3, <3>2, <4>1
    <3> QED BY <3>1, <3>2
  <2>5. job'[j].send = job[j].send + (IF j = w THEN 1 ELSE 0) /\ job'[j].received = job[j].received
    <3>1. job'[j].send = (IF j = w THEN job[j].send + 1 ELSE job[j].send) /\ job'[j].received = job[j].received
      BY <1>1 DEF SendPuts
    <3> QED BY <2>1, <2>3, <3>1
  <2> QED BY <2>1, <2>3, <2>4, <2>5
<1> QED BY <1>3, CountsPrimed

LEMMA MailOf ==
  ASSUME SameJobs \/ (\E w, b : AgainPuts(w, b)) PROVE SameMail
BY DEF SameJobs, SameFields, AgainPuts, SameMail

LEMMA CountsThread ==
  ASSUME CoreInv, CountsRight, NEW t \in Threads, ThreadStep(t) \/ FunctionStep(t) PROVE CountsRight'
<1>1. CASE Send(t)
  BY <1>1, CountsSend
<1>2. CASE ~Send(t)
  <2>1. SameMail
    BY <1>2, ThreadFields, RescheduleFields, RequeueFields, MailOf
  <2>2. stack' = stack /\ SameTodos(stack, stack')
    BY ThreadForms, TodosSame
  <2>3. SameQueue
    <3>1. CASE PostHandler(t)
      BY <3>1, ThreadForms, CallIs, QueueKept
    <3>2. CASE Leave(t)
      BY <3>2, ThreadForms, CallIs, QueueKept
    <3>3. CASE LeaveDirect(t)
      BY <3>3, ThreadForms, CallIs, QueueKeptTwice
    <3>4. CASE UNCHANGED calls
      BY <3>4, QueueSame
    <3> QED BY <1>2, <3>1, <3>2, <3>3, <3>4, ThreadForms
  <2> QED BY <2>1, <2>2, <2>3, CountsStay
<1> QED BY <1>1, <1>2

(* A job that was not submitted has sent nothing.                          *)
Unsent == \A j \in Jobs : j \in New => job[j].send = 0 /\ job[j].received = 0

LEMMA BornMail ==
  ASSUME CoreInv, CountsRight, Unsent, NEW j \in Jobs, job[j].mem = "unborn", job' = Born(j) PROVE SameMail
<1> DEFINE r == [NewJob EXCEPT !.mem = "live"]
<1>1. r.send = 0 /\ r.received = 0
  BY DEF NewJob
<1>2. job' = [job EXCEPT ![j] = r]
  BY DEF Born
<1> HIDE DEF r
<1>3. \A i \in Jobs : job'[i] = IF i = j THEN r ELSE job[i]
  BY <1>2 DEF CoreInv, Types
<1>4. job[j].send = 0 /\ job[j].received = 0
  BY DEF Unsent, New
<1> QED BY <1>1, <1>3, <1>4 DEF SameMail

FuncPuts(j, f, i) ==
  \A k \in Jobs : /\ job'[k].send = job[k].send /\ job'[k].received = job[k].received
                  /\ job'[k].reschedule = job[k].reschedule
                  /\ k = j => job'[k].func = f /\ job'[k].waiter = i
                  /\ k # j => job'[k].func = job[k].func /\ job'[k].waiter = job[k].waiter

LEMMA WaitPuts ==
  ASSUME CoreInv, NEW j \in Jobs, NEW f, NEW i, job' = [job EXCEPT ![j].func = f, ![j].waiter = i]
  PROVE  FuncPuts(j, f, i)
<1> DEFINE r == [job[j] EXCEPT !.func = f, !.waiter = i]
<1>1. job' = [job EXCEPT ![j] = r]
  OBVIOUS
<1>2. r.send = job[j].send /\ r.received = job[j].received /\ r.reschedule = job[j].reschedule
      /\ r.func = f /\ r.waiter = i
  BY DEF CoreInv, Types, JobRec
<1> HIDE DEF r
<1>3. \A k \in Jobs : job'[k] = IF k = j THEN r ELSE job[k]
  BY <1>1 DEF CoreInv, Types
<1> QED BY <1>2, <1>3 DEF FuncPuts

LEMMA MailWaits ==
  ASSUME CoreInv, (\E j \in Jobs : Wait(j)) \/ WaitTimeout \/ WrapDone PROVE SameMail
<1>1. \E j \in Jobs : \E f, i : job' = [job EXCEPT ![j].func = f, ![j].waiter = i]
  <2>1. CASE \E j \in Jobs : Wait(j)
    BY <2>1 DEF Wait
  <2>2. CASE WaitTimeout \/ WrapDone
    <3>1. PICK j \in Jobs : j = Top.on
      BY <2>2, TopIs DEF WaitTimeout, WrapDone, At
    <3>2. CASE WaitTimeout
      BY <3>1, <3>2 DEF WaitTimeout, Unwrap
    <3>3. CASE WrapDone
      <4>1. PICK f : f = stack[Top.waiter].func
        OBVIOUS
      <4> QED BY <3>1, <3>3, <4>1 DEF WrapDone, Unwrap
    <3> QED BY <2>2, <3>2, <3>3
  <2> QED BY <2>1, <2>2
<1> QED BY <1>1, WaitPuts DEF SameMail, FuncPuts

LEMMA CountsUser ==
  ASSUME CoreInv, CountsRight, Unsent, UserStep PROVE CountsRight'
<1>1. SameQueue
  <2>1. UNCHANGED calls
    BY DEF UserStep, Run, RunSelfLock, RunDirect, Cancel, CancelSelfLock, CancelKilled, Wait, MaxSet, SelfLock
  <2> QED BY <2>1, QueueSame
<1>2. SameMail
  <2>1. ASSUME NEW j \in Jobs, Run(j) \/ RunDirect(j) PROVE SameMail
    BY <2>1, BornMail DEF Run, RunDirect
  <2>2. CASE \A j \in Jobs : ~Run(j) /\ ~RunDirect(j) /\ ~Wait(j)
    BY <2>2, UserFields, MailOf
  <2> QED BY <2>1, <2>2, MailWaits
<1>3. SameTodos(stack, stack')
  <2>1. \/ stack' = stack
        \/ \E j \in Jobs, k \in {"relock", "direct", "mark"} : stack' = Append(stack, Frame(k, j))
        \/ \E j \in Jobs : stack' = Append(stack, Waiter(j))
    BY DEF UserStep, Run, QueueJob, RunSelfLock, RunDirect, Cancel, CancelSelfLock, CancelKilled, Wait, MaxSet, SelfLock,
       Push, Waiter, main
  <2>2. ASSUME NEW j \in Jobs, NEW k \in {"relock", "direct", "mark"}
        PROVE  Frame(k, j) \in FrameRecord /\ Frame(k, j).todo = <<>>
    <3>1. Plain(Frame(k, j), k, j)
      BY FrameIs DEF FrameKinds
    <3> QED BY <3>1 DEF Plain
  <2>3. \A j \in Jobs : Waiter(j) \in FrameRecord /\ Waiter(j).todo = <<>>
    BY WaiterIs
  <2>4. stack \in Seq(FrameRecord)
    BY TopIs
  <2>5. CASE stack' = stack
    BY <2>5, TodosSame
  <2>6. ASSUME NEW f \in FrameRecord, f.todo = <<>>, stack' = Append(stack, f) PROVE SameTodos(stack, stack')
    BY <2>4, <2>6, TodoPush
  <2> QED BY <2>1, <2>2, <2>3, <2>5, <2>6
<1> QED BY <1>1, <1>2, <1>3, CountsStay
(* What the steps of the main loop's thread leave to do.                   *)
LEMMA PopTodos ==
  ASSUME CoreInv, ShapeInv, Top.kind # "user" \/ Len(stack) > 1, Top.kind # "flush" \/ Top.todo = <<>>
  PROVE  Below \in Seq(FrameRecord) /\ SameTodos(stack, Below) /\ Top.todo = <<>>
<1>1. FrameRight(Top) /\ Ready(Below)
  BY PopShape
<1>2. Top.todo = <<>>
  BY <1>1 DEF FrameRight
<1> QED BY <1>1, <1>2, TodoPop DEF Ready

LEMMA MainMail ==
  ASSUME CoreInv, MainStep, \A j \in Jobs : ~Notify(j) PROVE SameMail
<1>1. CASE WaitTimeout \/ WrapDone
  BY <1>1, MailWaits
<1>2. CASE ~WaitTimeout /\ ~WrapDone
  BY <1>2, MainFields, MailOf
<1> QED BY <1>1, <1>2

LEMMA MainCalls ==
  ASSUME MainStep, ~CreateFails, ~CreateDirectFails, ~WaitFlush, ~LoopFlush PROVE UNCHANGED calls
BY DEF MainStep, Create, CreateDirect, Join, RetryFails, RetryFailsFeedback, OnError, Failed, CountDirect,
  RetryDirectFails, DirectSelfLock, SelfLock, CancelMark, WaitAgain, WaitOver, WaitTimeout, WrapDone, Return, FlushEnd,
  HandlerKeeps, HandlerKills, Notify, NotifyDone, NotifyKills, KillDone

LEMMA TurnedTodo ==
  ASSUME CoreInv, ShapeInv, Top.kind \notin {"user", "flush"}, NEW k \in FrameKinds
  PROVE  /\ Append(Below, Turned(k)) \in Seq(FrameRecord) /\ SameTodos(stack, Append(Below, Turned(k)))
<1>1. Below \in Seq(FrameRecord) /\ SameTodos(stack, Below) /\ Top.todo = <<>>
  BY PopTodos
<1>2. Turned(k) \in FrameRecord /\ Turned(k).kind = k /\ Turned(k).on = Top.on /\ Turned(k).todo = Top.todo /\ Turned(k).waiting = Top.waiting
            /\ Turned(k).func = Top.func
  BY TurnedIs
<1> DEFINE f == Turned(k)
<1> HIDE DEF f
<1>3. f \in FrameRecord /\ f.todo = <<>>
  BY <1>1, <1>2 DEF f
<1>4. SameTodos(Below, Append(Below, f)) /\ Append(Below, f) \in Seq(FrameRecord)
  BY <1>1, <1>3, TodoPush
<1>5. SameTodos(stack, Append(Below, f)) /\ Append(Below, f) \in Seq(FrameRecord)
  BY <1>1, <1>4, SameChain
<1> QED BY <1>5 DEF f

LEMMA CountsPop ==
  ASSUME CoreInv, ShapeInv, CountsRight, MainStep,
         (\E t \in Threads : Create(t)) \/ Failed \/ CountDirect \/ CancelMark \/ WaitOver \/ WaitTimeout
             \/ Return \/ FlushEnd \/ NotifyDone \/ KillDone
  PROVE  CountsRight'
<1>1. stack' = Below /\ (Top.kind # "user" \/ Len(stack) > 1) /\ (Top.kind # "flush" \/ Top.todo = <<>>) /\ UNCHANGED calls
  BY DEF Create, Failed, CountDirect, CancelMark, WaitOver, WaitTimeout, Return, FlushEnd, NotifyDone,
       KillDone, Pop, At
<1>2. \A j \in Jobs : ~Notify(j)
  <2>1. Top.kind # "flush" \/ Top.todo = <<>>
    BY <1>1
  <2> QED BY <2>1 DEF Notify, NextCall, At
<1>3. SameTodos(stack, stack')
  BY <1>1, PopTodos
<1> QED BY <1>1, <1>2, <1>3, MainMail, QueueSame, CountsStay

LEMMA CountsFlush ==
  ASSUME CoreInv, ShapeInv, CountsRight, CreateFails \/ CreateDirectFails \/ WaitFlush \/ LoopFlush
  PROVE  CountsRight'
<1>1. UNCHANGED job /\ calls' = <<>> /\ SameMail
  BY DEF CreateFails, CreateDirectFails, WaitFlush, LoopFlush, SameMail
<1>2. CASE LoopFlush
  <2>1. stack \in Seq(FrameRecord) /\ stack' = Append(stack, Flush) /\ SameTodos(stack, stack)
    BY <1>2, TopIs DEF LoopFlush, Push, SameTodos
  <2> QED BY <1>1, <2>1, CountsTaken
<1>3. CASE CreateFails \/ CreateDirectFails \/ WaitFlush
  <2>1. PICK k \in {"retry", "directRetry", "waited"} :
              /\ stack' = Append(Append(Below, Turned(k)), Flush)
              /\ Top.kind = (IF k = "retry" THEN "relock" ELSE IF k = "directRetry" THEN "direct" ELSE "wait")
    BY <1>3, FlushForms
  <2>2. k \in FrameKinds /\ Top.kind \notin {"user", "flush"}
    BY <2>1 DEF FrameKinds
  <2> DEFINE s == Append(Below, Turned(k))
  <2>3. s \in Seq(FrameRecord) /\ SameTodos(stack, s)
    BY <2>2, TurnedTodo
  <2>4. stack' = Append(s, Flush)
    BY <2>1
  <2> HIDE DEF s
  <2> QED BY <1>1, <2>3, <2>4, CountsTaken
<1> QED BY <1>2, <1>3

LEMMA PlainTodo ==
  ASSUME NEW k \in FrameKinds, NEW j \in Jobs PROVE Frame(k, j) \in FrameRecord /\ Frame(k, j).todo = <<>>
<1>1. Plain(Frame(k, j), k, j)
  BY FrameIs
<1> QED BY <1>1 DEF Plain

LEMMA CountsTurn ==
  ASSUME CoreInv, ShapeInv, CountsRight, MainStep,
         RetryFailsFeedback \/ WaitAgain \/ (\E t \in Threads : CreateDirect(t)) \/ NotifyKills \/ DirectSelfLock
           \/ RetryDirectFails \/ RetryFails \/ OnError
  PROVE  CountsRight'
<1>1. Top.kind \notin {"user", "flush"} /\ UNCHANGED calls
  BY GiveUpForms DEF RetryFailsFeedback, WaitAgain, CreateDirect, NotifyKills, DirectSelfLock, SelfLock, RetryDirectFails, RetryFails,
    OnError, At
<1>2. SameMail
  <2>1. \A j \in Jobs : ~Notify(j)
    BY <1>1 DEF Notify, NextCall, At
  <2> QED BY <2>1, MainMail
<1>3. Below \in Seq(FrameRecord) /\ SameTodos(stack, Below) /\ Top.on \in Jobs
  BY <1>1, PopTodos, TopIs
<1>4. User \in FrameRecord /\ User.todo = <<>>
  BY UserIs
<1>5. SameTodos(stack, stack')
  <2>1. CASE RetryFailsFeedback \/ WaitAgain \/ (\E t \in Threads : CreateDirect(t))
    <3>1. PICK k \in {"onError", "counted", "wait"} : stack' = Append(Below, Turned(k))
      BY <2>1, TurnForms
    <3>2. k \in FrameKinds
      BY DEF FrameKinds
    <3> QED BY <1>1, <3>1, <3>2, TurnedTodo
  <2>2. CASE NotifyKills
    <3>1. SameTodos(Below, stack') \/ stack' = stack
      BY <1>3, <2>2, KillTodos DEF NotifyKills
    <3> QED BY <1>3, <3>1, TodosSame, SameChain
  <2>3. CASE DirectSelfLock
    BY <2>3, TodosSame DEF DirectSelfLock, SelfLock
  <2>4. CASE RetryDirectFails
    <3>1. stack' = Below \/ stack' = Append(Below, Frame("relockTried", Top.on))
      BY <2>4 DEF RetryDirectFails, QueueJob
    <3>2. Frame("relockTried", Top.on) \in FrameRecord /\ Frame("relockTried", Top.on).todo = <<>>
      BY <1>3, PlainTodo DEF FrameKinds
    <3>3. SameTodos(Below, Append(Below, Frame("relockTried", Top.on)))
      BY <1>3, <3>2, TodoPush
    <3>4. SameTodos(stack, Append(Below, Frame("relockTried", Top.on)))
      BY <1>3, <3>3, SameChain
    <3> QED BY <1>3, <3>1, <3>4
  <2>5. CASE RetryFails \/ OnError
    <3>1. \/ stack' = Below
          \/ stack' = Append(Append(Below, Frame("failed", Top.on)), User)
      BY <2>5, GiveUpForms
    <3>2. Frame("failed", Top.on) \in FrameRecord /\ Frame("failed", Top.on).todo = <<>>
      BY <1>3, PlainTodo DEF FrameKinds
    <3>3. SameTodos(Below, Append(Append(Below, Frame("failed", Top.on)), User))
      BY <1>3, <1>4, <3>2, TodoTwo
    <3>4. SameTodos(stack, Append(Append(Below, Frame("failed", Top.on)), User))
      BY <1>3, <3>3, SameChain
    <3> QED BY <1>3, <3>1, <3>4
  <2> QED BY <2>1, <2>2, <2>3, <2>4, <2>5
<1> QED BY <1>1, <1>2, <1>5, QueueSame, CountsStay

LEMMA CountsDeliver ==
  ASSUME CoreInv, CountsRight, MainStep,
         (\E t \in Threads : Join(t)) \/ (\E j \in Jobs : HandlerKeeps(j) \/ HandlerKills(j))
  PROVE  CountsRight'
<1>1. /\ Top.kind = "flush" /\ Top.todo # <<>> /\ calls' = calls
      /\ Head(Top.todo).op # "notify"
  <2>1. ASSUME NEW op \in {"join", "handler"}, NEW x, NextCall(op, x)
        PROVE  Top.kind = "flush" /\ Top.todo # <<>> /\ Head(Top.todo).op # "notify"
    BY <2>1 DEF NextCall, At
  <2>2. (\E t \in Threads : NextCall("join", t)) \/ (\E j \in Jobs : NextCall("handler", j))
    BY DEF Join, HandlerKeeps, HandlerKills
  <2>3. calls' = calls
    BY DEF Join, HandlerKeeps, HandlerKills
  <2> QED BY <2>1, <2>2, <2>3
<1>2. \A j \in Jobs : Head(Top.todo) # NotifyOf(j) /\ ~Notify(j)
  BY <1>1 DEF NotifyOf, Notify, NextCall
<1>3. SameMail
  BY <1>2, MainMail
<1>4. Rest \in Seq(FrameRecord)
  BY <1>1, RestTodos
<1>5. SameTodos(Rest, stack') \/ stack' = stack
  BY <1>4, KillTodos DEF Join, HandlerKeeps, HandlerKills, SameTodos
<1>6. CASE SameTodos(Rest, stack')
  BY <1>1, <1>2, <1>3, <1>6, CountsRest
<1>7. CASE stack' = stack
  BY <1>1, <1>3, <1>7, QueueSame, TodosSame, CountsStay
<1> QED BY <1>5, <1>6, <1>7

LEMMA CountsWrap ==
  ASSUME CoreInv, ShapeInv, CountsRight, WrapDone PROVE CountsRight'
<1>1. /\ Top.kind = "wrap" /\ stack' \in Seq(FrameRecord) /\ Len(stack') = Len(Below)
      /\ \A m \in 1 .. Len(Below) : stack'[m].todo = Below[m].todo
  BY WrapDoneForm
<1>2. SameTodos(stack, Below)
  BY <1>1, PopTodos
<1>3. SameTodos(Below, stack')
  BY <1>1 DEF SameTodos, TodoAt
<1>4. SameTodos(stack, stack') /\ UNCHANGED calls
  BY <1>2, <1>3, SameChain DEF WrapDone
<1> QED BY <1>4, MailWaits, QueueSame, CountsStay

LEMMA CountsStep ==
  ASSUME CoreInv, ShapeInv, CountsRight, Unsent, [Next]_vars PROVE CountsRight'
<1>1. CASE UNCHANGED vars
  <2>1. UNCHANGED <<job, calls, stack>>
    BY <1>1 DEF vars
  <2> QED BY <2>1, QueueSame, TodosSame, CountsStay DEF SameMail
<1>2. CASE MainStep
  BY <1>2, CountsPop, CountsFlush, CountsTurn, CountsDeliver, CountsWrap, CountsNotify DEF MainStep
<1> QED BY <1>1, <1>2, CountsUser, CountsThread DEF Next

LEMMA CountsInit ==
  ASSUME Init PROVE CountsRight
<1>1. /\ calls = <<>> /\ stack = <<User>> /\ User.todo = <<>>
      /\ \A j \in Jobs : job[j].send = 0 /\ job[j].received = 0
  BY DEF Init, NewJob, User, Frame
<1>2. \A i \in Nat : TodoAt(stack, i) = <<>>
  <2>1. Len(stack) = 1 /\ stack[1] = User
    BY <1>1
  <2> QED BY <1>1, <2>1 DEF TodoAt
<1>3. \A j \in Jobs : Flushed(stack, j) = {}
  BY <1>2 DEF Flushed
<1>4. IsFiniteSet({}) /\ Cardinality({}) = 0
  BY FS_EmptySet
<1>5. \A j \in Jobs : Cardinality(Queued(calls, j)) = 0
  BY <1>1, QueuedNothing
<1>6. ASSUME NEW j \in Jobs
      PROVE  /\ IsFiniteSet(Flushed(stack, j))
             /\ job[j].send = job[j].received + Cardinality(Queued(calls, j)) + Cardinality(Flushed(stack, j))
  <2>1. IsFiniteSet(Flushed(stack, j)) /\ Cardinality(Flushed(stack, j)) = 0
    BY <1>3, <1>4
  <2> QED BY <1>1, <1>5, <2>1
<1> QED BY <1>6 DEF CountsRight
-----------------------------------------------------------------------------
(* A job that is over, a short one and one that was not submitted owe no   *)
(* message.                                                                *)
SilentInv ==
  /\ Unsent
  /\ \A j \in Jobs : job[j].send <= MaxSend /\ (j \in Dead \cup Short => ~Owing(j))

SameMailOf(j) == job'[j].send = job[j].send /\ job'[j].received = job[j].received
Sends(j) == \E t \in Threads : Send(t) /\ Work(t) = j

LEMMA MailStep ==
  ASSUME CoreInv, CountsRight, Unsent, [Next]_vars, NEW j \in Jobs PROVE SameMailOf(j) \/ Sends(j) \/ Notify(j)
<1>1. ASSUME NEW t \in Threads, Send(t) PROVE SameMailOf(j) \/ Sends(j)
  <2>1. SendPuts(Work(t))
    BY <1>1, SendFields
  <2> QED BY <1>1, <2>1 DEF SendPuts, SameMailOf, Sends
<1>2. ASSUME NEW k \in Jobs, Notify(k) PROVE SameMailOf(j) \/ Notify(j)
  <2> DEFINE r == [job[k] EXCEPT !.received = @ + 1]
  <2>1. job' = [job EXCEPT ![k] = r]
    BY <1>2 DEF Notify
  <2> HIDE DEF r
  <2>2. j # k => job'[j] = job[j]
    BY <2>1 DEF CoreInv, Types
  <2> QED BY <1>2, <2>2 DEF SameMailOf
<1>3. ASSUME SameMail PROVE SameMailOf(j)
  BY <1>3 DEF SameMail, SameMailOf
<1>4. CASE MainStep
  BY <1>2, <1>3, <1>4, MainMail
<1>5. CASE UserStep
  <2>1. ASSUME NEW k \in Jobs, Run(k) \/ RunDirect(k) PROVE SameMail
    BY <2>1, BornMail DEF Run, RunDirect
  <2>2. ASSUME \A k \in Jobs : ~Run(k) /\ ~RunDirect(k) /\ ~Wait(k) PROVE SameMail
    BY <1>5, <2>2, UserFields, MailOf
  <2>3. SameMail
    BY <2>1, <2>2, MailWaits
  <2> QED BY <1>3, <2>3
<1>6. ASSUME NEW t \in Threads, ThreadStep(t) \/ FunctionStep(t) PROVE SameMailOf(j) \/ Sends(j)
  <2>1. CASE ~Send(t)
    <3>1. SameMail
      BY <1>6, <2>1, ThreadFields, RescheduleFields, RequeueFields, MailOf
    <3> QED BY <1>3, <3>1
  <2> QED BY <1>1, <2>1
<1>7. CASE UNCHANGED vars
  BY <1>7 DEF vars, SameMailOf
<1> QED BY <1>4, <1>5, <1>6, <1>7 DEF Next

LEMMA HeldLives ==
  ASSUME PlaceInv, NEW j \in Held PROVE j \in Jobs /\ j \notin New /\ j \notin Dead /\ j \notin Gone
<1>1. {"thread", "new", "kill", "failed", "gone"} \subseteq Sites
  BY DEF Sites, StackSites
<1>2. j \in Site("thread") /\ j \in Jobs
  BY SiteIs DEF Held
<1>3. \A y \in {"new", "kill", "failed", "gone"} : j \notin Site(y)
  BY <1>1, <1>2, Elsewhere DEF PlaceInv
<1>4. Dead = Site("kill") \cup Site("failed") \cup Site("gone") /\ Site("new") = New /\ Site("gone") = Gone
  BY DeadIs, SiteIs
<1> QED BY <1>2, <1>3, <1>4

LEMMA NotifyOwes ==
  ASSUME CoreInv, CountsRight, SilentInv, NEW j \in Jobs, Owing(j) PROVE j \notin Dead \cup Short \cup New
BY DEF SilentInv, Unsent, Owing

(* Without messages to send none is owed.                                  *)
LEMMA NothingOwed ==
  ASSUME CoreInv, CountsRight, SilentInv, MaxSend = 0, NEW j \in Jobs PROVE ~Owing(j)
<1>1. job[j].send = job[j].received + Cardinality(Queued(calls, j)) + Cardinality(Flushed(stack, j))
      /\ IsFiniteSet(Flushed(stack, j)) /\ job[j].send <= MaxSend
  BY DEF CountsRight, SilentInv
<1>2. calls \in Seq(Call) /\ job[j].send \in Nat /\ job[j].received \in Nat
  BY DEF CoreInv, Types, JobRec
<1>3. Cardinality(Queued(calls, j)) \in Nat /\ Cardinality(Flushed(stack, j)) \in Nat
  BY <1>1, <1>2, QueuedFinite, FS_CardinalityType
<1> QED BY <1>1, <1>2, <1>3 DEF Owing

LEMMA EndOwesNothing ==
  ASSUME CoreInv, ShapeInv, CalmHere, PlaceInv, CountsRight, SilentInv, Ending,
         NEW j \in Jobs, RetryFails \/ OnError => j = Top.on, NotifyKills => j = Top.on,
         ~RetryFails /\ ~OnError /\ ~NotifyKills => HandlerKills(j)
  PROVE  ~Owing(j)
<1>1. CASE RetryFails \/ OnError
  <2>1. Top.kind \in {"retry", "onError"}
    BY <1>1, GiveUpForms
  <2>2. "createFails" \in Liberties
    <3>1. FrameRight(Top)
      BY <2>1, PopShape
    <3> QED BY <2>1, <3>1 DEF FrameRight, Refused
  <2>3. MaxSend = 0
    BY <2>2, NoMessages
  <2> QED BY <2>3, NothingOwed
<1>2. CASE NotifyKills
  BY <1>2 DEF NotifyKills
<1>3. CASE ~RetryFails /\ ~OnError /\ ~NotifyKills
  <2>1. j \in Short \/ ~Owing(j)
    BY <1>3 DEF HandlerKills
  <2> QED BY <2>1 DEF SilentInv
<1> QED BY <1>1, <1>2, <1>3

(* At the end of a job nothing is sent or delivered.                       *)
LEMMA EndMail ==
  ASSUME CoreInv, Ending PROVE SameMail /\ UNCHANGED job
<1>1. UNCHANGED job
  BY DEF Ending, RetryFails, OnError, NotifyKills, HandlerKills
<1> QED BY <1>1 DEF SameMail

LEMMA SilentPrimed ==
  ASSUME \A j \in Jobs : /\ j \in New' => job'[j].send = 0 /\ job'[j].received = 0
                         /\ job'[j].send <= MaxSend
                         /\ j \in Dead' \cup Short => job'[j].send = job'[j].received
  PROVE  SilentInv'
BY DEF SilentInv, Unsent, Owing

LEMMA SilentCalm ==
  ASSUME CoreInv, PlaceInv, CountsRight, SilentInv, [Next]_vars, Calmly PROVE SilentInv'
<1>1. ASSUME NEW j \in Jobs
      PROVE  /\ j \in New' => job'[j].send = 0 /\ job'[j].received = 0
             /\ job'[j].send <= MaxSend
             /\ j \in Dead' \cup Short => job'[j].send = job'[j].received
  <2>0. SameMailOf(j) \/ Sends(j) \/ Notify(j)
    BY MailStep DEF SilentInv
  <2>1. CASE SameMailOf(j)
    BY <2>1 DEF SilentInv, Unsent, Owing, SameMailOf, Calmly
  <2>2. CASE Sends(j)
    <3>1. PICK t \in Threads : Send(t) /\ Work(t) = j
      BY <2>2 DEF Sends
    <3>2. SendPuts(j) /\ job[j].send < MaxSend
      BY <3>1, SendFields DEF Send
    <3>3. j \in Held /\ j \notin Short /\ job'[j].send = job[j].send + 1
      BY <3>2 DEF SendPuts
    <3>4. j \notin Dead /\ j \notin New
      BY <3>3, HeldLives
    <3>5. job[j].send \in Nat /\ MaxSend \in Nat
      BY BoundsAssumption DEF CoreInv, Types, JobRec
    <3>6. job'[j].send <= MaxSend
      BY <3>2, <3>3, <3>5
    <3> QED BY <3>3, <3>4, <3>6 DEF Calmly
  <2>3. CASE Notify(j)
    <3>1. Owing(j)
      BY <2>3, CountsNotify
    <3>2. j \notin Dead \cup Short \cup New
      BY <3>1, NotifyOwes
    <3>3. job'[j].send = job[j].send
      <4> DEFINE r == [job[j] EXCEPT !.received = @ + 1]
      <4>1. job' = [job EXCEPT ![j] = r]
        BY <2>3 DEF Notify
      <4>2. r.send = job[j].send
        BY DEF CoreInv, Types, JobRec
      <4> HIDE DEF r
      <4> QED BY <4>1, <4>2 DEF CoreInv, Types
    <3> QED BY <3>2, <3>3 DEF Calmly, SilentInv
  <2> QED BY <2>0, <2>1, <2>2, <2>3
<1> QED BY <1>1, SilentPrimed

LEMMA SilentEnds ==
  ASSUME CoreInv, SilentInv, Ending, NEW j \in Jobs, Ends(j), ~Owing(j) PROVE SilentInv'
<1>1. SameMail /\ Dead' = Dead \cup {j} /\ New' = New
  BY EndMail DEF Ends
<1>2. ASSUME NEW k \in Jobs
      PROVE  /\ k \in New' => job'[k].send = 0 /\ job'[k].received = 0
             /\ job'[k].send <= MaxSend
             /\ k \in Dead' \cup Short => job'[k].send = job'[k].received
  BY <1>1 DEF SilentInv, Unsent, Owing, SameMail
<1> QED BY <1>2, SilentPrimed
-----------------------------------------------------------------------------
(* The last callback of a job was called once if the job is over.          *)
FinalInv ==
  /\ ghost \in [Jobs -> GhostRecord]
  /\ \A j \in Jobs : Len(ghost[j].final) = IF j \in Dead THEN 1 ELSE 0

SameFinals == ghost' \in [Jobs -> GhostRecord] /\ \A j \in Jobs : ghost'[j].final = ghost[j].final

LEMMA GhostPut ==
  ASSUME ghost \in [Jobs -> GhostRecord], NEW j \in Jobs, NEW r \in GhostRecord, ghost' = [ghost EXCEPT ![j] = r],
         r.final = ghost[j].final
  PROVE  SameFinals
BY DEF SameFinals

LEMMA GhostKept ==
  ASSUME CoreInv, ghost \in [Jobs -> GhostRecord], [Next]_vars, ~Ending PROVE SameFinals
<1>1. ASSUME NEW t \in Threads, Enter(t), Work(t) \in Jobs PROVE SameFinals
  <2> DEFINE w == Work(t)
             n == ghost[w].runs + 1
             r == [ghost[w] EXCEPT !.runs = n]
  <2>0. ghost[w] \in GhostRecord /\ n \in Nat
    BY <1>1 DEF GhostRecord
  <2>1. ghost' = [ghost EXCEPT ![w] = r] /\ w \in Jobs
    BY <1>1 DEF Enter
  <2> HIDE DEF n
  <2>2. r \in GhostRecord /\ r.final = ghost[w].final
    BY <2>0, <2>1 DEF GhostRecord
  <2> HIDE DEF r, w
  <2> QED BY <2>1, <2>2, GhostPut
<1>2. ASSUME NEW t \in Threads, Cut(t) PROVE SameFinals
  <2> DEFINE w == Work(t)
             r == [ghost[w] EXCEPT !.cut = TRUE]
  <2>1. ghost' = [ghost EXCEPT ![w] = r] /\ w \in Jobs
    BY <1>2, Holding DEF Cut, In, HoldStates
  <2>2. r \in GhostRecord /\ r.final = ghost[w].final
    BY <2>1 DEF GhostRecord
  <2> HIDE DEF r, w
  <2> QED BY <2>1, <2>2, GhostPut
<1>3. ASSUME NEW j \in Jobs, CancelKilled(j) PROVE SameFinals
  <2> DEFINE r == [ghost[j] EXCEPT !.told = TRUE]
  <2>1. ghost' = [ghost EXCEPT ![j] = r]
    BY <1>3 DEF CancelKilled
  <2>2. r \in GhostRecord /\ r.final = ghost[j].final
    BY <2>1 DEF GhostRecord
  <2> HIDE DEF r
  <2> QED BY <2>1, <2>2, GhostPut
<1>4. ASSUME UNCHANGED ghost PROVE SameFinals
  BY <1>4 DEF SameFinals
<1>5. ASSUME NEW t \in Threads, ThreadStep(t) \/ FunctionStep(t) PROVE SameFinals
  <2>1. CASE Start(t) \/ StartDirect(t)
    <3>1. Work(t) \in Jobs
      BY <2>1, Holding DEF Start, StartDirect, In, HoldStates
    <3>2. Enter(t) \/ UNCHANGED ghost
      BY <2>1 DEF Start, StartDirect
    <3> QED BY <1>1, <1>4, <3>1, <3>2
  <2>2. CASE ~Start(t) /\ ~StartDirect(t) /\ ~Cut(t)
    <3>1. UNCHANGED ghost
      BY <1>5, <2>2 DEF ThreadStep, FunctionStep, PickShort, PickFeedback, MarkRunning, Finish, LeaveRunning, Requeue, PostHandler,
       TestOnce, TestTwice, Test, Leave, LeaveDirect, Send, Reschedule, CancelSelf
    <3> QED BY <1>4, <3>1
  <2> QED BY <1>2, <2>1, <2>2
<1>6. ASSUME UserStep PROVE SameFinals
  <2>1. ASSUME ~\E j \in Jobs : CancelKilled(j) PROVE UNCHANGED ghost
    BY <1>6, <2>1 DEF UserStep, Run, RunSelfLock, RunDirect, Cancel, CancelSelfLock, Wait, MaxSet, SelfLock
  <2> QED BY <1>3, <1>4, <2>1
<1>7. ASSUME MainStep PROVE SameFinals
  <2>1. UNCHANGED ghost
    BY <1>7 DEF MainStep, Ending, Create, CreateDirect, Join, CreateFails, RetryFailsFeedback, Failed, CountDirect,
       CreateDirectFails, RetryDirectFails, DirectSelfLock, SelfLock, CancelMark, WaitFlush, WaitAgain, WaitOver,
       WaitTimeout, WrapDone, Return, LoopFlush, FlushEnd, HandlerKeeps, Notify, NotifyDone, KillDone
  <2> QED BY <1>4, <2>1
<1>8. ASSUME UNCHANGED vars PROVE SameFinals
  BY <1>4, <1>8 DEF vars
<1> QED BY <1>5, <1>6, <1>7, <1>8 DEF Next

LEMMA FinalPrimed ==
  ASSUME ghost' \in [Jobs -> GhostRecord], \A j \in Jobs : Len(ghost'[j].final) = IF j \in Dead' THEN 1 ELSE 0
  PROVE  FinalInv'
BY DEF FinalInv

LEMMA FinalCalm ==
  ASSUME CoreInv, FinalInv, [Next]_vars, ~Ending, Calmly PROVE FinalInv'
<1>1. SameFinals
  BY GhostKept DEF FinalInv
<1> QED BY <1>1, FinalPrimed DEF SameFinals, FinalInv, Calmly

LEMMA FinalEnds ==
  ASSUME FinalInv, NEW j \in Jobs, EndsNow(j) PROVE FinalInv'
<1>1. CASE Calmly /\ UNCHANGED ghost
  BY <1>1, FinalPrimed DEF FinalInv, Calmly
<1>2. CASE Ends(j) /\ \E how \in {"end", "cancel"} : Report(j, how)
  <2>1. PICK how \in {"end", "cancel"} : Report(j, how)
    BY <1>2
  <2>2. j \notin Dead /\ Dead' = Dead \cup {j}
    BY <1>2 DEF Ends
  <2> DEFINE f == Append(ghost[j].final, how)
             r == [ghost[j] EXCEPT !.final = f]
  <2>3. ghost[j] \in GhostRecord /\ ghost[j].final \in Seq({"end", "cancel"}) /\ Len(ghost[j].final) = 0
    BY <2>2 DEF FinalInv, GhostRecord
  <2>4. f \in Seq({"end", "cancel"}) /\ Len(f) = 1
    BY <2>3
  <2>5. ghost' = [ghost EXCEPT ![j] = r]
    BY <2>1 DEF Report
  <2> HIDE DEF f
  <2>6. r \in GhostRecord /\ r.final = f
    BY <2>3, <2>4 DEF GhostRecord
  <2> HIDE DEF r
  <2>7. ghost' \in [Jobs -> GhostRecord] /\ \A k \in Jobs : ghost'[k] = IF k = j THEN r ELSE ghost[k]
    BY <2>5, <2>6 DEF FinalInv
  <2>8. \A k \in Jobs : Len(ghost'[k].final) = IF k \in Dead' THEN 1 ELSE 0
    <3> SUFFICES ASSUME NEW k \in Jobs PROVE Len(ghost'[k].final) = IF k \in Dead' THEN 1 ELSE 0
      OBVIOUS
    <3>1. CASE k = j
      BY <2>2, <2>4, <2>6, <2>7, <3>1
    <3>2. CASE k # j
      BY <2>2, <2>7, <3>2 DEF FinalInv
    <3> QED BY <3>1, <3>2
  <2> QED BY <2>7, <2>8, FinalPrimed
<1> QED BY <1>1, <1>2 DEF EndsNow

-----------------------------------------------------------------------------
(* A job that asked to run again is still with its thread.                 *)
Again == \A j \in Jobs : job[j].reschedule => j \in Repeats /\ j \in Held

LEMMA WorkKept ==
  ASSUME CoreInv, HandsInv, [Next]_vars, NEW u \in Threads, Work(u) \in Jobs
  PROVE  thread'[u].work = Work(u) \/ Requeue(u) \/ PostHandler(u) \/ LeaveDirect(u)
<1>0. thread \in [Threads -> ThreadRecord] /\ Work(u) = thread[u].work /\ None \notin Jobs
  BY JobsAssumption DEF CoreInv, Types, Work
<1>1. ASSUME NEW t \in Threads, NEW r, thread' = [thread EXCEPT ![t] = r], r.work = Work(t) \/ Work(t) = None
      PROVE  thread'[u].work = Work(u)
  <2>1. CASE t = u
    BY <1>0, <1>1, <2>1
  <2>2. CASE t # u
    BY <1>0, <1>1, <2>2
  <2> QED BY <2>1, <2>2
<1>2. ASSUME UNCHANGED thread PROVE thread'[u].work = Work(u)
  BY <1>0, <1>2
<1>3. \A t \in Threads : thread[t].pc \notin HoldStates => Work(t) = None
  BY DEF HandsInv, Hands, Work
<1>4. ASSUME NEW t \in Threads, ThreadStep(t) \/ FunctionStep(t)
      PROVE  thread'[u].work = Work(u) \/ Requeue(u) \/ PostHandler(u) \/ LeaveDirect(u)
  <2>1. CASE Carrier(t)
    <3>1. PICK r : Becomes1(t, r) /\ Carried(r, t)
      BY <2>1, CarrierIs DEF CarriedOn
    <3> QED BY <1>1, <3>1 DEF Becomes1, Carried
  <2>2. CASE (PickShort(t) /\ pendShort # <<>>) \/ (PickFeedback(t) /\ pendFeedback # <<>>)
    <3>1. PICK j : TakenBy(t, j)
      BY <2>2, TakerIs
    <3>2. PICK r : Becomes1(t, r)
      BY <3>1 DEF TakenBy
    <3>3. Work(t) = None
      BY <1>3, <2>2 DEF PickShort, PickFeedback, In, HoldStates
    <3> QED BY <1>1, <3>2, <3>3 DEF Becomes1
  <2>3. CASE Requeue(t) \/ PostHandler(t) \/ LeaveDirect(t)
    <3>1. PICK r : Becomes1(t, r)
      BY <2>3, LeaverIs DEF LetGo
    <3>2. CASE t = u
      BY <2>3, <3>2
    <3>3. CASE t # u
      BY <1>0, <3>1, <3>3 DEF Becomes1
    <3> QED BY <3>2, <3>3
  <2> QED BY <1>4, <2>1, <2>2, <2>3 DEF ThreadStep, FunctionStep, Carrier
<1>5. ASSUME NEW t \in Threads, NEW p, thread' = [thread EXCEPT ![t].pc = p] PROVE thread'[u].work = Work(u)
  <2> DEFINE r == [thread[t] EXCEPT !.pc = p]
  <2>1. thread' = [thread EXCEPT ![t] = r]
    BY <1>5
  <2>2. r.work = Work(t)
    BY <1>0 DEF ThreadRecord, Work
  <2> HIDE DEF r
  <2> QED BY <1>1, <2>1, <2>2
<1>6. ASSUME UserStep PROVE thread'[u].work = Work(u)
  <2>1. ASSUME NEW j \in Jobs, Cancel(j) PROVE thread'[u].work = Work(u)
    <3>1. CASE job[j].self = None
      BY <1>2, <2>1, <3>1 DEF Cancel, AskThread
    <3>2. CASE job[j].self # None
      <4> DEFINE t == job[j].self
                 r == [thread[t] EXCEPT !.asked = TRUE]
      <4>1. t \in Threads /\ thread' = [thread EXCEPT ![t] = r]
        BY <2>1, <3>2 DEF Cancel, AskThread, CoreInv, Types, JobRec
      <4>2. r.work = Work(t)
        BY <1>0, <4>1 DEF ThreadRecord, Work
      <4> HIDE DEF r, t
      <4> QED BY <1>1, <4>1, <4>2
    <3> QED BY <3>1, <3>2
  <2>2. ASSUME ~\E j \in Jobs : Cancel(j) PROVE UNCHANGED thread
    BY <1>6, <2>2 DEF UserStep, Run, RunSelfLock, RunDirect, CancelKilled, CancelSelfLock, Wait, MaxSet, SelfLock
  <2> QED BY <1>2, <2>1, <2>2
<1>7. ASSUME MainStep PROVE thread'[u].work = Work(u)
  <2>1. ASSUME NEW t \in Threads, Create(t) \/ Join(t) PROVE thread'[u].work = Work(u)
    <3>1. \E p : thread' = [thread EXCEPT ![t].pc = p]
      BY <2>1 DEF Create, StartPool, Join
    <3> QED BY <1>5, <3>1
  <2>2. ASSUME NEW t \in Threads, CreateDirect(t) PROVE thread'[u].work = Work(u)
    <3> DEFINE r == [thread[t] EXCEPT !.pc = "direct", !.own = TRUE, !.work = Top.on]
    <3>1. thread' = [thread EXCEPT ![t] = r]
      BY <2>2 DEF CreateDirect
    <3>2. Work(t) = None
      BY <1>3, <2>2 DEF CreateDirect, HoldStates
    <3> HIDE DEF r
    <3> QED BY <1>1, <3>1, <3>2
  <2>3. ASSUME ~\E t \in Threads : Create(t) \/ Join(t) \/ CreateDirect(t) PROVE UNCHANGED thread
    BY <1>7, <2>3 DEF MainStep, CreateFails, RetryFails, RetryFailsFeedback, OnError, Failed, CountDirect,
       CreateDirectFails, RetryDirectFails, DirectSelfLock, SelfLock, CancelMark, WaitFlush, WaitAgain, WaitOver,
       WaitTimeout, WrapDone, Return, LoopFlush, FlushEnd, HandlerKeeps, HandlerKills, Notify, NotifyDone, NotifyKills, KillDone
  <2> QED BY <1>2, <2>1, <2>2, <2>3
<1>8. CASE UNCHANGED vars
  BY <1>2, <1>8 DEF vars
<1> QED BY <1>4, <1>6, <1>7, <1>8 DEF Next
LEMMA AgainMove ==
  ASSUME CoreInv, [Next]_vars, NEW j \in Jobs, job'[j].reschedule
  PROVE  job[j].reschedule \/ \E t \in Threads : Reschedule(t) /\ Work(t) = j
<1>1. ASSUME SameJobs PROVE job[j].reschedule
  BY <1>1 DEF SameJobs, SameFields
<1>2. ASSUME NEW k \in Jobs, NEW f, NEW i, FuncPuts(k, f, i) PROVE job[j].reschedule
  BY <1>2 DEF FuncPuts
<1>3. CASE UserStep
  <2>1. ASSUME NEW k \in Jobs, Run(k) \/ RunDirect(k) PROVE job[j].reschedule
    <3> DEFINE r == [NewJob EXCEPT !.mem = "live"]
    <3>1. r.reschedule = FALSE
      BY DEF NewJob
    <3>2. job' = [job EXCEPT ![k] = r]
      BY <2>1 DEF Run, RunDirect, Born
    <3> HIDE DEF r
    <3>3. job'[j] = IF j = k THEN r ELSE job[j]
      BY <3>2 DEF CoreInv, Types
    <3>4. j # k
      BY <3>1, <3>3
    <3> QED BY <3>3, <3>4
  <2>2. ASSUME NEW k \in Jobs, Wait(k) PROVE job[j].reschedule
    <3>1. \E f, i : job' = [job EXCEPT ![k].func = f, ![k].waiter = i]
      BY <2>2 DEF Wait
    <3> QED BY <1>2, <3>1, WaitPuts
  <2> QED BY <1>1, <1>3, <2>1, <2>2, UserFields
<1>4. CASE MainStep
  <2>1. ASSUME NEW k \in Jobs, Notify(k) PROVE job[j].reschedule
    <3> DEFINE r == [job[k] EXCEPT !.received = @ + 1]
    <3>1. r.reschedule = job[k].reschedule
      BY DEF CoreInv, Types, JobRec
    <3>2. job' = [job EXCEPT ![k] = r]
      BY <2>1 DEF Notify
    <3> HIDE DEF r
    <3>3. job'[j] = IF j = k THEN r ELSE job[j]
      BY <3>2 DEF CoreInv, Types
    <3> QED BY <3>1, <3>3
  <2>2. ASSUME WaitTimeout \/ WrapDone PROVE job[j].reschedule
    <3>1. Top.on \in Jobs /\ \E f, i : job' = [job EXCEPT ![Top.on].func = f, ![Top.on].waiter = i]
      BY <2>2, TopIs DEF WaitTimeout, WrapDone, At, Unwrap
    <3>2. PICK f, i : job' = [job EXCEPT ![Top.on].func = f, ![Top.on].waiter = i]
      BY <3>1
    <3>3. FuncPuts(Top.on, f, i)
      BY <3>1, <3>2, WaitPuts
    <3> QED BY <1>2, <3>1, <3>3
  <2> QED BY <1>1, <1>4, <2>1, <2>2, MainFields
<1>5. ASSUME NEW t \in Threads, ThreadStep(t) \/ FunctionStep(t)
      PROVE  job[j].reschedule \/ (Reschedule(t) /\ Work(t) = j)
  <2>1. CASE Send(t)
    <3>1. SendPuts(Work(t))
      BY <2>1, SendFields
    <3> QED BY <3>1 DEF SendPuts
  <2>2. CASE Reschedule(t)
    <3>1. AgainPuts(Work(t), 1)
      BY <2>2, RescheduleFields
    <3> QED BY <2>2, <3>1 DEF AgainPuts
  <2>3. CASE Requeue(t)
    <3>1. AgainPuts(Work(t), 0)
      BY <2>3, RequeueFields
    <3> QED BY <3>1 DEF AgainPuts
  <2>4. CASE ~Send(t) /\ ~Reschedule(t) /\ ~Requeue(t)
    BY <1>1, <1>5, <2>4, ThreadFields
  <2> QED BY <2>1, <2>2, <2>3, <2>4
<1>6. CASE UNCHANGED vars
  BY <1>6 DEF vars
<1> QED BY <1>3, <1>4, <1>5, <1>6 DEF Next

LEMMA AgainStep ==
  ASSUME CoreInv, HandsInv, Again, Repeats \cap Direct = {}, [Next]_vars PROVE Again'
<1>0. Held' = {j \in Jobs : \E t \in Threads : thread'[t].work = j}
  BY DEF Held, Work
<1>1. ASSUME NEW j \in Jobs, job'[j].reschedule PROVE j \in Repeats /\ j \in Held'
  <2>1. ASSUME NEW t \in Threads, Reschedule(t), Work(t) = j PROVE j \in Repeats /\ j \in Held'
    <3>1. thread' = thread /\ thread[t].work = j
      BY <2>1 DEF Reschedule, Work
    <3> QED BY <1>0, <2>1, <3>1 DEF Reschedule
  <2>2. ASSUME job[j].reschedule PROVE j \in Repeats /\ j \in Held'
    <3>1. j \in Repeats /\ j \in Held
      BY <2>2 DEF Again
    <3>2. PICK u \in Threads : Work(u) = j
      BY <3>1 DEF Held
    <3>3. ~Requeue(u)
      <4>1. Requeue(u) => AgainPuts(j, 0)
        BY <3>2, RequeueFields
      <4> QED BY <1>1, <4>1 DEF AgainPuts
    <3>4. ~PostHandler(u)
      BY <2>2, <3>2 DEF PostHandler
    <3>5. ~LeaveDirect(u)
      <4>1. LeaveDirect(u) => thread[u].pc \in DirectStates \cap HoldStates
        BY DEF LeaveDirect, In, DirectStates, HoldStates
      <4>2. thread[u].pc \in DirectStates => thread[u].own
        BY Holding
      <4>3. thread[u].own /\ thread[u].pc \in HoldStates => Work(u) \in Direct
        BY DEF HandsInv, Hands, Work
      <4> QED BY <3>1, <3>2, <4>1, <4>2, <4>3
    <3>6. thread'[u].work = j
      BY <3>2, <3>3, <3>4, <3>5, WorkKept
    <3> QED BY <1>0, <3>1, <3>6
  <2> QED BY <1>1, <2>1, <2>2, AgainMove
<1> QED BY <1>1 DEF Again

LEMMA AgainInit == ASSUME Init PROVE Again
<1>1. \A j \in Jobs : job[j].reschedule = FALSE
  BY DEF Init, NewJob
<1> QED BY <1>1 DEF Again

-----------------------------------------------------------------------------
(* No message is being delivered of a job that is over, and no such job is *)
(* being cancelled.                                                        *)
SpeakInv ==
  \A i \in 1 .. Len(stack) : stack[i].kind \in Speakers => stack[i].on \notin Dead \cup New

LEMMA SpeakPrimed ==
  ASSUME \A i \in 1 .. Len(stack') : stack'[i].kind \in Speakers => stack'[i].on \notin Dead' \cup New'
  PROVE  SpeakInv'
BY DEF SpeakInv

LEMMA ToldOwes ==
  ASSUME CoreInv, CountsRight, SilentInv, NEW j, Told(j) PROVE j \in Jobs /\ j \notin Dead \cup New
<1>1. Top.todo \in Seq(Call) /\ Top.todo # <<>> /\ Head(Top.todo) = NotifyOf(j) /\ Top = stack[Len(stack)]
      /\ Len(stack) \in 1 .. Len(stack) /\ Len(stack) \in Nat
  BY TopIs DEF Told
<1>2. NotifyOf(j) \in Call
  BY <1>1
<1>3. NotifyOf(j).op = "notify" /\ NotifyOf(j).on = j
  BY DEF NotifyOf
<1>4. j \in Jobs
  BY <1>2, <1>3, CallWas
<1> DEFINE n == Len(stack)
           d == Top.todo
<1>5. Len(d) \in Nat /\ Len(d) >= 1 /\ Head(d) = d[1]
  BY <1>1
<1>6. TodoAt(stack, n) = d
  BY <1>1 DEF TodoAt
<1> HIDE DEF n, d
<1>7. <<n, Len(d)>> \in Flushed(stack, j)
  <2>1. Len(d) + 1 - Len(d) = 1 /\ Len(d) \in 1 .. Len(d) /\ n \in Nat
    BY <1>1, <1>5 DEF n
  <2>2. d[Len(d) + 1 - Len(d)] = NotifyOf(j)
    BY <1>1, <1>5, <2>1 DEF d
  <2> QED BY <1>5, <1>6, <2>1, <2>2 DEF Flushed
<1>8. IsFiniteSet(Flushed(stack, j)) /\ calls \in Seq(Call)
      /\ job[j].send = job[j].received + Cardinality(Queued(calls, j)) + Cardinality(Flushed(stack, j))
      /\ job[j].received \in Nat
  BY <1>4 DEF CountsRight, CoreInv, Types, JobRec
<1>9. Cardinality(Flushed(stack, j)) \in Nat /\ Cardinality(Flushed(stack, j)) # 0 /\ Cardinality(Queued(calls, j)) \in Nat
  BY <1>7, <1>8, FS_CardinalityType, FS_EmptySet, QueuedFinite
<1>10. Owing(j)
  BY <1>8, <1>9 DEF Owing
<1> QED BY <1>4, <1>10, NotifyOwes

LEMMA SpeakGrown ==
  ASSUME CoreInv, CountsRight, SilentInv, SpeakInv, Grown(stack'), Calmly PROVE SpeakInv'
<1>1. Top = stack[Len(stack)] /\ Len(stack) \in 1 .. Len(stack) /\ Len(stack) \in Nat
  BY TopIs
<1>2. ASSUME NEW i \in 1 .. Len(stack'), stack'[i].kind \in Speakers PROVE stack'[i].on \notin Dead \cup New
  <2>1. CASE i < Len(stack)
    <3>1. stack'[i] = stack[i] /\ i \in 1 .. Len(stack)
      BY <1>1, <2>1 DEF Grown
    <3> QED BY <1>2, <3>1 DEF SpeakInv
  <2>2. CASE ~(i < Len(stack))
    <3>1. i >= Len(stack)
      BY <1>1, <2>2
    <3>2. Stem(stack'[i])
      BY <3>1 DEF Grown
    <3>3. (Top.kind \in Speakers /\ stack'[i].on = Top.on) \/ Told(stack'[i].on)
      BY <1>2, <3>2 DEF Stem
    <3> QED BY <1>1, <3>3, ToldOwes DEF SpeakInv
  <2> QED BY <2>1, <2>2
<1> QED BY <1>2, SpeakPrimed DEF Calmly

(* Usable jobs live and are not over.                                      *)
LEMMA UsableLives ==
  ASSUME FinalInv, NEW j \in Jobs, Usable(j) PROVE j \notin Dead \cup New
<1>1. job[j].mem = "live" /\ ghost[j].final = <<>>
  BY DEF Usable
<1>2. Len(ghost[j].final) = 0
  BY <1>1
<1> QED BY <1>1, <1>2 DEF FinalInv, New

LEMMA SpeakUser ==
  ASSUME CoreInv, FinalInv, SpeakInv, UserStep, Calmly PROVE SpeakInv'
<1>1. \/ stack' = stack
      \/ \E j \in Jobs, k \in {"relock", "direct"} : stack' = Append(stack, Frame(k, j))
      \/ \E j \in Jobs : stack' = Append(stack, Waiter(j))
      \/ \E j \in Jobs : stack' = Append(stack, Frame("mark", j)) /\ Usable(j)
  BY DEF UserStep, Run, QueueJob, RunSelfLock, RunDirect, Cancel, CancelSelfLock, CancelKilled, Wait, MaxSet, SelfLock,
     Push, Waiter, main
<1>2. ASSUME NEW f, f.kind \in Speakers => f.on \notin Dead \cup New, stack' = Append(stack, f) PROVE SpeakInv'
  <2>1. Len(stack') = Len(stack) + 1 /\ stack'[Len(stack) + 1] = f /\ Len(stack) \in Nat
        /\ \A i \in 1 .. Len(stack) : stack'[i] = stack[i]
    BY <1>2, TopIs
  <2>2. \A i \in 1 .. Len(stack') : i \in 1 .. Len(stack) \/ i = Len(stack) + 1
    BY <2>1
  <2> QED BY <1>2, <2>1, <2>2, SpeakPrimed DEF SpeakInv, Calmly
<1>3. ASSUME NEW j \in Jobs, NEW k \in FrameKinds PROVE Frame(k, j).kind = k /\ Frame(k, j).on = j
  <2>1. Plain(Frame(k, j), k, j)
    BY FrameIs
  <2> QED BY <2>1 DEF Plain
<1>4. \A j \in Jobs : Waiter(j).kind = "wait"
  BY WaiterIs
<1>5. CASE stack' = stack
  BY <1>5, SpeakPrimed DEF SpeakInv, Calmly
<1>6. ASSUME NEW j \in Jobs, NEW k \in {"relock", "direct"}, stack' = Append(stack, Frame(k, j)) PROVE SpeakInv'
  <2>1. Frame(k, j).kind \notin Speakers
    BY <1>3 DEF FrameKinds, Speakers
  <2> QED BY <1>2, <1>6, <2>1
<1>7. ASSUME NEW j \in Jobs, stack' = Append(stack, Waiter(j)) PROVE SpeakInv'
  <2>1. Waiter(j).kind \notin Speakers
    BY <1>4 DEF Speakers
  <2> QED BY <1>2, <1>7, <2>1
<1>8. ASSUME NEW j \in Jobs, stack' = Append(stack, Frame("mark", j)), Usable(j) PROVE SpeakInv'
  <2>1. Frame("mark", j).on = j
    BY <1>3 DEF FrameKinds
  <2>2. j \notin Dead \cup New
    BY <1>8, UsableLives
  <2> QED BY <1>2, <1>8, <2>1, <2>2
<1> QED BY <1>1, <1>5, <1>6, <1>7, <1>8
(* At the end of a job nobody speaks.                                      *)
Mute(s) == s \in Seq(FrameRecord) /\ \A i \in 1 .. Len(s) : s[i].kind \notin Speakers

LEMMA MutePush ==
  ASSUME NEW s, Mute(s), NEW f \in FrameRecord, f.kind \notin Speakers PROVE Mute(Append(s, f))
<1> DEFINE u == Append(s, f)
<1>1. /\ u \in Seq(FrameRecord) /\ Len(s) \in Nat /\ Len(u) = Len(s) + 1 /\ u[Len(s) + 1] = f
      /\ \A i \in 1 .. Len(s) : u[i] = s[i]
  BY DEF Mute
<1> HIDE DEF u
<1>2. \A i \in 1 .. Len(u) : i \in 1 .. Len(s) \/ i = Len(s) + 1
  BY <1>1
<1>3. Mute(u)
  BY <1>1, <1>2 DEF Mute
<1> QED BY <1>3 DEF u

LEMMA MuteReady ==
  ASSUME NEW s, Ready(s), Hushed(s) PROVE Mute(s)
BY DEF Ready, Hushed, Mute, Alone, Speakers

LEMMA MuteKill ==
  ASSUME CoreInv, NEW j \in Jobs, NEW b, Mute(b), Kill(j, b) PROVE Mute(stack') \/ UNCHANGED stack
<1> DEFINE c == Append(b, Frame("kill", j))
           w == Wrapper(j, job[j].waiter)
<1>0. b \in Seq(FrameRecord) /\ job[j].waiter \in Nat
  BY DEF Mute, CoreInv, Types, JobRec
<1>1. Frame("kill", j) \in FrameRecord /\ Frame("kill", j).kind = "kill"
  <2>1. Plain(Frame("kill", j), "kill", j)
    BY FrameIs DEF FrameKinds
  <2> QED BY <2>1 DEF Plain
<1>2. w \in FrameRecord /\ w.kind = "wrap"
  BY <1>0, WrapperIs
<1>3. stack' = Append(c, User) \/ stack' = Append(Append(c, w), User) \/ stack' = stack
  <2>1. LET cc == Append(b, Frame("kill", j))
         IN \/ /\ job[j].func # "wrap"
               /\ Report(j, Outcome(j)) /\ stack' = Append(cc, User)
            \/ /\ job[j].func = "wrap" /\ job[j].waiter # 0 /\ stack[job[j].waiter].func = "user"
               /\ Report(j, Outcome(j)) /\ stack' = Append(Append(cc, Wrapper(j, job[j].waiter)), User)
            \/ Broken
    BY <1>0, KillForms
  <2> QED BY <2>1 DEF Broken
<1>4. Mute(c)
  BY <1>1, MutePush DEF Speakers
<1> HIDE DEF c, w
<1>5. Mute(Append(c, User)) /\ Mute(Append(c, w))
  BY <1>2, <1>4, UserIs, MutePush DEF Speakers
<1> DEFINE d == Append(c, w)
<1> HIDE DEF d
<1>6. Mute(d) => Mute(Append(d, User))
  BY UserIs, MutePush DEF Speakers
<1> QED BY <1>3, <1>5, <1>6 DEF d

LEMMA EndingMute ==
  ASSUME CoreInv, ShapeInv, CalmHere, Ending PROVE Mute(stack') \/ UNCHANGED stack
<1>1. CASE NotifyKills
  <2>1. Top.kind = "notify" /\ Kill(Top.on, Below) /\ Top.on \in Jobs
    BY <1>1, TopIs DEF NotifyKills, At
  <2>2. Mute(Below)
    BY <2>1, PopShape, MuteReady DEF Quiet
  <2> QED BY <2>1, <2>2, MuteKill
<1>2. ASSUME NEW j \in Jobs, HandlerKills(j) PROVE Mute(stack') \/ UNCHANGED stack
  <2>1. At("flush") /\ Top.todo # <<>> /\ Kill(j, Rest)
    BY <1>2 DEF HandlerKills, NextCall
  <2>2. Mute(Rest)
    BY <2>1, RestShape, MuteReady
  <2> QED BY <2>1, <2>2, MuteKill
<1>3. CASE RetryFails \/ OnError
  <2>1. /\ Top.kind \in {"retry", "onError"} /\ Top.on \in Jobs
        /\ \/ /\ count # 0 /\ stack' = Below /\ UNCHANGED <<pendShort, pendFeedback, ghost>>
           \/ /\ count = 0 /\ Dropped(Top.on) /\ Report(Top.on, "cancel")
              /\ stack' = Append(Append(Below, Frame("failed", Top.on)), User)
    BY <1>3, GiveUpForms
  <2>2. Mute(Below)
    BY <2>1, PopShape, MuteReady DEF Quiet
  <2>3. Frame("failed", Top.on) \in FrameRecord /\ Frame("failed", Top.on).kind = "failed"
    <3>1. Plain(Frame("failed", Top.on), "failed", Top.on)
      BY <2>1, FrameIs DEF FrameKinds
    <3> QED BY <3>1 DEF Plain
  <2>4. Mute(Append(Below, Frame("failed", Top.on)))
    BY <2>2, <2>3, MutePush DEF Speakers
  <2> DEFINE d == Append(Below, Frame("failed", Top.on))
  <2> HIDE DEF d
  <2>5. Mute(d) => Mute(Append(d, User))
    BY UserIs, MutePush DEF Speakers
  <2> QED BY <2>1, <2>2, <2>4, <2>5 DEF d
<1> QED BY <1>1, <1>2, <1>3 DEF Ending

LEMMA SpeakEnds ==
  ASSUME CoreInv, ShapeInv, CalmHere, Ending, NEW j, Ends(j) PROVE SpeakInv'
<1>1. UNCHANGED job
  BY EndMail
<1>2. UNCHANGED stack => Dead' = Dead
  <2>1. Gone' = Gone
    BY <1>1 DEF Gone
  <2> QED BY <2>1, DeadIs DEF Dead
<1>3. Mute(stack')
  BY <1>2, EndingMute DEF Ends
<1> QED BY <1>3, SpeakPrimed DEF Mute

LEMMA SpeakWrap ==
  ASSUME CoreInv, SpeakInv, WrapDone, Calmly PROVE SpeakInv'
<1>1. /\ Top.kind = "wrap" /\ Len(stack') = Len(Below) /\ Len(Below) \in Nat
      /\ \A m \in 1 .. Len(Below) : stack'[m].kind = Below[m].kind /\ stack'[m].on = Below[m].on
  BY WrapDoneForm
<1>2. \A m \in 1 .. Len(Below) : Below[m] = stack[m] /\ m \in 1 .. Len(stack)
  BY <1>1, BelowIs
<1> QED BY <1>1, <1>2, SpeakPrimed DEF SpeakInv, Calmly

LEMMA SpeakMain ==
  ASSUME CoreInv, CountsRight, SilentInv, SpeakInv, MainStep, Calmly PROVE SpeakInv'
BY SpeakWrap, SpeakGrown, MainGrown

LEMMA SpeakSame ==
  ASSUME SpeakInv, UNCHANGED stack, Calmly PROVE SpeakInv'
BY SpeakPrimed DEF SpeakInv, Calmly

LEMMA SpeakCalm ==
  ASSUME CoreInv, CountsRight, SilentInv, FinalInv, SpeakInv, [Next]_vars, Calmly PROVE SpeakInv'
<1>1. CASE UserStep
  BY <1>1, SpeakUser
<1>2. CASE MainStep
  BY <1>2, SpeakMain
<1>3. ASSUME NEW t \in Threads, ThreadStep(t) \/ FunctionStep(t) PROVE SpeakInv'
  BY <1>3, ThreadForms, SpeakSame
<1>4. CASE UNCHANGED vars
  BY <1>4, SpeakSame DEF vars
<1> QED BY <1>1, <1>2, <1>3, <1>4 DEF Next

-----------------------------------------------------------------------------
(* Together: what is inductive about the places, the messages and the last *)
(* callbacks of the jobs.                                                  *)
Room == "createFails" \in Liberties => Limited

Home == /\ CoreInv /\ Counted /\ Room
        /\ ShapeInv /\ HandsInv /\ OpenInv /\ PlaceInv
        /\ CountsRight /\ SilentInv /\ SpeakInv /\ FinalInv

LEMMA SpeakerLives ==
  ASSUME CoreInv, SpeakInv, Top.kind \in Speakers PROVE Top.on \notin Dead \cup New
BY TopIs DEF SpeakInv

LEMMA HomeMoves ==
  ASSUME Home, CalmHere, Granted, [Next]_vars
  PROVE  PlaceInv' /\ SilentInv' /\ SpeakInv' /\ FinalInv'
<1> USE DEF Home
<1>1. CASE ~Ending
  <2>1. Calmly
    BY <1>1, NextCalm
  <2> QED BY <1>1, <2>1, SilentCalm, SpeakCalm, FinalCalm DEF Calmly
<1>2. CASE Ending
  <2>1. NotifyKills => Top.on \notin Dead
    BY SpeakerLives DEF NotifyKills, At, Speakers
  <2>2. PICK j \in Jobs : /\ EndsNow(j)
                          /\ RetryFails \/ OnError => j = Top.on
                          /\ NotifyKills => j = Top.on
                          /\ ~RetryFails /\ ~OnError /\ ~NotifyKills => HandlerKills(j)
    BY <1>2, <2>1, EndingPlace
  <2>3. ~Owing(j)
    BY <1>2, <2>2, EndOwesNothing
  <2>4. FinalInv'
    BY <2>2, FinalEnds
  <2>5. CASE Calmly
    BY <2>4, <2>5, SilentCalm, SpeakCalm DEF Calmly
  <2>6. CASE Ends(j)
    BY <1>2, <2>3, <2>4, <2>6, SilentEnds, SpeakEnds DEF Ends
  <2> QED BY <2>2, <2>5, <2>6 DEF EndsNow
<1> QED BY <1>1, <1>2

LEMMA OpenRoom ==
  ASSUME Home, Granted, [Next]_vars PROVE OpenInv'
<1>1. CASE "createFails" \in Liberties
  BY <1>1, OpenStep DEF Home, Room
<1>2. CASE "createFails" \notin Liberties
  BY <1>2 DEF OpenInv
<1> QED BY <1>1, <1>2

LEMMA HomeStep ==
  ASSUME Home, CalmHere, Granted, [Next]_vars PROVE Home'
<1>1. PlaceInv' /\ SilentInv' /\ SpeakInv' /\ FinalInv'
  BY HomeMoves
<1>2. OpenInv'
  BY OpenRoom
<1>3. Goal
  BY EveryStep DEF Home
<1>4. Room'
  <2> SUFFICES ASSUME "createFails" \in Liberties PROVE Limited'
    BY DEF Room
  <2>1. max = 1 /\ max' = 1
    BY <1>2 DEF Home, OpenInv
  <2>2. Limited
    BY DEF Home, Room
  <2> QED BY <1>3, <2>1, <2>2 DEF Goal
<1>5. ShapeInv' /\ HandsInv' /\ CountsRight'
  BY ShapeStep, HandsStep, CountsStep DEF Home, SilentInv
<1> QED BY <1>1, <1>2, <1>3, <1>4, <1>5 DEF Home, Goal

LEMMA HomeInit ==
  ASSUME Init, Granted PROVE Home
<1>1. PlaceInv /\ New = Jobs /\ Dead = {}
  BY PlaceInit
<1>2. \A j \in Jobs : job[j].send = 0 /\ job[j].received = 0
  BY DEF Init, NewJob
<1>3. SilentInv
  BY <1>2, BoundsAssumption DEF SilentInv, Unsent, Owing
<1>4. SpeakInv
  <2>1. Len(stack) = 1 /\ stack[1] = User
    BY DEF Init
  <2> QED BY <2>1, UserIs DEF SpeakInv, Speakers
<1>5. FinalInv
  <2>1. NewGhost \in GhostRecord /\ Len(NewGhost.final) = 0
    BY DEF NewGhost, GhostRecord
  <2>2. ghost \in [Jobs -> GhostRecord] /\ \A j \in Jobs : ghost[j] = NewGhost
    BY <2>1 DEF Init
  <2> QED BY <1>1, <2>1, <2>2 DEF FinalInv
<1>6. CoreInv /\ Counted /\ Room /\ ShapeInv /\ HandsInv /\ OpenInv /\ CountsRight
  BY Start0, ShapeInit, HandsInit, OpenInit, CountsInit DEF Room
<1> QED BY <1>1, <1>3, <1>4, <1>5, <1>6 DEF Home
-----------------------------------------------------------------------------
(* The places of the model and those of the proof.                         *)
PlaceOf(x) == IF x \in {"kill", "failed", "direct"} THEN "activation" ELSE IF x = "todo" THEN "flush" ELSE x

LEMMA InSite ==
  ASSUME NEW j \in Jobs, NEW x \in StackSites
  PROVE  j \in CarriedIn(stack, x) <=>
           \E i \in 1 .. Len(stack) :
             IF x = "todo" THEN \E k \in 1 .. Len(stack[i].todo) : Ended(stack[i].todo[k], j)
             ELSE stack[i].on = j /\ stack[i].kind \in (IF x = "direct" THEN StartKinds ELSE {x})
BY DEF CarriedIn, Carries, Handlers

LEMMA EndedIs ==
  ASSUME NEW x \in Call, NEW j \in Jobs PROVE Ended(x, j) <=> x = Handler(j)
BY CallIs, CallWas DEF Ended

LEMMA Domains ==
  ASSUME CoreInv
  PROVE  /\ DOMAIN stack = 1 .. Len(stack) /\ DOMAIN calls = 1 .. Len(calls)
         /\ DOMAIN pendShort = 1 .. Len(pendShort) /\ DOMAIN pendFeedback = 1 .. Len(pendFeedback)
         /\ \A i \in 1 .. Len(stack) : DOMAIN stack[i].todo = 1 .. Len(stack[i].todo) /\ stack[i].todo \in Seq(Call)
<1>1. stack \in Seq(FrameRecord) /\ calls \in Seq(Call)
      /\ pendShort \in Seq(Short) /\ pendFeedback \in Seq(Feedback \cup Direct)
  BY DEF CoreInv, Types, Good
<1>2. \A i \in 1 .. Len(stack) : stack[i] \in FrameRecord
  BY <1>1
<1> QED BY <1>1, <1>2 DEF FrameRecord

LEMMA FlushPlaces ==
  ASSUME CoreInv, NEW j
  PROVE  PlacesIn("flush", j) =
           {p \in (1 .. Len(stack)) \X Nat : p[2] \in 1 .. Len(stack[p[1]].todo) /\ stack[p[1]].todo[p[2]] = Handler(j)}
BY Domains DEF PlacesIn, Positions

LEMMA PlacesAre ==
  ASSUME CoreInv, NEW j
  PROVE  /\ PlacesIn("short", j) = {k \in 1 .. Len(pendShort) : pendShort[k] = j}
         /\ PlacesIn("feedback", j) = {k \in 1 .. Len(pendFeedback) : pendFeedback[k] = j}
         /\ PlacesIn("thread", j) = {t \in Threads : Work(t) = j}
         /\ PlacesIn("call", j) = {k \in 1 .. Len(calls) : calls[k] = Handler(j)}
         /\ PlacesIn("activation", j) =
              {i \in 1 .. Len(stack) : stack[i].kind \in EndKinds \cup StartKinds /\ stack[i].on = j}
         /\ PlacesIn("messages", j) = {i \in {0} : job[j].kill /\ FramesOf({"kill"}, j) = {}}
         /\ FramesOf({"kill"}, j) = {i \in 1 .. Len(stack) : stack[i].kind = "kill" /\ stack[i].on = j}
<1>1. EndKinds \cup StartKinds = {"kill", "failed", "direct", "directRetry"}
  BY DEF EndKinds, StartKinds
<1> QED BY <1>1, Domains DEF PlacesIn, Positions, FramesOf

(* Where the model finds a job the proof does.                             *)
LEMMA PlaceSited ==
  ASSUME CoreInv, NEW j \in Jobs, job[j].mem = "live", NEW y \in Places, NEW p \in PlacesIn(y, j)
  PROVE  \E s \in Sites : j \in Site(s) /\ PlaceOf(s) = y
<1>1. /\ CarriedIn(stack, "todo") = Site("todo") /\ CarriedIn(stack, "kill") = Site("kill")
      /\ CarriedIn(stack, "failed") = Site("failed") /\ CarriedIn(stack, "direct") = Site("direct")
      /\ {"todo", "kill", "failed", "direct"} \subseteq Sites /\ StackSites = {"todo", "kill", "failed", "direct"}
  BY SiteIs DEF StackSites
<1>2. CASE y = "short" \/ y = "feedback"
  <2>1. j \in Site(y)
    BY <1>2, PlacesAre, SiteIs DEF Entries
  <2> QED BY <1>2, <2>1, SiteIs DEF PlaceOf
<1>3. CASE y = "thread"
  <2>1. j \in Site("thread")
    BY <1>3, PlacesAre, SiteIs DEF Held
  <2> QED BY <1>3, <2>1, SiteIs DEF PlaceOf
<1>4. CASE y = "call"
  <2>1. p \in 1 .. Len(calls) /\ calls[p] = Handler(j)
    BY <1>4, PlacesAre
  <2>2. Ended(calls[p], j)
    BY <2>1, CallIs DEF Ended
  <2>3. j \in Site("call")
    BY <2>1, <2>2, SiteIs DEF Handlers
  <2> QED BY <1>4, <2>3, SiteIs DEF PlaceOf
<1>5. CASE y = "flush"
  <2>1. p[1] \in 1 .. Len(stack) /\ p[2] \in 1 .. Len(stack[p[1]].todo) /\ stack[p[1]].todo[p[2]] = Handler(j)
    BY <1>5, FlushPlaces
  <2>2. Ended(stack[p[1]].todo[p[2]], j)
    BY <2>1, CallIs DEF Ended
  <2>3. j \in Site("todo")
    BY <1>1, <2>1, <2>2, InSite
  <2> QED BY <1>1, <1>5, <2>3 DEF PlaceOf
<1>6. CASE y = "activation"
  <2>1. p \in 1 .. Len(stack) /\ stack[p].kind \in EndKinds \cup StartKinds /\ stack[p].on = j
    BY <1>6, PlacesAre
  <2>2. j \in Site("kill") \/ j \in Site("failed") \/ j \in Site("direct")
    BY <1>1, <2>1, InSite DEF EndKinds
  <2> QED BY <1>1, <1>6, <2>2 DEF PlaceOf
<1>7. CASE y = "messages"
  <2>1. job[j].kill /\ \A i \in 1 .. Len(stack) : ~(stack[i].kind = "kill" /\ stack[i].on = j)
    BY <1>7, PlacesAre
  <2>2. j \notin CarriedIn(stack, "kill")
    BY <1>1, <2>1, InSite
  <2>3. j \in Site("messages")
    BY <2>1, <2>2, SiteIs DEF Killed, Gone
  <2> QED BY <1>7, <2>3, SiteIs DEF PlaceOf
<1> QED BY <1>2, <1>3, <1>4, <1>5, <1>6, <1>7 DEF Places

(* Where the proof finds a job the model does.                             *)
LEMMA SitePlaced ==
  ASSUME CoreInv, NEW j \in Jobs, NEW s \in Sites \ {"new", "gone"}, j \in Site(s)
  PROVE  PlaceOf(s) \in Places /\ PlacesIn(PlaceOf(s), j) # {}
<1>1. /\ CarriedIn(stack, "todo") = Site("todo") /\ CarriedIn(stack, "kill") = Site("kill")
      /\ CarriedIn(stack, "failed") = Site("failed") /\ CarriedIn(stack, "direct") = Site("direct")
      /\ StackSites = {"todo", "kill", "failed", "direct"}
  BY SiteIs DEF StackSites
<1>2. CASE s = "short" \/ s = "feedback"
  BY <1>2, PlacesAre, SiteIs DEF Entries, PlaceOf, Places
<1>3. CASE s = "thread"
  BY <1>3, PlacesAre, SiteIs DEF Held, PlaceOf, Places
<1>4. CASE s = "call"
  <2>1. PICK k \in 1 .. Len(calls) : Ended(calls[k], j)
    BY <1>4, SiteIs DEF Handlers
  <2>2. calls[k] \in Call
    BY DEF CoreInv, Types
  <2>3. calls[k] = Handler(j)
    BY <2>1, <2>2, EndedIs
  <2> QED BY <1>4, <2>3, PlacesAre DEF PlaceOf, Places
<1>5. CASE s = "todo"
  <2>1. PICK i \in 1 .. Len(stack) : \E k \in 1 .. Len(stack[i].todo) : Ended(stack[i].todo[k], j)
    BY <1>1, <1>5, InSite
  <2>2. PICK k \in 1 .. Len(stack[i].todo) : Ended(stack[i].todo[k], j)
    BY <2>1
  <2>3. stack[i].todo \in Seq(Call)
    BY Domains
  <2>4. stack[i].todo[k] = Handler(j) /\ k \in Nat
    BY <2>2, <2>3, EndedIs
  <2>5. <<i, k>> \in PlacesIn("flush", j)
    BY <2>4, FlushPlaces
  <2> QED BY <1>5, <2>5 DEF PlaceOf, Places
<1>6. CASE s \in {"kill", "failed", "direct"}
  <2>1. PICK i \in 1 .. Len(stack) : stack[i].on = j /\ stack[i].kind \in (IF s = "direct" THEN StartKinds ELSE {s})
    BY <1>1, <1>6, InSite
  <2>2. i \in PlacesIn("activation", j)
    BY <1>6, <2>1, PlacesAre DEF EndKinds
  <2> QED BY <1>6, <2>2 DEF PlaceOf, Places
<1>7. CASE s = "messages"
  <2>1. j \in Killed /\ j \notin CarriedIn(stack, "kill")
    BY <1>7, SiteIs
  <2>2. \A i \in 1 .. Len(stack) : ~(stack[i].kind = "kill" /\ stack[i].on = j)
    BY <1>1, <2>1, InSite
  <2>3. FramesOf({"kill"}, j) = {}
    BY <2>2, PlacesAre
  <2>4. PlacesIn("messages", j) = {0}
    BY <2>1, <2>3, PlacesAre DEF Killed
  <2> QED BY <1>7, <2>4 DEF PlaceOf, Places
<1> QED BY <1>2, <1>3, <1>4, <1>5, <1>6, <1>7 DEF Sites, StackSites

(* A job is nowhere twice.                                                 *)
LEMMA PlacedOnce ==
  ASSUME CoreInv, PlaceInv, NEW j \in Jobs, NEW y \in Places, NEW p \in PlacesIn(y, j), NEW q \in PlacesIn(y, j)
  PROVE  p = q
<1>0. /\ Distinct(pendShort) /\ Distinct(pendFeedback) /\ HandledOnce(calls) /\ OneHolder
      /\ \A i \in 1 .. Len(stack) : HandledOnce(stack[i].todo)
      /\ \A x \in StackSites : \A i, k \in 1 .. Len(stack) : j \in Carries(stack[i], x) /\ j \in Carries(stack[k], x) => i = k
  BY DEF PlaceInv, Single, Separate
<1>1. CASE y = "short" \/ y = "feedback"
  BY <1>0, <1>1, PlacesAre DEF Distinct
<1>2. CASE y = "thread"
  BY <1>0, <1>2, PlacesAre DEF OneHolder
<1>3. CASE y = "call"
  BY <1>0, <1>3, PlacesAre, CallIs DEF HandledOnce
<1>4. CASE y = "flush"
  <2>1. ASSUME NEW z \in PlacesIn(y, j)
        PROVE  /\ z = <<z[1], z[2]>> /\ z[1] \in 1 .. Len(stack) /\ z[2] \in 1 .. Len(stack[z[1]].todo)
               /\ stack[z[1]].todo[z[2]] = Handler(j) /\ j \in Carries(stack[z[1]], "todo")
    <3>1. z = <<z[1], z[2]>> /\ z[1] \in 1 .. Len(stack) /\ z[2] \in 1 .. Len(stack[z[1]].todo)
          /\ stack[z[1]].todo[z[2]] = Handler(j)
      BY <1>4, <2>1, FlushPlaces
    <3>2. Ended(Handler(j), j)
      BY CallIs DEF Ended
    <3> QED BY <3>1, <3>2 DEF Carries, Handlers
  <2>2. "todo" \in StackSites
    BY DEF StackSites
  <2>3. p[1] = q[1]
    BY <1>0, <2>1, <2>2
  <2>4. p[2] = q[2]
    BY <1>0, <2>1, <2>3, CallIs DEF HandledOnce
  <2> QED BY <2>1, <2>3, <2>4
<1>5. CASE y = "activation"
  <2> DEFINE Of(i) == IF stack[i].kind \in StartKinds THEN "direct" ELSE stack[i].kind
  <2>1. ASSUME NEW i \in PlacesIn(y, j)
        PROVE  i \in 1 .. Len(stack) /\ Of(i) \in StackSites /\ j \in Carries(stack[i], Of(i)) /\ j \in Site(Of(i))
    <3>1. i \in 1 .. Len(stack) /\ stack[i].kind \in EndKinds \cup StartKinds /\ stack[i].on = j
      BY <1>5, <2>1, PlacesAre
    <3>2. Of(i) \in StackSites /\ Of(i) # "todo"
      BY <3>1 DEF EndKinds, StartKinds, StackSites
    <3>3. j \in Carries(stack[i], Of(i))
      BY <3>1, <3>2 DEF Carries, EndKinds, StartKinds
    <3>4. j \in CarriedIn(stack, Of(i))
      BY <3>1, <3>3 DEF CarriedIn
    <3> QED BY <3>1, <3>2, <3>3, <3>4, SiteIs
  <2> HIDE DEF Of
  <2>2. Of(p) = Of(q)
    <3>1. Of(p) \in Sites /\ Of(q) \in Sites
      BY <2>1, SiteIs
    <3> QED BY <2>1, <3>1, Elsewhere DEF PlaceInv
  <2> QED BY <1>0, <2>1, <2>2
<1>6. CASE y = "messages"
  BY <1>6, PlacesAre
<1> QED BY <1>1, <1>2, <1>3, <1>4, <1>5, <1>6 DEF Places

LEMMA HomeOnePlace == ASSUME Home PROVE OnePlace
<1> SUFFICES ASSUME NEW j \in Jobs, job[j].mem = "live"
             PROVE  \E place \in Places :
                      /\ \E p \in PlacesIn(place, j) : PlacesIn(place, j) = {p}
                      /\ \A other \in Places \ {place} : PlacesIn(other, j) = {}
  BY DEF OnePlace
<1>1. CoreInv /\ PlaceInv /\ Placement
  BY DEF Home, PlaceInv
<1>2. PICK x \in Sites : \A y \in Sites : j \in Site(y) <=> y = x
  BY <1>1 DEF Placement
<1>3. x \notin {"new", "gone"}
  BY <1>2, SiteIs DEF New, Gone
<1>4. PlaceOf(x) \in Places /\ PlacesIn(PlaceOf(x), j) # {}
  BY <1>1, <1>2, <1>3, SitePlaced
<1>5. PICK p \in PlacesIn(PlaceOf(x), j) : TRUE
  BY <1>4
<1>6. PlacesIn(PlaceOf(x), j) = {p}
  BY <1>1, <1>4, <1>5, PlacedOnce
<1>7. \A other \in Places \ {PlaceOf(x)} : PlacesIn(other, j) = {}
  BY <1>1, <1>2, PlaceSited
<1> QED BY <1>4, <1>6, <1>7

(* A job is in exactly one place, and once: with any number of jobs,       *)
(* threads and messages, however the main loop's callbacks are nested, it  *)
(* is never lost between the lists, the threads and the queue of calls,    *)
(* and never run or ended twice.                                           *)
THEOREM JobPlaced ==
  ASSUME CalmHere, Granted PROVE SafetySpec => []OnePlace
<1>1. Init => Home
  BY HomeInit
<1>2. Home /\ [Next]_vars => Home'
  BY HomeStep
<1>3. Home => OnePlace
  BY HomeOnePlace
<1> QED BY <1>1, <1>2, <1>3, PTL DEF SafetySpec
-----------------------------------------------------------------------------
(* The last callback.                                                      *)
LEMMA OverIsDead ==
  ASSUME Home, NEW j \in Jobs, ghost[j].final # <<>> PROVE j \in Dead
<1>1. ghost[j].final \in Seq({"end", "cancel"})
  BY DEF Home, FinalInv, GhostRecord
<1>2. Len(ghost[j].final) # 0
  BY <1>1
<1> QED BY <1>2 DEF Home, FinalInv

(* What is posted is owed.                                                 *)
LEMMA PostedOwes ==
  ASSUME Home, NEW j \in Jobs, Posted("notify", j) PROVE Owing(j)
<1> DEFINE x == NotifyOf(j)
<1>1. /\ job[j].send = job[j].received + Cardinality(Queued(calls, j)) + Cardinality(Flushed(stack, j))
      /\ job[j].received \in Nat /\ IsFiniteSet(Flushed(stack, j)) /\ calls \in Seq(Call)
  BY DEF Home, CountsRight, CoreInv, Types, JobRec
<1>2. Cardinality(Flushed(stack, j)) \in Nat /\ Cardinality(Queued(calls, j)) \in Nat /\ IsFiniteSet(Queued(calls, j))
  BY <1>1, FS_CardinalityType, QueuedFinite
<1>3. Queued(calls, j) # {} \/ Flushed(stack, j) # {}
  <2>1. CASE \E k \in DOMAIN calls : calls[k] = x
    BY <2>1, Domains DEF Home, Queued
  <2>2. CASE \E i \in DOMAIN stack : \E k \in DOMAIN stack[i].todo : stack[i].todo[k] = x
    <3>1. PICK i \in 1 .. Len(stack) : \E k \in 1 .. Len(stack[i].todo) : stack[i].todo[k] = x
      BY <2>2, Domains DEF Home
    <3>2. PICK k \in 1 .. Len(stack[i].todo) : stack[i].todo[k] = x
      BY <3>1
    <3> DEFINE d == stack[i].todo
               m == Len(d) + 1 - k
    <3>3. d \in Seq(Call) /\ Len(d) \in Nat
      BY Domains DEF Home
    <3>4. m \in 1 .. Len(d) /\ Len(d) + 1 - m = k
      BY <3>2, <3>3
    <3>5. TodoAt(stack, i) = d /\ i \in Nat
      BY DEF TodoAt
    <3>6. d[k] = x
      BY <3>2
    <3> HIDE DEF d, m
    <3>7. <<i, m>> \in Flushed(stack, j)
      BY <3>4, <3>5, <3>6 DEF Flushed
    <3> QED BY <3>7
  <2> QED BY <2>1, <2>2 DEF Posted, NotifyOf
<1>4. Cardinality(Queued(calls, j)) # 0 \/ Cardinality(Flushed(stack, j)) # 0
  BY <1>1, <1>2, <1>3, FS_EmptySet
<1> QED BY <1>1, <1>2, <1>4 DEF Owing

LEMMA HomeMessagesFirst == ASSUME Home PROVE MessagesFirst
<1> SUFFICES ASSUME NEW j \in Jobs, ghost[j].final # <<>>
             PROVE  ~Owing(j) /\ ~Posted("notify", j) /\ FramesOf({"notify"}, j) = {}
  BY DEF MessagesFirst
<1>1. j \in Dead
  BY OverIsDead
<1>2. ~Owing(j)
  BY <1>1 DEF Home, SilentInv
<1>3. FramesOf({"notify"}, j) = {}
  BY <1>1, Domains DEF Home, SpeakInv, Speakers, FramesOf
<1> QED BY <1>2, <1>3, PostedOwes

LEMMA HomeFinalOnce == ASSUME Home, Again PROVE FinalOnce
<1> SUFFICES ASSUME NEW j \in Jobs
             PROVE  /\ Len(ghost[j].final) <= 1
                    /\ job[j].mem = "freed" => Len(ghost[j].final) = 1
                    /\ ghost[j].final # <<>> => ~job[j].reschedule
  BY DEF FinalOnce
<1>1. Len(ghost[j].final) = IF j \in Dead THEN 1 ELSE 0
  BY DEF Home, FinalInv
<1>2. job[j].mem = "freed" => j \in Dead
  BY DEF Dead, Gone
<1>3. ghost[j].final # <<>> => ~job[j].reschedule
  BY OverIsDead, HeldLives DEF Again, Home
<1> QED BY <1>1, <1>2, <1>3

(* The last callback of a job comes after every message: none is left, in  *)
(* the queue, in a flush that is under way or in a delivery below, when it *)
(* begins, and none is sent later.                                         *)
THEOREM MessagesBeforeEnd ==
  ASSUME CalmHere, Granted PROVE SafetySpec => []MessagesFirst
<1>1. Init => Home
  BY HomeInit
<1>2. Home /\ [Next]_vars => Home'
  BY HomeStep
<1>3. Home => MessagesFirst
  BY HomeMessagesFirst
<1> QED BY <1>1, <1>2, <1>3, PTL DEF SafetySpec

(* A job has one last callback before its memory is freed, never two, and  *)
(* none while it asks to run again.                                        *)
THEOREM EndsOnce ==
  ASSUME CalmHere, Granted, Repeats \cap Direct = {} PROVE SafetySpec => []FinalOnce
<1> DEFINE Inv == Home /\ Again
<1>1. Init => Inv
  BY HomeInit, AgainInit
<1>2. Inv /\ [Next]_vars => Inv'
  BY HomeStep, AgainStep DEF Home
<1>3. Inv => FinalOnce
  BY HomeFinalOnce
<1> QED BY <1>1, <1>2, <1>3, PTL DEF SafetySpec
-----------------------------------------------------------------------------
(* The waits.  Every activation of ecore_thread_wait() that still waits    *)
(* will be told: its job is not over and has the wrappers, or the wrapper  *)
(* that tells it is being run; and nested waits for one job have saved     *)
(* each other's wrappers.                                                  *)
Wraps(f, j, i) == f.kind = "wrap" /\ f.on = j /\ f.waiter = i

WaitsKnown(s)  == \A i \in 1 .. Len(s) : s[i].kind \in Waits => s[i].on \notin New
WaitsApart(s)  == \A i, k \in 1 .. Len(s) : s[i].kind \in Waits /\ s[k].kind \in RunFrames => s[i].on # s[k].on
WaitsNested(s) == \A j \in Jobs : \A i, k \in 1 .. Len(s) :
                    Waiting(s, j, i) /\ Waiting(s, j, k) /\ i < k => s[k].func = "wrap"
WrapsUsers(s)  == \A k \in 1 .. Len(s) : s[k].kind = "wrap" => s[s[k].waiter].func = "user"
WaitsLatest    == \A j \in Jobs : \A k \in 1 .. Len(stack) :
                    job[j].waiter # 0 /\ k > job[j].waiter => ~Waiting(stack, j, k)
WaitsHeld      == \A j \in Jobs : \A i \in 1 .. Len(stack) : Waiting(stack, j, i) =>
                    \/ j \notin Dead /\ job[j].func = "wrap"
                    \/ \E k \in 1 .. Len(stack) : Wraps(stack[k], j, i)
WaitsTold      == \A i \in 1 .. Len(stack) : stack[i].kind \in Waits /\ ~stack[i].waiting =>
                    \/ stack[i].on \in Gone
                    \/ \E m \in 1 .. Len(stack) : m > i /\ stack[m].kind = "kill" /\ stack[m].on = stack[i].on

WaitsSound == WaitsKnown(stack) /\ WaitsApart(stack) /\ WaitsNested(stack) /\ WaitsLatest
PausesInv  == WaitsSound /\ WrapsUsers(stack) /\ WaitsHeld /\ WaitsTold

(* The waits and creations of a stack that has no new ones.                *)
Descends(s) ==
  \A i \in 1 .. Len(s) :
    /\ s[i].kind \in Waits => /\ i \in 1 .. Len(stack) /\ stack[i].kind \in Waits
                              /\ stack[i].on = s[i].on /\ stack[i].func = s[i].func
                              /\ s[i].waiting => stack[i].waiting
    /\ s[i].kind \in RunFrames =>
         s[i].on \in New \/ \E k \in 1 .. Len(stack) : stack[k].kind \in RunFrames /\ stack[k].on = s[i].on

LEMMA WaitsDescend ==
  ASSUME WaitsSound, Descends(stack'), New' \subseteq New,
         \A j \in Jobs : job'[j].waiter = job[j].waiter \/ job'[j].waiter = 0
  PROVE  WaitsSound'
<1>0. WaitsKnown(stack) /\ WaitsApart(stack) /\ WaitsNested(stack) /\ WaitsLatest
  BY DEF WaitsSound
<1>1. ASSUME NEW j, NEW i, Waiting(stack', j, i)
      PROVE  Waiting(stack, j, i) /\ i \in 1 .. Len(stack) /\ stack[i].func = stack'[i].func
  BY <1>1 DEF Waiting, Descends
<1>2. \A i \in 1 .. Len(stack') : stack'[i].kind \in Waits => stack'[i].on \notin New'
  BY <1>0 DEF WaitsKnown, Descends
<1>3. ASSUME NEW i \in 1 .. Len(stack'), NEW k \in 1 .. Len(stack'),
             stack'[i].kind \in Waits, stack'[k].kind \in RunFrames
      PROVE  stack'[i].on # stack'[k].on
  BY <1>0, <1>3 DEF WaitsKnown, WaitsApart, Descends
<1>4. ASSUME NEW j \in Jobs, NEW i \in 1 .. Len(stack'), NEW k \in 1 .. Len(stack'),
             Waiting(stack', j, i), Waiting(stack', j, k), i < k
      PROVE  stack'[k].func = "wrap"
  BY <1>0, <1>1, <1>4 DEF WaitsNested
<1>5. ASSUME NEW j \in Jobs, NEW k \in 1 .. Len(stack'), job'[j].waiter # 0, k > job'[j].waiter
      PROVE  ~Waiting(stack', j, k)
  BY <1>0, <1>1, <1>5 DEF WaitsLatest
<1>6. WaitsKnown(stack)' /\ WaitsApart(stack)'
  BY <1>2, <1>3 DEF WaitsKnown, WaitsApart
<1>7. WaitsNested(stack)' /\ WaitsLatest'
  BY <1>4, <1>5 DEF WaitsNested, WaitsLatest, Waiting
<1> QED BY <1>6, <1>7 DEF WaitsSound

LEMMA HeldPrimed ==
  ASSUME \A j \in Jobs : \A i \in 1 .. Len(stack') : Waiting(stack', j, i) =>
           \/ j \notin Dead' /\ job'[j].func = "wrap"
           \/ \E k \in 1 .. Len(stack') : Wraps(stack'[k], j, i)
  PROVE  WaitsHeld'
BY DEF WaitsHeld, Waiting, Wraps

LEMMA ToldPrimed ==
  ASSUME \A i \in 1 .. Len(stack') : stack'[i].kind \in Waits /\ ~stack'[i].waiting =>
           \/ stack'[i].on \in Gone'
           \/ \E m \in 1 .. Len(stack') : m > i /\ stack'[m].kind = "kill" /\ stack'[m].on = stack'[i].on
  PROVE  WaitsTold'
BY DEF WaitsTold

(* What a grown stack keeps.                                               *)
LEMMA GrownKeeps ==
  ASSUME CoreInv, NEW s, Grown(s), WrapsUsers(stack)
  PROVE  /\ \A i \in 1 .. Len(stack) : i < Len(stack) => i \in 1 .. Len(s) /\ s[i] = stack[i]
         /\ Descends(s) /\ WrapsUsers(s)
         /\ \A i \in 1 .. Len(s) : s[i].kind \in Waits => /\ i \in 1 .. Len(stack) /\ stack[i].kind \in Waits
                                                          /\ stack[i].on = s[i].on /\ stack[i].waiting = s[i].waiting
<1>1. stack \in Seq(FrameRecord) /\ Top = stack[Len(stack)] /\ Len(stack) \in 1 .. Len(stack) /\ Len(stack) \in Nat
      /\ Len(s) \in Nat
  BY TopIs DEF Grown
<1>2. \A i \in 1 .. Len(stack) : i < Len(stack) => i \in 1 .. Len(s) /\ s[i] = stack[i]
  BY <1>1 DEF Grown
<1>3. ASSUME NEW i \in 1 .. Len(s)
      PROVE  /\ s[i].kind \in Waits => /\ i \in 1 .. Len(stack) /\ stack[i].kind \in Waits
                              /\ stack[i].on = s[i].on /\ stack[i].func = s[i].func
                              /\ stack[i].waiting = s[i].waiting
             /\ s[i].kind \in RunFrames => \E k \in 1 .. Len(stack) : stack[k].kind \in RunFrames /\ stack[k].on = s[i].on
  <2>1. CASE i < Len(stack)
    <3>1. i \in 1 .. Len(stack) /\ s[i] = stack[i]
      BY <1>1, <2>1 DEF Grown
    <3> QED BY <3>1
  <2>2. CASE i >= Len(stack)
    <3>1. Stem(s[i]) /\ (s[i].kind \in Waits => i = Len(stack))
      BY <2>2 DEF Grown
    <3> QED BY <1>1, <3>1 DEF Stem
  <2> QED BY <1>1, <2>1, <2>2
<1>4. Descends(s)
  BY <1>3 DEF Descends
<1>5. ASSUME NEW k \in 1 .. Len(s), s[k].kind = "wrap" PROVE s[s[k].waiter].func = "user"
  <2>1. CASE k < Len(stack)
    <3>1. k \in 1 .. Len(stack) /\ s[k] = stack[k]
      BY <1>1, <2>1 DEF Grown
    <3>2. stack[k].waiter \in 1 .. k - 1 /\ stack[stack[k].waiter].func = "user"
      BY <1>5, <3>1 DEF CoreInv, Good, WrapsUsers
    <3>3. stack[k].waiter \in 1 .. Len(stack) /\ stack[k].waiter < Len(stack)
      BY <1>1, <2>1, <3>2
    <3> QED BY <1>2, <3>1, <3>2, <3>3
  <2>2. CASE k >= Len(stack)
    <3>1. Stem(s[k])
      BY <2>2 DEF Grown
    <3>2. s[k].waiter \in 1 .. Len(stack) - 1 /\ stack[s[k].waiter].func = "user"
      BY <1>5, <3>1 DEF Stem
    <3>3. s[k].waiter \in 1 .. Len(stack) /\ s[k].waiter < Len(stack)
      BY <1>1, <3>2
    <3> QED BY <1>2, <3>2, <3>3
  <2> QED BY <1>1, <2>1, <2>2
<1>6. WrapsUsers(s)
  BY <1>5 DEF WrapsUsers
<1> QED BY <1>2, <1>3, <1>4, <1>6

(* A callback's return and the release of a job end only their own         *)
(* activations.                                                            *)
FuncsSame == \A j \in Jobs : job'[j].func = job[j].func /\ job'[j].waiter = job[j].waiter

LEMMA UsersPrimed ==
  ASSUME WrapsUsers(stack') PROVE WrapsUsers(stack)'
BY DEF WrapsUsers

LEMMA GrownTold ==
  ASSUME CoreInv, PausesInv, Grown(stack'), Gone \subseteq Gone', Top.kind = "kill" => Top.on \in Gone'
  PROVE  WaitsTold'
<1>1. /\ \A i \in 1 .. Len(stack) : i < Len(stack) => i \in 1 .. Len(stack') /\ stack'[i] = stack[i]
      /\ \A i \in 1 .. Len(stack') : stack'[i].kind \in Waits => /\ i \in 1 .. Len(stack) /\ stack[i].kind \in Waits
                                   /\ stack[i].on = stack'[i].on /\ stack[i].waiting = stack'[i].waiting
  BY GrownKeeps DEF PausesInv
<1>2. Top = stack[Len(stack)] /\ Len(stack) \in Nat
  BY TopIs
<1>3. ASSUME NEW i \in 1 .. Len(stack'), stack'[i].kind \in Waits, ~stack'[i].waiting
      PROVE  \/ stack'[i].on \in Gone'
             \/ \E m \in 1 .. Len(stack') : m > i /\ stack'[m].kind = "kill" /\ stack'[m].on = stack'[i].on
  <2>1. i \in 1 .. Len(stack) /\ stack[i].kind \in Waits /\ stack[i].on = stack'[i].on /\ ~stack[i].waiting
    BY <1>1, <1>3
  <2>2. CASE stack[i].on \in Gone
    BY <2>1, <2>2
  <2>3. ASSUME NEW m \in 1 .. Len(stack), m > i, stack[m].kind = "kill", stack[m].on = stack[i].on
        PROVE  \/ stack'[i].on \in Gone'
               \/ \E n \in 1 .. Len(stack') : n > i /\ stack'[n].kind = "kill" /\ stack'[n].on = stack'[i].on
    <3>1. CASE m < Len(stack)
      BY <1>1, <2>1, <2>3, <3>1
    <3>2. CASE m = Len(stack)
      BY <1>2, <2>1, <2>3, <3>2
    <3> QED BY <1>2, <3>1, <3>2
  <2> QED BY <2>1, <2>2, <2>3 DEF PausesInv, WaitsTold
<1> QED BY <1>3, ToldPrimed

(* A step that ends no job and runs no wrapper to its end.                 *)
LEMMA GrownPauses ==
  ASSUME CoreInv, PausesInv, Grown(stack'), FuncsSame, Calmly, Gone \subseteq Gone',
         Top.kind = "kill" => Top.on \in Gone', Top.kind # "wrap"
  PROVE  PausesInv'
<1>1. /\ \A i \in 1 .. Len(stack) : i < Len(stack) => i \in 1 .. Len(stack') /\ stack'[i] = stack[i]
      /\ Descends(stack') /\ WrapsUsers(stack')
  BY GrownKeeps DEF PausesInv
<1>2. Top = stack[Len(stack)] /\ Len(stack) \in Nat
  BY TopIs
<1>3. WaitsSound'
  BY <1>1, WaitsDescend DEF PausesInv, FuncsSame, Calmly
<1>4. WaitsTold'
  BY GrownTold
<1>5. ASSUME NEW j \in Jobs, NEW i \in 1 .. Len(stack'), Waiting(stack', j, i)
      PROVE  \/ j \notin Dead' /\ job'[j].func = "wrap"
             \/ \E k \in 1 .. Len(stack') : Wraps(stack'[k], j, i)
  <2>1. Waiting(stack, j, i) /\ i \in 1 .. Len(stack)
    BY <1>1, <1>5 DEF Descends, Waiting
  <2>2. CASE j \notin Dead /\ job[j].func = "wrap"
    BY <2>2 DEF Calmly, FuncsSame
  <2>3. ASSUME NEW k \in 1 .. Len(stack), Wraps(stack[k], j, i) PROVE \E m \in 1 .. Len(stack') : Wraps(stack'[m], j, i)
    <3>1. k # Len(stack)
      BY <1>2, <2>3 DEF Wraps
    <3>2. k < Len(stack)
      BY <1>2, <3>1
    <3> QED BY <1>1, <2>3, <3>2
  <2> QED BY <2>1, <2>2, <2>3 DEF PausesInv, WaitsHeld
<1>6. WaitsHeld'
  BY <1>5, HeldPrimed
<1> QED BY <1>1, <1>3, <1>4, <1>6, UsersPrimed DEF PausesInv

(* A step that leaves the activations alone.                               *)
LEMMA SamePauses ==
  ASSUME PausesInv, UNCHANGED stack, FuncsSame, Calmly, Gone \subseteq Gone' PROVE PausesInv'
<1>1. Descends(stack')
  BY DEF Descends
<1>2. WaitsSound'
  BY <1>1, WaitsDescend DEF PausesInv, FuncsSame, Calmly
<1>3. WaitsHeld'
  BY HeldPrimed DEF PausesInv, WaitsHeld, Calmly, FuncsSame
<1>4. WaitsTold'
  BY ToldPrimed DEF PausesInv, WaitsTold
<1> QED BY <1>2, <1>3, <1>4, UsersPrimed DEF PausesInv
-----------------------------------------------------------------------------
(* Freed memory stays freed.                                               *)
LEMMA GonePut ==
  ASSUME CoreInv, NEW j, NEW r, job' = [job EXCEPT ![j] = r],
         j \in Jobs => (job[j].mem = "freed" => r.mem = "freed")
  PROVE  Gone \subseteq Gone'
<1>1. \A i \in Jobs : job'[i] = IF i = j THEN r ELSE job[i]
  BY DEF CoreInv, Types
<1> QED BY <1>1 DEF Gone

LEMMA GoneFunc ==
  ASSUME CoreInv, NEW j, NEW c, NEW d, job' = [job EXCEPT ![j].func = c, ![j].waiter = d] PROVE Gone \subseteq Gone'
<1>1. \A i \in Jobs : job'[i].mem = job[i].mem
  BY DEF CoreInv, Types, JobRec
<1> QED BY <1>1 DEF Gone

LEMMA GoneField ==
  ASSUME CoreInv, NEW j, NEW c,
         \/ job' = [job EXCEPT ![j].mem = "freed"]
         \/ job' = [job EXCEPT ![j].self = c] \/ job' = [job EXCEPT ![j].cancel = c]
         \/ job' = [job EXCEPT ![j].kill = c] \/ job' = [job EXCEPT ![j].reschedule = c]
         \/ job' = [job EXCEPT ![j].send = c] \/ job' = [job EXCEPT ![j].received = c]
  PROVE  Gone \subseteq Gone'
<1>0. j \in Jobs => job[j] \in JobRec
  BY DEF CoreInv, Types
<1>1. CASE job' = [job EXCEPT ![j].mem = "freed"]
  <2> DEFINE r == [job[j] EXCEPT !.mem = "freed"]
  <2>1. job' = [job EXCEPT ![j] = r]
    BY <1>1
  <2>2. j \in Jobs => (job[j].mem = "freed" => r.mem = "freed")
    BY <1>0 DEF JobRec
  <2> HIDE DEF r
  <2> QED BY <2>1, <2>2, GonePut
<1>2. CASE job' = [job EXCEPT ![j].self = c]
  <2> DEFINE r == [job[j] EXCEPT !.self = c]
  <2>1. job' = [job EXCEPT ![j] = r]
    BY <1>2
  <2>2. j \in Jobs => (job[j].mem = "freed" => r.mem = "freed")
    BY <1>0 DEF JobRec
  <2> HIDE DEF r
  <2> QED BY <2>1, <2>2, GonePut
<1>3. CASE job' = [job EXCEPT ![j].cancel = c]
  <2> DEFINE r == [job[j] EXCEPT !.cancel = c]
  <2>1. job' = [job EXCEPT ![j] = r]
    BY <1>3
  <2>2. j \in Jobs => (job[j].mem = "freed" => r.mem = "freed")
    BY <1>0 DEF JobRec
  <2> HIDE DEF r
  <2> QED BY <2>1, <2>2, GonePut
<1>4. CASE job' = [job EXCEPT ![j].kill = c]
  <2> DEFINE r == [job[j] EXCEPT !.kill = c]
  <2>1. job' = [job EXCEPT ![j] = r]
    BY <1>4
  <2>2. j \in Jobs => (job[j].mem = "freed" => r.mem = "freed")
    BY <1>0 DEF JobRec
  <2> HIDE DEF r
  <2> QED BY <2>1, <2>2, GonePut
<1>5. CASE job' = [job EXCEPT ![j].reschedule = c]
  <2> DEFINE r == [job[j] EXCEPT !.reschedule = c]
  <2>1. job' = [job EXCEPT ![j] = r]
    BY <1>5
  <2>2. j \in Jobs => (job[j].mem = "freed" => r.mem = "freed")
    BY <1>0 DEF JobRec
  <2> HIDE DEF r
  <2> QED BY <2>1, <2>2, GonePut
<1>6. CASE job' = [job EXCEPT ![j].send = c]
  <2> DEFINE r == [job[j] EXCEPT !.send = c]
  <2>1. job' = [job EXCEPT ![j] = r]
    BY <1>6
  <2>2. j \in Jobs => (job[j].mem = "freed" => r.mem = "freed")
    BY <1>0 DEF JobRec
  <2> HIDE DEF r
  <2> QED BY <2>1, <2>2, GonePut
<1>7. CASE job' = [job EXCEPT ![j].received = c]
  <2> DEFINE r == [job[j] EXCEPT !.received = c]
  <2>1. job' = [job EXCEPT ![j] = r]
    BY <1>7
  <2>2. j \in Jobs => (job[j].mem = "freed" => r.mem = "freed")
    BY <1>0 DEF JobRec
  <2> HIDE DEF r
  <2> QED BY <2>1, <2>2, GonePut
<1> QED BY <1>1, <1>2, <1>3, <1>4, <1>5, <1>6, <1>7

LEMMA GoneCount ==
  ASSUME CoreInv, NEW j \in Jobs,
         job' = [job EXCEPT ![j].send = @ + 1] \/ job' = [job EXCEPT ![j].received = @ + 1]
  PROVE  Gone \subseteq Gone'
<1> DEFINE c == job[j].send + 1
           d == job[j].received + 1
<1>1. job' = [job EXCEPT ![j].send = c] \/ job' = [job EXCEPT ![j].received = d]
  OBVIOUS
<1> HIDE DEF c, d
<1> QED BY <1>1, GoneField

LEMMA GoneBorn ==
  ASSUME CoreInv, NEW j \in Jobs, job[j].mem = "unborn", job' = Born(j) PROVE Gone \subseteq Gone'
<1> DEFINE r == [NewJob EXCEPT !.mem = "live"]
<1>1. job' = [job EXCEPT ![j] = r]
  BY DEF Born
<1> HIDE DEF r
<1> QED BY <1>1, GonePut

LEMMA GoneSame == ASSUME UNCHANGED job PROVE Gone \subseteq Gone'
BY DEF Gone

LEMMA GoneKept ==
  ASSUME CoreInv, [Next]_vars PROVE Gone \subseteq Gone'
<1>1. ASSUME NEW t \in Threads, ThreadStep(t) \/ FunctionStep(t) PROVE Gone \subseteq Gone'
  <2>1. CASE Start(t) \/ StartDirect(t) \/ CancelSelf(t) \/ Reschedule(t) \/ Requeue(t)
    <3>1. \E j, c : \/ job' = [job EXCEPT ![j].self = c] \/ job' = [job EXCEPT ![j].cancel = c]
                   \/ job' = [job EXCEPT ![j].reschedule = c]
      BY <2>1 DEF Start, StartDirect, CancelSelf, Reschedule, Requeue
    <3> QED BY <3>1, GoneField
  <2>2. CASE Send(t)
    <3>1. Work(t) \in Jobs /\ job' = [job EXCEPT ![Work(t)].send = @ + 1]
      BY <2>2, Holding DEF Send, In, HoldStates
    <3> QED BY <3>1, GoneCount
  <2>3. CASE ~(Start(t) \/ StartDirect(t) \/ CancelSelf(t) \/ Reschedule(t) \/ Requeue(t) \/ Send(t))
    <3>1. UNCHANGED job
      BY <1>1, <2>3 DEF ThreadStep, FunctionStep, PickShort, PickFeedback, MarkRunning, Finish, LeaveRunning, PostHandler,
         TestOnce, TestTwice, Test, Leave, LeaveDirect, Cut
    <3> QED BY <3>1, GoneSame
  <2> QED BY <2>1, <2>2, <2>3
<1>2. CASE UserStep
  <2>1. ASSUME NEW j \in Jobs, Run(j) \/ RunDirect(j) PROVE Gone \subseteq Gone'
    BY <2>1, GoneBorn DEF Run, RunDirect
  <2>2. ASSUME NEW j \in Jobs, Wait(j) PROVE Gone \subseteq Gone'
    BY <2>2, GoneFunc DEF Wait
  <2>3. CASE \A j \in Jobs : ~Run(j) /\ ~RunDirect(j) /\ ~Wait(j)
    <3>1. UNCHANGED job
      BY <1>2, <2>3 DEF UserStep, RunSelfLock, CancelSelfLock, SelfLock, Cancel, CancelKilled, MaxSet
    <3> QED BY <3>1, GoneSame
  <2> QED BY <2>1, <2>2, <2>3
<1>3. CASE MainStep
  <2>1. CASE CancelMark \/ Failed \/ KillDone \/ WaitTimeout \/ WrapDone \/ \E j \in Jobs : HandlerKeeps(j)
    <3>1. CASE CancelMark \/ Failed \/ KillDone \/ \E j \in Jobs : HandlerKeeps(j)
      <4>1. \E j : \/ job' = [job EXCEPT ![j].cancel = TRUE] \/ job' = [job EXCEPT ![j].kill = TRUE]
                  \/ job' = [job EXCEPT ![j].mem = "freed"]
        BY <3>1 DEF CancelMark, Failed, KillDone, Freed, HandlerKeeps
      <4> QED BY <4>1, GoneField
    <3>2. CASE WaitTimeout \/ WrapDone
      <4>1. \E c : job' = [job EXCEPT ![Top.on].func = c, ![Top.on].waiter = 0]
        BY <3>2 DEF WaitTimeout, WrapDone, Unwrap
      <4>2. PICK c : job' = [job EXCEPT ![Top.on].func = c, ![Top.on].waiter = 0]
        BY <4>1
      <4> QED BY <4>2, GoneFunc
    <3> QED BY <2>1, <3>1, <3>2
  <2>2. ASSUME NEW j \in Jobs, Notify(j) PROVE Gone \subseteq Gone'
    BY <2>2, GoneCount DEF Notify
  <2>3. CASE ~(CancelMark \/ Failed \/ KillDone \/ WaitTimeout \/ WrapDone \/ \E j \in Jobs : HandlerKeeps(j) \/ Notify(j))
    <3>1. UNCHANGED job
      BY <1>3, <2>3 DEF MainStep, Create, CreateDirect, Join, CreateFails, RetryFails, RetryFailsFeedback, OnError, CountDirect,
         CreateDirectFails, RetryDirectFails, DirectSelfLock, SelfLock, WaitFlush, WaitAgain, WaitOver, Return, LoopFlush,
         FlushEnd, HandlerKills, NotifyDone, NotifyKills
    <3> QED BY <3>1, GoneSame
  <2> QED BY <2>1, <2>2, <2>3
<1>4. CASE UNCHANGED vars
  BY <1>4, GoneSame DEF vars
<1> QED BY <1>1, <1>2, <1>3, <1>4 DEF Next
-----------------------------------------------------------------------------
(* The waits, step by step.                                                *)
FuncsBorn == \A j \in Jobs : /\ j \notin New => job'[j].func = job[j].func
                             /\ job'[j].waiter = job[j].waiter \/ job'[j].waiter = 0
Extends   == \A i \in 1 .. Len(stack) : i \in 1 .. Len(stack') /\ stack'[i] = stack[i]

LEMMA ExtendPauses ==
  ASSUME CoreInv, PausesInv, Descends(stack'), Extends, WrapsUsers(stack'), FuncsBorn, Calmly, Gone \subseteq Gone'
  PROVE  PausesInv'
<1>1. WaitsSound'
  BY WaitsDescend DEF PausesInv, FuncsBorn, Calmly
<1>2. ASSUME NEW j \in Jobs, NEW i \in 1 .. Len(stack'), Waiting(stack', j, i)
      PROVE  \/ j \notin Dead' /\ job'[j].func = "wrap"
             \/ \E k \in 1 .. Len(stack') : Wraps(stack'[k], j, i)
  <2>1. Waiting(stack, j, i) /\ i \in 1 .. Len(stack)
    BY <1>2 DEF Descends, Waiting
  <2>2. j \notin New
    BY <2>1 DEF PausesInv, WaitsSound, WaitsKnown, Waiting
  <2>3. CASE j \notin Dead /\ job[j].func = "wrap"
    BY <2>2, <2>3 DEF Calmly, FuncsBorn
  <2>4. CASE \E k \in 1 .. Len(stack) : Wraps(stack[k], j, i)
    BY <2>4 DEF Extends
  <2> QED BY <2>1, <2>3, <2>4 DEF PausesInv, WaitsHeld
<1>3. ASSUME NEW i \in 1 .. Len(stack'), stack'[i].kind \in Waits, ~stack'[i].waiting
      PROVE  \/ stack'[i].on \in Gone'
             \/ \E m \in 1 .. Len(stack') : m > i /\ stack'[m].kind = "kill" /\ stack'[m].on = stack'[i].on
  <2>1. i \in 1 .. Len(stack) /\ stack[i] = stack'[i]
    BY <1>3 DEF Descends, Extends
  <2>2. CASE stack[i].on \in Gone
    BY <2>1, <2>2
  <2>3. CASE \E m \in 1 .. Len(stack) : m > i /\ stack[m].kind = "kill" /\ stack[m].on = stack[i].on
    BY <2>1, <2>3 DEF Extends
  <2> QED BY <1>3, <2>1, <2>2, <2>3 DEF PausesInv, WaitsTold
<1>4. WaitsHeld' /\ WaitsTold'
  BY <1>2, <1>3, HeldPrimed, ToldPrimed
<1> QED BY <1>1, <1>4, UsersPrimed DEF PausesInv

LEMMA StackExtends ==
  ASSUME UNCHANGED stack, WrapsUsers(stack) PROVE Descends(stack') /\ Extends /\ WrapsUsers(stack')
BY DEF Descends, Extends, WrapsUsers

(* The frames user code pushes.                                            *)
LEMMA PushedIs ==
  ASSUME CoreInv, NEW f \in FrameRecord, stack' = Append(stack, f)
  PROVE  /\ Len(stack') = Len(stack) + 1 /\ Len(stack) \in Nat /\ stack'[Len(stack) + 1] = f
         /\ \A i \in 1 .. Len(stack) : i \in 1 .. Len(stack') /\ stack'[i] = stack[i]
         /\ \A i \in 1 .. Len(stack') : i \in 1 .. Len(stack) \/ i = Len(stack) + 1
<1>1. stack \in Seq(FrameRecord) /\ Len(stack) \in Nat
  BY TopIs
<1>2. Len(stack') = Len(stack) + 1 /\ stack'[Len(stack) + 1] = f /\ \A i \in 1 .. Len(stack) : stack'[i] = stack[i]
  BY <1>1
<1> HIDE DEF Extends
<1> QED BY <1>1, <1>2

LEMMA PushedUsers ==
  ASSUME CoreInv, WrapsUsers(stack), NEW f \in FrameRecord, f.kind # "wrap", stack' = Append(stack, f)
  PROVE  WrapsUsers(stack')
<1>1. /\ Len(stack') = Len(stack) + 1 /\ Len(stack) \in Nat /\ stack'[Len(stack) + 1] = f
      /\ \A i \in 1 .. Len(stack) : i \in 1 .. Len(stack') /\ stack'[i] = stack[i]
      /\ \A i \in 1 .. Len(stack') : i \in 1 .. Len(stack) \/ i = Len(stack) + 1
  BY PushedIs
<1>2. ASSUME NEW k \in 1 .. Len(stack'), stack'[k].kind = "wrap" PROVE stack'[stack'[k].waiter].func = "user"
  <2>1. k \in 1 .. Len(stack) /\ stack'[k] = stack[k]
    BY <1>1, <1>2
  <2>2. stack[k].waiter \in 1 .. k - 1 /\ stack[stack[k].waiter].func = "user"
    BY <1>2, <2>1 DEF CoreInv, Good, WrapsUsers
  <2>3. stack[k].waiter \in 1 .. Len(stack)
    BY <1>1, <2>1, <2>2
  <2> QED BY <1>1, <2>1, <2>2, <2>3
<1> QED BY <1>2 DEF WrapsUsers

LEMMA PushedDown ==
  ASSUME CoreInv, NEW f \in FrameRecord, stack' = Append(stack, f), f.kind \notin Waits, f.kind \in RunFrames => f.on \in New
  PROVE  Descends(stack') /\ Extends
<1>1. /\ Len(stack') = Len(stack) + 1 /\ Len(stack) \in Nat /\ stack'[Len(stack) + 1] = f
      /\ \A i \in 1 .. Len(stack) : i \in 1 .. Len(stack') /\ stack'[i] = stack[i]
      /\ \A i \in 1 .. Len(stack') : i \in 1 .. Len(stack) \/ i = Len(stack) + 1
  BY PushedIs
<1>2. ASSUME NEW i \in 1 .. Len(stack')
      PROVE  /\ stack'[i].kind \in Waits =>
                  /\ i \in 1 .. Len(stack) /\ stack[i].kind \in Waits
                  /\ stack[i].on = stack'[i].on /\ stack[i].func = stack'[i].func
                  /\ (stack'[i].waiting => stack[i].waiting)
             /\ stack'[i].kind \in RunFrames =>
                  stack'[i].on \in New \/ \E k \in 1 .. Len(stack) : stack[k].kind \in RunFrames /\ stack[k].on = stack'[i].on
  <2>1. CASE i \in 1 .. Len(stack)
    BY <1>1, <2>1
  <2>2. CASE i = Len(stack) + 1
    BY <1>1, <2>2
  <2> QED BY <1>1, <2>1, <2>2
<1> QED BY <1>1, <1>2 DEF Descends, Extends

LEMMA BornFuncs ==
  ASSUME CoreInv, NEW j \in Jobs, job[j].mem = "unborn", job' = Born(j) PROVE FuncsBorn
<1> DEFINE r == [NewJob EXCEPT !.mem = "live"]
<1>1. job' = [job EXCEPT ![j] = r] /\ r.waiter = 0
  BY DEF Born, NewJob
<1> HIDE DEF r
<1>2. \A i \in Jobs : job'[i] = IF i = j THEN r ELSE job[i]
  BY <1>1 DEF CoreInv, Types
<1>3. ASSUME NEW i \in Jobs
      PROVE  /\ i \notin New => job'[i].func = job[i].func
             /\ job'[i].waiter = job[i].waiter \/ job'[i].waiter = 0
  <2>1. CASE i = j
    <3>1. i \in New
      BY <2>1 DEF New
    <3> QED BY <1>1, <1>2, <2>1, <3>1
  <2>2. CASE i # j
    BY <1>2, <2>2
  <2> QED BY <2>1, <2>2
<1> QED BY <1>3 DEF FuncsBorn

LEMMA WrapDead ==
  ASSUME CoreInv, ShapeInv, NEW k \in 1 .. Len(stack), stack[k].kind = "wrap"
  PROVE  /\ k - 1 \in 1 .. Len(stack) /\ stack[k - 1].kind = "kill" /\ stack[k - 1].on = stack[k].on
         /\ stack[k].on \in Jobs /\ stack[k].on \in Dead
<1>1. k - 1 \in 1 .. Len(stack) /\ stack[k - 1].kind = "kill" /\ stack[k - 1].on = stack[k].on
  BY DEF ShapeInv, Shape
<1>2. stack[k].on \in Jobs
  BY DEF CoreInv, Good
<1>3. "kill" \in StackSites
  BY DEF StackSites
<1>4. ASSUME NEW j \in Jobs, \E i \in 1 .. Len(stack) : stack[i].on = j /\ stack[i].kind = "kill"
      PROVE  j \in CarriedIn(stack, "kill")
  <2>1. j \in CarriedIn(stack, "kill") <=>
          \E i \in 1 .. Len(stack) :
            IF "kill" = "todo" THEN \E m \in 1 .. Len(stack[i].todo) : Ended(stack[i].todo[m], j)
            ELSE stack[i].on = j /\ stack[i].kind \in (IF "kill" = "direct" THEN StartKinds ELSE {"kill"})
    BY <1>3, InSite
  <2> QED BY <1>4, <2>1
<1>5. stack[k].on \in CarriedIn(stack, "kill")
  BY <1>1, <1>2, <1>4
<1> QED BY <1>1, <1>2, <1>5 DEF Dead

(* ecore_thread_wait() is called.                                          *)
LEMMA WaitPauses ==
  ASSUME CoreInv, ShapeInv, FinalInv, PausesInv, NEW j \in Jobs, Wait(j), Calmly, Gone \subseteq Gone'
  PROVE  PausesInv'
<1> DEFINE n == Len(stack) + 1
           f == Waiter(j)
<1>1. f \in FrameRecord /\ f.kind = "wait" /\ f.on = j /\ f.waiting = TRUE /\ f.func = job[j].func
  BY WaiterIs
<1>2. stack' = Append(stack, f) /\ Usable(j)
  BY DEF Wait, Push, Waiter
<1>3. FuncPuts(j, "wrap", n)
  BY WaitPuts DEF Wait
<1>4. j \notin Dead \cup New
  BY <1>2, UsableLives
<1> HIDE DEF f
<1>5. /\ Len(stack') = n /\ Len(stack) \in Nat /\ stack'[n] = f
      /\ \A i \in 1 .. Len(stack) : i \in 1 .. Len(stack') /\ stack'[i] = stack[i]
      /\ \A i \in 1 .. Len(stack') : i \in 1 .. Len(stack) \/ i = n
  BY <1>1, <1>2, PushedIs
<1>6. WrapsUsers(stack')
  BY <1>1, <1>2, PushedUsers DEF PausesInv
<1>7. \A i \in 1 .. Len(stack) : stack[i].kind \in RunFrames => stack[i].on # j
  BY <1>2, TopIs DEF Usable
<1>8. \A i \in 1 .. Len(stack') : stack'[i].kind \in Waits => stack'[i].on \notin New'
  BY <1>1, <1>4, <1>5 DEF PausesInv, WaitsSound, WaitsKnown, Calmly
<1>9. \A i, k \in 1 .. Len(stack') :
        stack'[i].kind \in Waits /\ stack'[k].kind \in RunFrames => stack'[i].on # stack'[k].on
  <2>1. f.kind \notin RunFrames
    BY <1>1 DEF RunFrames
  <2> QED BY <1>1, <1>5, <1>7, <2>1 DEF PausesInv, WaitsSound, WaitsApart
<1>10. ASSUME NEW k \in Jobs, NEW i \in 1 .. Len(stack), Waiting(stack, k, i)
       PROVE  /\ k = j => job[j].func = "wrap"
              /\ \/ k \notin Dead /\ job[k].func = "wrap"
                 \/ \E m \in 1 .. Len(stack) : Wraps(stack[m], k, i)
  <2>1. \/ k \notin Dead /\ job[k].func = "wrap"
        \/ \E m \in 1 .. Len(stack) : Wraps(stack[m], k, i)
    BY <1>10 DEF PausesInv, WaitsHeld
  <2>2. ASSUME NEW m \in 1 .. Len(stack), Wraps(stack[m], k, i), k = j PROVE FALSE
    BY <1>4, <2>2, WrapDead DEF Wraps
  <2> QED BY <2>1, <2>2
<1>11. ASSUME NEW k \in Jobs, NEW i \in 1 .. Len(stack'), NEW m \in 1 .. Len(stack'),
              Waiting(stack', k, i), Waiting(stack', k, m), i < m
       PROVE  stack'[m].func = "wrap"
  <2>1. i \in 1 .. Len(stack) /\ Waiting(stack, k, i)
    BY <1>5, <1>11 DEF Waiting
  <2>2. CASE m = n
    <3>1. k = j
      BY <1>1, <1>5, <1>11, <2>2 DEF Waiting
    <3> QED BY <1>1, <1>5, <1>10, <2>1, <2>2, <3>1
  <2>3. CASE m # n
    <3>1. m \in 1 .. Len(stack) /\ Waiting(stack, k, m) /\ stack'[m] = stack[m]
      BY <1>5, <1>11, <2>3 DEF Waiting
    <3> QED BY <1>11, <2>1, <3>1 DEF PausesInv, WaitsSound, WaitsNested
  <2> QED BY <2>2, <2>3
<1>12. ASSUME NEW k \in Jobs, NEW m \in 1 .. Len(stack'), job'[k].waiter # 0, m > job'[k].waiter
       PROVE  ~Waiting(stack', k, m)
  <2>1. CASE k = j
    <3>1. job'[k].waiter = n
      BY <1>3, <2>1 DEF FuncPuts
    <3> HIDE DEF n
    <3> QED BY <1>5, <1>12, <3>1
  <2>2. CASE k # j
    <3>1. job'[k].waiter = job[k].waiter
      BY <1>3, <2>2 DEF FuncPuts
    <3>2. CASE m = n
      BY <1>1, <1>5, <2>2, <3>2 DEF Waiting
    <3>3. CASE m # n
      <4>1. m \in 1 .. Len(stack) /\ stack'[m] = stack[m]
        BY <1>5, <3>3
      <4>2. ~Waiting(stack, k, m)
        BY <1>12, <3>1, <4>1 DEF PausesInv, WaitsSound, WaitsLatest
      <4> QED BY <4>1, <4>2 DEF Waiting
    <3> QED BY <3>2, <3>3
  <2> QED BY <2>1, <2>2
<1>13. WaitsSound'
  <2>1. WaitsKnown(stack)' /\ WaitsApart(stack)'
    BY <1>8, <1>9 DEF WaitsKnown, WaitsApart
  <2>2. WaitsNested(stack)' /\ WaitsLatest'
    BY <1>11, <1>12 DEF WaitsNested, WaitsLatest, Waiting
  <2> QED BY <2>1, <2>2 DEF WaitsSound
<1>14. ASSUME NEW k \in Jobs, NEW i \in 1 .. Len(stack'), Waiting(stack', k, i)
       PROVE  \/ k \notin Dead' /\ job'[k].func = "wrap"
              \/ \E m \in 1 .. Len(stack') : Wraps(stack'[m], k, i)
  <2>1. CASE k = j
    BY <1>3, <1>4, <2>1 DEF FuncPuts, Calmly
  <2>2. CASE k # j
    <3>1. i \in 1 .. Len(stack) /\ Waiting(stack, k, i)
      BY <1>1, <1>5, <1>14, <2>2 DEF Waiting
    <3>2. job'[k].func = job[k].func
      BY <1>3, <2>2 DEF FuncPuts
    <3> QED BY <1>5, <1>10, <3>1, <3>2 DEF Calmly
  <2> QED BY <2>1, <2>2
<1>15. ASSUME NEW i \in 1 .. Len(stack'), stack'[i].kind \in Waits, ~stack'[i].waiting
       PROVE  \/ stack'[i].on \in Gone'
              \/ \E m \in 1 .. Len(stack') : m > i /\ stack'[m].kind = "kill" /\ stack'[m].on = stack'[i].on
  <2>1. i # n
    BY <1>1, <1>5, <1>15
  <2>2. i \in 1 .. Len(stack) /\ stack[i] = stack'[i]
    BY <1>5, <2>1
  <2>3. CASE stack[i].on \in Gone
    BY <2>2, <2>3
  <2>4. CASE \E m \in 1 .. Len(stack) : m > i /\ stack[m].kind = "kill" /\ stack[m].on = stack[i].on
    BY <1>5, <2>2, <2>4
  <2> QED BY <1>15, <2>2, <2>3, <2>4 DEF PausesInv, WaitsTold
<1>16. WaitsHeld' /\ WaitsTold'
  BY <1>14, <1>15, HeldPrimed, ToldPrimed
<1> QED BY <1>6, <1>13, <1>16, UsersPrimed DEF PausesInv

LEMMA UserPauses ==
  ASSUME CoreInv, ShapeInv, FinalInv, PausesInv, UserStep, Calmly, Gone \subseteq Gone' PROVE PausesInv'
<1>0. WrapsUsers(stack)
  BY DEF PausesInv
<1>1. ASSUME NEW j \in Jobs, NEW k \in {"relock", "direct", "mark"}
      PROVE  Frame(k, j) \in FrameRecord /\ Frame(k, j).kind = k /\ Frame(k, j).on = j
  <2>1. Plain(Frame(k, j), k, j)
    BY FrameIs DEF FrameKinds
  <2> QED BY <2>1 DEF Plain
<1>2. ASSUME NEW j \in Jobs, NEW k \in {"relock", "direct", "mark"}, stack' = Append(stack, Frame(k, j)), FuncsBorn,
             k # "mark" => j \in New
      PROVE  PausesInv'
  <2> DEFINE f == Frame(k, j)
  <2>1. f \in FrameRecord /\ f.kind = k /\ f.on = j /\ stack' = Append(stack, f)
    BY <1>1, <1>2
  <2> HIDE DEF f
  <2>2. f.kind \notin Waits /\ f.kind # "wrap" /\ (f.kind \in RunFrames => f.on \in New)
    BY <1>2, <2>1 DEF Waits, RunFrames
  <2> QED BY <1>0, <1>2, <2>1, <2>2, PushedDown, PushedUsers, ExtendPauses
<1>3. ASSUME UNCHANGED stack, FuncsBorn PROVE PausesInv'
  BY <1>0, <1>3, StackExtends, ExtendPauses
<1>4. ASSUME NEW j \in Jobs, Run(j) PROVE PausesInv'
  <2>1. FuncsBorn /\ j \in New
    BY <1>4, BornFuncs DEF Run, New
  <2>2. UNCHANGED stack \/ stack' = Append(stack, Frame("relock", j))
    BY <1>4 DEF Run, QueueJob
  <2> QED BY <1>2, <1>3, <2>1, <2>2
<1>5. ASSUME NEW j \in Jobs, RunDirect(j) PROVE PausesInv'
  <2>1. FuncsBorn /\ j \in New
    BY <1>5, BornFuncs DEF RunDirect, New
  <2>2. stack' = Append(stack, Frame("direct", j))
    BY <1>5 DEF RunDirect, Push
  <2> QED BY <1>2, <2>1, <2>2
<1>6. ASSUME NEW j \in Jobs, Wait(j) PROVE PausesInv'
  BY <1>6, WaitPauses
<1>7. CASE \A j \in Jobs : ~Run(j) /\ ~RunDirect(j) /\ ~Wait(j)
  <2>1. FuncsBorn
    <3>1. SameJobs
      BY <1>7, UserFields
    <3> QED BY <3>1 DEF SameJobs, SameFields, FuncsBorn
  <2>2. UNCHANGED stack \/ \E j \in Jobs : stack' = Append(stack, Frame("mark", j))
    BY <1>7 DEF UserStep, RunSelfLock, Cancel, CancelSelfLock, CancelKilled, MaxSet, SelfLock, Push, main
  <2> QED BY <1>2, <1>3, <2>1, <2>2
<1> QED BY <1>4, <1>5, <1>6, <1>7
-----------------------------------------------------------------------------
(* A wait is given up.                                                     *)
LEMMA TimeoutPauses ==
  ASSUME CoreInv, PausesInv, WaitTimeout, Calmly, Gone \subseteq Gone' PROVE PausesInv'
<1>1. /\ Top.kind = "waited" /\ Top.waiting /\ stack' = Below
      /\ job' = [job EXCEPT ![Top.on].func = Top.func, ![Top.on].waiter = 0]
  BY DEF WaitTimeout, At, Pop, Unwrap
<1>2. Top = stack[Len(stack)] /\ Len(stack) \in 1 .. Len(stack) /\ Len(stack) \in Nat /\ Top.on \in Jobs
  BY <1>1, TopIs
<1>3. PICK j \in Jobs, f \in Funcs : j = Top.on /\ f = Top.func
  BY <1>2, TopIs DEF FrameRecord
<1>4. FuncPuts(j, f, 0)
  BY <1>1, <1>3, WaitPuts
<1>5. Grown(stack')
  BY <1>1, GrownSelf
<1>6. /\ \A i \in 1 .. Len(stack) : i < Len(stack) => i \in 1 .. Len(stack') /\ stack'[i] = stack[i]
      /\ Descends(stack') /\ WrapsUsers(stack')
  BY <1>5, GrownKeeps DEF PausesInv
<1>7. \A i \in 1 .. Len(stack') : i \in 1 .. Len(stack) /\ i < Len(stack)
  BY <1>1, BelowIs
<1>8. WaitsSound'
  BY <1>4, <1>6, WaitsDescend DEF PausesInv, FuncPuts, Calmly
<1>9. WaitsTold'
  BY <1>1, <1>5, GrownTold
<1>10. ASSUME NEW k \in Jobs, NEW i \in 1 .. Len(stack'), Waiting(stack', k, i)
       PROVE  \/ k \notin Dead' /\ job'[k].func = "wrap"
              \/ \E m \in 1 .. Len(stack') : Wraps(stack'[m], k, i)
  <2>1. Waiting(stack, k, i) /\ i \in 1 .. Len(stack) /\ i < Len(stack)
    BY <1>6, <1>7, <1>10 DEF Waiting
  <2>2. ASSUME NEW m \in 1 .. Len(stack), Wraps(stack[m], k, i) PROVE \E q \in 1 .. Len(stack') : Wraps(stack'[q], k, i)
    <3>1. m # Len(stack)
      BY <1>1, <1>2, <2>2 DEF Wraps
    <3>2. m < Len(stack)
      BY <1>2, <3>1
    <3> QED BY <1>6, <2>2, <3>2
  <2>3. CASE k \notin Dead /\ job[k].func = "wrap"
    <3>1. CASE k = j
      <4>1. Waiting(stack, k, Len(stack))
        BY <1>1, <1>2, <1>3, <3>1 DEF Waiting, Waits
      <4>2. f = "wrap"
        BY <1>2, <1>3, <2>1, <4>1 DEF PausesInv, WaitsSound, WaitsNested
      <4> QED BY <1>4, <2>3, <3>1, <4>2 DEF FuncPuts, Calmly
    <3>2. CASE k # j
      BY <1>4, <2>3, <3>2 DEF FuncPuts, Calmly
    <3> QED BY <3>1, <3>2
  <2> QED BY <2>1, <2>2, <2>3 DEF PausesInv, WaitsHeld
<1>11. WaitsHeld'
  BY <1>10, HeldPrimed
<1> QED BY <1>6, <1>8, <1>9, <1>11, UsersPrimed DEF PausesInv

(* A wrapper returns.                                                      *)
LEMMA WrapPauses ==
  ASSUME CoreInv, ShapeInv, PausesInv, WrapDone, Calmly, Gone \subseteq Gone' PROVE PausesInv'
<1> DEFINE n == Len(stack)
<1>1. /\ Top.kind = "wrap" /\ Top.on \in Jobs /\ Top.waiter \in 1 .. Len(Below) /\ stack[Top.waiter].on = Top.on
      /\ stack' \in Seq(FrameRecord) /\ Len(stack') = Len(Below) /\ Len(Below) \in Nat
      /\ \A m \in 1 .. Len(Below) :
           /\ stack'[m].kind = Below[m].kind /\ stack'[m].on = Below[m].on /\ stack'[m].todo = Below[m].todo
           /\ stack'[m].func = Below[m].func /\ stack'[m].waiter = Below[m].waiter
           /\ stack'[m].waiting = IF m = Top.waiter THEN FALSE ELSE Below[m].waiting
  BY WrapDoneForm
<1>2. Top = stack[n] /\ n \in 1 .. n /\ n \in Nat /\ stack[n].kind = "wrap"
  BY <1>1, TopIs
<1>3. Len(Below) = n - 1 /\ \A m \in 1 .. Len(Below) : Below[m] = stack[m]
  BY <1>1, BelowIs
<1>4. /\ n - 1 \in 1 .. n /\ stack[n - 1].kind = "kill" /\ stack[n - 1].on = stack[n].on
      /\ stack[n].on \in Dead
  BY <1>2, WrapDead
<1>5. PICK j \in Jobs, w \in 1 .. n - 1 : j = Top.on /\ w = Top.waiter
  BY <1>1, <1>3
<1>6. stack[w].func = "user"
  BY <1>2, <1>5 DEF PausesInv, WrapsUsers
<1>7. FuncPuts(j, "user", 0)
  <2>1. job' = [job EXCEPT ![j].func = "user", ![j].waiter = 0]
    BY <1>5, <1>6 DEF WrapDone, Unwrap
  <2> QED BY <2>1, WaitPuts
<1>8. j \in Dead /\ stack[n - 1].on = j
  BY <1>2, <1>4, <1>5
<1>9. /\ Len(stack') = n - 1
      /\ \A m \in 1 .. n - 1 :
           /\ m \in 1 .. n /\ m < n
           /\ stack'[m].kind = stack[m].kind /\ stack'[m].on = stack[m].on
           /\ stack'[m].func = stack[m].func /\ stack'[m].waiter = stack[m].waiter
           /\ stack'[m].waiting = IF m = w THEN FALSE ELSE stack[m].waiting
  <2>1. Len(stack') = n - 1 /\ \A m \in 1 .. n - 1 : m \in 1 .. Len(Below) /\ m \in 1 .. n /\ m < n /\ Below[m] = stack[m]
    BY <1>1, <1>2, <1>3
  <2> HIDE DEF n
  <2>2. ASSUME NEW m \in 1 .. n - 1
        PROVE  /\ stack'[m].kind = stack[m].kind /\ stack'[m].on = stack[m].on
               /\ stack'[m].func = stack[m].func /\ stack'[m].waiter = stack[m].waiter
               /\ stack'[m].waiting = IF m = w THEN FALSE ELSE stack[m].waiting
    <3>1. m \in 1 .. Len(Below) /\ Below[m] = stack[m]
      BY <2>1
    <3> QED BY <1>1, <1>5, <3>1
  <2> QED BY <2>1, <2>2
<1>10. \A m \in 1 .. n : m = n \/ m \in 1 .. n - 1
  BY <1>2
<1> HIDE DEF n
<1>11. Descends(stack')
  BY <1>9 DEF Descends, n
<1>12. WaitsSound'
  BY <1>7, <1>11, WaitsDescend DEF PausesInv, FuncPuts, Calmly
<1>13. ASSUME NEW k \in 1 .. Len(stack'), stack'[k].kind = "wrap" PROVE stack'[stack'[k].waiter].func = "user"
  <2>1. k \in 1 .. n /\ stack[k].kind = "wrap" /\ stack'[k].waiter = stack[k].waiter /\ k \in 1 .. n - 1
    BY <1>9, <1>13
  <2>2. stack[k].waiter \in 1 .. k - 1 /\ stack[stack[k].waiter].func = "user"
    BY <2>1 DEF CoreInv, Good, PausesInv, WrapsUsers, n
  <2>3. stack[k].waiter \in 1 .. n - 1
    BY <1>2, <2>1, <2>2
  <2> QED BY <1>9, <2>1, <2>2, <2>3
<1>14. WrapsUsers(stack')
  BY <1>13 DEF WrapsUsers
<1>15. ASSUME NEW k \in Jobs, NEW i \in 1 .. Len(stack'), Waiting(stack', k, i)
       PROVE  \/ k \notin Dead' /\ job'[k].func = "wrap"
              \/ \E m \in 1 .. Len(stack') : Wraps(stack'[m], k, i)
  <2>1. Waiting(stack, k, i) /\ i \in 1 .. n /\ i # w
    BY <1>9, <1>15 DEF Waiting, n
  <2>2. ASSUME NEW m \in 1 .. n, Wraps(stack[m], k, i) PROVE \E q \in 1 .. Len(stack') : Wraps(stack'[q], k, i)
    <3>1. m # n
      BY <1>2, <1>5, <2>1, <2>2 DEF Wraps
    <3>2. m \in 1 .. n - 1
      BY <1>10, <3>1
    <3> QED BY <1>9, <2>2, <3>2 DEF Wraps
  <2>3. CASE k \notin Dead /\ job[k].func = "wrap"
    BY <1>7, <1>8, <2>3 DEF FuncPuts, Calmly
  <2> QED BY <2>1, <2>2, <2>3 DEF PausesInv, WaitsHeld, n
<1>16. ASSUME NEW i \in 1 .. Len(stack'), stack'[i].kind \in Waits, ~stack'[i].waiting
       PROVE  \/ stack'[i].on \in Gone'
              \/ \E m \in 1 .. Len(stack') : m > i /\ stack'[m].kind = "kill" /\ stack'[m].on = stack'[i].on
  <2>1. i \in 1 .. n /\ i \in 1 .. n - 1 /\ stack[i].kind \in Waits /\ stack'[i].on = stack[i].on
    BY <1>9, <1>16
  <2>2. CASE i = w
    <3>1. i # n - 1
      BY <1>4, <2>1 DEF Waits
    <3>2. n - 1 > i /\ n - 1 \in 1 .. n - 1
      BY <1>2, <1>4, <2>1, <3>1
    <3>3. stack[i].on = j
      BY <1>1, <1>5, <2>2
    <3>4. stack'[n - 1].kind = "kill" /\ stack'[n - 1].on = j
      BY <1>4, <1>8, <1>9, <3>2
    <3> QED BY <1>9, <2>1, <3>2, <3>3, <3>4
  <2>3. CASE i # w
    <3>1. ~stack[i].waiting
      BY <1>9, <1>16, <2>1, <2>3
    <3>2. CASE stack[i].on \in Gone
      BY <2>1, <3>2
    <3>3. ASSUME NEW m \in 1 .. n, m > i, stack[m].kind = "kill", stack[m].on = stack[i].on
          PROVE  \E q \in 1 .. Len(stack') : q > i /\ stack'[q].kind = "kill" /\ stack'[q].on = stack'[i].on
      <4>1. m \in 1 .. n - 1
        BY <1>2, <1>10, <3>3
      <4> QED BY <1>9, <2>1, <3>3, <4>1
    <3> QED BY <2>1, <3>1, <3>2, <3>3 DEF PausesInv, WaitsTold, n
  <2> QED BY <2>2, <2>3
<1>17. WaitsHeld' /\ WaitsTold'
  BY <1>15, <1>16, HeldPrimed, ToldPrimed
<1> QED BY <1>12, <1>14, <1>17, UsersPrimed DEF PausesInv
-----------------------------------------------------------------------------
(* The last callback of a job that is waited for is the latest waiter's    *)
(* wrapper.                                                                *)
LEMMA WrapperPushed ==
  ASSUME CoreInv, NEW j \in Jobs, NEW b \in Seq(FrameRecord), Kill(j, b), job[j].func = "wrap", stack' # stack
  PROVE  /\ job[j].waiter # 0 /\ stack[job[j].waiter].func = "user"
         /\ \E m \in 1 .. Len(stack') : Wraps(stack'[m], j, job[j].waiter)
<1> DEFINE c == Append(b, Frame("kill", j))
           f == Wrapper(j, job[j].waiter)
<1>1. /\ job[j].waiter # 0 /\ stack[job[j].waiter].func = "user"
      /\ stack' = Append(Append(c, f), User)
  <2>1. LET cc == Append(b, Frame("kill", j))
         IN \/ /\ job[j].func # "wrap"
               /\ Report(j, Outcome(j)) /\ stack' = Append(cc, User)
            \/ /\ job[j].func = "wrap" /\ job[j].waiter # 0 /\ stack[job[j].waiter].func = "user"
               /\ Report(j, Outcome(j)) /\ stack' = Append(Append(cc, Wrapper(j, job[j].waiter)), User)
            \/ Broken
    BY KillForms
  <2> QED BY <2>1 DEF Broken
<1>2. f \in FrameRecord /\ f.kind = "wrap" /\ f.on = j /\ f.waiter = job[j].waiter
  <2>1. job[j].waiter \in Nat
    BY DEF CoreInv, Types, JobRec
  <2> QED BY <2>1, WrapperIs
<1>3. c \in Seq(FrameRecord)
  BY UserPlainly
<1> HIDE DEF c, f
<1>4. User \in FrameRecord
  BY UserIs
<1>5. Len(c) + 1 \in 1 .. Len(stack') /\ stack'[Len(c) + 1] = f
  BY <1>1, <1>2, <1>3, <1>4
<1> QED BY <1>1, <1>2, <1>5 DEF Wraps

LEMMA LatestWaits ==
  ASSUME CoreInv, WaitsSound, NEW j \in Jobs, NEW i \in 1 .. Len(stack), Waiting(stack, j, i),
         job[j].waiter # 0, stack[job[j].waiter].func = "user"
  PROVE  i = job[j].waiter
<1>1. Waiting(stack, j, job[j].waiter) /\ job[j].waiter \in 1 .. Len(stack)
  BY DEF CoreInv, WaitersRight, Waiting
<1>2. ~(i < job[j].waiter)
  BY <1>1 DEF WaitsSound, WaitsNested
<1>3. ~(i > job[j].waiter)
  BY DEF WaitsSound, WaitsLatest
<1>4. Len(stack) \in Nat
  BY TopIs
<1> QED BY <1>1, <1>2, <1>3, <1>4

EndingTops == {"flush", "notify", "retry", "onError"}

LEMMA EndingTop ==
  ASSUME CoreInv, Ending PROVE Top.kind \in EndingTops /\ MainStep /\ ~WrapDone
BY GiveUpForms DEF Ending, EndingTops, NotifyKills, HandlerKills, NextCall, WrapDone, At, MainStep

LEMMA EndPauses ==
  ASSUME CoreInv, ShapeInv, PausesInv, Ending, NEW j \in Jobs, Ends(j),
         RetryFails \/ OnError => j = Top.on, NotifyKills => j = Top.on,
         ~RetryFails /\ ~OnError /\ ~NotifyKills => HandlerKills(j)
  PROVE  PausesInv'
<1>1. UNCHANGED job
  BY EndMail
<1>2. Gone' = Gone /\ FuncsSame
  BY <1>1 DEF Gone, FuncsSame
<1>3. stack' # stack
  <2>1. stack' = stack => Dead' = Dead
    BY <1>2, DeadIs DEF Dead
  <2> QED BY <2>1 DEF Ends
<1>4. Top.kind \in EndingTops /\ Grown(stack')
  BY EndingTop, MainGrown
<1>5. /\ \A i \in 1 .. Len(stack) : i < Len(stack) => i \in 1 .. Len(stack') /\ stack'[i] = stack[i]
      /\ Descends(stack') /\ WrapsUsers(stack')
  BY <1>4, GrownKeeps DEF PausesInv
<1>6. Top = stack[Len(stack)] /\ Len(stack) \in 1 .. Len(stack) /\ Len(stack) \in Nat
  BY TopIs
<1>7. WaitsSound'
  BY <1>2, <1>5, WaitsDescend DEF PausesInv, FuncsSame, Ends
<1>8. WaitsTold'
  BY <1>2, <1>4, GrownTold DEF EndingTops
<1>9. ASSUME NEW k \in Jobs, NEW i \in 1 .. Len(stack), NEW m \in 1 .. Len(stack), Wraps(stack[m], k, i)
      PROVE  k # j /\ \E q \in 1 .. Len(stack') : Wraps(stack'[q], k, i)
  <2>1. m # Len(stack)
    BY <1>4, <1>6, <1>9 DEF Wraps, EndingTops
  <2>2. m < Len(stack)
    BY <1>6, <2>1
  <2>3. k \in Dead
    BY <1>9, WrapDead DEF Wraps
  <2> QED BY <1>5, <1>9, <2>2, <2>3 DEF Ends
<1>10. ASSUME NEW i \in 1 .. Len(stack), Waiting(stack, j, i), job[j].func = "wrap"
       PROVE  \E m \in 1 .. Len(stack') : Wraps(stack'[m], j, i)
  <2>1. CASE RetryFails \/ OnError
    <3>1. Top.kind \in RunFrames /\ Top.on = j
      BY <2>1, GiveUpForms DEF RunFrames
    <3>2. stack[i].kind \in Waits /\ stack[i].on = j
      BY <1>10 DEF Waiting
    <3> QED BY <1>6, <3>1, <3>2 DEF PausesInv, WaitsSound, WaitsApart
  <2>2. ASSUME NEW b \in Seq(FrameRecord), Kill(j, b) PROVE \E m \in 1 .. Len(stack') : Wraps(stack'[m], j, i)
    <3>1. /\ job[j].waiter # 0 /\ stack[job[j].waiter].func = "user"
          /\ \E m \in 1 .. Len(stack') : Wraps(stack'[m], j, job[j].waiter)
      BY <1>3, <1>10, <2>2, WrapperPushed
    <3>2. i = job[j].waiter
      BY <1>10, <3>1, LatestWaits DEF PausesInv
    <3> QED BY <3>1, <3>2
  <2>3. CASE NotifyKills
    <3>1. Kill(j, Below) /\ Top.kind = "notify"
      BY <2>3 DEF NotifyKills, At
    <3>2. Below \in Seq(FrameRecord)
      BY <3>1, BelowIs
    <3> QED BY <2>2, <3>1, <3>2
  <2>4. CASE ~RetryFails /\ ~OnError /\ ~NotifyKills
    <3>1. Kill(j, Rest) /\ Top.kind = "flush" /\ Top.todo # <<>>
      BY <2>4 DEF HandlerKills, NextCall, At
    <3>2. Rest \in Seq(FrameRecord)
      BY <3>1, RestGrown DEF Grown
    <3> QED BY <2>2, <3>1, <3>2
  <2> QED BY <2>1, <2>3, <2>4
<1>11. ASSUME NEW k \in Jobs, NEW i \in 1 .. Len(stack'), Waiting(stack', k, i)
       PROVE  \/ k \notin Dead' /\ job'[k].func = "wrap"
              \/ \E m \in 1 .. Len(stack') : Wraps(stack'[m], k, i)
  <2>1. Waiting(stack, k, i) /\ i \in 1 .. Len(stack)
    BY <1>5, <1>11 DEF Descends, Waiting
  <2>2. CASE k \notin Dead /\ job[k].func = "wrap"
    <3>1. CASE k = j
      BY <1>10, <2>1, <2>2, <3>1
    <3>2. CASE k # j
      BY <1>2, <2>2, <3>2 DEF Ends, FuncsSame
    <3> QED BY <3>1, <3>2
  <2>3. CASE \E m \in 1 .. Len(stack) : Wraps(stack[m], k, i)
    BY <1>9, <2>1, <2>3
  <2> QED BY <2>1, <2>2, <2>3 DEF PausesInv, WaitsHeld
<1>12. WaitsHeld'
  BY <1>11, HeldPrimed
<1> QED BY <1>5, <1>7, <1>8, <1>12, UsersPrimed DEF PausesInv

(* Every step keeps the account of the waits.                              *)
LEMMA TopsOf ==
  ASSUME MainStep, ~WrapDone, ~KillDone PROVE Top.kind \notin {"wrap", "kill"}
BY DEF MainStep, Create, CreateDirect, Join, CreateFails, RetryFails, RetryFailsFeedback, OnError, Failed,
   CountDirect, CreateDirectFails, RetryDirectFails, DirectSelfLock, CancelMark, WaitFlush, WaitAgain,
   WaitOver, WaitTimeout, Return, LoopFlush, FlushEnd, HandlerKeeps, HandlerKills, Notify, NotifyDone,
   NotifyKills, NextCall, At

LEMMA MainPauses ==
  ASSUME CoreInv, ShapeInv, PausesInv, MainStep, Calmly, Gone \subseteq Gone' PROVE PausesInv'
<1>1. CASE WrapDone
  BY <1>1, WrapPauses
<1>2. CASE WaitTimeout
  BY <1>2, TimeoutPauses
<1>3. CASE ~WrapDone /\ ~WaitTimeout
  <2>1. Grown(stack')
    BY <1>3, MainGrown
  <2>2. FuncsSame
    <3>1. CASE \A j \in Jobs : ~Notify(j)
      BY <1>3, <3>1, MainFields DEF SameJobs, SameFields, FuncsSame
    <3>2. ASSUME NEW j \in Jobs, Notify(j) PROVE FuncsSame
      <4> DEFINE r == [job[j] EXCEPT !.received = @ + 1]
      <4>1. job' = [job EXCEPT ![j] = r]
        BY <3>2 DEF Notify
      <4>2. r.func = job[j].func /\ r.waiter = job[j].waiter
        BY DEF CoreInv, Types, JobRec
      <4> HIDE DEF r
      <4>3. \A i \in Jobs : job'[i] = IF i = j THEN r ELSE job[i]
        BY <4>1 DEF CoreInv, Types
      <4> QED BY <4>2, <4>3 DEF FuncsSame
    <3> QED BY <3>1, <3>2
  <2>3. Top.kind = "kill" => Top.on \in Gone'
    <3> SUFFICES ASSUME Top.kind = "kill" PROVE Top.on \in Gone'
      OBVIOUS
    <3>1. KillDone
      BY <1>3, TopsOf
    <3>2. PICK j \in Jobs : j = Top.on
      BY TopIs
    <3>3. job' = [job EXCEPT ![j].mem = "freed"]
      BY <3>1, <3>2 DEF KillDone, Freed
    <3>4. job'[j].mem = "freed"
      BY <3>3 DEF CoreInv, Types, JobRec
    <3> QED BY <3>2, <3>4 DEF Gone
  <2>4. Top.kind # "wrap"
    <3>1. KillDone => Top.kind = "kill"
      BY DEF KillDone, At
    <3> QED BY <1>3, <3>1, TopsOf
  <2> QED BY <2>1, <2>2, <2>3, <2>4, GrownPauses
<1> QED BY <1>1, <1>2, <1>3

LEMMA CalmPauses ==
  ASSUME Home, PausesInv, [Next]_vars, Calmly, Gone \subseteq Gone' PROVE PausesInv'
<1> USE DEF Home
<1>1. CASE UserStep
  BY <1>1, UserPauses
<1>2. CASE MainStep
  BY <1>2, MainPauses
<1>3. ASSUME NEW t \in Threads, ThreadStep(t) \/ FunctionStep(t) PROVE PausesInv'
  <2>1. UNCHANGED stack
    BY <1>3, ThreadForms
  <2>2. FuncsSame
    <3>1. CASE Send(t)
      BY <3>1, SendFields DEF SendPuts, FuncsSame
    <3>2. CASE Reschedule(t)
      BY <3>2, RescheduleFields DEF AgainPuts, FuncsSame
    <3>3. CASE Requeue(t)
      BY <3>3, RequeueFields DEF AgainPuts, FuncsSame
    <3>4. CASE ~Send(t) /\ ~Reschedule(t) /\ ~Requeue(t)
      BY <1>3, <3>4, ThreadFields DEF SameJobs, SameFields, FuncsSame
    <3> QED BY <3>1, <3>2, <3>3, <3>4
  <2> QED BY <2>1, <2>2, SamePauses
<1>4. CASE UNCHANGED vars
  BY <1>4, SamePauses DEF vars, FuncsSame
<1> QED BY <1>1, <1>2, <1>3, <1>4 DEF Next

LEMMA PausesStep ==
  ASSUME Home, PausesInv, CalmHere, Granted, [Next]_vars PROVE PausesInv'
<1>0. Gone \subseteq Gone'
  BY GoneKept DEF Home
<1>1. CASE ~Ending
  BY <1>0, <1>1, NextCalm, CalmPauses DEF Home
<1>2. CASE Ending
  <2>1. NotifyKills => Top.on \notin Dead
    BY SpeakerLives DEF NotifyKills, At, Speakers, Home
  <2>2. PICK j \in Jobs : /\ EndsNow(j)
                          /\ RetryFails \/ OnError => j = Top.on
                          /\ NotifyKills => j = Top.on
                          /\ ~RetryFails /\ ~OnError /\ ~NotifyKills => HandlerKills(j)
    BY <1>2, <2>1, EndingPlace DEF Home
  <2>3. CASE Calmly
    BY <1>0, <2>3, CalmPauses
  <2>4. CASE Ends(j)
    BY <1>2, <2>2, <2>4, EndPauses DEF Home
  <2> QED BY <2>2, <2>3, <2>4 DEF EndsNow
<1> QED BY <1>1, <1>2

LEMMA PausesInit == ASSUME Init PROVE PausesInv
<1>1. Len(stack) = 1 /\ stack[1] = User
  BY DEF Init
<1>2. \A i \in 1 .. Len(stack) : i = 1 /\ stack[i].kind \notin Waits /\ stack[i].kind # "wrap"
  BY <1>1, UserIs DEF Waits
<1>3. WaitsKnown(stack) /\ WaitsApart(stack) /\ WrapsUsers(stack) /\ WaitsTold
  BY <1>2 DEF WaitsKnown, WaitsApart, WrapsUsers, WaitsTold
<1>4. WaitsNested(stack) /\ WaitsLatest /\ WaitsHeld
  BY <1>2 DEF WaitsNested, WaitsLatest, WaitsHeld, Waiting
<1> QED BY <1>3, <1>4 DEF PausesInv, WaitsSound
-----------------------------------------------------------------------------
(* A job whose memory was released.                                        *)
LEMMA GoneNowhere ==
  ASSUME Home, NEW j \in Gone, NEW x \in Sites, x # "gone" PROVE j \notin Site(x)
<1>1. Placement /\ j \in Site("gone") /\ "gone" \in Sites
  BY SiteIs DEF Home, PlaceInv, Gone
<1> QED BY <1>1, Elsewhere

LEMMA GoneSilent ==
  ASSUME Home, NEW j \in Gone
  PROVE  /\ ~Posted("notify", j) /\ ~Posted("handler", j)
         /\ FramesOf({"notify", "kill", "wrap", "mark", "failed"}, j) = {}
<1>0. j \in Jobs /\ j \in Dead
  BY DEF Gone, Dead
<1>1. ~Posted("notify", j)
  BY <1>0, PostedOwes DEF Home, SilentInv
<1>2. j \notin Handlers(calls) /\ j \notin CarriedIn(stack, "todo")
      /\ j \notin CarriedIn(stack, "kill") /\ j \notin CarriedIn(stack, "failed")
  <2>1. {"call", "todo", "kill", "failed"} \subseteq Sites
    BY DEF Sites, StackSites
  <2>2. j \notin Site("call") /\ j \notin Site("todo") /\ j \notin Site("kill") /\ j \notin Site("failed")
    BY <2>1, GoneNowhere
  <2> QED BY <2>2, SiteIs DEF StackSites
<1>3. ~Posted("handler", j)
  <2> DEFINE x == Handler(j)
  <2>1. Ended(x, j)
    BY <1>0, CallIs DEF Ended
  <2>2. ASSUME NEW k \in DOMAIN calls, calls[k] = x PROVE FALSE
    BY <1>0, <1>2, <2>1, <2>2, Domains DEF Handlers, Home
  <2>3. ASSUME NEW i \in DOMAIN stack, NEW k \in DOMAIN stack[i].todo, stack[i].todo[k] = x PROVE FALSE
    <3>1. i \in 1 .. Len(stack) /\ k \in 1 .. Len(stack[i].todo)
      BY Domains DEF Home
    <3>2. j \in Handlers(stack[i].todo)
      BY <1>0, <2>1, <2>3, <3>1 DEF Handlers
    <3>3. j \in Carries(stack[i], "todo")
      BY <3>2 DEF Carries
    <3> QED BY <1>0, <1>2, <3>1, <3>3 DEF CarriedIn
  <2> HIDE DEF x
  <2> QED BY <2>2, <2>3 DEF Posted, x, Handler
<1>4. ASSUME NEW i \in 1 .. Len(stack), stack[i].on = j PROVE stack[i].kind \notin {"kill", "failed"}
  <2>1. ASSUME NEW x \in {"kill", "failed"}, stack[i].kind = x PROVE j \in CarriedIn(stack, x)
    <3>1. j \in Carries(stack[i], x)
      BY <1>0, <1>4, <2>1 DEF Carries
    <3> QED BY <1>0, <3>1 DEF CarriedIn
  <2> QED BY <1>2, <2>1
<1>5. ASSUME NEW i \in 1 .. Len(stack), stack[i].on = j PROVE stack[i].kind # "wrap"
  <2> SUFFICES ASSUME stack[i].kind = "wrap" PROVE FALSE
    OBVIOUS
  <2>1. i - 1 \in 1 .. Len(stack) /\ stack[i - 1].kind = "kill" /\ stack[i - 1].on = j
    BY <1>5, WrapDead DEF Home
  <2> QED BY <1>4, <2>1
<1>6. ASSUME NEW i \in 1 .. Len(stack), stack[i].on = j PROVE stack[i].kind \notin {"notify", "mark"}
  BY <1>0, <1>6 DEF Home, SpeakInv, Speakers
<1>7. FramesOf({"notify", "kill", "wrap", "mark", "failed"}, j) = {}
  BY <1>4, <1>5, <1>6, Domains DEF Home, FramesOf
<1> QED BY <1>1, <1>3, <1>7

LEMMA HomeNoDangling == ASSUME Home, PausesInv PROVE NoDangling
<1> SUFFICES ASSUME NEW j \in Jobs, job[j].mem = "freed"
             PROVE  /\ j \notin ToSet(pendShort) \cup ToSet(pendFeedback) \cup running
                    /\ \A t \in Threads : Work(t) # j
                    /\ ~Posted("handler", j) /\ ~Posted("notify", j)
                    /\ FramesOf({"notify", "kill", "wrap", "mark", "failed"}, j) = {}
                    /\ \A i \in FramesOf({"wait", "waited"}, j) : ~stack[i].waiting
  BY DEF NoDangling
<1>0. j \in Gone /\ j \in Dead
  BY DEF Gone, Dead
<1>1. j \notin Entries(pendShort) /\ j \notin Entries(pendFeedback) /\ j \notin Held
  <2>1. {"short", "feedback", "thread"} \subseteq Sites
    BY DEF Sites
  <2>2. j \notin Site("short") /\ j \notin Site("feedback") /\ j \notin Site("thread")
    BY <1>0, <2>1, GoneNowhere
  <2> QED BY <2>2, SiteIs
<1>2. j \notin ToSet(pendShort) \cup ToSet(pendFeedback)
  BY <1>1, Domains DEF Home, ToSet, Entries
<1>3. \A t \in Threads : Work(t) # j
  BY <1>1 DEF Held
<1>4. j \notin running
  BY <1>3 DEF Home, HandsInv, Occupied
<1>5. ASSUME NEW i \in FramesOf({"wait", "waited"}, j) PROVE ~stack[i].waiting
  <2> SUFFICES ASSUME stack[i].waiting PROVE FALSE
    OBVIOUS
  <2>1. i \in 1 .. Len(stack) /\ Waiting(stack, j, i)
    BY Domains DEF Home, FramesOf, Waiting, Waits
  <2>2. PICK k \in 1 .. Len(stack) : Wraps(stack[k], j, i)
    BY <1>0, <2>1 DEF PausesInv, WaitsHeld
  <2>3. k \in FramesOf({"notify", "kill", "wrap", "mark", "failed"}, j)
    BY <2>2, Domains DEF Home, FramesOf, Wraps
  <2> QED BY <1>0, <2>3, GoneSilent
<1> QED BY <1>0, <1>2, <1>3, <1>4, <1>5, GoneSilent

LEMMA HomeWaitMeansOver == ASSUME Home, PausesInv PROVE WaitMeansOver
<1> SUFFICES ASSUME NEW i \in DOMAIN stack, stack[i].kind = "waited", ~stack[i].waiting, i = Len(stack)
             PROVE  job[stack[i].on].mem = "freed"
  BY DEF WaitMeansOver
<1>1. i \in 1 .. Len(stack) /\ Len(stack) \in Nat
  BY Domains, TopIs DEF Home
<1>2. \A m \in 1 .. Len(stack) : ~(m > i)
  BY <1>1
<1>3. stack[i].on \in Gone
  BY <1>1, <1>2 DEF PausesInv, WaitsTold, Waits
<1> QED BY <1>3 DEF Gone

(* No memory of a job is used after it was released: no list, thread, call *)
(* of the main loop or suspended activation names a job that is gone, and  *)
(* nobody waits for it.                                                    *)
THEOREM NothingDangles ==
  ASSUME CalmHere, Granted PROVE SafetySpec => []NoDangling
<1> DEFINE Inv == Home /\ PausesInv
<1>1. Init => Inv
  BY HomeInit, PausesInit
<1>2. Inv /\ [Next]_vars => Inv'
  BY HomeStep, PausesStep
<1>3. Inv => NoDangling
  BY HomeNoDangling
<1> QED BY <1>1, <1>2, <1>3, PTL DEF SafetySpec

(* ecore_thread_wait() reports that a job is over only when it is, also    *)
(* when waits for it are nested and wrap each other's callbacks.           *)
THEOREM WaitedOver ==
  ASSUME CalmHere, Granted PROVE SafetySpec => []WaitMeansOver
<1> DEFINE Inv == Home /\ PausesInv
<1>1. Init => Inv
  BY HomeInit, PausesInit
<1>2. Inv /\ [Next]_vars => Inv'
  BY HomeStep, PausesStep
<1>3. Inv => WaitMeansOver
  BY HomeWaitMeansOver
<1> QED BY <1>1, <1>2, <1>3, PTL DEF SafetySpec

-----------------------------------------------------------------------------
(* EcoreThread implements JobService.  The phase a job has for the service *)
(* is read off its place (Phase, PhaseHere); a step that ends no job moves *)
(* a job only along Way, so that it is no step of the service, or the one  *)
(* that submits, takes, or lets go of that job; and the steps that end a   *)
(* job close it or refuse it a thread.                                     *)

(* The phases of a job are its stations.                                   *)
Over(j)  == \E x \in OverSites : j \in Site(x)
Final(j) == IF ghost[j].final[1] = "end" THEN "ended" ELSE "cancelled"

PhaseHere(j) == IF j \in New THEN "new" ELSE IF j \in Dead THEN Final(j) ELSE IF j \in Held THEN "held"
                ELSE IF Over(j) THEN "over" ELSE "waiting"

LEMMA PostedIs ==
  ASSUME CoreInv, NEW j \in Jobs PROVE Posted("handler", j) <=> j \in Handlers(calls) \cup CarriedIn(stack, "todo")
<1>1. \A k \in 1 .. Len(calls) : calls[k] \in Call
  BY DEF CoreInv, Types
<1>2. \A i \in 1 .. Len(stack) : \A k \in 1 .. Len(stack[i].todo) : stack[i].todo[k] \in Call
  BY Domains
<1>3. \A x \in Call : Ended(x, j) <=> x = Handler(j)
  BY EndedIs
<1>4. j \in CarriedIn(stack, "todo") <=> \E i \in 1 .. Len(stack) : \E k \in 1 .. Len(stack[i].todo) : Ended(stack[i].todo[k], j)
  BY DEF CarriedIn, Carries, Handlers
<1>5. j \in Handlers(calls) <=> \E k \in 1 .. Len(calls) : Ended(calls[k], j)
  BY DEF Handlers
<1> DEFINE x == Handler(j)
<1>6. Posted("handler", j) <=> \/ \E k \in 1 .. Len(calls) : calls[k] = x
                               \/ \E i \in 1 .. Len(stack) : \E k \in 1 .. Len(stack[i].todo) : stack[i].todo[k] = x
  BY Domains DEF Posted, Handler
<1> HIDE DEF x
<1>7. \A y \in Call : Ended(y, j) <=> y = x
  BY <1>3 DEF x
<1> QED BY <1>1, <1>2, <1>4, <1>5, <1>6, <1>7

(* Where a job is, as sets.                                                *)
LEMMA StationIs ==
  ASSUME PlaceInv, NEW j \in Jobs
  PROVE  /\ Over(j) <=> j \in Handlers(calls) \cup CarriedIn(stack, "todo") \cup (Killed \ (CarriedIn(stack, "kill") \cup Gone))
         /\ j \in New => j \notin Dead /\ j \notin Held /\ ~Over(j)
         /\ j \in Dead => j \notin Held /\ ~Over(j)
         /\ j \in Held => ~Over(j)
         /\ j \in Killed => Over(j) \/ j \in Dead
<1>0. Sites = {"direct", "todo", "kill", "failed", "new", "short", "feedback", "thread", "call", "messages", "gone"}
  BY DEF Sites, StackSites
<1>1. PICK a \in Sites : \A y \in Sites : j \in Site(y) <=> y = a
  BY DEF PlaceInv, Placement
<1>2. Over(j) <=> j \in Site("call") \/ j \in Site("todo") \/ j \in Site("messages")
  BY DEF Over, OverSites
<1>3. /\ Site("new") = New /\ Site("thread") = Held /\ Site("gone") = Gone /\ Site("call") = Handlers(calls)
      /\ Site("todo") = CarriedIn(stack, "todo") /\ Site("messages") = Killed \ (CarriedIn(stack, "kill") \cup Gone)
      /\ Dead = Site("kill") \cup Site("failed") \cup Site("gone") /\ Site("kill") = CarriedIn(stack, "kill")
  BY SiteIs, DeadIs DEF StackSites
<1> QED BY <1>0, <1>1, <1>2, <1>3

LEMMA FinalIs ==
  ASSUME FinalInv, NEW j \in Jobs
  PROVE  /\ j \in Dead <=> ghost[j].final # <<>>
         /\ j \in Dead => Last(ghost[j].final) = ghost[j].final[1]
<1>1. ghost[j].final \in Seq({"end", "cancel"}) /\ Len(ghost[j].final) = IF j \in Dead THEN 1 ELSE 0
  BY DEF FinalInv, GhostRecord
<1> QED BY <1>1 DEF Last

PhasesRight == \A j \in Jobs : Phase(j) = PhaseHere(j)

LEMMA PhaseIs == Home => PhasesRight
<1> SUFFICES ASSUME Home, NEW j \in Jobs PROVE Phase(j) = PhaseHere(j)
  BY DEF PhasesRight
<1> USE DEF Home
<1>1. /\ job[j].mem = "unborn" <=> j \in New
      /\ job[j].mem \in {"unborn", "live", "freed"} /\ (job[j].mem = "freed" => j \in Dead)
      /\ (\E t \in Threads : Work(t) = j) <=> j \in Held
      /\ Killed = {i \in Jobs : job[i].kill} /\ job[j].kill \in BOOLEAN
  BY DEF New, Held, Dead, Gone, CoreInv, Types, JobRec, Killed
<1>2. /\ Posted("handler", j) => Over(j)
      /\ Over(j) => Posted("handler", j) \/ job[j].kill
      /\ job[j].kill => Over(j) \/ j \in Dead
  BY <1>1, PostedIs, StationIs
<1>3. /\ j \in New => j \notin Dead /\ j \notin Held
      /\ j \in Dead => j \notin Held
      /\ j \in Dead <=> ghost[j].final # <<>>
      /\ j \in Dead => Last(ghost[j].final) = ghost[j].final[1]
  BY StationIs, FinalIs
<1>4. CASE j \in New
  BY <1>1, <1>3, <1>4 DEF Phase, PhaseHere
<1>5. CASE j \in Dead
  <2>1. Phase(j) = IF Last(ghost[j].final) = "end" THEN "ended" ELSE "cancelled"
    BY <1>1, <1>3, <1>5 DEF Phase
  <2> QED BY <1>3, <1>5, <2>1 DEF PhaseHere, Final
<1>6. CASE j \in Held
  BY <1>1, <1>3, <1>6 DEF Phase, PhaseHere
<1>7. CASE j \notin New /\ j \notin Dead /\ j \notin Held
  <2>1. Phase(j) = IF Posted("handler", j) \/ job[j].kill THEN "over" ELSE IF job[j].mem = "live" THEN "waiting" ELSE "new"
    BY <1>1, <1>3, <1>7 DEF Phase
  <2> QED BY <1>1, <1>2, <1>7, <2>1 DEF PhaseHere
<1> QED BY <1>4, <1>5, <1>6, <1>7

(* How phases change: a calm step moves a job along its way only, and one  *)
(* that is neither submitted, taken nor let go keeps its phase.            *)
PhasesSame    == \A i \in Jobs : Phase(i)' = Phase(i)
OthersSame(j) == \A i \in Jobs \ {j} : Phase(i)' = Phase(i)

LEMMA PhasePrimed == Home' => \A j \in Jobs : Phase(j)' = PhaseHere(j)'
<1>1. Home' => PhasesRight'
  BY PhaseIs, PTL
<1> QED BY <1>1 DEF PhasesRight

LEMMA OverPrimed ==
  ASSUME NEW j PROVE Over(j)' <=> \E x \in OverSites : j \in Site(x)'
BY DEF Over

Sited(j, x) ==
  /\ x = "new" <=> j \in New
  /\ x \in DeadSites <=> j \in Dead
  /\ x = "thread" <=> j \in Held
  /\ x \in OverSites <=> Over(j)
  /\ x \in WaitSites <=> j \notin New /\ j \notin Dead /\ j \notin Held /\ ~Over(j)

AllSited == \A j \in Jobs : \A x \in Sites : j \in Site(x) => Sited(j, x)

LEMMA SitedAt == PlaceInv => AllSited
<1> SUFFICES ASSUME PlaceInv, NEW j \in Jobs, NEW x \in Sites, j \in Site(x) PROVE Sited(j, x)
  BY DEF AllSited
<1>0. Sites = {"direct", "todo", "kill", "failed", "new", "short", "feedback", "thread", "call", "messages", "gone"}
  BY DEF Sites, StackSites
<1>1. \A y \in Sites : j \in Site(y) <=> y = x
  BY DEF PlaceInv, Placement
<1>2. /\ Site("new") = New /\ Site("thread") = Held
      /\ Dead = Site("kill") \cup Site("failed") \cup Site("gone")
  BY SiteIs, DeadIs
<1> QED BY <1>0, <1>1, <1>2 DEF Over, OverSites, DeadSites, WaitSites, Sited

LEMMA SitedPrimed ==
  ASSUME PlaceInv', NEW j \in Jobs, NEW x \in Sites, j \in Site(x)'
  PROVE  /\ x = "new" <=> j \in New'
         /\ x \in DeadSites <=> j \in Dead'
         /\ x = "thread" <=> j \in Held'
         /\ x \in OverSites <=> Over(j)'
         /\ x \in WaitSites <=> j \notin New' /\ j \notin Dead' /\ j \notin Held' /\ ~Over(j)'
<1>1. PlaceInv' => AllSited'
  BY SitedAt, PTL
<1>2. AllSited'
  BY <1>1
<1>3. Sited(j, x)'
  BY <1>2 DEF AllSited
<1> QED BY <1>3 DEF Sited

LEMMA PhaseWay ==
  ASSUME Home, Home', Calmly, SameFinals, NEW j \in Jobs
  PROVE  /\ j \in New /\ j \notin New' => Phase(j) = "new" /\ Phase(j)' = "waiting"
         /\ j \notin Held /\ j \in Held' => Phase(j) = "waiting" /\ Phase(j)' = "held"
         /\ j \in Held /\ j \notin Held' => Phase(j) = "held" /\ Phase(j)' \in {"waiting", "over"}
         /\ (j \in New <=> j \in New') /\ (j \in Held <=> j \in Held') => Phase(j)' = Phase(j)
<1>0. PlaceInv /\ PlaceInv' /\ OnTheWay /\ ghost'[j].final = ghost[j].final
  BY DEF Home, Calmly, SameFinals
<1>1. PICK a \in Sites : j \in Site(a)
  BY <1>0 DEF PlaceInv, Placement
<1>2. PICK b \in Sites : j \in Site(b)'
  BY <1>0 DEF PlaceInv, Placement
<1>3. a = b \/ Way(a, b)
  BY <1>0, <1>1, <1>2 DEF OnTheWay
<1>4. /\ a = "new" <=> j \in New
      /\ a \in DeadSites <=> j \in Dead
      /\ a = "thread" <=> j \in Held
      /\ a \in OverSites <=> Over(j)
      /\ a \in WaitSites <=> j \notin New /\ j \notin Dead /\ j \notin Held /\ ~Over(j)
  BY <1>0, <1>1, SitedAt DEF AllSited, Sited
<1>5. /\ b = "new" <=> j \in New'
      /\ b \in DeadSites <=> j \in Dead'
      /\ b = "thread" <=> j \in Held'
      /\ b \in OverSites <=> Over(j)'
      /\ b \in WaitSites <=> j \notin New' /\ j \notin Dead' /\ j \notin Held' /\ ~Over(j)'
  BY <1>0, <1>2, SitedPrimed
<1>6. Phase(j) = PhaseHere(j) /\ Phase(j)' = PhaseHere(j)'
  BY PhaseIs, PhasePrimed DEF PhasesRight
<1>7. Phase(j) = IF a = "new" THEN "new" ELSE IF a \in DeadSites THEN Final(j) ELSE IF a = "thread" THEN "held"
                ELSE IF a \in OverSites THEN "over" ELSE "waiting"
  BY <1>4, <1>6 DEF PhaseHere
<1>8. Phase(j)' = IF b = "new" THEN "new" ELSE IF b \in DeadSites THEN Final(j) ELSE IF b = "thread" THEN "held"
                  ELSE IF b \in OverSites THEN "over" ELSE "waiting"
  <2>1. Final(j)' = Final(j)
    BY <1>0 DEF Final
  <2> QED BY <1>5, <1>6, <2>1 DEF PhaseHere
<1> QED BY <1>3, <1>4, <1>5, <1>7, <1>8 DEF Way, WaitSites, OverSites, DeadSites, Sites, StackSites

LEMMA PhaseEnds ==
  ASSUME Home, Home', NEW j \in Jobs, Ends(j), NEW how \in {"end", "cancel"}, Report(j, how)
  PROVE  OthersSame(j) /\ Phase(j)' = IF how = "end" THEN "ended" ELSE "cancelled"
<1>0. /\ PlaceInv /\ PlaceInv' /\ OthersStay(j) /\ j \in Dead' /\ New' = New /\ j \notin New /\ j \notin Dead
      /\ ghost \in [Jobs -> GhostRecord] /\ Len(ghost[j].final) = 0
  BY DEF Home, Ends, FinalInv
<1> DEFINE f == Append(ghost[j].final, how)
           r == [ghost[j] EXCEPT !.final = f]
<1>1. f[1] = how
  BY <1>0 DEF GhostRecord
<1>2. ghost' = [ghost EXCEPT ![j] = r]
  BY DEF Report
<1> HIDE DEF f
<1>3. r.final = f
  BY <1>0 DEF GhostRecord
<1> HIDE DEF r
<1>4. \A i \in Jobs : ghost'[i] = IF i = j THEN r ELSE ghost[i]
  BY <1>0, <1>2
<1>5. \A i \in Jobs : Phase(i) = PhaseHere(i) /\ Phase(i)' = PhaseHere(i)'
  BY PhaseIs, PhasePrimed DEF PhasesRight
<1>6. Phase(j)' = IF how = "end" THEN "ended" ELSE "cancelled"
  BY <1>0, <1>1, <1>3, <1>4, <1>5 DEF PhaseHere, Final
<1>7. ASSUME NEW i \in Jobs \ {j} PROVE Phase(i)' = Phase(i)
  <2>1. \A z \in Sites : i \in Site(z)' <=> i \in Site(z)
    BY <1>0 DEF OthersStay
  <2>2. Over(i)' <=> Over(i)
    BY <2>1, OverPrimed DEF Over, OverSites, Sites, StackSites
  <2>3. (i \in New' <=> i \in New) /\ (i \in Held' <=> i \in Held) /\ (i \in Dead' <=> i \in Dead)
    BY <2>1, SitesAfter, SiteIs, DeadIs DEF Sites, StackSites
  <2>4. Final(i)' = Final(i)
    BY <1>4 DEF Final
  <2> QED BY <1>5, <2>2, <2>3, <2>4 DEF PhaseHere
<1> QED BY <1>6, <1>7 DEF OthersSame
-----------------------------------------------------------------------------
(* What the steps leave of the marks the phases are made of.               *)
SameStands == \A i \in Jobs : job'[i].cancel = job[i].cancel /\ job'[i].mem = job[i].mem
SameRuns   == \A i \in Jobs : ghost'[i].runs = ghost[i].runs

LEMMA StandPut ==
  ASSUME CoreInv, NEW j, NEW r, job' = [job EXCEPT ![j] = r],
         j \in Jobs => r.cancel = job[j].cancel /\ r.mem = job[j].mem
  PROVE  SameStands
<1>1. \A i \in Jobs : job'[i] = IF i = j THEN r ELSE job[i]
  BY DEF CoreInv, Types
<1> QED BY <1>1 DEF SameStands

LEMMA StandField ==
  ASSUME CoreInv, NEW j, NEW c, NEW d,
         \/ job' = [job EXCEPT ![j].self = c] \/ job' = [job EXCEPT ![j].kill = c]
         \/ job' = [job EXCEPT ![j].reschedule = c] \/ job' = [job EXCEPT ![j].func = c, ![j].waiter = d]
  PROVE  SameStands
<1>0. j \in Jobs => job[j] \in JobRec
  BY DEF CoreInv, Types
<1>1. CASE job' = [job EXCEPT ![j].self = c]
  <2> DEFINE r == [job[j] EXCEPT !.self = c]
  <2>1. job' = [job EXCEPT ![j] = r]
    BY <1>1
  <2>2. j \in Jobs => r.cancel = job[j].cancel /\ r.mem = job[j].mem
    BY <1>0 DEF JobRec
  <2> HIDE DEF r
  <2> QED BY <2>1, <2>2, StandPut
<1>2. CASE job' = [job EXCEPT ![j].kill = c]
  <2> DEFINE r == [job[j] EXCEPT !.kill = c]
  <2>1. job' = [job EXCEPT ![j] = r]
    BY <1>2
  <2>2. j \in Jobs => r.cancel = job[j].cancel /\ r.mem = job[j].mem
    BY <1>0 DEF JobRec
  <2> HIDE DEF r
  <2> QED BY <2>1, <2>2, StandPut
<1>3. CASE job' = [job EXCEPT ![j].reschedule = c]
  <2> DEFINE r == [job[j] EXCEPT !.reschedule = c]
  <2>1. job' = [job EXCEPT ![j] = r]
    BY <1>3
  <2>2. j \in Jobs => r.cancel = job[j].cancel /\ r.mem = job[j].mem
    BY <1>0 DEF JobRec
  <2> HIDE DEF r
  <2> QED BY <2>1, <2>2, StandPut
<1>4. CASE job' = [job EXCEPT ![j].func = c, ![j].waiter = d]
  <2> DEFINE r == [job[j] EXCEPT !.func = c, !.waiter = d]
  <2>1. job' = [job EXCEPT ![j] = r]
    BY <1>4
  <2>2. j \in Jobs => r.cancel = job[j].cancel /\ r.mem = job[j].mem
    BY <1>0 DEF JobRec
  <2> HIDE DEF r
  <2> QED BY <2>1, <2>2, StandPut
<1> QED BY <1>1, <1>2, <1>3, <1>4

LEMMA StandCount ==
  ASSUME CoreInv, NEW j \in Jobs,
         job' = [job EXCEPT ![j].send = @ + 1] \/ job' = [job EXCEPT ![j].received = @ + 1]
  PROVE  SameStands
<1>0. job[j] \in JobRec
  BY DEF CoreInv, Types
<1>1. CASE job' = [job EXCEPT ![j].send = @ + 1]
  <2> DEFINE r == [job[j] EXCEPT !.send = @ + 1]
  <2>1. job' = [job EXCEPT ![j] = r]
    BY <1>1
  <2>2. r.cancel = job[j].cancel /\ r.mem = job[j].mem
    BY <1>0 DEF JobRec
  <2> HIDE DEF r
  <2> QED BY <2>1, <2>2, StandPut
<1>2. CASE job' = [job EXCEPT ![j].received = @ + 1]
  <2> DEFINE r == [job[j] EXCEPT !.received = @ + 1]
  <2>1. job' = [job EXCEPT ![j] = r]
    BY <1>2
  <2>2. r.cancel = job[j].cancel /\ r.mem = job[j].mem
    BY <1>0 DEF JobRec
  <2> HIDE DEF r
  <2> QED BY <2>1, <2>2, StandPut
<1> QED BY <1>1, <1>2

LEMMA StandSame == ASSUME UNCHANGED job PROVE SameStands
BY DEF SameStands

(* The steps that change what a job is: it is submitted, asked to stop, or *)
(* its memory is released.                                                 *)
Standing == \/ \E j \in Jobs : Run(j) \/ RunDirect(j)
            \/ \E t \in Threads : CancelSelf(t)
            \/ CancelMark \/ Failed \/ KillDone

LEMMA StandStep ==
  ASSUME CoreInv, [Next]_vars, ~Standing PROVE SameStands
<1>1. ASSUME NEW t \in Threads, ThreadStep(t) \/ FunctionStep(t) PROVE SameStands
  <2>0. ~CancelSelf(t)
    BY DEF Standing
  <2>1. CASE Start(t) \/ StartDirect(t) \/ Reschedule(t) \/ Requeue(t)
    <3>1. \E j, c : job' = [job EXCEPT ![j].self = c] \/ job' = [job EXCEPT ![j].reschedule = c]
      BY <2>1 DEF Start, StartDirect, Reschedule, Requeue
    <3> QED BY <3>1, StandField
  <2>2. CASE Send(t)
    <3>1. Work(t) \in Jobs /\ job' = [job EXCEPT ![Work(t)].send = @ + 1]
      BY <2>2, Holding DEF Send, In, HoldStates
    <3> QED BY <3>1, StandCount
  <2>3. CASE ~(Start(t) \/ StartDirect(t) \/ Reschedule(t) \/ Requeue(t) \/ Send(t))
    <3>1. UNCHANGED job
      BY <1>1, <2>0, <2>3 DEF ThreadStep, FunctionStep, PickShort, PickFeedback, MarkRunning, Finish, LeaveRunning, PostHandler,
         TestOnce, TestTwice, Test, Leave, LeaveDirect, Cut
    <3> QED BY <3>1, StandSame
  <2> QED BY <2>1, <2>2, <2>3
<1>2. CASE UserStep
  <2>1. ASSUME NEW j \in Jobs, Wait(j) PROVE SameStands
    BY <2>1, StandField DEF Wait
  <2>2. CASE \A j \in Jobs : ~Wait(j)
    <3>1. UNCHANGED job
      BY <1>2, <2>2 DEF Standing, UserStep, RunSelfLock, CancelSelfLock, SelfLock, Cancel, CancelKilled, MaxSet
    <3> QED BY <3>1, StandSame
  <2> QED BY <2>1, <2>2
<1>3. CASE MainStep
  <2>0. ~CancelMark /\ ~Failed /\ ~KillDone
    BY DEF Standing
  <2>1. ASSUME NEW j \in Jobs, HandlerKeeps(j) PROVE SameStands
    BY <2>1, StandField DEF HandlerKeeps
  <2>2. CASE WaitTimeout \/ WrapDone
    <3>1. \E c : job' = [job EXCEPT ![Top.on].func = c, ![Top.on].waiter = 0]
      BY <2>2 DEF WaitTimeout, WrapDone, Unwrap
    <3>2. PICK c : job' = [job EXCEPT ![Top.on].func = c, ![Top.on].waiter = 0]
      BY <3>1
    <3> QED BY <3>2, StandField
  <2>3. ASSUME NEW j \in Jobs, Notify(j) PROVE SameStands
    BY <2>3, StandCount DEF Notify
  <2>4. CASE ~(WaitTimeout \/ WrapDone \/ \E j \in Jobs : HandlerKeeps(j) \/ Notify(j))
    <3>1. UNCHANGED job
      BY <1>3, <2>0, <2>4 DEF MainStep, Create, CreateDirect, Join, CreateFails, RetryFails, RetryFailsFeedback, OnError, CountDirect,
         CreateDirectFails, RetryDirectFails, DirectSelfLock, SelfLock, WaitFlush, WaitAgain, WaitOver, Return, LoopFlush,
         FlushEnd, HandlerKills, NotifyDone, NotifyKills
    <3> QED BY <3>1, StandSame
  <2> QED BY <2>1, <2>2, <2>3, <2>4
<1>4. CASE UNCHANGED vars
  BY <1>4, StandSame DEF vars
<1> QED BY <1>1, <1>2, <1>3, <1>4 DEF Next

(* The steps that submit, mark or release a job, one by one.               *)
BornOf(j)  == \A i \in Jobs : /\ job'[i].mem = IF i = j THEN "live" ELSE job[i].mem
                              /\ i = j => ~job'[i].cancel
                              /\ i # j => job'[i].cancel = job[i].cancel
AskedOf(j) == \A i \in Jobs : /\ job'[i].mem = job[i].mem
                              /\ i = j => job'[i].cancel = TRUE
                              /\ i # j => job'[i].cancel = job[i].cancel
FreedOf(j) == \A i \in Jobs : /\ job'[i].mem = IF i = j THEN "freed" ELSE job[i].mem
                              /\ job'[i].cancel = job[i].cancel

LEMMA BornIsOf ==
  ASSUME CoreInv, NEW j \in Jobs, job' = Born(j) PROVE BornOf(j)
<1> DEFINE r == [NewJob EXCEPT !.mem = "live"]
<1>1. r.mem = "live" /\ r.cancel = FALSE
  BY DEF NewJob
<1>2. job' = [job EXCEPT ![j] = r]
  BY DEF Born
<1> HIDE DEF r
<1>3. \A i \in Jobs : job'[i] = IF i = j THEN r ELSE job[i]
  BY <1>2 DEF CoreInv, Types
<1> QED BY <1>1, <1>3 DEF BornOf

LEMMA AskedIsOf ==
  ASSUME CoreInv, NEW j \in Jobs, job' = [job EXCEPT ![j].cancel = TRUE] PROVE AskedOf(j)
<1> DEFINE r == [job[j] EXCEPT !.cancel = TRUE]
<1>1. r.mem = job[j].mem /\ r.cancel = TRUE
  BY DEF CoreInv, Types, JobRec
<1>2. job' = [job EXCEPT ![j] = r]
  OBVIOUS
<1> HIDE DEF r
<1>3. \A i \in Jobs : job'[i] = IF i = j THEN r ELSE job[i]
  BY <1>2 DEF CoreInv, Types
<1> QED BY <1>1, <1>3 DEF AskedOf

LEMMA FreedIsOf ==
  ASSUME CoreInv, NEW j \in Jobs, Freed(j) PROVE FreedOf(j)
<1> DEFINE r == [job[j] EXCEPT !.mem = "freed"]
<1>1. r.mem = "freed" /\ r.cancel = job[j].cancel
  BY DEF CoreInv, Types, JobRec
<1>2. job' = [job EXCEPT ![j] = r]
  BY DEF Freed
<1> HIDE DEF r
<1>3. \A i \in Jobs : job'[i] = IF i = j THEN r ELSE job[i]
  BY <1>2 DEF CoreInv, Types
<1> QED BY <1>1, <1>3 DEF FreedOf

LEMMA StandingIs ==
  ASSUME Home, Standing
  PROVE  \/ \E j \in Jobs : (Run(j) \/ RunDirect(j)) /\ BornOf(j) /\ j \in New
         \/ \E j \in Jobs : CancelMark /\ AskedOf(j) /\ j \notin Dead \cup New
         \/ \E t \in Threads : CancelSelf(t) /\ \E j \in Held : j = Work(t) /\ AskedOf(j)
         \/ \E j \in Jobs : (Failed \/ KillDone) /\ FreedOf(j) /\ j \notin New
<1> USE DEF Home
<1>1. ASSUME NEW j \in Jobs, Run(j) \/ RunDirect(j) PROVE BornOf(j) /\ j \in New
  BY <1>1, BornIsOf DEF Run, RunDirect, New
<1>2. ASSUME NEW t \in Threads, CancelSelf(t) PROVE \E j \in Held : j = Work(t) /\ AskedOf(j)
  <2>1. Work(t) \in Jobs
    BY <1>2, Holding DEF CancelSelf, In, HoldStates
  <2>2. PICK j \in Jobs : j = Work(t)
    BY <2>1
  <2>3. j \in Held /\ job' = [job EXCEPT ![j].cancel = TRUE]
    BY <1>2, <2>2 DEF CancelSelf, Held
  <2> QED BY <2>2, <2>3, AskedIsOf
<1>3. ASSUME CancelMark PROVE Top.on \in Jobs /\ AskedOf(Top.on) /\ Top.on \notin Dead \cup New
  <2>1. Top.kind = "mark" /\ job' = [job EXCEPT ![Top.on].cancel = TRUE]
    BY <1>3 DEF CancelMark, At
  <2>2. Top.on \in Jobs /\ Top.on \notin Dead \cup New
    BY <2>1, TopIs, SpeakerLives DEF Speakers
  <2> QED BY <2>1, <2>2, AskedIsOf
<1>4. ASSUME Failed \/ KillDone PROVE Top.on \in Jobs /\ FreedOf(Top.on) /\ Top.on \notin New
  <2>1. Top.kind \in {"failed", "kill"} /\ Freed(Top.on)
    BY <1>4 DEF Failed, KillDone, At
  <2>2. Top.on \in Jobs /\ Top = stack[Len(stack)] /\ Len(stack) \in 1 .. Len(stack)
    BY <2>1, TopIs
  <2>3. Top.on \in Carries(Top, Top.kind)
    BY <2>1, <2>2 DEF Carries
  <2>4. Top.on \in Dead
    BY <2>1, <2>2, <2>3 DEF Dead, CarriedIn
  <2>5. Top.on \notin New
    BY <2>2, <2>4, StationIs
  <2> QED BY <2>1, <2>2, <2>5, FreedIsOf
<1> QED BY <1>1, <1>2, <1>3, <1>4 DEF Standing

(* No job was asked to stop before it was submitted.                       *)
Unasked == \A j \in New : ~job[j].cancel

LEMMA UnaskedStep ==
  ASSUME Home, Unasked, [Next]_vars PROVE Unasked'
<1>0. New = {i \in Jobs : job[i].mem = "unborn"} /\ New' = {i \in Jobs : job'[i].mem = "unborn"}
  BY DEF New
<1>1. CASE ~Standing
  <2>1. SameStands
    BY <1>1, StandStep DEF Home
  <2> QED BY <1>0, <2>1 DEF Unasked, SameStands
<1>2. ASSUME NEW j \in Jobs, BornOf(j) PROVE Unasked'
  BY <1>0, <1>2 DEF Unasked, BornOf
<1>3. ASSUME NEW j, AskedOf(j), j \notin New PROVE Unasked'
  BY <1>0, <1>3 DEF Unasked, AskedOf
<1>4. ASSUME NEW j, FreedOf(j) PROVE Unasked'
  BY <1>0, <1>4 DEF Unasked, FreedOf
<1>5. CASE Standing
  <2>1. \A j \in Held : j \notin New
    BY HeldLives DEF Home
  <2> QED BY <1>2, <1>3, <1>4, <1>5, <2>1, StandingIs
<1> QED BY <1>1, <1>5

LEMMA UnaskedInit == ASSUME Init PROVE Unasked
BY DEF Init, Unasked, New, NewJob

(* The steps that begin a run of a job's function.                         *)
Entering(t) == (Start(t) /\ ~job[Work(t)].cancel) \/ StartDirect(t)

LEMMA RunsPut ==
  ASSUME ghost \in [Jobs -> GhostRecord], NEW j, NEW c,
         \/ ghost' = [ghost EXCEPT ![j].final = c] \/ ghost' = [ghost EXCEPT ![j].told = c]
         \/ ghost' = [ghost EXCEPT ![j].cut = c]
  PROVE  SameRuns
<1> SUFFICES ASSUME NEW i \in Jobs PROVE ghost'[i].runs = ghost[i].runs
  BY DEF SameRuns
<1>1. ghost[i] \in GhostRecord /\ i \in DOMAIN ghost
  OBVIOUS
<1>2. CASE i # j
  BY <1>1, <1>2
<1>3. CASE i = j
  <2>1. \/ ghost'[i] = [ghost[i] EXCEPT !.final = c] \/ ghost'[i] = [ghost[i] EXCEPT !.told = c]
        \/ ghost'[i] = [ghost[i] EXCEPT !.cut = c]
    BY <1>1, <1>3
  <2> QED BY <1>1, <2>1 DEF GhostRecord
<1> QED BY <1>2, <1>3

LEMMA ReportRuns ==
  ASSUME ghost \in [Jobs -> GhostRecord], NEW j, NEW how, Report(j, how) PROVE SameRuns
<1> DEFINE f == Append(ghost[j].final, how)
<1>1. ghost' = [ghost EXCEPT ![j].final = f]
  BY DEF Report
<1> HIDE DEF f
<1> QED BY <1>1, RunsPut

LEMMA RunsStep ==
  ASSUME Home, [Next]_vars, ~Ending, \A t \in Threads : ~Entering(t) PROVE SameRuns
<1>0. ghost \in [Jobs -> GhostRecord]
  BY DEF Home, FinalInv
<1>4. ASSUME UNCHANGED ghost PROVE SameRuns
  BY <1>4 DEF SameRuns
<1>5. ASSUME NEW t \in Threads, ThreadStep(t) \/ FunctionStep(t) PROVE SameRuns
  <2>1. CASE Cut(t)
    <3>1. ghost' = [ghost EXCEPT ![Work(t)].cut = TRUE]
      BY <2>1 DEF Cut
    <3> QED BY <1>0, <3>1, RunsPut
  <2>2. CASE ~Cut(t)
    <3>1. UNCHANGED ghost
      BY <1>5, <2>2 DEF Entering, ThreadStep, FunctionStep, PickShort, PickFeedback, MarkRunning, Start, Finish, LeaveRunning, Requeue, PostHandler,
       TestOnce, TestTwice, Test, Leave, LeaveDirect, Send, Reschedule, CancelSelf
    <3> QED BY <1>4, <3>1
  <2> QED BY <2>1, <2>2
<1>6. ASSUME UserStep PROVE SameRuns
  <2>1. ASSUME NEW j \in Jobs, CancelKilled(j) PROVE SameRuns
    <3>1. ghost' = [ghost EXCEPT ![j].told = TRUE]
      BY <2>1 DEF CancelKilled
    <3> QED BY <1>0, <3>1, RunsPut
  <2>2. ASSUME ~\E j \in Jobs : CancelKilled(j) PROVE UNCHANGED ghost
    BY <1>6, <2>2 DEF UserStep, Run, RunSelfLock, RunDirect, Cancel, CancelSelfLock, Wait, MaxSet, SelfLock
  <2> QED BY <1>4, <2>1, <2>2
<1>7. ASSUME MainStep PROVE SameRuns
  <2>1. UNCHANGED ghost
    BY <1>7 DEF MainStep, Ending, Create, CreateDirect, Join, CreateFails, RetryFailsFeedback, Failed, CountDirect,
       CreateDirectFails, RetryDirectFails, DirectSelfLock, SelfLock, CancelMark, WaitFlush, WaitAgain, WaitOver,
       WaitTimeout, WrapDone, Return, LoopFlush, FlushEnd, HandlerKeeps, Notify, NotifyDone, KillDone
  <2> QED BY <1>4, <2>1
<1>8. ASSUME UNCHANGED vars PROVE SameRuns
  BY <1>4, <1>8 DEF vars
<1> QED BY <1>5, <1>6, <1>7, <1>8 DEF Next

EnteredBy(j) == \A i \in Jobs : ghost'[i].runs = IF i = j THEN ghost[i].runs + 1 ELSE ghost[i].runs

LEMMA EnteringIs ==
  ASSUME Home, NEW t \in Threads, Entering(t)
  PROVE  \E w \in Held : w = Work(t) /\ EnteredBy(w) /\ (job[w].cancel => w \in Direct)
<1>1. thread[t].pc \in HoldStates /\ Work(t) \in Jobs /\ Enter(t)
  BY Holding DEF Home, Entering, Start, StartDirect, In, HoldStates
<1>2. PICK w \in Jobs : w = Work(t)
  BY <1>1
<1>3. thread[t].pc \in HoldStates /\ w \in Held /\ Enter(t) /\ w = Work(t)
  BY <1>1, <1>2 DEF Held
<1> DEFINE n == ghost[w].runs + 1
           r == [ghost[w] EXCEPT !.runs = n]
<1>4. ghost \in [Jobs -> GhostRecord]
  BY DEF Home, FinalInv
<1>5. ghost' = [ghost EXCEPT ![w] = r]
  BY <1>3 DEF Enter
<1> HIDE DEF n
<1>6. r.runs = n
  BY <1>3, <1>4 DEF GhostRecord
<1> HIDE DEF r
<1>7. \A i \in Jobs : ghost'[i] = IF i = w THEN r ELSE ghost[i]
  BY <1>4, <1>5
<1>8. EnteredBy(w)
  BY <1>6, <1>7 DEF EnteredBy, n
<1>9. ASSUME job[w].cancel PROVE w \in Direct
  <2>1. thread[t].pc = "direct"
    BY <1>3, <1>9 DEF Entering, StartDirect, In
  <2>2. thread[t].own
    BY <2>1, Holding DEF Home, DirectStates
  <2> QED BY <1>3, <2>2 DEF Home, HandsInv, Hands, Work
<1> QED BY <1>3, <1>8, <1>9

(* The steps that give a job to a thread or take it away.                  *)
Taking == \E t \in Threads : (PickShort(t) /\ pendShort # <<>>) \/ (PickFeedback(t) /\ pendFeedback # <<>>) \/ CreateDirect(t)
Leaving == \E t \in Threads : Requeue(t) \/ PostHandler(t) \/ LeaveDirect(t)

HeldOneMore == \E j \in Jobs : j \notin Held /\ Held' = Held \cup {j}
HeldOneLess == \E j \in Held : Held' = Held \ {j}

LEMMA TakingIs ==
  ASSUME Home, Calmly, Taking PROVE HeldOneMore
<1> USE DEF Home
<1>0. Single /\ \A u \in Threads : thread[u].pc \notin HoldStates => Work(u) = None
  BY DEF PlaceInv, HandsInv, Hands, Work
<1>1. PICK t \in Threads : (PickShort(t) /\ pendShort # <<>>) \/ (PickFeedback(t) /\ pendFeedback # <<>>) \/ CreateDirect(t)
  BY DEF Taking
<1>2. Work(t) = None /\ None \notin Jobs
  BY <1>0, <1>1, JobsAssumption DEF PickShort, PickFeedback, CreateDirect, In, HoldStates
<1>3. ASSUME NEW j \in Jobs, NEW r, thread' = [thread EXCEPT ![t] = r], r.work = j, j \notin Held PROVE HeldOneMore
  <2>1. Held' = Held \cup {r.work}
    BY <1>0, <1>2, <1>3, HeldTaken
  <2> QED BY <1>3, <2>1 DEF HeldOneMore
<1>4. ASSUME NEW x \in {"short", "feedback", "direct"}, NEW j \in Site(x) PROVE j \in Jobs /\ j \notin Held
  <2>1. x \in Sites /\ "thread" \in Sites /\ x # "thread"
    BY DEF Sites, StackSites
  <2> QED BY <1>4, <2>1, Elsewhere, SiteIs DEF PlaceInv
<1>5. CASE PickShort(t) /\ pendShort # <<>>
  <2>1. Head(pendShort) \in Entries(pendShort)
    BY <1>5, TailRight DEF CoreInv, Types, Entries, Jobs
  <2>2. PICK r : Becomes1(t, r) /\ r.work = Head(pendShort)
    BY <1>5, TakerIs DEF TakenBy
  <2> QED BY <1>3, <1>4, <2>1, <2>2, SiteIs DEF Becomes1
<1>6. CASE PickFeedback(t) /\ pendFeedback # <<>>
  <2>1. Head(pendFeedback) \in Entries(pendFeedback)
    BY <1>6, TailRight DEF CoreInv, Types, Entries, Jobs
  <2>2. PICK r : Becomes1(t, r) /\ r.work = Head(pendFeedback)
    BY <1>6, TakerIs DEF TakenBy
  <2> QED BY <1>3, <1>4, <2>1, <2>2, SiteIs DEF Becomes1
<1>7. CASE CreateDirect(t)
  <2> DEFINE r == [thread[t] EXCEPT !.pc = "direct", !.own = TRUE, !.work = Top.on]
  <2>1. thread' = [thread EXCEPT ![t] = r] /\ Top.kind \in StartKinds
    BY <1>7 DEF CreateDirect, At, StartKinds
  <2>2. r.work = Top.on
    BY DEF CoreInv, Types, ThreadRecord
  <2> HIDE DEF r
  <2>3. Top.on \in Jobs /\ Top = stack[Len(stack)] /\ Len(stack) \in 1 .. Len(stack)
    BY <2>1, TopIs DEF StartKinds
  <2>4. Top.on \in CarriedIn(stack, "direct")
    BY <2>1, <2>3 DEF CarriedIn, Carries
  <2> QED BY <1>3, <1>4, <2>1, <2>2, <2>3, <2>4, SiteIs DEF StackSites
<1> QED BY <1>1, <1>5, <1>6, <1>7

LEMMA LeavingIs ==
  ASSUME Home, Leaving PROVE HeldOneLess
<1>1. PICK t \in Threads : Requeue(t) \/ PostHandler(t) \/ LeaveDirect(t)
  BY DEF Leaving
<1>2. PICK r : Becomes1(t, r) /\ r.work = None /\ thread[t].pc \in {"requeue", "directEnd"}
  BY <1>1, LeaverIs DEF LetGo, Home
<1>3. Work(t) \in Jobs
  BY <1>2, Holding DEF Home, HoldStates
<1>4. Held' = Held \ {Work(t)} /\ Work(t) \in Held
  BY <1>2, <1>3, HeldLeft, JobsAssumption DEF Home, PlaceInv, Becomes1
<1> QED BY <1>4 DEF HeldOneLess

LEMMA HeldStep ==
  ASSUME Home, [Next]_vars, ~Taking, ~Leaving PROVE Held' = Held
<1>0. CoreInv /\ HandsInv /\ Single
  BY DEF Home, PlaceInv
<1>1. ASSUME NEW t \in Threads, ThreadStep(t) \/ FunctionStep(t) PROVE Held' = Held
  <2>1. Carrier(t)
    BY <1>1 DEF ThreadStep, FunctionStep, Carrier, Taking, Leaving
  <2>2. PICK r : Becomes1(t, r) /\ Carried(r, t)
    BY <1>0, <2>1, CarrierIs DEF CarriedOn
  <2> QED BY <1>0, <2>2, HeldKept DEF Becomes1, Carried
<1>2. ASSUME UNCHANGED thread PROVE Held' = Held
  BY <1>0, <1>2, HeldSame
<1>3. ASSUME NEW t \in Threads, NEW p, thread' = [thread EXCEPT ![t].pc = p] PROVE Held' = Held
  <2> DEFINE r == [thread[t] EXCEPT !.pc = p]
  <2>1. thread' = [thread EXCEPT ![t] = r]
    BY <1>3
  <2>2. r.work = Work(t)
    BY <1>0 DEF CoreInv, Types, ThreadRecord, Work
  <2> HIDE DEF r
  <2> QED BY <1>0, <2>1, <2>2, HeldKept
<1>4. ASSUME UserStep PROVE Held' = Held
  <2>1. ASSUME NEW j \in Jobs, Cancel(j) PROVE Held' = Held
    <3>1. CASE job[j].self = None
      BY <1>2, <2>1, <3>1 DEF Cancel, AskThread
    <3>2. CASE job[j].self # None
      <4> DEFINE t == job[j].self
                 r == [thread[t] EXCEPT !.asked = TRUE]
      <4>1. t \in Threads /\ thread' = [thread EXCEPT ![t] = r]
        BY <1>0, <2>1, <3>2 DEF Cancel, AskThread, CoreInv, Types, JobRec
      <4>2. r.work = Work(t)
        BY <1>0, <4>1 DEF CoreInv, Types, ThreadRecord, Work
      <4> HIDE DEF r, t
      <4> QED BY <1>0, <4>1, <4>2, HeldKept
    <3> QED BY <3>1, <3>2
  <2>2. ASSUME ~\E j \in Jobs : Cancel(j) PROVE UNCHANGED thread
    BY <1>4, <2>2 DEF UserStep, Run, RunSelfLock, RunDirect, CancelKilled, CancelSelfLock, Wait, MaxSet, SelfLock
  <2> QED BY <1>2, <2>1, <2>2
<1>5. ASSUME MainStep PROVE Held' = Held
  <2>1. ASSUME NEW t \in Threads, Create(t) \/ Join(t) PROVE Held' = Held
    <3>1. \E p : thread' = [thread EXCEPT ![t].pc = p]
      BY <2>1 DEF Create, StartPool, Join
    <3> QED BY <1>3, <3>1
  <2>2. ASSUME ~\E t \in Threads : Create(t) \/ Join(t) PROVE UNCHANGED thread
    BY <1>5, <2>2 DEF Taking, MainStep, CreateFails, RetryFails, RetryFailsFeedback, OnError, Failed, CountDirect,
       CreateDirectFails, RetryDirectFails, DirectSelfLock, SelfLock, CancelMark, WaitFlush, WaitAgain, WaitOver,
       WaitTimeout, WrapDone, Return, LoopFlush, FlushEnd, HandlerKeeps, HandlerKills, Notify, NotifyDone, NotifyKills, KillDone
  <2> QED BY <1>2, <2>1, <2>2
<1>6. CASE UNCHANGED vars
  BY <1>2, <1>6 DEF vars
<1> QED BY <1>1, <1>4, <1>5, <1>6 DEF Next
-----------------------------------------------------------------------------
(* Steps as steps of the service.                                          *)
SameStops == \A i \in Jobs : job'[i].cancel = job[i].cancel

LEMMA StopsStand == ASSUME SameStands PROVE SameStops /\ New' = New
BY DEF SameStands, SameStops, New

LEMMA MailSame == ASSUME UNCHANGED job PROVE SameMail /\ SameStands
BY DEF SameMail, SameStands

LEMMA RunsSame == ASSUME UNCHANGED ghost PROVE SameRuns
BY DEF SameRuns

LEMMA ServeNothing ==
  ASSUME PhasesSame, SameStops, SameRuns, SameMail PROVE UNCHANGED Service!vars
BY DEF PhasesSame, SameStops, SameRuns, SameMail, Service!vars

LEMMA ServeMove ==
  ASSUME NEW j \in Jobs, OthersSame(j), SameStops, SameRuns, SameMail
  PROVE  /\ Phase(j) = "new" /\ Phase(j)' = "waiting" => Service!Submit(j)
         /\ Phase(j) = "waiting" /\ Phase(j)' = "held" => Service!Take(j)
         /\ Phase(j) = "held" /\ Phase(j)' = "waiting" => Service!Back(j)
         /\ Phase(j) = "held" /\ Phase(j)' = "over" => Service!Over(j)
         /\ Phase(j) = "waiting" /\ Phase(j)' = "cancelled" => Service!Refuse(j)
         /\ /\ Phase(j) = "over" /\ Phase(j)' = (IF job[j].cancel THEN "cancelled" ELSE "ended")
            /\ job[j].received = job[j].send
            => Service!Close(j)
<1>1. /\ UNCHANGED <<[i \in Jobs |-> job[i].cancel], [i \in Jobs |-> ghost[i].runs],
                     [i \in Jobs |-> job[i].send], [i \in Jobs |-> job[i].received]>>
  BY DEF SameStops, SameRuns, SameMail
<1>2. ASSUME NEW a, NEW b, Phase(j) = a, Phase(j)' = b PROVE Service!Moves(j, a, b)
  BY <1>2 DEF Service!Moves, OthersSame
<1> QED BY <1>1, <1>2 DEF Service!Submit, Service!Take, Service!Back, Service!Over, Service!Refuse, Service!Close, Service!counters

LEMMA ServeMoves ==
  ASSUME NEW j \in Jobs,
         Service!Submit(j) \/ Service!Take(j) \/ Service!Back(j) \/ Service!Over(j) \/ Service!Refuse(j) \/ Service!Close(j)
  PROVE  Service!Next
BY DEF Service!Next

(* A step that submits, takes or lets go of one job, and no other.         *)
LEMMA PhaseMoves ==
  ASSUME Home, Home', Calmly, SameFinals, NEW j \in Jobs,
         \A i \in Jobs \ {j} : (i \in New <=> i \in New') /\ (i \in Held <=> i \in Held')
  PROVE  OthersSame(j)
BY PhaseWay DEF OthersSame

LEMMA PhasesKept ==
  ASSUME Home, Home', Calmly, SameFinals, New' = New, Held' = Held PROVE PhasesSame
BY PhaseWay DEF PhasesSame

LEMMA CarrierHeld ==
  ASSUME Home, NEW t \in Threads, Carrier(t) PROVE Held' = Held
<1>1. PICK r : Becomes1(t, r) /\ Carried(r, t)
  BY CarrierIs DEF CarriedOn, Home
<1> QED BY <1>1, HeldKept DEF Becomes1, Carried, Home, PlaceInv

LEMMA ServeStanding ==
  ASSUME Home, Home', Unasked, Calmly, SameFinals, Standing PROVE [Service!Next]_(Service!vars)
<1>0. CoreInv /\ CountsRight /\ Unsent /\ Single
  BY DEF Home, SilentInv, PlaceInv
<1>1. ASSUME NEW j \in Jobs, Run(j) \/ RunDirect(j), BornOf(j), j \in New PROVE Service!Submit(j)
  <2>1. UNCHANGED <<ghost, thread>> /\ job' = Born(j) /\ job[j].mem = "unborn"
    BY <1>1 DEF Run, RunDirect
  <2>2. SameRuns /\ SameMail /\ Held' = Held
    BY <1>0, <2>1, RunsSame, BornMail, HeldSame
  <2>3. j \notin New' /\ (\A i \in Jobs \ {j} : i \in New <=> i \in New') /\ ~job[j].cancel /\ ~job'[j].cancel
    BY <1>1 DEF BornOf, New, Unasked
  <2>4. job[j].cancel \in BOOLEAN /\ job'[j].cancel \in BOOLEAN
    BY DEF Home, CoreInv, Types, JobRec
  <2>5. SameStops
    BY <1>1, <2>3, <2>4 DEF BornOf, SameStops
  <2>6. OthersSame(j) /\ Phase(j) = "new" /\ Phase(j)' = "waiting"
    BY <1>1, <2>2, <2>3, PhaseMoves, PhaseWay
  <2> QED BY <2>2, <2>5, <2>6, ServeMove
<1>2. ASSUME NEW j \in Jobs, AskedOf(j), j \notin Dead \cup New, UNCHANGED ghost, Held' = Held, SameMail PROVE Service!Ask(j)
  <2>1. New' = New
    BY <1>2 DEF AskedOf, New
  <2>2. PhasesSame
    BY <1>2, <2>1, PhasesKept
  <2>3. Phase(j) \in {"waiting", "held", "over"}
    BY <1>2, PhaseIs DEF PhasesRight, PhaseHere
  <2>4. [i \in Jobs |-> job'[i].cancel] = [[i \in Jobs |-> job[i].cancel] EXCEPT ![j] = TRUE]
    BY <1>2 DEF AskedOf
  <2> QED BY <1>2, <2>2, <2>3, <2>4 DEF Service!Ask, Service!counters, PhasesSame, SameMail
<1>3. ASSUME NEW j \in Jobs, CancelMark, AskedOf(j), j \notin Dead \cup New PROVE Service!Ask(j)
  <2>1. UNCHANGED <<ghost, thread>> /\ job' = [job EXCEPT ![Top.on].cancel = TRUE]
    BY <1>3 DEF CancelMark
  <2>2. SameMail
    BY <1>0, <2>1, FieldsKept, MailOf
  <2> QED BY <1>0, <1>2, <1>3, <2>1, <2>2, HeldSame
<1>4. ASSUME NEW t \in Threads, CancelSelf(t), NEW j \in Held, j = Work(t), AskedOf(j) PROVE Service!Ask(j)
  <2>1. UNCHANGED ghost /\ job' = [job EXCEPT ![j].cancel = TRUE]
    BY <1>4 DEF CancelSelf
  <2>2. SameMail
    BY <1>0, <2>1, FieldsKept, MailOf
  <2>3. Held' = Held
    BY <1>4, CarrierHeld DEF Carrier
  <2>4. j \in Jobs /\ j \notin Dead \cup New
    BY <1>4, HeldLives DEF Home
  <2> QED BY <1>2, <1>4, <2>1, <2>2, <2>3, <2>4
<1>5. ASSUME NEW j \in Jobs, Failed \/ KillDone, FreedOf(j), j \notin New PROVE UNCHANGED Service!vars
  <2>1. UNCHANGED <<ghost, thread>> /\ \E k : job' = [job EXCEPT ![k].mem = "freed"]
    BY <1>5 DEF Failed, KillDone, Freed
  <2>2. SameMail
    BY <1>0, <2>1, FieldsKept, MailOf
  <2>3. New' = New /\ SameStops
    BY <1>5 DEF FreedOf, New, SameStops
  <2>4. PhasesSame
    BY <1>0, <2>1, <2>3, HeldSame, PhasesKept
  <2> QED BY <2>1, <2>2, <2>3, <2>4, ServeNothing, RunsSame
<1>6. Held \subseteq Jobs
  BY DEF Held
<1>7. ASSUME NEW j \in Jobs, Service!Ask(j) PROVE Service!Next
  BY <1>7 DEF Service!Next
<1> QED BY <1>1, <1>3, <1>4, <1>5, <1>6, <1>7, StandingIs, ServeMoves

LEMMA ServeTaking ==
  ASSUME Home, Home', Calmly, SameFinals, Taking \/ Leaving PROVE Service!Next
<1>0. UNCHANGED ghost
  BY DEF Taking, Leaving, PickShort, PickFeedback, CreateDirect, Requeue, PostHandler, LeaveDirect
<1>1. SameStands /\ SameMail
  <2>1. CASE UNCHANGED job
    BY <2>1, MailSame
  <2>2. ASSUME NEW t \in Threads, Requeue(t) PROVE SameStands /\ SameMail
    <3>1. job' = [job EXCEPT ![Work(t)].reschedule = FALSE]
      BY <2>2 DEF Requeue
    <3> QED BY <2>2, <3>1, StandField, RequeueFields, MailOf DEF Home
  <2> QED BY <2>1, <2>2 DEF Taking, Leaving, PickShort, PickFeedback, CreateDirect, PostHandler, LeaveDirect
<1>2. SameStops /\ New' = New /\ SameRuns
  BY <1>0, <1>1, StopsStand, RunsSame
<1>3. CASE Taking
  <2>1. PICK j \in Jobs : j \notin Held /\ Held' = Held \cup {j}
    BY <1>3, TakingIs DEF HeldOneMore
  <2>2. OthersSame(j) /\ Phase(j) = "waiting" /\ Phase(j)' = "held"
    BY <1>2, <2>1, PhaseMoves, PhaseWay
  <2> QED BY <1>1, <1>2, <2>2, ServeMove, ServeMoves
<1>4. CASE Leaving
  <2>1. PICK j \in Held : Held' = Held \ {j}
    BY <1>4, LeavingIs DEF HeldOneLess
  <2>2. j \in Jobs
    BY DEF Held
  <2>3. OthersSame(j) /\ Phase(j) = "held" /\ Phase(j)' \in {"waiting", "over"}
    BY <1>2, <2>1, <2>2, PhaseMoves, PhaseWay
  <2> QED BY <1>1, <1>2, <2>2, <2>3, ServeMove, ServeMoves
<1> QED BY <1>3, <1>4

LEMMA ServeEntering ==
  ASSUME Home, Home', Calmly, SameFinals, NEW t \in Threads, Entering(t) PROVE Service!Next
<1>0. PICK w \in Jobs : w = Work(t) /\ w \in Held /\ EnteredBy(w) /\ (job[w].cancel => w \in Direct)
  BY EnteringIs DEF Held
<1>1. w \in Held /\ EnteredBy(w) /\ (job[w].cancel => w \in Direct)
  BY <1>0
<1>2. w \in Jobs /\ w \notin New /\ w \notin Dead
  BY <1>1, HeldLives DEF Home
<1>3. job' = [job EXCEPT ![w].self = t]
  BY <1>0 DEF Entering, Start, StartDirect
<1>4. SameStands /\ SameMail
  BY <1>3, StandField, FieldsKept, MailOf DEF Home
<1>5. Held' = Held
  BY CarrierHeld DEF Entering, Carrier
<1>6. PhasesSame
  BY <1>4, <1>5, StopsStand, PhasesKept
<1>7. Phase(w) = "held"
  BY <1>1, <1>2, PhaseIs DEF PhasesRight, PhaseHere
<1>8. [i \in Jobs |-> ghost'[i].runs] = [[i \in Jobs |-> ghost[i].runs] EXCEPT ![w] = @ + 1]
  BY <1>2, <1>1 DEF EnteredBy
<1>9. Service!Enter(w)
  BY <1>1, <1>2, <1>4, <1>6, <1>7, <1>8 DEF Service!Enter, PhasesSame, SameStands, SameMail
<1> QED BY <1>2, <1>9 DEF Service!Next

LEMMA ServeSend ==
  ASSUME Home, Home', Calmly, SameFinals, NEW t \in Threads, Send(t) PROVE Service!Next
<1>1. SendPuts(Work(t))
  BY SendFields DEF Home
<1>2. PICK w \in Jobs : w = Work(t)
  BY <1>1 DEF SendPuts
<1>3. SendPuts(w)
  BY <1>1, <1>2 DEF SendPuts
<1>4. w \in Jobs /\ w \in Held /\ w \notin New /\ w \notin Dead
  BY <1>3, HeldLives DEF Home, SendPuts
<1>5. job' = [job EXCEPT ![w].send = @ + 1] /\ UNCHANGED <<ghost, thread>>
  BY <1>2 DEF Send
<1>6. SameStands
  BY <1>4, <1>5, StandCount DEF Home
<1>7. PhasesSame
  BY <1>5, <1>6, StopsStand, HeldSame, PhasesKept DEF Home, PlaceInv
<1>8. Phase(w) = "held"
  BY <1>4, PhaseIs DEF PhasesRight, PhaseHere
<1>9. /\ [i \in Jobs |-> job'[i].send] = [[i \in Jobs |-> job[i].send] EXCEPT ![w] = @ + 1]
      /\ [i \in Jobs |-> job'[i].received] = [i \in Jobs |-> job[i].received]
  BY <1>3, <1>4 DEF SendPuts
<1>10. SameRuns
  BY <1>5, RunsSame
<1>11. Service!Send(w)
  BY <1>4, <1>6, <1>7, <1>8, <1>9, <1>10 DEF Service!Send, PhasesSame, SameStands, SameRuns
<1> QED BY <1>4, <1>11 DEF Service!Next

LEMMA ServeNotify ==
  ASSUME Home, Home', Calmly, SameFinals, NEW j \in Jobs, Notify(j) PROVE Service!Next
<1>0. CoreInv /\ CountsRight
  BY DEF Home
<1>1. job' = [job EXCEPT ![j].received = @ + 1] /\ UNCHANGED <<ghost, thread>>
  BY DEF Notify
<1>2. SameStands /\ SameRuns
  BY <1>0, <1>1, StandCount, RunsSame
<1>3. PhasesSame
  BY <1>1, <1>2, StopsStand, HeldSame, PhasesKept DEF Home, PlaceInv
<1>4. Owing(j)
  BY <1>0, CountsNotify
<1>5. j \notin Dead \cup New
  BY <1>4, NotifyOwes DEF Home
<1>6. Phase(j) \in {"waiting", "held", "over"}
  BY <1>5, PhaseIs DEF PhasesRight, PhaseHere
<1>7. job[j].received < job[j].send
  <2>1. /\ job[j].send = job[j].received + Cardinality(Queued(calls, j)) + Cardinality(Flushed(stack, j))
        /\ IsFiniteSet(Flushed(stack, j)) /\ calls \in Seq(Call)
        /\ job[j].received \in Nat /\ job[j].send \in Nat
    BY <1>0 DEF CountsRight, CoreInv, Types, JobRec
  <2>2. Cardinality(Flushed(stack, j)) \in Nat /\ Cardinality(Queued(calls, j)) \in Nat
    BY <2>1, FS_CardinalityType, QueuedFinite
  <2> QED BY <1>4, <2>1, <2>2 DEF Owing
<1>8. \A i \in Jobs : job'[i].send = job[i].send /\ job'[i].received = IF i = j THEN job[i].received + 1 ELSE job[i].received
  <2> DEFINE r == [job[j] EXCEPT !.received = @ + 1]
  <2>1. job' = [job EXCEPT ![j] = r]
    BY <1>1
  <2>2. r.send = job[j].send /\ r.received = job[j].received + 1
    BY <1>0 DEF CoreInv, Types, JobRec
  <2> HIDE DEF r
  <2> QED BY <1>0, <2>1, <2>2 DEF CoreInv, Types
<1>9. /\ [i \in Jobs |-> job'[i].received] = [[i \in Jobs |-> job[i].received] EXCEPT ![j] = @ + 1]
      /\ [i \in Jobs |-> job'[i].send] = [i \in Jobs |-> job[i].send]
  BY <1>8
<1>10. Service!Receive(j)
  BY <1>2, <1>3, <1>6, <1>7, <1>9 DEF Service!Receive, PhasesSame, SameStands, SameRuns
<1> QED BY <1>10 DEF Service!Next

(* The steps that end a job close it, or refuse it a thread.               *)
LEMMA ServeEnd ==
  ASSUME Home, Home', NEW j \in Jobs, Ends(j), NEW how \in {"end", "cancel"}, Report(j, how), UNCHANGED job, ~Owing(j),
         \/ Phase(j) = "over" /\ how = Outcome(j)
         \/ Phase(j) = "waiting" /\ how = "cancel"
  PROVE  Service!Next
<1>1. OthersSame(j) /\ Phase(j)' = IF how = "end" THEN "ended" ELSE "cancelled"
  BY PhaseEnds
<1>2. SameStops /\ SameMail /\ SameRuns
  BY MailSame, StopsStand, ReportRuns DEF Home, FinalInv
<1>3. job[j].received = job[j].send
  BY DEF Owing
<1>4. Service!Close(j) \/ Service!Refuse(j)
  BY <1>1, <1>2, <1>3, ServeMove DEF Outcome
<1> QED BY <1>4, ServeMoves

LEMMA OverHere ==
  ASSUME Home, NEW j \in Jobs, NEW x \in OverSites, j \in Site(x) PROVE Phase(j) = "over"
<1>1. x \in Sites /\ x \notin {"new", "thread"} /\ x \notin DeadSites
  BY DEF OverSites, DeadSites, Sites, StackSites
<1>2. Sited(j, x)
  BY <1>1, SitedAt DEF Home, AllSited
<1> QED BY <1>1, <1>2, PhaseIs DEF Sited, PhasesRight, PhaseHere

LEMMA WaitingHere ==
  ASSUME Home, NEW j \in Jobs, j \in Entries(pendShort) \cup Entries(pendFeedback) PROVE Phase(j) = "waiting"
<1>1. ASSUME NEW x \in {"short", "feedback"}, j \in Site(x) PROVE Phase(j) = "waiting"
  <2>1. x \in Sites /\ x \in WaitSites
    BY DEF WaitSites, Sites
  <2>2. Sited(j, x)
    BY <1>1, <2>1, SitedAt DEF Home, AllSited
  <2> QED BY <2>1, <2>2, PhaseIs DEF Sited, PhasesRight, PhaseHere
<1> QED BY <1>1, SiteIs

LEMMA ServeEnding ==
  ASSUME Home, Home', CalmHere, [Next]_vars, Ending PROVE [Service!Next]_(Service!vars)
<1>0. CoreInv /\ ShapeInv /\ PlaceInv /\ OpenInv /\ CountsRight /\ SilentInv /\ Single /\ SpeakInv
  BY DEF Home, PlaceInv
<1>1. UNCHANGED <<job, thread>>
  BY DEF Ending, RetryFails, OnError, NotifyKills, HandlerKills
<1>2. ASSUME Calmly, UNCHANGED ghost PROVE UNCHANGED Service!vars
  <2>1. SameFinals /\ New' = New /\ Held' = Held
    BY <1>0, <1>1, <1>2, HeldSame DEF SameFinals, Home, FinalInv, New
  <2>2. PhasesSame
    BY <1>2, <2>1, PhasesKept
  <2> QED BY <1>1, <1>2, <2>2, MailSame, StopsStand, RunsSame, ServeNothing
<1>3. ASSUME NEW j \in Jobs, KillsOf(j), ~Owing(j), Phase(j) = "over" PROVE [Service!Next]_(Service!vars)
  <2>1. Outcome(j) \in {"end", "cancel"}
    BY DEF Outcome
  <2>2. CASE Ends(j) /\ Report(j, Outcome(j))
    <3>1. PICK how \in {"end", "cancel"} : how = Outcome(j)
      BY <2>1
    <3>2. Report(j, how)
      BY <2>2, <3>1
    <3> QED BY <1>1, <1>3, <2>2, <3>1, <3>2, ServeEnd
  <2>3. CASE Calmly /\ Broken
    BY <1>2, <2>3 DEF Broken
  <2> QED BY <1>3, <2>2, <2>3 DEF KillsOf
<1>4. ASSUME NEW j \in Jobs, HandlerKills(j), ~RetryFails, ~OnError, ~NotifyKills PROVE [Service!Next]_(Service!vars)
  <2>1. KillsOf(j)
    BY <1>0, <1>4, HandlerKillsPlace
  <2>2. ~Owing(j)
    BY <1>0, <1>4, EndOwesNothing
  <2>3. j \in Site("todo") /\ "todo" \in OverSites
    BY <1>0, <1>4, RestTaken, SiteIs DEF HandlerKills, StackSites, OverSites
  <2>4. Phase(j) = "over"
    BY <2>3, OverHere
  <2> QED BY <1>3, <2>1, <2>2, <2>4
<1>5. CASE NotifyKills
  <2>0. Top.kind = "notify" /\ job[Top.on].kill /\ ~Owing(Top.on)
    BY <1>5 DEF NotifyKills, At
  <2>1. Top.on \notin Dead
    BY <1>0, <2>0, SpeakerLives DEF Speakers
  <2>2. Top.on \in Jobs /\ KillsOf(Top.on)
    BY <1>0, <1>5, <2>1, NotifyKillsPlace
  <2>3. PICK j \in Jobs : j = Top.on
    BY <2>2
  <2>4. KillsOf(j) /\ ~Owing(j) /\ j \notin Dead /\ j \in Killed
    BY <2>0, <2>1, <2>2, <2>3 DEF Killed
  <2>5. Over(j)
    BY <1>0, <2>4, StationIs
  <2>6. Phase(j) = "over"
    BY <2>5, OverHere DEF Over
  <2> QED BY <1>3, <2>4, <2>6
<1>6. CASE RetryFails \/ OnError
  <2>1. count = 0 => Top.on \in Entries(pendShort) \cup Entries(pendFeedback)
    BY <1>0, <1>6, GivenUp
  <2>2. Top.on \in Jobs /\ GivesOf(Top.on)
    BY <1>0, <1>6, <2>1, GiveUpPlace
  <2>3. PICK j \in Jobs : j = Top.on
    BY <2>2
  <2>4. GivesOf(j)
    BY <2>2, <2>3
  <2>5. ~NotifyKills
    BY <1>0, <1>6, GiveUpForms DEF NotifyKills, At
  <2>6. ~Owing(j)
    BY <1>0, <1>6, <2>3, <2>5, EndOwesNothing
  <2>7. CASE Ends(j) /\ Report(j, "cancel")
    <3>1. count = 0
      <4> SUFFICES ASSUME count # 0 PROVE FALSE
        OBVIOUS
      <4>1. UNCHANGED ghost
        BY <1>6 DEF RetryFails, OnError, GiveUp
      <4>2. j \notin Dead /\ j \in Dead'
        BY <2>7 DEF Ends
      <4>3. Len(ghost[j].final) = 0 /\ Len(ghost'[j].final) = 1
        BY <4>2 DEF Home, FinalInv
      <4> QED BY <4>1, <4>3
    <3>2. Phase(j) = "waiting"
      BY <2>1, <2>3, <3>1, WaitingHere
    <3> QED BY <1>1, <2>6, <2>7, <3>2, ServeEnd
  <2>8. CASE Calmly /\ UNCHANGED ghost
    BY <1>2, <2>8
  <2> QED BY <2>4, <2>7, <2>8 DEF GivesOf
<1> QED BY <1>4, <1>5, <1>6 DEF Ending

LEMMA ServeStep ==
  ASSUME Home, Home', Unasked, CalmHere, [Next]_vars PROVE [Service!Next]_(Service!vars)
<1>1. CASE Ending
  BY <1>1, ServeEnding
<1>2. CASE ~Ending
  <2>0. Calmly /\ SameFinals
    BY <1>2, NextCalm, GhostKept DEF Home, FinalInv
  <2>1. CASE Standing
    BY <2>0, <2>1, ServeStanding
  <2>2. CASE Taking \/ Leaving
    BY <2>0, <2>2, ServeTaking
  <2>3. CASE \E t \in Threads : Entering(t) \/ Send(t)
    BY <2>0, <2>3, ServeEntering, ServeSend
  <2>4. CASE \E j \in Jobs : Notify(j)
    BY <2>0, <2>4, ServeNotify
  <2>5. CASE /\ ~Standing /\ ~Taking /\ ~Leaving
             /\ \A t \in Threads : ~Entering(t) /\ ~Send(t)
             /\ \A j \in Jobs : ~Notify(j)
    <3>1. SameStops /\ New' = New
      BY <2>5, StandStep, StopsStand DEF Home
    <3>2. Held' = Held
      BY <2>5, HeldStep
    <3>3. SameRuns
      BY <1>2, <2>5, RunsStep
    <3>4. ASSUME NEW j \in Jobs PROVE job'[j].send = job[j].send /\ job'[j].received = job[j].received
      <4>1. SameMailOf(j) \/ Sends(j) \/ Notify(j)
        BY MailStep DEF Home, SilentInv
      <4> QED BY <2>5, <4>1 DEF SameMailOf, Sends
    <3>5. SameMail
      BY <3>4 DEF SameMail
    <3>6. PhasesSame
      BY <2>0, <3>1, <3>2, PhasesKept
    <3> QED BY <3>1, <3>3, <3>5, <3>6, ServeNothing
  <2> QED BY <2>1, <2>2, <2>3, <2>4, <2>5
<1> QED BY <1>1, <1>2

LEMMA ServeInit ==
  ASSUME Init, Home PROVE Service!Init
<1>1. \A j \in Jobs : /\ j \in New /\ job[j].cancel = FALSE /\ job[j].send = 0 /\ job[j].received = 0
                      /\ ghost[j].runs = 0
  BY DEF Init, NewJob, NewGhost, New
<1>2. \A j \in Jobs : Phase(j) = "new"
  BY <1>1, PhaseIs DEF PhasesRight, PhaseHere
<1> QED BY <1>1, <1>2 DEF Service!Init

(* Ecore_Thread implements the service: seen without its threads, lists,   *)
(* locks and safe calls, every step of the code submits a job, hands it    *)
(* over, runs it, delivers a message, or closes it with the callback the   *)
(* service prescribes - or changes nothing the service knows of.           *)
THEOREM ServiceKept ==
  ASSUME CalmHere, Granted PROVE SafetySpec => ServiceSpec
<1> DEFINE Inv == Home /\ Unasked
<1>1. Init => Inv
  BY HomeInit, UnaskedInit
<1>2. Inv /\ [Next]_vars => Inv'
  BY HomeStep, UnaskedStep
<1>3. Init => Service!Init
  BY HomeInit, ServeInit
<1>4. Inv /\ Inv' /\ [Next]_vars => [Service!Next]_(Service!vars)
  BY ServeStep
<1> QED BY <1>1, <1>2, <1>3, <1>4, PTL DEF SafetySpec, ServiceSpec, Service!Spec
=============================================================================
