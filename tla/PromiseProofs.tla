--------------------------- MODULE PromiseProofs ---------------------------
(***************************************************************************)
(* Proofs about Promise for every number of futures, promises, promises of *)
(* the library and activations: the links, calls and activations of chains *)
(* fit together whatever callbacks do, so that a future is called once and *)
(* in the order of its chain, and none is forgotten.                       *)
(***************************************************************************)
EXTENDS Promise, ListLemmas

-----------------------------------------------------------------------------
(* The head of a chain.                                                    *)

(* A function that is applied n times.                                     *)
Iterates(u, S, N, f, F) ==
  u \in [0 .. N -> S] /\ \A n \in 0 .. N : u[n] = IF n = 0 THEN f ELSE F[u[n - 1]]

LEMMA Iterated ==
  ASSUME NEW S, NEW N \in Nat, NEW f \in S, NEW F \in [S -> S]
  PROVE  \E u : Iterates(u, S, N, f, F)
<1> DEFINE Upto(u, k) == \A n \in 0 .. k : u[n] = IF n = 0 THEN f ELSE F[u[n - 1]]
           Found(k) == \E u \in [0 .. k -> S] : Upto(u, k)
           bad == {k \in Nat : ~Found(k)}
<1>1. Found(0)
  <2> DEFINE u == [n \in 0 .. 0 |-> f]
  <2>1. u \in [0 .. 0 -> S] /\ \A n \in 0 .. 0 : n = 0 /\ u[n] = f
    OBVIOUS
  <2> QED BY <2>1
<1>2. ASSUME NEW k \in Nat, Found(k) PROVE Found(k + 1)
  <2>1. PICK u \in [0 .. k -> S] : Upto(u, k)
    BY <1>2
  <2> DEFINE v == [n \in 0 .. k + 1 |-> IF n = k + 1 THEN F[u[k]] ELSE u[n]]
  <2>2. /\ v \in [0 .. k + 1 -> S]
        /\ v[k + 1] = F[u[k]] /\ \A n \in 0 .. k : v[n] = u[n]
    OBVIOUS
  <2> HIDE DEF v
  <2>3. ASSUME NEW n \in 0 .. k + 1 PROVE v[n] = IF n = 0 THEN f ELSE F[v[n - 1]]
    <3>1. CASE n = k + 1
      BY <2>2, <3>1
    <3>2. CASE n # k + 1
      <4>1. n \in 0 .. k /\ (n # 0 => n - 1 \in 0 .. k)
        BY <3>2
      <4> QED BY <2>1, <2>2, <4>1
    <3> QED BY <3>1, <3>2
  <2> QED BY <2>2, <2>3
<1>3. bad = {}
  <2> SUFFICES ASSUME bad # {} PROVE FALSE
    OBVIOUS
  <2>1. bad \in SUBSET Nat
    OBVIOUS
  <2>2. PICK k \in bad : \A y \in bad : k <= y
    <3> HIDE DEF bad
    <3> QED BY <2>1, Least
  <2>3. k \in Nat /\ ~Found(k)
    OBVIOUS
  <2>4. k # 0
    BY <1>1, <2>3
  <2>5. k - 1 \in Nat /\ (k - 1) + 1 = k /\ k - 1 \notin bad
    <3>1. k - 1 \in Nat /\ (k - 1) + 1 = k /\ ~(k <= k - 1)
      BY <2>3, <2>4
    <3> QED BY <2>2, <3>1
  <2>6. Found(k - 1)
    BY <2>5
  <2> HIDE DEF Found, bad
  <2>7. Found((k - 1) + 1)
    BY <1>2, <2>5, <2>6
  <2> QED BY <2>3, <2>5, <2>7
<1>4. Found(N)
  <2> HIDE DEF Found
  <2> QED BY <1>3
<1> QED BY <1>4 DEF Iterates

(* What is known of the links of a state, as far as a chain is concerned:  *)
(* a future comes after those it was chained to.                           *)
Known == {f \in Futures : future[f].mem # "unborn"}

FutureRecord ==
  [mem : {"unborn", "live", "freed"}, cb : {"none", "user", "inner", "dispatched"},
   next : Futures \cup {None}, prev : Futures \cup {None},
   promise : Promises \cup {None}, entry : BOOLEAN]

(* A function that changes at some arguments within its range.             *)
LEMMA PutOne ==
  ASSUME NEW D, NEW R, NEW F \in [D -> R], NEW x \in D, NEW r \in R
  PROVE  /\ [F EXCEPT ![x] = r] \in [D -> R]
         /\ [F EXCEPT ![x] = r][x] = r
         /\ \A y \in D : y # x => [F EXCEPT ![x] = r][y] = F[y]
OBVIOUS

Descending ==
  \A f \in Futures : future[f].prev # None => future[f].prev \in Known /\ future[f].prev < f

(* A set of futures closed under prev has the head of each of its members. *)
LEMMA HeadRight ==
  ASSUME future \in [Futures -> FutureRecord], Descending,
         NEW S \in SUBSET Futures, \A g \in S : future[g].prev # None => future[g].prev \in S,
         NEW f \in S
  PROVE  HeadOf(f) \in S /\ future[HeadOf(f)].prev = None
<1> DEFINE F == [g \in S |-> IF future[g].prev = None THEN g ELSE future[g].prev]
           N == MaxFutures
           Up(u) == [n \in 0 .. N |-> IF n = 0 THEN f
                                      ELSE IF future[u[n - 1]].prev = None THEN u[n - 1]
                                      ELSE future[u[n - 1]].prev]
<1>0. N \in Nat /\ Futures = 1 .. N
  BY BoundsAssumption DEF Futures
<1>Int. /\ \A x \in S : x \in Int
        /\ \A n \in 0 .. N : n \in Int
  BY <1>0
<1>1. F \in [S -> S]
  OBVIOUS
<1>2. \E u : u = Up(u)
  <2> HIDE DEF F, Up
  <2>0. PICK u : Iterates(u, S, N, f, F)
    BY <1>0, <1>1, Iterated
  <2>1. u \in [0 .. N -> S] /\ \A n \in 0 .. N : u[n] = IF n = 0 THEN f ELSE F[u[n - 1]]
    BY <2>0 DEF Iterates
  <2>2. \A n \in 0 .. N : n # 0 => n - 1 \in 0 .. N
    BY <1>0
  <2>3. \A n \in 0 .. N : u[n] = IF n = 0 THEN f ELSE IF future[u[n - 1]].prev = None THEN u[n - 1]
                                 ELSE future[u[n - 1]].prev
    BY <2>1, <2>2 DEF F
  <2>4. u = Up(u)
    BY <2>1, <2>3 DEF Up
  <2> QED BY <2>4
<1> DEFINE u == CHOOSE u : u = Up(u)
<1>3. u = Up(u)
  BY <1>2
<1>4. HeadOf(f) = u[N]
  BY DEF HeadOf
<1> HIDE DEF u
<1>5. \A n \in 0 .. N : u[n] = IF n = 0 THEN f ELSE IF future[u[n - 1]].prev = None THEN u[n - 1]
                               ELSE future[u[n - 1]].prev
  BY <1>3
<1> DEFINE Ok(n) == u[n] \in S /\ (future[u[n]].prev = None \/ u[n] + n <= f)
           bad == {n \in 0 .. N : ~Ok(n)}
<1>6. Ok(0)
  BY <1>0, <1>5
<1>7. ASSUME NEW n \in 1 .. N, Ok(n - 1) PROVE Ok(n)
  <2>1. n - 1 \in 0 .. N /\ n \in 0 .. N /\ n # 0
    BY <1>0
  <2>2. u[n] = IF future[u[n - 1]].prev = None THEN u[n - 1] ELSE future[u[n - 1]].prev
    BY <1>5, <2>1
  <2>3. CASE future[u[n - 1]].prev = None
    BY <1>7, <2>2, <2>3
  <2>4. CASE future[u[n - 1]].prev # None
    <3>1. u[n - 1] \in S /\ u[n] \in S /\ u[n] < u[n - 1] /\ u[n - 1] + (n - 1) <= f
      BY <1>7, <2>2, <2>4 DEF Descending
    <3>2. u[n] \in Int /\ u[n - 1] \in Int /\ f \in Int /\ n \in Int
      <4> HIDE DEF F, Up, N, Ok, bad
      <4>1. n \in 0 .. N
        BY <2>1
      <4> QED BY <1>Int, <3>1, <4>1
    <3>3. u[n] + n <= f
      BY <3>1, <3>2
    <3> QED BY <3>1, <3>3
  <2> QED BY <2>3, <2>4
<1>8. bad = {}
  <2> SUFFICES ASSUME bad # {} PROVE FALSE
    OBVIOUS
  <2>1. bad \in SUBSET Nat
    BY <1>0
  <2>2. PICK k \in bad : \A y \in bad : k <= y
    <3> HIDE DEF bad
    <3> QED BY <2>1, Least
  <2>3. k \in 0 .. N /\ ~Ok(k) /\ k # 0
    BY <1>6
  <2>4. k \in 1 .. N /\ k - 1 \in 0 .. N /\ k - 1 \notin bad
    BY <1>0, <2>2, <2>3
  <2> HIDE DEF Ok
  <2>5. Ok(k - 1)
    BY <2>4
  <2> QED BY <1>7, <2>3, <2>4, <2>5
<1>9. Ok(N)
  <2> HIDE DEF Ok
  <2> QED BY <1>0, <1>8
<1>10. f \in 1 .. N /\ u[N] \in 1 .. N
  BY <1>0, <1>9
<1> QED BY <1>0, <1>4, <1>9, <1>10

-----------------------------------------------------------------------------
(* The invariant.                                                          *)

PromiseRecord == [mem : Memory, future : Futures \cup {None}, scheduler : BOOLEAN, given : BOOLEAN]
JoinRecord    == [kind : JoinKinds, mem : Memory \ {"dying"}, futures : Seq(Futures \cup {None}),
                  processed : Nat]
FrameRecord   == [kind : FrameKinds, f : Futures \cup {None}, p : Promises \cup {None}, todo : Seq(Futures)]
GhostRecord   == [calls : {0, 1}, after : Futures \cup {None}]

Types ==
  /\ future \in [Futures -> FutureRecord]
  /\ promise \in [Promises -> PromiseRecord]
  /\ join \in [Promises -> JoinRecord]
  /\ entries \in Seq(Futures)
  /\ stack \in Seq(FrameRecord) /\ Len(stack) >= 1 /\ stack[1].kind = "user"
  /\ ghost \in [Futures -> GhostRecord]

(* Futures are numbered as they are made; the links between two of them    *)
(* are those the later one was made with, until one of them is cut off.    *)
Called(f)  == ghost[f].calls = 1
Behind(f, b) == \/ future[f].prev = b
                \/ future[f].prev = None /\ (Called(b) \/ ghost[b].after = None)

ChainOK(f) ==
  /\ f \notin Known => /\ future[f].cb = "none" /\ future[f].next = None /\ future[f].prev = None
                      /\ ghost[f] = [calls |-> 0, after |-> None]
  /\ future[f].prev # None => future[f].prev = ghost[f].after
  /\ future[f].next # None => future[f].next \in Known /\ ghost[future[f].next].after = f
  /\ ghost[f].after # None => ghost[f].after \in Known /\ ghost[f].after < f /\ Behind(f, ghost[f].after)
  /\ Called(f) <=> future[f].cb = "dispatched"
  /\ Called(f) => future[f].prev = None
  /\ future[f].cb = "none" => ghost[f].after = None
  /\ future[f].mem = "freed" => future[f].cb \in {"none", "dispatched"}
  /\ Waiting(f) /\ future[f].prev # None => Waiting(future[f].prev) /\ future[future[f].prev].next = f
  /\ future[f].cb = "inner" => future[f].next = None

ChainInv ==
  /\ Born \in Nat /\ Known = 1 .. Born
  /\ \A f \in Futures : ChainOK(f)

(* Activations are about futures that were made, and are heads; those that *)
(* run the callback of a user have it above them.                          *)
IsHead(f) == f \in Known /\ future[f].prev = None

Callings == {"called", "cancelCalled"}
Chainers == Callings \cup {"dispatch", "cancel", "cancelFree"}

FrameOK(fr) ==
  /\ fr.kind \in Chainers => IsHead(fr.f)
  /\ fr.kind \in Callings \cup {"cancelFree"} => Called(fr.f)
  /\ fr.kind = "loop" => \A i \in 1 .. Len(fr.todo) : IsHead(fr.todo[i])
  /\ fr.kind \in {"dying", "answer", "clean"} => fr.p \in Promises /\ promise[fr.p].mem # "unborn"
  /\ fr.kind = "dying" => promise[fr.p].mem \in {"dying", "freed"}
  /\ fr.kind = "clean" => \A i \in 1 .. Len(fr.todo) : fr.todo[i] \in 1 .. Len(join[fr.p].futures)

UserOver(i) == i + 1 \in 1 .. Len(stack) /\ stack[i + 1].kind = "user"

FramesInv ==
  \A i \in 1 .. Len(stack) :
    /\ FrameOK(stack[i])
    /\ stack[i].kind \in Callings => future[stack[i].f].next = None \/ UserOver(i)

(* Inner futures belong to one promise of the library each, at one place.  *)
At2(p, i)     == i \in 1 .. Len(join[p].futures) /\ join[p].futures[i] # None
Missing(p, i) == IF i \in 1 .. Len(join[p].futures) /\ join[p].futures[i] = None THEN 1 ELSE 0

JoinOK(p) ==
  /\ promise[p].mem = "unborn" => join[p] = NewJoin
  /\ Len(join[p].futures) = CASE join[p].kind = "none"  -> 0
                              [] join[p].kind = "proxy" -> 1
                              [] OTHER                  -> 2
  /\ Len(join[p].futures) <= MaxFutures
  /\ \A i \in 1 .. Len(join[p].futures) :
       At2(p, i) => Waiting(join[p].futures[i]) /\ future[join[p].futures[i]].cb = "inner"
  /\ join[p].processed = Missing(p, 1) + Missing(p, 2)

JoinInv ==
  /\ \A p \in Promises : JoinOK(p)
  /\ \A p, q \in Promises : \A i, k \in {1, 2} :
       At2(p, i) /\ At2(q, k) /\ join[p].futures[i] = join[q].futures[k] => p = q /\ i = k
  /\ \A f \in Futures : future[f].cb = "inner" =>
       \E p \in Promises : \E i \in {1, 2} : At2(p, i) /\ join[p].futures[i] = f

(* Promises and heads know each other.                                     *)
LinkInv ==
  /\ \A p \in Promises : promise[p].future # None => IsHead(promise[p].future)
  /\ \A i \in 1 .. Len(entries) : IsHead(entries[i])
  /\ \A f \in Futures : Waiting(f) /\ future[f].promise # None =>
       Usable(future[f].promise) /\ promise[future[f].promise].future = f

(* Whoever goes on with h.                                                 *)
Cares(fr, h) ==
  \/ fr.kind \in Callings \cup {"cancelFree"} /\ future[fr.f].next = h
  \/ fr.kind \in {"dispatch", "cancel"} /\ fr.f = h
  \/ fr.kind = "loop" /\ future[h].entry /\ h \in ToSet(fr.todo)

Cared(h) ==
  \/ future[h].promise # None
  \/ future[h].entry /\ h \in ToSet(entries)
  \/ \E i \in 1 .. Len(stack) : Cares(stack[i], h)

CareInv == \A h \in Futures : Waiting(h) /\ future[h].prev = None => Cared(h)

(* Who will answer for p.                                                  *)
Answered(p) == CASE join[p].kind = "none" -> FALSE
                 [] join[p].kind = "all"  -> join[p].processed = 2
                 [] OTHER                 -> join[p].processed # 0

AnswerInv ==
  /\ \A p \in Promises : Usable(p) /\ promise[p].future # None => promise[p].scheduler
  /\ "failProxied" \notin Liberties =>
       \A p \in Promises : Usable(p) /\ Answered(p) =>
         \E i \in 1 .. Len(stack) : stack[i].kind = "answer" /\ stack[i].p = p

(* End of the invariant.                                                   *)

-----------------------------------------------------------------------------
(* Lists and stacks.                                                       *)

LEMMA RecallRight ==
  ASSUME NEW S, NEW s \in Seq(S), NEW e
  PROVE  /\ RemoveFirst(s, e) \in Seq(S)
         /\ ToSet(RemoveFirst(s, e)) \subseteq ToSet(s)
         /\ ToSet(s) \ {e} \subseteq ToSet(RemoveFirst(s, e))
<1> DEFINE I == {i \in 1 .. Len(s) : s[i] = e}
<1>1. DOMAIN s = 1 .. Len(s) /\ Len(s) \in Nat
  OBVIOUS
<1>2. CASE I = {}
  <2>1. RemoveFirst(s, e) = s
    BY <1>2 DEF RemoveFirst
  <2> QED BY <2>1
<1>3. CASE I # {}
  <2>1. PICK m \in 1 .. Len(s) : m \in I /\ m = Min(I)
    <3>1. I \in SUBSET Nat
      OBVIOUS
    <3>2. Min(I) \in I
      <4> HIDE DEF I
      <4> QED BY <1>3, <3>1, MinRight
    <3>3. \A x \in I : x \in 1 .. Len(s)
      OBVIOUS
    <3> HIDE DEF I
    <3> QED BY <3>2, <3>3
  <2>2. s[m] = e
    BY <2>1
  <2>3. RemoveFirst(s, e) = SubSeq(s, 1, m - 1) \o SubSeq(s, m + 1, Len(s))
    BY <1>3, <2>1 DEF RemoveFirst, RemoveAt, SelectInSeq
  <2> DEFINE a == SubSeq(s, 1, m - 1)
             b == SubSeq(s, m + 1, Len(s))
  <2>4. /\ a \in Seq(S) /\ Len(a) = m - 1 /\ \A i \in 1 .. m - 1 : a[i] = s[i]
        /\ b \in Seq(S) /\ Len(b) = Len(s) - m /\ \A i \in 1 .. Len(s) - m : b[i] = s[m + i]
    <3>1. m - 1 \in 0 .. Len(s) /\ m \in 0 .. Len(s)
      BY <1>1
    <3> HIDE DEF I
    <3>2. m \in Int /\ (m - 1) + 1 = m
      BY <1>1
    <3> QED BY <3>1, <3>2, Piece
  <2> HIDE DEF a, b, I
  <2> DEFINE r == a \o b
  <2>5. r \in Seq(S) /\ Len(r) = Len(a) + Len(b) /\ DOMAIN r = 1 .. Len(a) + Len(b)
        /\ \A i \in 1 .. Len(a) + Len(b) : r[i] = IF i <= Len(a) THEN a[i] ELSE b[i - Len(a)]
    <3>1. r \in Seq(S) /\ Len(r) = Len(a) + Len(b)
          /\ \A i \in 1 .. Len(a) + Len(b) : r[i] = IF i <= Len(a) THEN a[i] ELSE b[i - Len(a)]
      BY <2>4, ConcatProperties
    <3> HIDE DEF r
    <3> QED BY <3>1
  <2> HIDE DEF r
  <2>6. /\ DOMAIN r = 1 .. Len(s) - 1
        /\ \A i \in 1 .. Len(s) - 1 : r[i] = s[IF i < m THEN i ELSE i + 1]
    <3>1. Len(a) + Len(b) = Len(s) - 1 /\ Len(a) = m - 1
      BY <1>1, <2>4
    <3>2. ASSUME NEW i \in 1 .. Len(s) - 1 PROVE r[i] = s[IF i < m THEN i ELSE i + 1]
      <4>1. CASE i < m
        <5>1. i \in 1 .. Len(a) + Len(b) /\ i <= Len(a)
          BY <1>1, <3>1, <4>1
        <5>2. r[i] = a[i]
          BY <2>5, <5>1
        <5> QED BY <2>4, <4>1, <5>1, <5>2
      <4>2. CASE ~(i < m)
        <5>1. i - (m - 1) \in 1 .. Len(s) - m /\ m + (i - (m - 1)) = i + 1 /\ ~(i <= m - 1)
          BY <1>1, <4>2
        <5>2. r[i] = b[i - (m - 1)]
          BY <2>5, <3>1, <5>1
        <5> QED BY <2>4, <4>2, <5>1, <5>2
      <4> QED BY <4>1, <4>2
    <3> QED BY <2>5, <3>1, <3>2
  <2>7. ToSet(r) \subseteq ToSet(s)
    <3>1. ASSUME NEW i \in 1 .. Len(s) - 1 PROVE r[i] \in ToSet(s)
      <4>1. (IF i < m THEN i ELSE i + 1) \in 1 .. Len(s)
        BY <1>1
      <4> QED BY <1>1, <2>6, <4>1 DEF ToSet
    <3> QED BY <2>6, <3>1 DEF ToSet
  <2>8. ToSet(s) \ {e} \subseteq ToSet(r)
    <3>1. ASSUME NEW i \in 1 .. Len(s), s[i] # e PROVE \E k \in 1 .. Len(s) - 1 : r[k] = s[i]
      <4>1. i # m
        BY <2>2, <3>1
      <4>2. CASE i < m
        <5>1. i \in 1 .. Len(s) - 1
          BY <1>1, <4>2
        <5> QED BY <2>6, <4>2, <5>1
      <4>3. CASE ~(i < m)
        <5>1. i - 1 \in 1 .. Len(s) - 1 /\ ~(i - 1 < m) /\ (i - 1) + 1 = i
          BY <1>1, <4>1, <4>3
        <5> QED BY <2>6, <5>1
      <4> QED BY <4>2, <4>3
    <3>2. ASSUME NEW x \in ToSet(s), x # e PROVE x \in ToSet(r)
      <4>1. PICK i \in 1 .. Len(s) : x = s[i]
        BY <1>1 DEF ToSet
      <4>2. PICK k \in 1 .. Len(s) - 1 : r[k] = x
        BY <3>1, <3>2, <4>1
      <4> QED BY <2>6, <4>2 DEF ToSet
    <3> QED BY <3>2
  <2> QED BY <2>3, <2>5, <2>7, <2>8 DEF r, a, b
<1> QED BY <1>2, <1>3

(* The stack from its first n activations on, and new ones over them.      *)
Regrown(n, t) ==
  /\ n \in 1 .. Len(stack) /\ t \in Seq(FrameRecord)
  /\ stack' \in Seq(FrameRecord) /\ Len(stack') = n + Len(t)
  /\ \A i \in 1 .. n : stack'[i] = stack[i]
  /\ \A i \in 1 .. Len(t) : stack'[n + i] = t[i]

LEMMA Regrow ==
  ASSUME Types, NEW n \in 1 .. Len(stack), NEW t \in Seq(FrameRecord), stack' = SubSeq(stack, 1, n) \o t
  PROVE  Regrown(n, t)
<1> DEFINE b == SubSeq(stack, 1, n)
<1>1. b \in Seq(FrameRecord) /\ Len(b) = n /\ \A i \in 1 .. n : b[i] = stack[i]
  <2>1. stack \in Seq(FrameRecord) /\ n \in 0 .. Len(stack)
    BY DEF Types
  <2> QED BY <2>1, Piece
<1> HIDE DEF b
<1>2. stack' \in Seq(FrameRecord) /\ Len(stack') = Len(b) + Len(t)
      /\ \A i \in 1 .. Len(b) + Len(t) : stack'[i] = IF i <= Len(b) THEN b[i] ELSE t[i - Len(b)]
  <2>1. stack' = b \o t
    BY DEF b
  <2> QED BY <1>1, <2>1, ConcatProperties
<1>3. n \in Nat /\ Len(t) \in Nat
  BY DEF Types
<1>4. ASSUME NEW i \in 1 .. n PROVE stack'[i] = stack[i]
  BY <1>1, <1>2, <1>3
<1>5. ASSUME NEW i \in 1 .. Len(t) PROVE stack'[n + i] = t[i]
  <2>1. n + i \in 1 .. Len(b) + Len(t) /\ ~(n + i <= Len(b)) /\ (n + i) - Len(b) = i
    BY <1>1, <1>3
  <2> QED BY <1>2, <2>1
<1> QED BY <1>1, <1>2, <1>4, <1>5 DEF Regrown

-----------------------------------------------------------------------------
(* What a step may do to the links and calls of futures.                   *)
SameLinks(f) ==
  /\ future'[f].mem = future[f].mem /\ future'[f].cb = future[f].cb
  /\ future'[f].next = future[f].next /\ future'[f].prev = future[f].prev

ChainSame == ghost' = ghost /\ \A f \in Futures : SameLinks(f)

ChainFreed(x) ==
  /\ ghost' = ghost
  /\ \A g \in Futures :
       /\ future'[g].mem = IF g = x THEN "freed" ELSE future[g].mem
       /\ future'[g].cb = future[g].cb
       /\ future'[g].next = future[g].next
       /\ future'[g].prev = IF g = future[x].next THEN None ELSE future[g].prev

ChainCalled(x) ==
  /\ ghost' = [ghost EXCEPT ![x].calls = @ + 1]
  /\ \A g \in Futures :
       /\ future'[g].mem = future[g].mem
       /\ future'[g].cb = IF g = x THEN "dispatched" ELSE future[g].cb
       /\ future'[g].next = future[g].next
       /\ future'[g].prev = IF g = future[x].next THEN None ELSE future[g].prev

(* What every step keeps, and the heads that are new.                      *)
ChainKept ==
  /\ \A f \in Futures : IsHead(f) => IsHead(f)'
  /\ \A f \in Futures : Called(f) => Called(f)' /\ future'[f].next = future[f].next

AtHead(h) == Waiting(h) /\ future[h].prev = None

Heads(S) == \A h \in Futures : AtHead(h)' => AtHead(h) \/ h \in S

LEMMA KnownSame ==
  ASSUME \A f \in Futures : future'[f].mem = "unborn" <=> future[f].mem = "unborn"
  PROVE  Known' = Known /\ Born' = Born
<1>1. Known' = Known
  BY DEF Known
<1>2. Born = Cardinality(Known) /\ Born' = Cardinality(Known')
  BY DEF Born, Known
<1> QED BY <1>1, <1>2

LEMMA SameChain ==
  ASSUME Types, ChainInv, ChainSame
  PROVE  ChainInv' /\ ChainKept /\ Heads({})
<1>1. Known' = Known /\ Born' = Born
  BY KnownSame DEF ChainSame, SameLinks
<1>2. \A f \in Futures : /\ Waiting(f)' <=> Waiting(f)
                         /\ IsHead(f)' <=> IsHead(f)
                         /\ Called(f)' <=> Called(f)
  BY <1>1 DEF ChainSame, SameLinks, Waiting, Live, IsHead, Called
<1>3. ASSUME NEW f \in Futures PROVE ChainOK(f)'
  <2>1. ChainOK(f) /\ SameLinks(f) /\ ghost' = ghost
    BY DEF ChainInv, ChainSame
  <2>2. \A g \in Futures : SameLinks(g)
    BY DEF ChainSame
  <2>3. future[f].prev \in Futures \cup {None} /\ ghost[f].after \in Futures \cup {None}
    BY DEF Types, FutureRecord, GhostRecord
  <2>4. ghost[f].after # None => Behind(f, ghost[f].after)' = Behind(f, ghost[f].after)
    BY <1>2, <2>1, <2>2, <2>3 DEF Behind, SameLinks
  <2> QED BY <1>1, <1>2, <2>1, <2>2, <2>3, <2>4 DEF ChainOK, SameLinks
<1> QED BY <1>1, <1>2, <1>3 DEF ChainInv, ChainKept, Heads, AtHead, ChainSame, SameLinks

LEMMA FreedChain ==
  ASSUME Types, ChainInv, NEW x \in Futures, IsHead(x), future[x].cb \in {"none", "dispatched"}, ChainFreed(x)
  PROVE  ChainInv' /\ ChainKept /\ Heads({future[x].next})
<1> DEFINE n == future[x].next
<1>0. /\ x \in Known /\ future[x].mem # "unborn" /\ future[x].prev = None
      /\ \A f \in Futures : ChainOK(f) /\ f \in Nat /\ f # None
      /\ future[x].cb = "none" => ghost[x].after = None
      /\ future[x].cb = "dispatched" => Called(x)
  BY BoundsAssumption DEF IsHead, Known, ChainInv, ChainOK, Futures, None
<1>1. Known' = Known /\ Born' = Born
  BY <1>0, KnownSame DEF ChainFreed
<1>2. /\ ghost' = ghost /\ \A f \in Futures : Called(f)' <=> Called(f)
      /\ \A f \in Futures : /\ future'[f].cb = future[f].cb /\ future'[f].next = future[f].next
                            /\ future'[f].prev = IF f = n THEN None ELSE future[f].prev
                            /\ future'[f].mem = IF f = x THEN "freed" ELSE future[f].mem
                            /\ Waiting(f)' <=> f # x /\ Waiting(f)
                            /\ IsHead(f) => IsHead(f)'
  BY <1>1 DEF ChainFreed, Called, Waiting, Live, IsHead
<1>3. n # None => ghost[n].after = x /\ n \in Known
  BY <1>0 DEF ChainOK
<1>4. ASSUME NEW f \in Futures PROVE ChainOK(f)'
  <2>0. /\ ChainOK(f)
        /\ future[f].prev \in Futures \cup {None} /\ future[f].next \in Futures \cup {None}
        /\ ghost[f].after \in Futures \cup {None}
    BY <1>0 DEF Types, FutureRecord, GhostRecord
  <2>1. f \notin Known => /\ future'[f].cb = "none" /\ future'[f].next = None /\ future'[f].prev = None
                          /\ ghost'[f] = [calls |-> 0, after |-> None]
    BY <1>2, <2>0 DEF ChainOK
  <2>2. future'[f].prev # None => future'[f].prev = ghost'[f].after
    BY <1>2, <2>0 DEF ChainOK
  <2>3. future'[f].next # None => future'[f].next \in Known /\ ghost'[future'[f].next].after = f
    BY <1>2, <2>0 DEF ChainOK
  <2>4. ghost'[f].after # None => /\ ghost'[f].after \in Known /\ ghost'[f].after < f
                                  /\ Behind(f, ghost[f].after)'
    <3>1. CASE f = n /\ ghost[f].after # None
      <4>1. ghost[f].after = x /\ (Called(x) \/ ghost[x].after = None)
        BY <1>0, <1>3, <3>1, <2>0 DEF Types, FutureRecord
      <4>2. future'[f].prev = None /\ (Called(x)' \/ ghost'[x].after = None)
        BY <1>2, <3>1, <4>1
      <4> QED BY <1>2, <2>0, <3>1, <4>1, <4>2 DEF ChainOK, Behind
    <3>2. CASE f # n /\ ghost[f].after # None
      BY <1>2, <2>0, <3>2 DEF ChainOK, Behind
    <3> QED BY <1>2, <3>1, <3>2
  <2>5. /\ Called(f)' <=> future'[f].cb = "dispatched"
        /\ Called(f)' => future'[f].prev = None
        /\ future'[f].cb = "none" => ghost'[f].after = None
        /\ future'[f].mem = "freed" => future'[f].cb \in {"none", "dispatched"}
        /\ future'[f].cb = "inner" => future'[f].next = None
    BY <1>2, <2>0 DEF ChainOK
  <2>6. Waiting(f)' /\ future'[f].prev # None => Waiting(future[f].prev)' /\ future'[future[f].prev].next = f /\ future'[f].prev = future[f].prev
    <3> SUFFICES ASSUME Waiting(f)', future'[f].prev # None
                 PROVE  Waiting(future[f].prev)' /\ future'[future[f].prev].next = f /\ future'[f].prev = future[f].prev
      OBVIOUS
    <3> DEFINE b == future[f].prev
    <3>1. f # n /\ future'[f].prev = b /\ b \in Futures /\ Waiting(f) /\ b # None
      BY <1>2, <2>0
    <3>2. Waiting(b) /\ future[b].next = f
      BY <2>0, <3>1 DEF ChainOK
    <3>3. b # x
      BY <3>1, <3>2
    <3>4. Waiting(b)'
      BY <1>2, <3>1, <3>2, <3>3
    <3> QED BY <1>2, <3>1, <3>2, <3>4
  <2> QED BY <1>1, <1>2, <2>1, <2>2, <2>3, <2>4, <2>5, <2>6 DEF ChainOK
<1>5. ChainKept
  BY <1>2 DEF ChainKept
<1>6. Heads({n})
  BY <1>2 DEF Heads, AtHead
<1> QED BY <1>1, <1>4, <1>5, <1>6 DEF ChainInv

LEMMA CalledChain ==
  ASSUME Types, ChainInv, NEW x \in Futures, IsHead(x), future[x].cb \in {"user", "inner"}, ChainCalled(x)
  PROVE  ChainInv' /\ ChainKept /\ Heads({future[x].next})
<1> DEFINE n == future[x].next
<1>a. /\ x \in Known /\ future[x].mem # "unborn" /\ future[x].prev = None
      /\ \A f \in Futures : ChainOK(f)
  BY DEF IsHead, Known, ChainInv
<1>b. \A f \in Futures : f \in Nat /\ f # None
  BY BoundsAssumption DEF Futures, None
<1>c. ~Called(x) /\ future[x].mem # "freed"
  BY <1>a DEF ChainOK
<1>d. ghost[x].calls = 0
  BY <1>c DEF Called, Types, GhostRecord
<1>0. /\ x \in Known /\ future[x].mem # "unborn" /\ future[x].prev = None
      /\ \A f \in Futures : ChainOK(f) /\ f \in Nat /\ f # None
      /\ ~Called(x) /\ ghost[x].calls = 0 /\ future[x].mem # "freed"
  BY <1>a, <1>b, <1>c, <1>d
<1>1. Known' = Known /\ Born' = Born
  BY <1>0, KnownSame DEF ChainCalled
<1>2. /\ \A f \in Futures : /\ Called(f)' <=> f = x \/ Called(f)
                            /\ ghost'[f].after = ghost[f].after
                            /\ f # x => ghost'[f] = ghost[f]
  BY <1>0 DEF ChainCalled, Called, Types, GhostRecord
<1>3. /\ \A f \in Futures : /\ future'[f].cb = IF f = x THEN "dispatched" ELSE future[f].cb
                            /\ future'[f].next = future[f].next
                            /\ future'[f].prev = IF f = n THEN None ELSE future[f].prev
                            /\ future'[f].mem = future[f].mem
                            /\ Waiting(f)' <=> f # x /\ Waiting(f)
                            /\ IsHead(f) => IsHead(f)'
  BY <1>0, <1>1 DEF ChainCalled, Waiting, Live, IsHead
<1>4. n # None => ghost[n].after = x /\ n \in Known
  BY <1>0 DEF ChainOK
<1>7. ASSUME NEW f \in Futures PROVE ChainOK(f)'
  <2>0. /\ ChainOK(f)
        /\ future[f].prev \in Futures \cup {None} /\ future[f].next \in Futures \cup {None}
        /\ ghost[f].after \in Futures \cup {None}
    BY <1>0 DEF Types, FutureRecord, GhostRecord
  <2>1. f \notin Known => /\ future'[f].cb = "none" /\ future'[f].next = None /\ future'[f].prev = None
                          /\ ghost'[f] = [calls |-> 0, after |-> None]
    BY <1>2, <1>3, <2>0 DEF ChainOK
  <2>2. future'[f].prev # None => future'[f].prev = ghost'[f].after
    BY <1>2, <1>3, <2>0 DEF ChainOK
  <2>3. future'[f].next # None => future'[f].next \in Known /\ ghost'[future'[f].next].after = f
    BY <1>2, <1>3, <2>0 DEF ChainOK
  <2>4. ghost'[f].after # None => /\ ghost'[f].after \in Known /\ ghost'[f].after < f
                                  /\ Behind(f, ghost[f].after)'
    <3>1. CASE f = n /\ ghost[f].after # None
      <4>1. ghost[f].after = x
        BY <1>0, <1>4, <3>1, <2>0 DEF Types, FutureRecord
      <4>2. future'[f].prev = None /\ Called(x)'
        BY <1>0, <1>2, <1>3, <3>1, <4>1
      <4> QED BY <1>2, <1>3, <2>0, <3>1, <4>1, <4>2 DEF ChainOK, Behind
    <3>2. CASE f # n /\ ghost[f].after # None
      BY <1>2, <1>3, <2>0, <3>2 DEF ChainOK, Behind
    <3> QED BY <1>2, <1>3, <3>1, <3>2
  <2>5. /\ Called(f)' <=> future'[f].cb = "dispatched"
        /\ Called(f)' => future'[f].prev = None
        /\ future'[f].cb = "none" => ghost'[f].after = None
        /\ future'[f].mem = "freed" => future'[f].cb \in {"none", "dispatched"}
        /\ future'[f].cb = "inner" => future'[f].next = None
    BY <1>0, <1>2, <1>3, <2>0 DEF ChainOK
  <2>6. Waiting(f)' /\ future'[f].prev # None => Waiting(future[f].prev)' /\ future'[future[f].prev].next = f /\ future'[f].prev = future[f].prev
    <3> SUFFICES ASSUME Waiting(f)', future'[f].prev # None
                 PROVE  Waiting(future[f].prev)' /\ future'[future[f].prev].next = f /\ future'[f].prev = future[f].prev
      OBVIOUS
    <3> DEFINE b == future[f].prev
    <3>1. f # n /\ future'[f].prev = b /\ b \in Futures /\ Waiting(f) /\ b # None
      BY <1>2, <1>3, <2>0
    <3>2. Waiting(b) /\ future[b].next = f
      BY <2>0, <3>1 DEF ChainOK
    <3>3. b # x
      BY <3>1, <3>2
    <3>4. Waiting(b)'
      BY <1>2, <1>3, <3>1, <3>2, <3>3
    <3> QED BY <1>2, <1>3, <3>1, <3>2, <3>4
  <2> QED BY <1>1, <1>2, <1>3, <2>1, <2>2, <2>3, <2>4, <2>5, <2>6 DEF ChainOK
<1>8. ChainKept
  BY <1>2, <1>3 DEF ChainKept
<1>9. Heads({n})
  BY <1>2, <1>3 DEF Heads, AtHead
<1> QED BY <1>1, <1>7, <1>8, <1>9 DEF ChainInv

(* New futures, each at the end of a chain or at the head of a new one.    *)
Newcomers == Known' \ Known

GrownAt(f) ==
  /\ future'[f].mem = "live" /\ future'[f].cb \in {"none", "user", "inner"} /\ future'[f].next = None
  /\ ghost'[f].calls = 0
  /\ future'[f].prev = ghost'[f].after
  /\ future'[f].cb = "none" <=> ghost'[f].after = None
  /\ ghost'[f].after # None => /\ ghost'[f].after \in Known /\ Waiting(ghost'[f].after)
                               /\ future'[ghost'[f].after].next = f

ChainGrown ==
  /\ Born' \in Nat /\ Born <= Born' /\ Known' = 1 .. Born'
  /\ \A f \in Futures \ Newcomers :
       /\ future'[f].mem = future[f].mem /\ future'[f].cb = future[f].cb /\ future'[f].prev = future[f].prev
       /\ ghost'[f] = ghost[f]
       /\ \/ future'[f].next = future[f].next
          \/ /\ Waiting(f) /\ future[f].cb # "inner" /\ future[f].next = None
             /\ future'[f].next \in Newcomers /\ ghost'[future'[f].next].after = f
  /\ \A f \in Newcomers : GrownAt(f)

LEMMA GrownChain ==
  ASSUME Types, Types', ChainInv, ChainGrown
  PROVE  ChainInv' /\ ChainKept /\ Heads({f \in Newcomers : future'[f].cb = "none"})
<1>0. /\ Born \in Nat /\ Born' \in Nat /\ Born <= Born' /\ Known = 1 .. Born /\ Known' = 1 .. Born'
      /\ Known \subseteq Futures /\ Known' \subseteq Futures
      /\ \A f \in Futures : ChainOK(f) /\ f \in Nat /\ f # None
  BY BoundsAssumption DEF Known, ChainInv, ChainGrown, Futures, None
<1>1. Known \subseteq Known' /\ \A f \in Newcomers : f \in Known' /\ f \notin Known /\ f \in Futures /\ f > Born
  BY <1>0 DEF Newcomers
<1>2. ASSUME NEW f \in Futures, f \notin Newcomers
      PROVE  /\ future'[f].mem = future[f].mem /\ future'[f].cb = future[f].cb
             /\ future'[f].prev = future[f].prev /\ ghost'[f] = ghost[f]
             /\ f \in Known' <=> f \in Known
             /\ IsHead(f)' <=> IsHead(f)
             /\ Called(f)' <=> Called(f)
             /\ Waiting(f)' <=> Waiting(f)
             /\ Called(f) => future'[f].next = future[f].next
  <2>1. ChainOK(f)
    BY <1>0
  <2>2. f \in Known' <=> f \in Known
    BY <1>1, <1>2 DEF Newcomers
  <2>3. /\ future'[f].mem = future[f].mem /\ future'[f].cb = future[f].cb
        /\ future'[f].prev = future[f].prev /\ ghost'[f] = ghost[f]
        /\ Waiting(f) \/ future'[f].next = future[f].next
    BY <1>2 DEF ChainGrown
  <2> QED BY <2>1, <2>2, <2>3 DEF IsHead, Called, Waiting, Live, ChainOK
<1>3. \A f \in Newcomers : GrownAt(f)
  BY DEF ChainGrown
<1>4. ASSUME NEW f \in Futures PROVE ChainOK(f)'
  <2>1. CASE f \in Newcomers
    <3>1. GrownAt(f) /\ f \in Known' /\ f > Born
      BY <1>1, <1>3, <2>1
    <3>2. CASE ghost'[f].after = None
      BY <3>1, <3>2 DEF ChainOK, GrownAt, Called, Waiting, Live
    <3>3. CASE ghost'[f].after # None
      <4>1. PICK b \in Futures : b = ghost'[f].after
        BY <1>0, <3>1, <3>3 DEF GrownAt
      <4>2. b \in Known /\ b # None /\ b \notin Newcomers /\ b < f /\ Waiting(b) /\ future'[b].next = f
        BY <1>0, <3>1, <3>3, <4>1 DEF GrownAt, Newcomers
      <4>3. Waiting(b)' /\ b \in Known'
        BY <1>1, <1>2, <4>2
      <4>4. /\ future'[f].prev = b /\ future'[f].next = None /\ future'[f].mem = "live"
            /\ future'[f].cb \in {"user", "inner"} /\ ghost'[f].calls = 0
        BY <3>1, <3>3, <4>1 DEF GrownAt
      <4>5. ~Called(f)' /\ Behind(f, b)'
        BY <4>4 DEF Called, Behind
      <4>6. f \in Known'
        BY <3>1
      <4> QED BY <4>1, <4>2, <4>3, <4>4, <4>5, <4>6 DEF ChainOK
    <3> QED BY <3>2, <3>3
  <2>2. CASE f \notin Newcomers
    <3>0. /\ ChainOK(f)
          /\ future[f].prev \in Futures \cup {None} /\ future[f].next \in Futures \cup {None}
          /\ ghost[f].after \in Futures \cup {None}
      BY <1>0 DEF Types, FutureRecord, GhostRecord
    <3>1. /\ future'[f].cb = future[f].cb /\ future'[f].prev = future[f].prev /\ ghost'[f] = ghost[f]
          /\ future'[f].mem = future[f].mem
          /\ f \in Known' <=> f \in Known
          /\ Called(f)' <=> Called(f)
          /\ Waiting(f)' <=> Waiting(f)
      BY <1>2, <2>2
    <3>2. \/ future'[f].next = future[f].next
          \/ /\ Waiting(f) /\ future[f].cb # "inner" /\ future[f].next = None
             /\ future'[f].next \in Newcomers /\ ghost'[future'[f].next].after = f
      BY <2>2 DEF ChainGrown
    <3>3. f \notin Known => /\ future'[f].cb = "none" /\ future'[f].next = None /\ future'[f].prev = None
                            /\ ghost'[f] = [calls |-> 0, after |-> None]
      BY <3>0, <3>1, <3>2 DEF ChainOK, Waiting, Live, Known
    <3>4. future'[f].next # None => future'[f].next \in Known' /\ ghost'[future'[f].next].after = f
      <4>1. CASE future'[f].next = future[f].next /\ future[f].next # None
        <5>1. future[f].next \in Known /\ ghost[future[f].next].after = f
          BY <3>0, <4>1 DEF ChainOK
        <5>2. future[f].next \in Futures \ Newcomers
          BY <1>0, <5>1 DEF Newcomers
        <5> QED BY <1>1, <1>2, <4>1, <5>1, <5>2
      <4> QED BY <1>1, <3>2, <4>1
    <3>5. ghost[f].after # None => /\ ghost[f].after \in Known' /\ ghost[f].after < f
                                   /\ Behind(f, ghost[f].after)'
      <4> SUFFICES ASSUME ghost[f].after # None
                   PROVE  ghost[f].after \in Known' /\ ghost[f].after < f /\ Behind(f, ghost[f].after)'
        BY <3>1
      <4>0. PICK b \in Futures : b = ghost[f].after
        BY <3>0
      <4>1. b \in Known /\ b < f /\ Behind(f, b) /\ b \notin Newcomers
        BY <3>0, <4>0 DEF ChainOK, Newcomers
      <4>2. Called(b)' <=> Called(b)
        BY <1>2, <4>1
      <4>3. ghost'[b].after = ghost[b].after
        BY <1>2, <4>1
      <4>4. Behind(f, b)'
        BY <3>1, <4>1, <4>2, <4>3 DEF Behind
      <4>5. ghost'[f].after = b
        BY <3>1, <4>0
      <4> QED BY <1>1, <4>0, <4>1, <4>4, <4>5
    <3>6. Waiting(f) /\ future[f].prev # None => Waiting(future[f].prev)' /\ future'[future[f].prev].next = f
      <4> SUFFICES ASSUME Waiting(f), future[f].prev # None
                   PROVE  Waiting(future[f].prev)' /\ future'[future[f].prev].next = f
        OBVIOUS
      <4>0. PICK b \in Futures : b = future[f].prev
        BY <3>0
      <4>1. Waiting(b) /\ future[b].next = f /\ b = ghost[f].after /\ b # None
        BY <3>0, <4>0 DEF ChainOK
      <4>2. b \notin Newcomers
        BY <1>0, <3>0, <4>1 DEF ChainOK, Newcomers
      <4>3. Waiting(b)'
        BY <1>2, <4>1, <4>2
      <4>4. future'[b].next = f
        BY <1>0, <4>1, <4>2 DEF ChainGrown
      <4>5. future'[f].prev = b
        BY <3>1, <4>0
      <4> QED BY <4>0, <4>3, <4>4, <4>5
    <3>7. future'[f].cb = "inner" => future'[f].next = None
      BY <3>0, <3>1, <3>2 DEF ChainOK
    <3> QED BY <1>1, <3>0, <3>1, <3>3, <3>4, <3>5, <3>6, <3>7 DEF ChainOK
  <2> QED BY <2>1, <2>2
<1>5. ChainKept
  <2>1. ASSUME NEW f \in Futures, IsHead(f) \/ Called(f) PROVE f \notin Newcomers
    <3>1. f \in Known
      BY <1>0, <2>1 DEF IsHead, ChainOK, Called
    <3> QED BY <3>1 DEF Newcomers
  <2> QED BY <1>2, <2>1 DEF ChainKept
<1>6. Heads({f \in Newcomers : future'[f].cb = "none"})
  <2>1. ASSUME NEW h \in Futures, AtHead(h)' PROVE AtHead(h) \/ (h \in Newcomers /\ future'[h].cb = "none")
    <3>1. CASE h \in Newcomers
      BY <1>3, <2>1, <3>1 DEF GrownAt, AtHead
    <3>2. CASE h \notin Newcomers
      BY <1>2, <2>1, <3>2 DEF AtHead
    <3> QED BY <3>1, <3>2
  <2> QED BY <2>1 DEF Heads
<1> QED BY <1>0, <1>4, <1>5, <1>6 DEF ChainInv

-----------------------------------------------------------------------------
(* The activations.                                                        *)
PromisesKept ==
  \A p \in Promises : promise[p].mem # "unborn" =>
    /\ promise'[p].mem # "unborn"
    /\ promise[p].mem \in {"dying", "freed"} => promise'[p].mem \in {"dying", "freed"}
    /\ Len(join'[p].futures) = Len(join[p].futures)

LEMMA FrameStays ==
  ASSUME ChainKept, PromisesKept, NEW fr \in FrameRecord, FrameOK(fr)
  PROVE  FrameOK(fr)'
<1>1. fr.kind \in Chainers => IsHead(fr.f) /\ fr.f \in Futures
  BY DEF FrameOK, IsHead, Known
<1>2. fr.kind = "loop" => \A i \in 1 .. Len(fr.todo) : IsHead(fr.todo[i]) /\ fr.todo[i] \in Futures
  BY DEF FrameOK, IsHead, Known
<1>3. fr.kind \in Callings \cup {"cancelFree"} => Called(fr.f) /\ fr.kind \in Chainers
  BY DEF FrameOK, Chainers
<1>4. fr.kind \in Chainers => IsHead(fr.f)'
  BY <1>1 DEF ChainKept
<1>5. fr.kind = "loop" => \A i \in 1 .. Len(fr.todo) : IsHead(fr.todo[i])'
  BY <1>2 DEF ChainKept
<1>6. fr.kind \in Callings \cup {"cancelFree"} => Called(fr.f)'
  BY <1>1, <1>3 DEF ChainKept
<1>7. /\ fr.kind \in {"dying", "answer", "clean"} => fr.p \in Promises /\ promise'[fr.p].mem # "unborn"
      /\ fr.kind = "dying" => promise'[fr.p].mem \in {"dying", "freed"}
      /\ fr.kind = "clean" => \A i \in 1 .. Len(fr.todo) : fr.todo[i] \in 1 .. Len(join'[fr.p].futures)
  BY DEF FrameOK, PromisesKept
<1> QED BY <1>4, <1>5, <1>6, <1>7 DEF FrameOK

(* New activations are right, and a callback is run where one is entered.  *)
Entered(t) ==
  \A i \in 1 .. Len(t) : t[i].kind \in Callings =>
    \/ future'[t[i].f].next = None
    \/ i + 1 \in 1 .. Len(t) /\ t[i + 1].kind = "user"

FramesLeft(n) == n = Len(stack) \/ stack[n + 1].kind # "user"

LEMMA FramesStep ==
  ASSUME Types, FramesInv, ChainKept, PromisesKept,
         NEW n, NEW t, Regrown(n, t), FramesLeft(n),
         \A i \in 1 .. Len(t) : FrameOK(t[i])', Entered(t)
  PROVE  /\ FramesInv'
         /\ stack' \in Seq(FrameRecord) /\ Len(stack') >= 1 /\ stack'[1].kind = "user"
<1>0. /\ Len(stack) \in Nat /\ Len(t) \in Nat /\ n \in 1 .. Len(stack)
      /\ \A i \in 1 .. Len(stack) : stack[i] \in FrameRecord
      /\ stack' \in Seq(FrameRecord) /\ Len(stack') = n + Len(t)
      /\ \A i \in 1 .. n : stack'[i] = stack[i]
      /\ \A i \in 1 .. Len(t) : stack'[n + i] = t[i]
  BY DEF Types, Regrown
<1>1. stack' \in Seq(FrameRecord) /\ Len(stack') >= 1 /\ stack'[1].kind = "user"
  BY <1>0 DEF Types
<1>2. ASSUME NEW i \in 1 .. Len(stack')
      PROVE  FrameOK(stack[i])' /\ (stack'[i].kind \in Callings => future'[stack'[i].f].next = None \/ UserOver(i)')
  <2>1. CASE i <= n
    <3>1. PICK fr \in FrameRecord : fr = stack[i] /\ stack'[i] = fr
      BY <1>0, <2>1
    <3>2. FrameOK(fr) /\ i \in 1 .. Len(stack)
      BY <1>0, <2>1, <3>1 DEF FramesInv
    <3>3. FrameOK(fr)'
      BY <3>2, FrameStays
    <3>4. ASSUME fr.kind \in Callings PROVE future'[fr.f].next = None \/ UserOver(i)'
      <4>1. future[fr.f].next = None \/ UserOver(i)
        BY <3>1, <3>2, <3>4 DEF FramesInv
      <4>2. fr.f \in Futures /\ Called(fr.f)
        BY <3>2, <3>4 DEF FrameOK, IsHead, Known, Chainers
      <4>3. CASE future[fr.f].next = None
        BY <4>2, <4>3 DEF ChainKept
      <4>4. CASE UserOver(i) /\ i < n
        BY <1>0, <2>1, <4>4 DEF UserOver
      <4>5. CASE UserOver(i) /\ i = n
        BY <1>0, <4>5 DEF UserOver, FramesLeft
      <4> QED BY <1>0, <2>1, <4>1, <4>3, <4>4, <4>5
    <3> QED BY <3>1, <3>3, <3>4
  <2>2. CASE ~(i <= n)
    <3>1. PICK k \in 1 .. Len(t) : i = n + k
      <4>1. i - n \in 1 .. Len(t) /\ i = n + (i - n)
        BY <1>0, <2>2
      <4> QED BY <4>1
    <3>2. PICK fr : fr = t[k] /\ stack'[i] = fr
      BY <1>0, <3>1
    <3>3. FrameOK(fr)'
      BY <3>2
    <3>4. ASSUME fr.kind \in Callings PROVE future'[fr.f].next = None \/ UserOver(i)'
      <4>1. future'[fr.f].next = None \/ (k + 1 \in 1 .. Len(t) /\ t[k + 1].kind = "user")
        BY <3>2, <3>4 DEF Entered
      <4>2. ASSUME k + 1 \in 1 .. Len(t), t[k + 1].kind = "user" PROVE UserOver(i)'
        <5>1. n + (k + 1) = i + 1 /\ i + 1 \in 1 .. Len(stack')
          BY <1>0, <3>1, <4>2
        <5>2. PICK m \in 1 .. Len(t) : m = k + 1
          BY <4>2
        <5>3. stack'[n + m] = t[m] /\ n + m = i + 1
          BY <1>0, <5>1, <5>2
        <5> QED BY <4>2, <5>1, <5>2, <5>3 DEF UserOver
      <4> QED BY <4>1, <4>2
    <3> QED BY <3>2, <3>3, <3>4
  <2> QED BY <1>0, <2>1, <2>2
<1> QED BY <1>1, <1>2 DEF FramesInv

(* The activations a step leaves, the first n, and those in G it ends.     *)
Leaves(b, n, G) ==
  /\ n \in 1 .. Len(stack) /\ b = SubSeq(stack, 1, n) /\ FramesLeft(n)
  /\ \A i \in n + 1 .. Len(stack) : stack[i] \in G

LEMMA LeavesAll ==
  ASSUME Types
  PROVE  Leaves(stack, Len(stack), {})
<1>1. stack \in Seq(FrameRecord) /\ Len(stack) \in Nat /\ Len(stack) >= 1
  BY DEF Types
<1>2. stack = SubSeq(stack, 1, Len(stack))
  BY <1>1
<1> QED BY <1>1, <1>2 DEF Leaves, FramesLeft

LEMMA LeavesBelow ==
  ASSUME Types, Top.kind # "user"
  PROVE  Leaves(Below, Len(stack) - 1, {Top}) /\ Top \in FrameRecord /\ Len(stack) \in 1 .. Len(stack)
<1>1. stack \in Seq(FrameRecord) /\ Len(stack) \in Nat /\ Len(stack) >= 1 /\ stack[1].kind = "user"
  BY DEF Types
<1>2. Len(stack) # 1
  BY <1>1 DEF Top
<1>3. Below = SubSeq(stack, 1, Len(stack) - 1)
  BY DEF Below, Front
<1>4. (Len(stack) - 1) + 1 = Len(stack)
  BY <1>1
<1>5. FramesLeft(Len(stack) - 1)
  BY <1>4 DEF FramesLeft, Top
<1>6. \A i \in (Len(stack) - 1) + 1 .. Len(stack) : i = Len(stack)
  BY <1>1
<1>7. Len(stack) - 1 \in 1 .. Len(stack) /\ Len(stack) \in 1 .. Len(stack)
  <2>1. PICK L \in Nat : L = Len(stack)
    BY <1>1
  <2>2. L >= 1 /\ L # 1
    BY <1>1, <1>2, <2>1
  <2> QED BY <2>1, <2>2
<1>8. Top \in FrameRecord
  BY <1>1, <1>7 DEF Top
<1> QED BY <1>3, <1>5, <1>6, <1>7, <1>8 DEF Leaves, Top

LEMMA LeavesBase ==
  ASSUME Types, NEW k, k # "user", Returning(k)
  PROVE  /\ Leaves(Base, Len(stack) - 2, {Under, Top})
         /\ Under \in FrameRecord /\ Under.kind = k /\ Top.kind = "user"
         /\ Len(stack) - 1 \in 1 .. Len(stack)
<1>1. stack \in Seq(FrameRecord) /\ Len(stack) \in Nat /\ Len(stack) >= 1 /\ stack[1].kind = "user"
  BY DEF Types
<1>2. /\ Len(stack) # 1 /\ Under.kind = k /\ Top.kind = "user"
  <2>1. Under.kind = k /\ Top.kind = "user"
    BY DEF Returning, At
  <2>2. Len(stack) > 1
    BY DEF Returning
  <2>3. PICK L \in Nat : L = Len(stack)
    BY <1>1
  <2>4. L > 1
    BY <2>2, <2>3
  <2>5. L # 1
    BY <2>4
  <2> QED BY <2>1, <2>3, <2>5
<1>3. Len(stack) # 2
  <2> SUFFICES ASSUME Len(stack) = 2 PROVE FALSE
    OBVIOUS
  <2>1. Len(stack) - 1 = 1
    BY <1>1
  <2> QED BY <1>1, <1>2, <2>1 DEF Under
<1>4. PICK m \in Nat : m = Len(stack) - 1 /\ m >= 2
  <2>1. PICK L \in Nat : L = Len(stack)
    BY <1>1
  <2>2. L >= 1 /\ L # 1 /\ L # 2
    BY <1>1, <1>2, <1>3, <2>1
  <2>3. L - 1 \in Nat /\ L - 1 >= 2
    BY <2>2
  <2> QED BY <2>1, <2>3
<1>5. Len(stack) = m + 1 /\ Len(stack) - 2 = m - 1 /\ (Len(stack) - 2) + 1 = m /\ m - 1 \in 1 .. Len(stack)
      /\ m \in 1 .. Len(stack)
  BY <1>1, <1>4
<1>6. Below = SubSeq(stack, 1, m) /\ Len(Below) = m /\ Below \in Seq(FrameRecord)
      /\ \A i \in 1 .. m : Below[i] = stack[i]
  <2>1. Below = SubSeq(stack, 1, m)
    BY <1>4 DEF Below, Front
  <2>2. m \in 0 .. Len(stack)
    BY <1>1, <1>4
  <2> QED BY <1>1, <2>1, <2>2, Piece
<1>7. Base = SubSeq(stack, 1, m - 1)
  <2>1. Base = SubSeq(Below, 1, m - 1)
    BY <1>6 DEF Base, Front
  <2>2. m - 1 \in 0 .. Len(Below) /\ m - 1 \in 0 .. Len(stack) /\ \A i \in 1 .. m - 1 : i \in 1 .. m
    BY <1>1, <1>4, <1>6
  <2> DEFINE a == SubSeq(Below, 1, m - 1)
             c == SubSeq(stack, 1, m - 1)
  <2>3. a \in Seq(FrameRecord) /\ Len(a) = m - 1 /\ \A i \in 1 .. m - 1 : a[i] = Below[i]
    BY <1>6, <2>2, Piece
  <2>4. c \in Seq(FrameRecord) /\ Len(c) = m - 1 /\ \A i \in 1 .. m - 1 : c[i] = stack[i]
    BY <1>1, <2>2, Piece
  <2>5. \A i \in 1 .. m - 1 : a[i] = c[i]
    BY <1>6, <2>2, <2>3, <2>4
  <2> HIDE DEF a, c
  <2>6. a = c
    BY <2>3, <2>4, <2>5, SeqEqual
  <2> QED BY <2>1, <2>6 DEF a, c
<1>8. Under = stack[m] /\ Under \in FrameRecord
  BY <1>1, <1>4, <1>5 DEF Under
<1>9. FramesLeft(Len(stack) - 2)
  BY <1>2, <1>5, <1>8 DEF FramesLeft
<1>10. ASSUME NEW i \in (Len(stack) - 2) + 1 .. Len(stack) PROVE stack[i] \in {Under, Top}
  <2>1. i = m \/ i = Len(stack)
    BY <1>5
  <2> QED BY <1>8, <2>1 DEF Top
<1> QED BY <1>2, <1>5, <1>7, <1>8, <1>9, <1>10 DEF Leaves

(* A step that ends the activations in G and enters those of t.            *)
StackStep(n, G, t) ==
  /\ Regrown(n, t) /\ FramesLeft(n)
  /\ \A i \in n + 1 .. Len(stack) : stack[i] \in G

LEMMA GrowBy ==
  ASSUME Types, NEW b, NEW n, NEW G, Leaves(b, n, G), NEW t \in Seq(FrameRecord), stack' = b \o t
  PROVE  StackStep(n, G, t)
<1>1. n \in 1 .. Len(stack) /\ stack' = SubSeq(stack, 1, n) \o t
  BY DEF Leaves
<1>2. Regrown(n, t)
  BY <1>1, Regrow
<1> QED BY <1>2 DEF Leaves, StackStep

LEMMA LeavesSeq ==
  ASSUME Types, NEW b, NEW n, NEW G, Leaves(b, n, G)
  PROVE  b \in Seq(FrameRecord)
<1>1. stack \in Seq(FrameRecord) /\ n \in 0 .. Len(stack)
  BY DEF Types, Leaves
<1> QED BY <1>1, Piece DEF Leaves

LEMMA GrowNone ==
  ASSUME Types, NEW b, NEW n, NEW G, Leaves(b, n, G), stack' = b
  PROVE  StackStep(n, G, <<>>)
<1>1. b \in Seq(FrameRecord)
  BY LeavesSeq
<1>2. b = b \o <<>> /\ <<>> \in Seq(FrameRecord)
  BY <1>1, ConcatSimplifications
<1> QED BY <1>2, GrowBy

LEMMA Appended ==
  ASSUME NEW b \in Seq(FrameRecord), NEW x \in FrameRecord
  PROVE  Append(b, x) = b \o <<x>> /\ <<x>> \in Seq(FrameRecord) /\ Append(b, x) \in Seq(FrameRecord)
<1> DEFINE a == Append(b, x)
           c == b \o <<x>>
<1>0. <<x>> \in Seq(FrameRecord) /\ Len(<<x>>) = 1 /\ <<x>>[1] = x /\ Len(b) \in Nat
  OBVIOUS
<1>1. a \in Seq(FrameRecord) /\ Len(a) = Len(b) + 1 /\ a[Len(b) + 1] = x /\ \A i \in 1 .. Len(b) : a[i] = b[i]
  BY AppendProperties
<1>2. c \in Seq(FrameRecord) /\ Len(c) = Len(b) + 1
      /\ \A i \in 1 .. Len(b) + 1 : c[i] = IF i <= Len(b) THEN b[i] ELSE <<x>>[i - Len(b)]
  BY <1>0, ConcatProperties
<1> HIDE DEF a, c
<1>3. ASSUME NEW i \in 1 .. Len(a) PROVE a[i] = c[i]
  <2>1. CASE i = Len(b) + 1
    <3>1. c[i] = <<x>>[i - Len(b)] /\ i - Len(b) = 1
      BY <1>0, <1>2, <2>1
    <3> QED BY <1>0, <1>1, <2>1, <3>1
  <2>2. CASE i # Len(b) + 1
    <3>1. i \in 1 .. Len(b) /\ i <= Len(b) /\ i \in 1 .. Len(b) + 1
      BY <1>0, <1>1, <2>2
    <3> QED BY <1>1, <1>2, <3>1
  <2> QED BY <2>1, <2>2
<1>4. a = c
  BY <1>1, <1>2, <1>3, SeqEqual
<1> QED BY <1>0, <1>1, <1>4 DEF a, c

LEMMA GrowOne ==
  ASSUME Types, NEW b, NEW n, NEW G, Leaves(b, n, G), NEW x \in FrameRecord, stack' = Append(b, x)
  PROVE  StackStep(n, G, <<x>>)
<1>1. b \in Seq(FrameRecord)
  BY LeavesSeq
<1>2. stack' = b \o <<x>> /\ <<x>> \in Seq(FrameRecord)
  BY <1>1, Appended
<1> QED BY <1>2, GrowBy

Over(x, r) == <<x>> \o r

LEMMA GrowOver ==
  ASSUME Types, NEW b, NEW n, NEW G, Leaves(b, n, G),
         NEW x \in FrameRecord, NEW r \in Seq(FrameRecord), stack' = b \o <<x>> \o r
  PROVE  StackStep(n, G, Over(x, r))
<1>1. b \in Seq(FrameRecord) /\ <<x>> \in Seq(FrameRecord)
  BY LeavesSeq
<1>2. stack' = b \o Over(x, r)
  BY <1>1, ConcatAssociative DEF Over
<1>3. Over(x, r) \in Seq(FrameRecord)
  BY <1>1, ConcatProperties DEF Over
<1> QED BY <1>2, <1>3, GrowBy

LEMMA GrowTwice ==
  ASSUME Types, NEW b, NEW n, NEW G, Leaves(b, n, G), NEW y \in FrameRecord,
         NEW x \in FrameRecord, NEW r \in Seq(FrameRecord), stack' = Append(b, y) \o <<x>> \o r
  PROVE  StackStep(n, G, Over(y, Over(x, r)))
<1>1. b \in Seq(FrameRecord) /\ <<x>> \in Seq(FrameRecord)
  BY LeavesSeq
<1>2. Append(b, y) = b \o <<y>> /\ <<y>> \in Seq(FrameRecord) /\ Append(b, y) \in Seq(FrameRecord)
  BY <1>1, Appended
<1>3. Over(x, r) \in Seq(FrameRecord)
  BY <1>1, ConcatProperties DEF Over
<1>4. stack' = Append(b, y) \o Over(x, r)
  BY <1>1, <1>2, ConcatAssociative DEF Over
<1>5. stack' = b \o Over(y, Over(x, r))
  BY <1>1, <1>2, <1>3, <1>4, ConcatAssociative DEF Over
<1>6. Over(y, Over(x, r)) \in Seq(FrameRecord)
  BY <1>2, <1>3, ConcatProperties DEF Over
<1> QED BY <1>5, <1>6, GrowBy

(* New activations that are right.                                         *)
GoodFrames(t) ==
  /\ t \in Seq(FrameRecord)
  /\ \A i \in 1 .. Len(t) : FrameOK(t[i])'
  /\ Entered(t)

Has(t, fr) == \E i \in 1 .. Len(t) : t[i] = fr

LEMMA OverRight ==
  ASSUME NEW x \in FrameRecord, NEW r \in Seq(FrameRecord)
  PROVE  /\ Over(x, r) \in Seq(FrameRecord) /\ Len(Over(x, r)) = Len(r) + 1 /\ Len(r) \in Nat
         /\ Over(x, r)[1] = x /\ \A i \in 1 .. Len(r) : Over(x, r)[i + 1] = r[i]
<1>0. <<x>> \in Seq(FrameRecord) /\ Len(<<x>>) = 1 /\ <<x>>[1] = x /\ Len(r) \in Nat
  OBVIOUS
<1>1. Over(x, r) \in Seq(FrameRecord) /\ Len(Over(x, r)) = 1 + Len(r)
      /\ \A i \in 1 .. 1 + Len(r) : Over(x, r)[i] = IF i <= 1 THEN <<x>>[i] ELSE r[i - 1]
  BY <1>0, ConcatProperties DEF Over
<1>2. Over(x, r)[1] = x
  BY <1>0, <1>1
<1>3. ASSUME NEW i \in 1 .. Len(r) PROVE Over(x, r)[i + 1] = r[i]
  <2>1. i + 1 \in 1 .. 1 + Len(r) /\ ~(i + 1 <= 1) /\ (i + 1) - 1 = i
    BY <1>0
  <2> QED BY <1>1, <2>1
<1> QED BY <1>0, <1>1, <1>2, <1>3

LEMMA OverHas ==
  ASSUME NEW x \in FrameRecord, NEW r \in Seq(FrameRecord)
  PROVE  Has(Over(x, r), x) /\ \A fr : Has(r, fr) => Has(Over(x, r), fr)
<1>1. /\ Over(x, r) \in Seq(FrameRecord) /\ Len(Over(x, r)) = Len(r) + 1 /\ Len(r) \in Nat
      /\ Over(x, r)[1] = x /\ \A i \in 1 .. Len(r) : Over(x, r)[i + 1] = r[i]
  BY OverRight
<1>2. 1 \in 1 .. Len(Over(x, r))
  BY <1>1
<1>3. ASSUME NEW fr, Has(r, fr) PROVE Has(Over(x, r), fr)
  <2>1. PICK i \in 1 .. Len(r) : r[i] = fr
    BY <1>3 DEF Has
  <2>2. i + 1 \in 1 .. Len(Over(x, r))
    BY <1>1
  <2> QED BY <1>1, <2>1, <2>2 DEF Has
<1> QED BY <1>1, <1>2, <1>3 DEF Has

LEMMA GoodNone ==
  GoodFrames(<<>>)
<1>1. <<>> \in Seq(FrameRecord) /\ \A i \in 1 .. Len(<<>>) : FALSE
  OBVIOUS
<1> QED BY <1>1 DEF GoodFrames, Entered

LEMMA GoodOver ==
  ASSUME NEW x \in FrameRecord, NEW r, GoodFrames(r), FrameOK(x)',
         x.kind \in Callings => future'[x.f].next = None \/ (Len(r) >= 1 /\ r[1].kind = "user")
  PROVE  GoodFrames(Over(x, r)) /\ Has(Over(x, r), x) /\ \A fr : Has(r, fr) => Has(Over(x, r), fr)
<1>0. r \in Seq(FrameRecord) /\ (\A i \in 1 .. Len(r) : FrameOK(r[i])') /\ Entered(r)
  BY DEF GoodFrames
<1> DEFINE t == Over(x, r)
<1>1. /\ t \in Seq(FrameRecord) /\ Len(t) = Len(r) + 1 /\ Len(r) \in Nat
      /\ t[1] = x /\ \A i \in 1 .. Len(r) : t[i + 1] = r[i]
  BY <1>0, OverRight
<1>h. Has(t, x) /\ \A fr : Has(r, fr) => Has(t, fr)
  BY <1>0, OverHas
<1> HIDE DEF t
<1>2. ASSUME NEW i \in 1 .. Len(t)
      PROVE  /\ FrameOK(t[i])'
             /\ t[i].kind \in Callings => future'[t[i].f].next = None \/ (i + 1 \in 1 .. Len(t) /\ t[i + 1].kind = "user")
  <2>1. CASE i = 1
    <3>1. t[i] = x
      BY <1>1, <2>1
    <3>2. ASSUME x.kind \in Callings, future'[x.f].next # None PROVE i + 1 \in 1 .. Len(t) /\ t[i + 1].kind = "user"
      <4>1. 1 \in 1 .. Len(r) /\ r[1].kind = "user"
        BY <1>1, <3>2
      <4> QED BY <1>1, <2>1, <4>1
    <3>3. FrameOK(t[i])'
      <4>1. PICK fr : fr = x
        OBVIOUS
      <4>2. FrameOK(fr)' /\ t[i] = fr
        BY <3>1, <4>1
      <4> QED BY <4>2
    <3> QED BY <3>1, <3>2, <3>3
  <2>2. CASE i # 1
    <3>1. PICK k \in 1 .. Len(r) : i = k + 1 /\ t[i] = r[k]
      <4>1. i - 1 \in 1 .. Len(r) /\ i = (i - 1) + 1
        BY <1>1, <2>2
      <4> QED BY <1>1, <4>1
    <3>2. FrameOK(r[k])'
      BY <1>0
    <3>3. ASSUME r[k].kind \in Callings, future'[r[k].f].next # None
          PROVE  i + 1 \in 1 .. Len(t) /\ t[i + 1].kind = "user"
      <4>1. k + 1 \in 1 .. Len(r) /\ r[k + 1].kind = "user"
        BY <1>0, <3>3 DEF Entered
      <4>2. t[(k + 1) + 1] = r[k + 1] /\ (k + 1) + 1 \in 1 .. Len(t)
        BY <1>1, <4>1
      <4> QED BY <3>1, <4>1, <4>2
    <3> QED BY <3>1, <3>2, <3>3
  <2> QED BY <2>1, <2>2
<1>3. GoodFrames(t)
  BY <1>1, <1>2 DEF GoodFrames, Entered
<1> QED BY <1>h, <1>3 DEF t

LEMMA FramesGo ==
  ASSUME Types, FramesInv, ChainKept, PromisesKept,
         NEW n, NEW G, NEW t, StackStep(n, G, t), GoodFrames(t)
  PROVE  /\ FramesInv'
         /\ stack' \in Seq(FrameRecord) /\ Len(stack') >= 1 /\ stack'[1].kind = "user"
  BY FramesStep DEF StackStep, GoodFrames

(* Where an activation is after a step.                                    *)
LEMMA FrameFound ==
  ASSUME Types, NEW n, NEW G, NEW t, StackStep(n, G, t)
  PROVE  /\ \A fr : Has(t, fr) => \E i \in 1 .. Len(stack') : stack'[i] = fr
         /\ \A i \in 1 .. Len(stack) : stack[i] \in G \/ \E k \in 1 .. Len(stack') : stack'[k] = stack[i]
<1>0. /\ Len(stack) \in Nat /\ Len(t) \in Nat /\ n \in 1 .. Len(stack)
      /\ Len(stack') = n + Len(t)
      /\ \A i \in 1 .. n : stack'[i] = stack[i]
      /\ \A i \in 1 .. Len(t) : stack'[n + i] = t[i]
      /\ \A i \in n + 1 .. Len(stack) : stack[i] \in G
  BY DEF Types, StackStep, Regrown
<1>1. ASSUME NEW fr, Has(t, fr) PROVE \E i \in 1 .. Len(stack') : stack'[i] = fr
  <2>1. PICK i \in 1 .. Len(t) : t[i] = fr
    BY <1>1 DEF Has
  <2>2. n + i \in 1 .. Len(stack')
    BY <1>0
  <2> QED BY <1>0, <2>1, <2>2
<1>2. ASSUME NEW i \in 1 .. Len(stack) PROVE stack[i] \in G \/ \E k \in 1 .. Len(stack') : stack'[k] = stack[i]
  <2>1. CASE i <= n
    <3>1. i \in 1 .. n /\ i \in 1 .. Len(stack')
      BY <1>0, <2>1
    <3> QED BY <1>0, <3>1
  <2>2. CASE ~(i <= n)
    <3>1. i \in n + 1 .. Len(stack)
      BY <1>0, <2>2
    <3> QED BY <1>0, <3>1
  <2> QED BY <2>1, <2>2
<1> QED BY <1>1, <1>2

(* Whoever is entered for h.                                               *)
CaredNew(t, h) == \E i \in 1 .. Len(t) : Cares(t[i], h)'

CaredOnwards(h, G, t) ==
  \/ CaredNew(t, h)
  \/ future'[h].promise # None
  \/ future'[h].entry /\ h \in ToSet(entries')
  \/ /\ future[h].promise # None => future'[h].promise # None
     /\ future[h].entry => future'[h].entry
     /\ future[h].entry /\ h \in ToSet(entries) => h \in ToSet(entries')
     /\ \A fr \in G : ~Cares(fr, h)

LEMMA CareStep ==
  ASSUME Types, FramesInv, ChainKept, CareInv,
         NEW n, NEW G, NEW t, StackStep(n, G, t), NEW S, Heads(S),
         \A h \in Futures : AtHead(h)' /\ h \in S => CaredNew(t, h) \/ future'[h].promise # None,
         \A h \in Futures : AtHead(h) /\ AtHead(h)' => CaredOnwards(h, G, t)
  PROVE  CareInv'
<1>1. ASSUME NEW h \in Futures, CaredNew(t, h) PROVE Cared(h)'
  <2>1. PICK i \in 1 .. Len(t) : Cares(t[i], h)'
    BY <1>1 DEF CaredNew
  <2>2. PICK fr : fr = t[i]
    OBVIOUS
  <2>3. Has(t, fr) /\ Cares(fr, h)'
    BY <2>1, <2>2 DEF Has
  <2>4. \E k \in 1 .. Len(stack') : stack'[k] = fr
    BY <2>3, FrameFound
  <2> QED BY <2>3, <2>4 DEF Cared
<1>2. ASSUME NEW h \in Futures, AtHead(h), AtHead(h)' PROVE Cared(h)'
  <2>1. CASE CaredNew(t, h)
    BY <1>1, <2>1
  <2>3. CASE future'[h].promise # None \/ (future'[h].entry /\ h \in ToSet(entries'))
    BY <2>3 DEF Cared
  <2>2. CASE ~(CaredNew(t, h) \/ future'[h].promise # None \/ (future'[h].entry /\ h \in ToSet(entries')))
    <3>1. /\ future[h].promise # None => future'[h].promise # None
          /\ future[h].entry => future'[h].entry
          /\ future[h].entry /\ h \in ToSet(entries) => h \in ToSet(entries')
          /\ \A fr \in G : ~Cares(fr, h)
      BY <1>2, <2>2 DEF CaredOnwards
    <3>2. Cared(h)
      BY <1>2 DEF CareInv, AtHead
    <3>3. CASE future[h].promise # None
      BY <3>1, <3>3 DEF Cared
    <3>4. CASE future[h].entry /\ h \in ToSet(entries)
      BY <3>1, <3>4 DEF Cared
    <3>5. CASE \E i \in 1 .. Len(stack) : Cares(stack[i], h)
      <4>1. PICK i \in 1 .. Len(stack) : Cares(stack[i], h)
        BY <3>5
      <4>2. PICK fr : fr = stack[i]
        OBVIOUS
      <4>3. Cares(fr, h) /\ FrameOK(fr) /\ fr \notin G
        BY <3>1, <4>1, <4>2 DEF FramesInv
      <4>4. PICK k \in 1 .. Len(stack') : stack'[k] = fr
        BY <4>2, <4>3, FrameFound
      <4>5. Cares(fr, h)'
        <5>1. CASE fr.kind \in Callings \cup {"cancelFree"}
          <6>1. Called(fr.f) /\ fr.f \in Futures
            BY <4>3, <5>1 DEF FrameOK, IsHead, Known, Chainers
          <6>2. future'[fr.f].next = future[fr.f].next
            BY <6>1 DEF ChainKept
          <6> QED BY <4>3, <5>1, <6>2 DEF Cares, Callings
        <5>2. CASE fr.kind \notin Callings \cup {"cancelFree"}
          BY <3>1, <4>3, <5>2 DEF Cares
        <5> QED BY <5>1, <5>2
      <4> QED BY <4>4, <4>5 DEF Cared
    <3> QED BY <3>2, <3>3, <3>4, <3>5 DEF Cared
  <2> QED BY <2>1, <2>2, <2>3
<1>3. ASSUME NEW h \in Futures, AtHead(h)' PROVE Cared(h)'
  <2>1. CASE AtHead(h)
    BY <1>2, <1>3, <2>1
  <2>2. CASE h \in S
    <3>1. CaredNew(t, h) \/ future'[h].promise # None
      BY <1>3, <2>2
    <3> QED BY <1>1, <3>1 DEF Cared
  <2> QED BY <1>3, <2>1, <2>2 DEF Heads
<1> QED BY <1>3 DEF CareInv, AtHead

(* Who will answer.                                                        *)
Answers(fr, p) == fr.kind = "answer" /\ fr.p = p
AnswersNew(t, p) == \E i \in 1 .. Len(t) : Answers(t[i], p)

LEMMA AnswerStep ==
  ASSUME Types, AnswerInv, NEW n, NEW G, NEW t, StackStep(n, G, t),
         \A p \in Promises : Usable(p)' /\ promise'[p].future # None => promise'[p].scheduler,
         "failProxied" \notin Liberties =>
           \A p \in Promises : Usable(p)' /\ Answered(p)' =>
              AnswersNew(t, p) \/ (Usable(p) /\ Answered(p) /\ \A fr \in G : ~Answers(fr, p))
  PROVE  AnswerInv'
<1>1. ASSUME "failProxied" \notin Liberties, NEW p \in Promises, Usable(p)', Answered(p)'
      PROVE  \E i \in 1 .. Len(stack') : stack'[i].kind = "answer" /\ stack'[i].p = p
  <2>1. CASE AnswersNew(t, p)
    <3>1. PICK i \in 1 .. Len(t) : Answers(t[i], p)
      BY <2>1 DEF AnswersNew
    <3>2. PICK fr : fr = t[i]
      OBVIOUS
    <3>3. Has(t, fr) /\ Answers(fr, p)
      BY <3>1, <3>2 DEF Has
    <3> QED BY <3>3, FrameFound DEF Answers
  <2>2. CASE Usable(p) /\ Answered(p) /\ \A fr \in G : ~Answers(fr, p)
    <3>1. PICK i \in 1 .. Len(stack) : stack[i].kind = "answer" /\ stack[i].p = p
      BY <1>1, <2>2 DEF AnswerInv
    <3>2. stack[i] \notin G
      BY <2>2, <3>1 DEF Answers
    <3>3. PICK k \in 1 .. Len(stack') : stack'[k] = stack[i]
      BY <3>2, FrameFound
    <3> QED BY <3>1, <3>3
  <2> QED BY <1>1, <2>1, <2>2
<1> QED BY <1>1 DEF AnswerInv

(* Steps that leave the promises of the library as they are.               *)
JoinsSame ==
  /\ \A p \in Promises :
       /\ join'[p].kind = join[p].kind /\ join'[p].futures = join[p].futures
       /\ join'[p].processed = join[p].processed
       /\ promise'[p].mem = "unborn" => promise[p].mem = "unborn" /\ join'[p] = join[p]
  /\ \A f \in Futures : /\ future'[f].cb = "inner" <=> future[f].cb = "inner"
                        /\ future[f].cb = "inner" /\ Waiting(f) => Waiting(f)'

LEMMA JoinSame ==
  ASSUME Types, JoinInv, JoinsSame
  PROVE  JoinInv'
<1>1. \A p \in Promises : /\ join'[p].kind = join[p].kind /\ join'[p].futures = join[p].futures
                          /\ join'[p].processed = join[p].processed
                          /\ promise'[p].mem = "unborn" => promise[p].mem = "unborn" /\ join'[p] = join[p]
  BY DEF JoinsSame
<1>2. \A p \in Promises : \A i : At2(p, i)' <=> At2(p, i)
  BY <1>1 DEF At2
<1>3. \A p \in Promises : \A i : Missing(p, i)' = Missing(p, i)
  BY <1>1 DEF Missing
<1>4. ASSUME NEW p \in Promises PROVE JoinOK(p)'
  <2>1. JoinOK(p)
    BY DEF JoinInv
  <2>2. ASSUME NEW i \in 1 .. Len(join[p].futures), At2(p, i)
        PROVE  Waiting(join[p].futures[i])' /\ future'[join[p].futures[i]].cb = "inner"
    <3>1. PICK f : f = join[p].futures[i]
      OBVIOUS
    <3>2. Waiting(f) /\ future[f].cb = "inner" /\ f \in Futures
      BY <2>1, <2>2, <3>1 DEF JoinOK, Waiting, Live
    <3>3. Waiting(f)' /\ future'[f].cb = "inner"
      BY <3>2 DEF JoinsSame
    <3> QED BY <1>1, <3>1, <3>3
  <2>3. promise'[p].mem = "unborn" => join'[p] = NewJoin
    BY <1>1, <2>1 DEF JoinOK
  <2>4. Len(join[p].futures) <= MaxFutures /\ join[p].processed = Missing(p, 1) + Missing(p, 2)
        /\ Len(join[p].futures) = CASE join[p].kind = "none"  -> 0
                              [] join[p].kind = "proxy" -> 1
                              [] OTHER                  -> 2
    BY <2>1 DEF JoinOK
  <2> QED BY <1>1, <1>2, <1>3, <2>2, <2>3, <2>4 DEF JoinOK
<1>5. \A p, q \in Promises : \A i, k \in {1, 2} :
        At2(p, i)' /\ At2(q, k)' /\ join'[p].futures[i] = join'[q].futures[k] => p = q /\ i = k
  BY <1>1, <1>2 DEF JoinInv
<1>6. \A f \in Futures : future'[f].cb = "inner" =>
       \E p \in Promises : \E i \in {1, 2} : At2(p, i)' /\ join'[p].futures[i] = f
  BY <1>1, <1>2 DEF JoinInv, JoinsSame
<1> QED BY <1>4, <1>5, <1>6 DEF JoinInv

LEMMA LinkStep ==
  ASSUME Types, LinkInv, ChainKept, future' \in [Futures -> FutureRecord],
         \A p \in Promises : promise'[p].future # None =>
            promise'[p].future = promise[p].future \/ IsHead(promise[p].future)',
         entries' \in Seq(Futures),
         \A i \in 1 .. Len(entries') : entries'[i] \in ToSet(entries) \/ IsHead(entries[i])',
         \A f \in Futures, r \in Promises : Waiting(f)' /\ future'[f].promise = r =>
            \/ /\ Waiting(f) /\ future[f].promise = r
               /\ Usable(r) /\ promise[r].future = f => Usable(r)' /\ promise'[r].future = f
            \/ Usable(r)' /\ promise'[r].future = f
  PROVE  LinkInv'
<1>1. ASSUME NEW p \in Promises, promise'[p].future # None PROVE IsHead(promise[p].future)'
  <2>1. PICK h : h = promise'[p].future
    OBVIOUS
  <2>2. CASE h = promise[p].future
    <3>1. IsHead(h) /\ h \in Futures
      BY <1>1, <2>1, <2>2 DEF LinkInv, IsHead, Known
    <3>2. IsHead(h)'
      BY <3>1 DEF ChainKept
    <3> QED BY <2>1, <3>2
  <2>3. CASE h # promise[p].future
    <3>1. IsHead(promise[p].future)'
      BY <1>1, <2>1, <2>3
    <3> QED BY <3>1
  <2> QED BY <2>2, <2>3
<1>2. ASSUME NEW i \in 1 .. Len(entries') PROVE IsHead(entries[i])'
  <2>1. PICK h : h = entries'[i]
    OBVIOUS
  <2>2. CASE h \in ToSet(entries)
    <3>1. PICK k \in 1 .. Len(entries) : h = entries[k]
      BY <2>2 DEF ToSet, Types
    <3>2. IsHead(h) /\ h \in Futures
      BY <3>1 DEF LinkInv, IsHead, Known
    <3>3. IsHead(h)'
      BY <3>2 DEF ChainKept
    <3> QED BY <2>1, <3>3
  <2>3. CASE h \notin ToSet(entries)
    BY <2>1, <2>3
  <2> QED BY <2>2, <2>3
<1>3. ASSUME NEW f \in Futures, Waiting(f)', future'[f].promise # None
      PROVE  Usable(future[f].promise)' /\ promise'[future'[f].promise].future = f
  <2>1. PICK r \in Promises : r = future'[f].promise
    BY <1>3 DEF FutureRecord
  <2>2. CASE Usable(r)' /\ promise'[r].future = f
    BY <2>1, <2>2
  <2>3. CASE ~(Usable(r)' /\ promise'[r].future = f)
    <3>1. /\ Waiting(f) /\ future[f].promise = r
          /\ Usable(r) /\ promise[r].future = f => Usable(r)' /\ promise'[r].future = f
      BY <1>3, <2>1, <2>3
    <3>2. Usable(r) /\ promise[r].future = f
      BY <3>1 DEF LinkInv, Promises, None
    <3> QED BY <2>3, <3>1, <3>2
  <2> QED BY <2>2, <2>3
<1> QED BY <1>1, <1>2, <1>3 DEF LinkInv

LEMMA EntriesStill ==
  ASSUME Types, entries' = entries
  PROVE  entries' \in Seq(Futures) /\ \A i \in 1 .. Len(entries') : entries'[i] \in ToSet(entries)
  BY DEF Types, ToSet

Inv == Types /\ ChainInv /\ FramesInv /\ JoinInv /\ LinkInv /\ CareInv /\ AnswerInv

Fields ==
  /\ future \in [Futures -> FutureRecord]
  /\ promise \in [Promises -> PromiseRecord]
  /\ join \in [Promises -> JoinRecord]
  /\ entries \in Seq(Futures)
  /\ ghost \in [Futures -> GhostRecord]

(* What is to be shown of a step.                                          *)
Promised(S, G, t) ==
  /\ \A h \in Futures : AtHead(h)' /\ h \in S => CaredNew(t, h) \/ future'[h].promise # None
  /\ \A h \in Futures : AtHead(h) /\ AtHead(h)' => CaredOnwards(h, G, t)
  /\ \A p \in Promises : Usable(p)' /\ promise'[p].future # None => promise'[p].scheduler
  /\ "failProxied" \notin Liberties =>
       \A p \in Promises : Usable(p)' /\ Answered(p)' =>
          AnswersNew(t, p) \/ (Usable(p) /\ Answered(p) /\ \A fr \in G : ~Answers(fr, p))

LEMMA StepInv ==
  ASSUME Inv, Fields', ChainInv', ChainKept, PromisesKept, JoinInv', LinkInv',
         NEW n, NEW G, NEW t, StackStep(n, G, t), GoodFrames(t),
         NEW S, Heads(S), Promised(S, G, t)
  PROVE  Inv'
<1>1. FramesInv' /\ stack' \in Seq(FrameRecord) /\ Len(stack') >= 1 /\ stack'[1].kind = "user"
  BY FramesGo DEF Inv
<1>2. Types'
  BY <1>1 DEF Types, Fields
<1>3. CareInv'
  BY CareStep DEF Inv, Promised
<1>4. AnswerInv'
  BY AnswerStep DEF Inv, Promised
<1> QED BY <1>1, <1>2, <1>3, <1>4 DEF Inv

-----------------------------------------------------------------------------
(* The steps of user code.                                                 *)
LEMMA StackStill ==
  ASSUME Types, stack' = stack
  PROVE  StackStep(Len(stack), {}, <<>>) /\ GoodFrames(<<>>)
<1>1. Leaves(stack, Len(stack), {})
  BY LeavesAll
<1> QED BY <1>1, GrowNone, GoodNone

(* Steps that change promises only.                                        *)
LEMMA PromiseMade ==
  ASSUME Inv, NEW p \in Promises, promise[p].mem = "unborn",
         NEW rec \in PromiseRecord, rec.mem = "live", rec.future = None, promise' = [promise EXCEPT ![p] = rec],
         UNCHANGED <<future, join, entries, stack, ghost>>
  PROVE  Inv'
<1>0. Types /\ ChainInv /\ JoinInv /\ LinkInv /\ AnswerInv
  BY DEF Inv
<1>1. Fields' /\ future' \in [Futures -> FutureRecord] /\ entries' \in Seq(Futures)
  BY <1>0 DEF Types, Fields
<1>2. StackStep(Len(stack), {}, <<>>) /\ GoodFrames(<<>>)
  BY <1>0, StackStill
<1>3. ChainSame
  BY DEF ChainSame, SameLinks
<1>4. ChainInv' /\ ChainKept /\ Heads({})
  BY <1>0, <1>3, SameChain
<1>5. /\ promise'[p].mem = "live" /\ promise'[p].future = None
      /\ \A q \in Promises : q # p => promise'[q] = promise[q]
      /\ p # None
  BY <1>0 DEF Types, Promises, None
<1>6. PromisesKept
  BY <1>5 DEF PromisesKept
<1>7. JoinsSame
  BY <1>5 DEF JoinsSame, Waiting, Live
<1>8. JoinInv'
  BY <1>0, <1>7, JoinSame
<1>9. LinkInv'
  <2>1. ASSUME NEW f \in Futures, NEW r \in Promises, Waiting(f)', future'[f].promise = r
        PROVE  Waiting(f) /\ future[f].promise = r
               /\ (Usable(r) /\ promise[r].future = f => Usable(r)' /\ promise'[r].future = f)
    <3>1. Waiting(f) /\ future[f].promise = r
      BY <2>1 DEF Waiting, Live
    <3>2. Usable(r) => r # p
      BY DEF Usable
    <3> QED BY <1>5, <3>1, <3>2 DEF Usable
  <2>2. \A i \in 1 .. Len(entries') : entries'[i] \in ToSet(entries)
    BY <1>0 DEF Types, ToSet
  <2>3. \A q \in Promises : promise'[q].future # None => promise'[q].future = promise[q].future
    BY <1>5
  <2> QED BY <1>0, <1>1, <1>4, <2>1, <2>2, <2>3, LinkStep
<1>10. Promised({}, {}, <<>>)
  <2>1. \A h \in Futures : CaredOnwards(h, {}, <<>>)
    BY DEF CaredOnwards
  <2>2. ASSUME NEW q \in Promises, Usable(q)', promise'[q].future # None PROVE promise'[q].scheduler
    <3>1. q # p
      BY <1>5, <2>2
    <3> QED BY <1>0, <1>5, <2>2, <3>1 DEF Usable, AnswerInv
  <2>3. ASSUME NEW q \in Promises, Usable(q)', Answered(q)' PROVE Usable(q) /\ Answered(q)
    <3>1. q # p
      <4>1. join[p] = NewJoin
        BY <1>0 DEF JoinInv, JoinOK
      <4>2. ~Answered(p)'
        BY <4>1 DEF Answered, NewJoin
      <4> QED BY <2>3, <4>2
    <3> QED BY <1>5, <2>3, <3>1 DEF Usable, Answered
  <2> QED BY <2>1, <2>2, <2>3 DEF Promised
<1> QED BY <1>1, <1>2, <1>4, <1>6, <1>8, <1>9, <1>10, StepInv

LEMMA PromiseNewRight ==
  ASSUME Inv, NEW p \in Promises, PromiseNew(p) \/ ContinueNew(p)
  PROVE  Inv'
<1>1. promise[p].mem = "unborn" /\ UNCHANGED <<future, join, entries, stack, ghost>>
  BY DEF PromiseNew, ContinueNew, Fresh
<1>2. PICK b \in BOOLEAN : promise' = [promise EXCEPT ![p] = [NewPromise EXCEPT !.mem = "live", !.scheduler = b]]
                           \/ promise' = [promise EXCEPT ![p] = [NewPromise EXCEPT !.mem = "live"]]
  BY DEF PromiseNew, ContinueNew
<1>3. PICK r : promise' = [promise EXCEPT ![p] = r] /\ (r = [NewPromise EXCEPT !.mem = "live", !.scheduler = b]
                                                         \/ r = [NewPromise EXCEPT !.mem = "live"])
  BY <1>2
<1>4. r \in PromiseRecord /\ r.mem = "live" /\ r.future = None
  BY <1>3 DEF NewPromise, PromiseRecord, Memory
<1> QED BY <1>1, <1>3, <1>4, PromiseMade

LEMMA ResolveUnlinkedRight ==
  ASSUME Inv, NEW p \in Promises, ResolveUnlinked(p)
  PROVE  Inv'
<1>0. Types /\ ChainInv /\ JoinInv /\ LinkInv /\ AnswerInv
  BY DEF Inv
<1>a. /\ Usable(p) /\ promise[p].future = None /\ promise' = [promise EXCEPT ![p].mem = "freed"]
      /\ UNCHANGED <<future, join, entries, stack, ghost>>
  BY DEF ResolveUnlinked, Theirs
<1>1. Fields' /\ future' \in [Futures -> FutureRecord] /\ entries' \in Seq(Futures)
  <2>1. promise \in [Promises -> PromiseRecord] /\ promise[p] \in PromiseRecord
    BY <1>0 DEF Types
  <2>2. PICK r : r = [promise[p] EXCEPT !.mem = "freed"]
    OBVIOUS
  <2>3. r \in PromiseRecord
    BY <2>1, <2>2 DEF PromiseRecord, Memory
  <2>4. promise' = [promise EXCEPT ![p] = r]
    BY <1>a, <2>1, <2>2
  <2>5. promise' \in [Promises -> PromiseRecord]
    BY <2>1, <2>3, <2>4, PutOne
  <2> QED BY <1>0, <1>a, <2>5 DEF Types, Fields
<1>2. StackStep(Len(stack), {}, <<>>) /\ GoodFrames(<<>>)
  BY <1>0, <1>a, StackStill
<1>3. ChainSame
  BY <1>a DEF ChainSame, SameLinks
<1>4. ChainInv' /\ ChainKept /\ Heads({})
  BY <1>0, <1>3, SameChain
<1>5. /\ promise'[p].mem = "freed" /\ promise[p].mem = "live"
      /\ \A q \in Promises : promise'[q].future = promise[q].future /\ promise'[q].scheduler = promise[q].scheduler
      /\ \A q \in Promises : q # p => promise'[q] = promise[q]
  BY <1>0, <1>a DEF Types, PromiseRecord, Usable
<1>6. PromisesKept
  BY <1>a, <1>5 DEF PromisesKept
<1>7. JoinsSame
  BY <1>a, <1>5 DEF JoinsSame, Waiting, Live
<1>8. JoinInv'
  BY <1>0, <1>7, JoinSame
<1>9. LinkInv'
  <2>1. ASSUME NEW f \in Futures, NEW r \in Promises, Waiting(f)', future'[f].promise = r
        PROVE  Waiting(f) /\ future[f].promise = r
               /\ (Usable(r) /\ promise[r].future = f => Usable(r)' /\ promise'[r].future = f)
    <3>1. Waiting(f) /\ future[f].promise = r
      BY <1>a, <2>1 DEF Waiting, Live
    <3>2. promise[r].future = f => r # p
      BY <1>a DEF Futures, None
    <3> QED BY <1>5, <3>1, <3>2 DEF Usable
  <2>2. \A i \in 1 .. Len(entries') : entries'[i] \in ToSet(entries)
    BY <1>0, <1>a DEF Types, ToSet
  <2>3. \A q \in Promises : promise'[q].future # None => promise'[q].future = promise[q].future
    BY <1>5
  <2> QED BY <1>0, <1>1, <1>4, <2>1, <2>2, <2>3, LinkStep
<1>10. Promised({}, {}, <<>>)
  <2>1. \A h \in Futures : CaredOnwards(h, {}, <<>>)
    BY <1>a DEF CaredOnwards
  <2>2. ASSUME NEW q \in Promises, Usable(q)' PROVE Usable(q) /\ promise'[q] = promise[q]
    BY <1>5, <2>2 DEF Usable
  <2>3. \A q \in Promises : Answered(q)' <=> Answered(q)
    BY <1>a DEF Answered
  <2> QED BY <1>0, <2>1, <2>2, <2>3 DEF Promised, AnswerInv
<1> QED BY <1>1, <1>2, <1>4, <1>6, <1>8, <1>9, <1>10, StepInv

(* Futures are made in the order of their numbers.                         *)
LEMMA NextFuture ==
  ASSUME ChainInv, NEW f \in Futures, Fresh(future, f), future \in [Futures -> FutureRecord]
  PROVE  f = Born + 1 /\ Born \in Nat /\ f \notin Known
<1>0. Born \in Nat /\ Known = 1 .. Born /\ MaxFutures \in Nat /\ Futures = 1 .. MaxFutures
  BY BoundsAssumption DEF ChainInv, Futures
<1>1. f \notin Known /\ f \in Nat /\ f >= 1 /\ f <= MaxFutures
  BY <1>0 DEF Fresh, Known
<1>2. \A x \in Futures : x < f => x \in Known
  BY DEF Fresh, Known
<1>3. f > Born
  BY <1>0, <1>1
<1>4. f <= Born + 1
  <2> SUFFICES ASSUME f > Born + 1 PROVE FALSE
    BY <1>0, <1>1
  <2>1. Born + 1 \in Futures /\ Born + 1 < f
    BY <1>0, <1>1
  <2>2. Born + 1 \in 1 .. Born
    BY <1>0, <1>2, <2>1
  <2> QED BY <1>0, <2>2
<1> QED BY <1>0, <1>1, <1>3, <1>4

LEMMA IntervalSize ==
  ASSUME NEW m \in Nat
  PROVE  Cardinality(1 .. m) = m
<1>1. 1 \in Int /\ m \in Int
  OBVIOUS
<1>2. Cardinality(1 .. m) = IF 1 > m THEN 0 ELSE m - 1 + 1
  BY ONLY <1>1, FS_Interval
<1>3. CASE m = 0
  <2>1. 1 > m
    BY <1>3
  <2> QED BY <1>2, <1>3, <2>1
<1>4. CASE m # 0
  <2>1. ~(1 > m) /\ m - 1 + 1 = m
    BY <1>4
  <2> QED BY <1>2, <2>1
<1> QED BY <1>3, <1>4

LEMMA BornGrown ==
  ASSUME ChainInv, NEW k \in Nat, Known' = 1 .. Born + k
  PROVE  Born' = Born + k /\ Newcomers = Born + 1 .. Born + k
<1>0. Born \in Nat /\ Known = 1 .. Born
  BY DEF ChainInv
<1>1. Born' = Cardinality(Known')
  BY DEF Born, Known
<1>2. PICK m \in Nat : m = Born + k
  BY <1>0
<1>3. Cardinality(1 .. m) = m
  BY IntervalSize
<1>4. Newcomers = Born + 1 .. Born + k
  BY <1>0 DEF Newcomers
<1> QED BY <1>1, <1>2, <1>3, <1>4

LEMMA FutureNewRight ==
  ASSUME Inv, NEW p \in Promises, NEW f \in Futures, FutureNew(p, f)
  PROVE  Inv'
<1>0. Types /\ ChainInv /\ JoinInv /\ LinkInv /\ AnswerInv
  BY DEF Inv
<1>a. /\ Usable(p) /\ promise[p].future = None /\ promise[p].scheduler /\ Fresh(future, f)
      /\ future' = [future EXCEPT ![f] = [NewFuture EXCEPT !.mem = "live", !.promise = p]]
      /\ promise' = [promise EXCEPT ![p].future = f]
      /\ UNCHANGED <<join, entries, stack, ghost>>
  BY DEF FutureNew, Own
<1>1. Fields' /\ Types'
  <2>1. future' \in [Futures -> FutureRecord]
    BY <1>0, <1>a DEF Types, FutureRecord, NewFuture
  <2>2. promise' \in [Promises -> PromiseRecord]
    BY <1>0, <1>a DEF Types, PromiseRecord
  <2> QED BY <1>0, <1>a, <2>1, <2>2 DEF Types, Fields
<1>2. StackStep(Len(stack), {}, <<>>) /\ GoodFrames(<<>>)
  BY <1>0, <1>a, StackStill
<1>3. f = Born + 1 /\ Born \in Nat /\ f \notin Known /\ ghost[f].calls = 0 /\ ghost[f].after = None
  <2>1. f = Born + 1 /\ Born \in Nat /\ f \notin Known
    BY <1>0, <1>a, NextFuture DEF Types
  <2> QED BY <1>0, <2>1 DEF ChainInv, ChainOK
<1>4. /\ future'[f].mem = "live" /\ future'[f].cb = "none" /\ future'[f].next = None /\ future'[f].prev = None
      /\ future'[f].promise = p
      /\ \A g \in Futures : g # f => future'[g] = future[g]
  BY <1>0, <1>a DEF Types, NewFuture
<1>5. Known' = 1 .. Born + 1 /\ Known = 1 .. Born
  <2>1. Known' = Known \cup {f}
    BY <1>4 DEF Known
  <2>2. Known = 1 .. Born
    BY <1>0 DEF ChainInv
  <2> QED BY <1>3, <2>1, <2>2
<1>6. Born' = Born + 1 /\ Newcomers = {f}
  <2>1. Born' = Born + 1 /\ Newcomers = Born + 1 .. Born + 1
    BY <1>0, <1>5, BornGrown
  <2> QED BY <1>3, <2>1
<1>7. ChainGrown
  <2>1. GrownAt(f)
    BY <1>3, <1>4, <1>a DEF GrownAt
  <2>2. Born' \in Nat /\ Born <= Born' /\ Known' = 1 .. Born'
    BY <1>3, <1>5, <1>6
  <2> QED BY <1>4, <1>6, <1>a, <2>1, <2>2 DEF ChainGrown
<1>8. ChainInv' /\ ChainKept /\ Heads({g \in Newcomers : future'[g].cb = "none"})
  BY <1>0, <1>1, <1>7, GrownChain
<1>9. /\ promise'[p].mem = promise[p].mem /\ promise'[p].future = f /\ promise'[p].scheduler
      /\ \A q \in Promises : q # p => promise'[q] = promise[q]
      /\ \A q \in Promises : promise'[q].mem = promise[q].mem
  BY <1>0, <1>a DEF Types, PromiseRecord
<1>10. PromisesKept
  BY <1>a, <1>9 DEF PromisesKept
<1>11. JoinsSame
  <2>1. future[f].cb = "none"
    BY <1>0, <1>3 DEF ChainInv, ChainOK
  <2>2. \A g \in Futures : /\ future'[g].cb = "inner" <=> future[g].cb = "inner"
                           /\ future[g].cb = "inner" /\ Waiting(g) => Waiting(g)'
    BY <1>4, <2>1 DEF Waiting, Live
  <2> QED BY <1>a, <1>9, <2>2 DEF JoinsSame
<1>12. JoinInv'
  BY <1>0, <1>11, JoinSame
<1>13. LinkInv'
  <2>1. ASSUME NEW g \in Futures, NEW r \in Promises, Waiting(g)', future'[g].promise = r
        PROVE  \/ /\ Waiting(g) /\ future[g].promise = r
                  /\ Usable(r) /\ promise[r].future = g => Usable(r)' /\ promise'[r].future = g
               \/ Usable(r)' /\ promise'[r].future = g
    <3>1. CASE g = f
      BY <1>4, <1>9, <1>a, <2>1, <3>1 DEF Usable
    <3>2. CASE g # f
      <4>1. Waiting(g) /\ future[g].promise = r
        BY <1>4, <2>1, <3>2 DEF Waiting, Live
      <4>2. promise[r].future = g => r # p
        BY <1>a DEF Futures, None
      <4> QED BY <1>9, <4>1, <4>2 DEF Usable
    <3> QED BY <3>1, <3>2
  <2>2. \A i \in 1 .. Len(entries') : entries'[i] \in ToSet(entries)
    BY <1>0, <1>a DEF Types, ToSet
  <2>3. ASSUME NEW q \in Promises, promise'[q].future # None
        PROVE  promise'[q].future = promise[q].future \/ IsHead(promise[q].future)'
    <3>1. IsHead(f)'
      BY <1>4 DEF IsHead, Known
    <3>2. CASE q = p
      BY <1>9, <3>1, <3>2 DEF IsHead
    <3>3. CASE q # p
      BY <1>9, <3>3
    <3> QED BY <3>2, <3>3
  <2> QED BY <1>0, <1>1, <1>8, <2>1, <2>2, <2>3, LinkStep DEF Fields
<1>14. Promised({g \in Newcomers : future'[g].cb = "none"}, {}, <<>>)
  <2>1. ASSUME NEW h \in Futures, AtHead(h) PROVE CaredOnwards(h, {}, <<>>)
    <3>1. h # f
      BY <1>3, <2>1 DEF AtHead, Waiting, Live, Known
    <3> QED BY <1>4, <1>a, <3>1 DEF CaredOnwards
  <2>2. \A h \in Futures : h \in {g \in Newcomers : future'[g].cb = "none"} => future'[h].promise # None
    BY <1>4, <1>6 DEF Promises, None
  <2>3. ASSUME NEW q \in Promises, Usable(q)', promise'[q].future # None PROVE promise'[q].scheduler
    BY <1>0, <1>9, <2>3 DEF Usable, AnswerInv
  <2>4. \A q \in Promises : (Answered(q)' <=> Answered(q)) /\ (Usable(q)' <=> Usable(q))
    BY <1>9, <1>a DEF Answered, Usable
  <2> QED BY <2>1, <2>2, <2>3, <2>4 DEF Promised
<1> QED BY <1>1, <1>2, <1>8, <1>10, <1>12, <1>13, <1>14, StepInv

LEMMA ThenRight ==
  ASSUME Inv, NEW f \in Futures, NEW g \in Futures, Then(f, g)
  PROVE  Inv'
<1>0. Types /\ ChainInv /\ JoinInv /\ LinkInv /\ AnswerInv
  BY DEF Inv
<1>a. /\ Waiting(f) /\ future[f].cb # "inner" /\ future[f].next = None /\ Fresh(future, g)
      /\ future' = [future EXCEPT ![f].next = g,
                                  ![g] = [NewFuture EXCEPT !.mem = "live", !.cb = "user", !.prev = f]]
      /\ ghost' = [ghost EXCEPT ![g].after = f]
      /\ UNCHANGED <<promise, join, entries, stack>>
  BY DEF Then, Given
<1>2. StackStep(Len(stack), {}, <<>>) /\ GoodFrames(<<>>)
  BY <1>0, <1>a, StackStill
<1>3. g = Born + 1 /\ Born \in Nat /\ g \notin Known /\ ghost[g].calls = 0 /\ ghost[g].after = None
  <2>1. g = Born + 1 /\ Born \in Nat /\ g \notin Known
    BY <1>0, <1>a, NextFuture DEF Types
  <2> QED BY <1>0, <2>1 DEF ChainInv, ChainOK
<1>4. /\ f \in Known /\ f # g /\ f # None
      /\ future'[g].mem = "live" /\ future'[g].cb = "user" /\ future'[g].next = None /\ future'[g].prev = f
      /\ future'[g].promise = None
      /\ \A h \in Futures : h # g => /\ future'[h].mem = future[h].mem /\ future'[h].cb = future[h].cb
                                     /\ future'[h].prev = future[h].prev /\ future'[h].promise = future[h].promise
                                     /\ future'[h].entry = future[h].entry
                                     /\ future'[h].next = IF h = f THEN g ELSE future[h].next
      /\ ghost'[g].calls = 0 /\ ghost'[g].after = f
      /\ \A h \in Futures : h # g => ghost'[h] = ghost[h]
  <2>1. f \in Known /\ f # g /\ f # None
    BY <1>a, <1>3 DEF Waiting, Live, Known, Futures, None
  <2>2. future'[g] = [NewFuture EXCEPT !.mem = "live", !.cb = "user", !.prev = f]
    BY <1>0, <1>a, <2>1 DEF Types
  <2>3. \A h \in Futures : h # g => future'[h] = IF h = f THEN [future[h] EXCEPT !.next = g] ELSE future[h]
    BY <1>0, <1>a, <2>1 DEF Types
  <2>4. ghost'[g].calls = 0 /\ ghost'[g].after = f /\ \A h \in Futures : h # g => ghost'[h] = ghost[h]
    BY <1>0, <1>a, <1>3 DEF Types, GhostRecord
  <2>5. /\ future'[g].mem = "live" /\ future'[g].cb = "user" /\ future'[g].next = None /\ future'[g].prev = f
        /\ future'[g].promise = None
    BY <2>2 DEF NewFuture
  <2>6. ASSUME NEW h \in Futures, h # g
        PROVE  /\ future'[h].mem = future[h].mem /\ future'[h].cb = future[h].cb
               /\ future'[h].prev = future[h].prev /\ future'[h].promise = future[h].promise
               /\ future'[h].entry = future[h].entry
               /\ future'[h].next = IF h = f THEN g ELSE future[h].next
    <3>1. CASE h = f
      BY <1>0, <2>3, <2>6, <3>1 DEF Types, FutureRecord
    <3>2. CASE h # f
      BY <2>3, <2>6, <3>2
    <3> QED BY <3>1, <3>2
  <2> QED BY <2>1, <2>4, <2>5, <2>6
<1>1. Fields' /\ Types'
  <2>1. future' \in [Futures -> FutureRecord]
    <3>1. PICK rg : rg = [NewFuture EXCEPT !.mem = "live", !.cb = "user", !.prev = f]
      OBVIOUS
    <3>2. rg \in FutureRecord
      BY <3>1 DEF NewFuture, FutureRecord
    <3>3. PICK F : F = [future EXCEPT ![f].next = g]
      OBVIOUS
    <3>4. F \in [Futures -> FutureRecord]
      BY <1>0, <3>3 DEF Types, FutureRecord
    <3>5. future' = [F EXCEPT ![g] = rg]
      BY <1>a, <3>1, <3>3
    <3> QED BY <3>2, <3>4, <3>5
  <2>2. ghost' \in [Futures -> GhostRecord]
    BY <1>0, <1>a DEF Types, GhostRecord
  <2> QED BY <1>0, <1>a, <2>1, <2>2 DEF Types, Fields
<1>5. Known' = 1 .. Born + 1 /\ Known = 1 .. Born
  <2>1. Known' = Known \cup {g}
    BY <1>4 DEF Known
  <2>2. Known = 1 .. Born
    BY <1>0 DEF ChainInv
  <2> QED BY <1>3, <2>1, <2>2
<1>6. Born' = Born + 1 /\ Newcomers = {g}
  <2>1. Born' = Born + 1 /\ Newcomers = Born + 1 .. Born + 1
    BY <1>0, <1>5, BornGrown
  <2> QED BY <1>3, <2>1
<1>7. ChainGrown
  <2>1. GrownAt(g)
    BY <1>a, <1>4 DEF GrownAt
  <2>2. Born' \in Nat /\ Born <= Born' /\ Known' = 1 .. Born'
    BY <1>3, <1>5, <1>6
  <2>3. ASSUME NEW h \in Futures, h # g
        PROVE  \/ future'[h].next = future[h].next
               \/ /\ Waiting(h) /\ future[h].cb # "inner" /\ future[h].next = None
                  /\ future'[h].next \in Newcomers /\ ghost'[future'[h].next].after = h
    <3>1. CASE h = f
      <4>1. future'[h].next = g
        BY <1>4, <2>3, <3>1
      <4> QED BY <1>a, <1>4, <1>6, <3>1, <4>1
    <3>2. CASE h # f
      BY <1>4, <2>3, <3>2
    <3> QED BY <3>1, <3>2
  <2> QED BY <1>4, <1>6, <2>1, <2>2, <2>3 DEF ChainGrown
<1>8. ChainInv' /\ ChainKept /\ Heads({h \in Newcomers : future'[h].cb = "none"})
  BY <1>0, <1>1, <1>7, GrownChain
<1>9. PromisesKept
  BY <1>a DEF PromisesKept
<1>10. JoinsSame
  <2>1. future[g].cb = "none"
    BY <1>0, <1>3 DEF ChainInv, ChainOK
  <2>2. \A h \in Futures : /\ future'[h].cb = "inner" <=> future[h].cb = "inner"
                           /\ future[h].cb = "inner" /\ Waiting(h) => Waiting(h)'
    BY <1>4, <2>1 DEF Waiting, Live
  <2> QED BY <1>a, <2>2 DEF JoinsSame
<1>11. JoinInv'
  BY <1>0, <1>10, JoinSame
<1>12. LinkInv'
  <2>1. ASSUME NEW h \in Futures, NEW r \in Promises, Waiting(h)', future'[h].promise = r
        PROVE  Waiting(h) /\ future[h].promise = r
               /\ (Usable(r) /\ promise[r].future = h => Usable(r)' /\ promise'[r].future = h)
    <3>1. h # g
      BY <1>4, <2>1 DEF Promises, None
    <3> QED BY <1>4, <1>a, <2>1, <3>1 DEF Waiting, Live, Usable
  <2>2. \A i \in 1 .. Len(entries') : entries'[i] \in ToSet(entries)
    BY <1>0, <1>a DEF Types, ToSet
  <2>3. \A q \in Promises : promise'[q].future # None => promise'[q].future = promise[q].future
    BY <1>a
  <2> QED BY <1>0, <1>1, <1>8, <2>1, <2>2, <2>3, LinkStep DEF Fields
<1>13. Promised({h \in Newcomers : future'[h].cb = "none"}, {}, <<>>)
  <2>1. ASSUME NEW h \in Futures, AtHead(h) PROVE CaredOnwards(h, {}, <<>>)
    <3>1. h # g
      BY <1>3, <2>1 DEF AtHead, Waiting, Live, Known
    <3>2. future'[h].promise = future[h].promise /\ future'[h].entry = future[h].entry /\ entries' = entries
      BY <1>4, <1>a, <3>1
    <3> QED BY <3>2 DEF CaredOnwards
  <2>2. \A h \in Futures : ~(h \in {x \in Newcomers : future'[x].cb = "none"})
    BY <1>4, <1>6
  <2>4. \A q \in Promises : (Answered(q)' <=> Answered(q)) /\ (Usable(q)' <=> Usable(q))
    BY <1>a DEF Answered, Usable
  <2> QED BY <1>0, <1>a, <2>1, <2>2, <2>4 DEF Promised, AnswerInv
<1> QED BY <1>1, <1>2, <1>8, <1>9, <1>11, <1>12, <1>13, StepInv

(* A promise of the library, over one or two futures.                      *)
Place(fs, f)     == CHOOSE i \in DOMAIN fs : fs[i] = f
NextOf(b, fs, f) == b + Place(fs, f)

LEMMA JoinNewRight ==
  ASSUME Inv, NEW p \in Promises, NEW kind \in {"all", "race", "proxy"}, NEW fs \in Seq(Futures),
         Len(fs) = IF kind = "proxy" THEN 1 ELSE 2,
         \A i, k \in 1 .. Len(fs) : fs[i] = fs[k] => i = k,
         JoinNew(kind, p, fs)
  PROVE  Inv'
<1>0. Types /\ ChainInv /\ JoinInv /\ LinkInv /\ AnswerInv
  BY DEF Inv
<1> DEFINE NewF == [NewPromise EXCEPT !.mem = "live", !.scheduler = TRUE]
           NewJ == [NewJoin EXCEPT !.kind = kind, !.mem = "live", !.futures = [i \in DOMAIN fs |-> Born + i]]
<1>l. PICK L \in Nat : L = Len(fs)
  OBVIOUS
<1>L. /\ DOMAIN fs = 1 .. L /\ (\A i \in 1 .. L : fs[i] \in Futures)
      /\ ToSet(fs) = {fs[i] : i \in 1 .. L}
  <2>1. DOMAIN fs = 1 .. L
    <3>1. DOMAIN fs = 1 .. Len(fs)
      BY LenProperties
    <3> QED BY <1>l, <3>1
  <2>2. \A i \in 1 .. L : fs[i] \in Futures
    BY <1>l
  <2> QED BY <2>1, <2>2 DEF ToSet
<1>B. PICK B \in Nat : B = Born /\ Known = 1 .. B
  BY <1>0 DEF ChainInv
<1>a. /\ promise[p].mem = "unborn" /\ (\A f \in ToSet(fs) : Given(f) /\ future[f].next = None)
      /\ B + L <= MaxFutures
      /\ future' = [f \in Futures |->
                        CASE f \in ToSet(fs) ->
                               [future[f] EXCEPT !.next = NextOf(B, fs, f)]
                          [] f - B \in DOMAIN fs ->
                               [NewFuture EXCEPT !.mem = "live", !.cb = "inner", !.prev = fs[f - B]]
                          [] OTHER -> future[f]]
      /\ ghost' = [f \in Futures |->
                       IF f - B \in DOMAIN fs THEN [ghost[f] EXCEPT !.after = fs[f - B]] ELSE ghost[f]]
      /\ join' = [join EXCEPT ![p] = NewJ]
      /\ promise' = [promise EXCEPT ![p] = NewF]
      /\ UNCHANGED <<entries, stack>>
  <2>1. JoinNew(kind, p, fs)
    OBVIOUS
  <2>2. future' = [f \in Futures |->
                        CASE f \in ToSet(fs) ->
                               [future[f] EXCEPT !.next = NextOf(B, fs, f)]
                          [] f - B \in DOMAIN fs ->
                               [NewFuture EXCEPT !.mem = "live", !.cb = "inner", !.prev = fs[f - B]]
                          [] OTHER -> future[f]]
    BY <1>B, <2>1 DEF JoinNew, Place, NextOf
  <2> QED BY <1>B, <1>l, <2>1, <2>2 DEF JoinNew, Fresh
<1>F. MaxFutures \in Nat /\ Futures = 1 .. MaxFutures /\ p # None
  BY BoundsAssumption DEF Futures, Promises, None
<1>1. ASSUME NEW i \in 1 .. L
      PROVE  /\ Waiting(fs[i]) /\ future[fs[i]].cb # "inner" /\ future[fs[i]].next = None
             /\ fs[i] \in Known /\ fs[i] \in Futures
             /\ B + i \in Futures /\ B + i \notin Known /\ (B + i) - B = i /\ B + i \notin ToSet(fs)
  <2>1. fs[i] \in ToSet(fs)
    BY <1>L
  <2>2. Waiting(fs[i]) /\ future[fs[i]].cb # "inner" /\ future[fs[i]].next = None
    BY <1>a, <2>1 DEF Given
  <2>4. fs[i] \in Known
    BY <1>L, <2>2 DEF Waiting, Live, Known
  <2>5. B + i \in Futures /\ B + i \notin Known /\ (B + i) - B = i
    <3>1. B + L <= MaxFutures
      BY <1>a
    <3>2. B + i \in 1 .. MaxFutures /\ ~(B + i \in 1 .. B) /\ (B + i) - B = i
      BY <1>F, <3>1
    <3> QED BY <1>B, <1>F, <3>2
  <2>6. B + i \notin ToSet(fs)
    <3>1. \A f \in ToSet(fs) : f \in Known
      BY <1>a, <1>L DEF Given, Waiting, Live, Known
    <3> QED BY <2>5, <3>1
  <2> QED BY <1>L, <2>2, <2>4, <2>5, <2>6
<1>2. ASSUME NEW i \in 1 .. L
      PROVE  /\ future'[B + i] = [NewFuture EXCEPT !.mem = "live", !.cb = "inner", !.prev = fs[i]]
             /\ ghost'[B + i] = [ghost[B + i] EXCEPT !.after = fs[i]]
             /\ future'[fs[i]] = [future[fs[i]] EXCEPT !.next = B + i]
  <2>1. /\ fs[i] \in ToSet(fs) /\ fs[i] \in Futures
        /\ B + i \in Futures /\ (B + i) - B \in DOMAIN fs /\ (B + i) - B = i /\ B + i \notin ToSet(fs)
    BY <1>1, <1>L
  <2>2. PICK g \in Futures : g = B + i
    BY <2>1
  <2>3. g \notin ToSet(fs) /\ g - B \in DOMAIN fs /\ g - B = i
    BY <2>1, <2>2
  <2>4. future'[g] = [NewFuture EXCEPT !.mem = "live", !.cb = "inner", !.prev = fs[g - B]]
    BY <1>a, <2>3
  <2>5. ghost'[g] = [ghost[g] EXCEPT !.after = fs[g - B]]
    BY <1>a, <2>3
  <2>6. PICK f \in Futures : f = fs[i] /\ f \in ToSet(fs)
    BY <2>1
  <2>7. future'[f] = [future[f] EXCEPT !.next = B + i]
    <3>1. PICK c : c = Place(fs, f)
      OBVIOUS
    <3>2. c \in DOMAIN fs /\ fs[c] = f
      BY <1>L, <2>6, <3>1 DEF Place
    <3>3. c \in 1 .. Len(fs) /\ i \in 1 .. Len(fs) /\ fs[c] = fs[i]
      BY <1>L, <1>l, <2>6, <3>2
    <3>4. c = i
      BY <3>3
    <3>5. future'[f] = [future[f] EXCEPT !.next = NextOf(B, fs, f)]
      <4>1. f - B \notin DOMAIN fs
        <5> SUFFICES ASSUME f - B \in DOMAIN fs PROVE FALSE
          OBVIOUS
        <5>1. f - B \in 1 .. L /\ f = B + (f - B)
          BY <1>L, <1>F
        <5> QED BY <1>1, <2>6, <5>1
      <4> QED BY <1>a, <2>6, <4>1
    <3> QED BY <3>1, <3>4, <3>5 DEF NextOf
  <2> QED BY <2>2, <2>3, <2>4, <2>5, <2>6, <2>7
<1>3. ASSUME NEW f \in Futures
      PROVE  \/ \E i \in 1 .. L : f = B + i
             \/ \E i \in 1 .. L : f = fs[i]
             \/ future'[f] = future[f]
  <2>1. CASE f - B \in DOMAIN fs
    <3>1. f - B \in 1 .. L /\ f = B + (f - B)
      BY <1>L, <1>F, <1>B, <2>1
    <3> QED BY <3>1
  <2>2. CASE f \in ToSet(fs)
    BY <1>L, <2>2
  <2>3. CASE f - B \notin DOMAIN fs /\ f \notin ToSet(fs)
    BY <1>a, <2>3
  <2> QED BY <2>1, <2>2, <2>3
<1>4. ASSUME NEW f \in Futures, f \in Known \/ \A i \in 1 .. L : f # B + i
      PROVE  ghost'[f] = ghost[f]
  <2>1. f - B \notin DOMAIN fs
    <3> SUFFICES ASSUME f - B \in DOMAIN fs PROVE FALSE
      OBVIOUS
    <3>1. f - B \in 1 .. L /\ f = B + (f - B)
      BY <1>L, <1>F, <1>B
    <3>2. f \notin Known
      BY <1>1, <3>1
    <3> QED BY <1>4, <3>1, <3>2
  <2> QED BY <1>a, <2>1

<1>5. ASSUME NEW i \in 1 .. L
      PROVE  /\ future'[B + i].mem = "live" /\ future'[B + i].cb = "inner" /\ future'[B + i].next = None
             /\ future'[B + i].prev = fs[i] /\ future'[B + i].promise = None
             /\ ghost'[B + i].calls = 0 /\ ghost'[B + i].after = fs[i]
  <2>1. B + i \in Futures /\ B + i \notin Known
    BY <1>1
  <2>2. ghost[B + i] = [calls |-> 0, after |-> None]
    BY <1>0, <2>1 DEF ChainInv, ChainOK
  <2>3. PICK g \in Futures : g = B + i
    BY <2>1
  <2>4. /\ future'[g] = [NewFuture EXCEPT !.mem = "live", !.cb = "inner", !.prev = fs[i]]
        /\ ghost'[g] = [ghost[g] EXCEPT !.after = fs[i]] /\ ghost[g] = [calls |-> 0, after |-> None]
    BY <1>2, <2>2, <2>3
  <2>5. /\ future'[g].mem = "live" /\ future'[g].cb = "inner" /\ future'[g].next = None
        /\ future'[g].prev = fs[i] /\ future'[g].promise = None
    BY <2>4 DEF NewFuture
  <2>6. ghost'[g].calls = 0 /\ ghost'[g].after = fs[i]
    BY <2>4
  <2> QED BY <2>3, <2>5, <2>6
<1>6. ASSUME NEW f \in Futures, \A i \in 1 .. L : f # B + i
      PROVE  /\ future'[f].mem = future[f].mem /\ future'[f].cb = future[f].cb
             /\ future'[f].prev = future[f].prev /\ future'[f].promise = future[f].promise
             /\ future'[f].entry = future[f].entry
             /\ \/ future'[f].next = future[f].next
                \/ \E i \in 1 .. L : f = fs[i] /\ future'[f].next = B + i
  <2>0. future[f] \in FutureRecord
    BY <1>0 DEF Types
  <2>1. CASE \E i \in 1 .. L : f = fs[i]
    <3>1. PICK i \in 1 .. L : f = fs[i]
      BY <2>1
    <3>2. future'[f] = [future[f] EXCEPT !.next = B + i]
      BY <1>2, <3>1
    <3> QED BY <2>0, <3>1, <3>2 DEF FutureRecord
  <2>2. CASE ~\E i \in 1 .. L : f = fs[i]
    BY <1>3, <1>6, <2>2
  <2> QED BY <2>1, <2>2
<1>7. Fields' /\ Types'
  <2>1. ASSUME NEW f \in Futures PROVE future'[f] \in FutureRecord
    <3>1. CASE \E i \in 1 .. L : f = B + i
      <4>1. PICK i \in 1 .. L : f = B + i
        BY <3>1
      <4>2. PICK h \in Futures : h = fs[i]
        BY <1>1
      <4>3. future'[f] = [NewFuture EXCEPT !.mem = "live", !.cb = "inner", !.prev = h]
        BY <1>2, <4>1, <4>2
      <4>4. NewFuture \in FutureRecord
        BY DEF NewFuture, FutureRecord
      <4> QED BY <4>3, <4>4 DEF FutureRecord
    <3>2. CASE \E i \in 1 .. L : f = fs[i]
      <4>1. PICK i \in 1 .. L : f = fs[i]
        BY <3>2
      <4>2. future[f] \in FutureRecord /\ B + i \in Futures /\ future'[f] = [future[f] EXCEPT !.next = B + i]
        BY <1>0, <1>1, <1>2, <4>1 DEF Types
      <4> QED BY <4>2 DEF FutureRecord
    <3>3. CASE future'[f] = future[f]
      BY <1>0, <3>3 DEF Types
    <3> QED BY <1>3, <3>1, <3>2, <3>3
  <2>2. future' \in [Futures -> FutureRecord]
    BY <1>a, <2>1
  <2>3. ASSUME NEW f \in Futures PROVE ghost'[f] \in GhostRecord
    <3>1. ghost[f] \in GhostRecord
      BY <1>0 DEF Types
    <3>2. CASE \E i \in 1 .. L : f = B + i
      <4>1. PICK i \in 1 .. L : f = B + i
        BY <3>2
      <4>2. fs[i] \in Futures /\ ghost'[f] = [ghost[f] EXCEPT !.after = fs[i]]
        BY <1>1, <1>2, <4>1
      <4> QED BY <3>1, <4>2 DEF GhostRecord
    <3>3. CASE ~\E i \in 1 .. L : f = B + i
      BY <1>4, <3>1, <3>3
    <3> QED BY <3>2, <3>3
  <2>4. ghost' \in [Futures -> GhostRecord]
    BY <1>a, <2>3
  <2>5. promise' \in [Promises -> PromiseRecord]
    <3>1. NewF \in PromiseRecord
      BY DEF NewPromise, PromiseRecord, Memory
    <3> HIDE DEF NewF
    <3> QED BY <1>0, <1>a, <3>1 DEF Types
  <2>6. join' \in [Promises -> JoinRecord]
    <3>1. [i \in DOMAIN fs |-> Born + i] \in Seq(Futures \cup {None})
      <4>1. \A i \in 1 .. L : Born + i \in Futures
        BY <1>1, <1>B
      <4>2. DOMAIN fs = 1 .. L
        BY <1>L
      <4> QED BY <4>1, <4>2
    <3>2. NewJ \in JoinRecord
      BY <3>1 DEF NewJoin, JoinRecord, JoinKinds, Memory
    <3> HIDE DEF NewJ
    <3> QED BY <1>0, <1>a, <3>2 DEF Types
  <2> QED BY <1>0, <1>a, <2>2, <2>4, <2>5, <2>6 DEF Types, Fields
<1>8. Known' = 1 .. Born + L /\ Newcomers = {B + i : i \in 1 .. L} /\ Born' = Born + L
  <2>1. Known' = Known \cup {B + i : i \in 1 .. L}
    <3>1. ASSUME NEW f \in Futures PROVE f \in Known' <=> f \in Known \/ \E i \in 1 .. L : f = B + i
      BY <1>5, <1>6 DEF Known
    <3>2. Known' \subseteq Futures /\ Known \subseteq Futures /\ {B + i : i \in 1 .. L} \subseteq Futures
      BY <1>1 DEF Known
    <3> QED BY <3>1, <3>2
  <2>2. Known' = 1 .. B + L
    <3>1. Known = 1 .. B
      BY <1>B
    <3>2. ASSUME NEW x PROVE x \in {B + i : i \in 1 .. L} <=> x \in B + 1 .. B + L
      <4>1. ASSUME x \in B + 1 .. B + L PROVE x - B \in 1 .. L /\ x = B + (x - B)
        BY <3>1, <4>1
      <4>2. ASSUME x \in {B + i : i \in 1 .. L} PROVE x \in B + 1 .. B + L
        <5>1. PICK i \in 1 .. L : x = B + i
          BY <4>2
        <5> QED BY <5>1
      <4> QED BY <4>1, <4>2
    <3>3. (1 .. B) \cup (B + 1 .. B + L) = 1 .. B + L
      OBVIOUS
    <3> QED BY <2>1, <3>1, <3>2, <3>3
  <2>3. Born' = Born + L /\ Newcomers = Born + 1 .. Born + L
    <3>1. L \in Nat /\ Known' = 1 .. Born + L
      BY <1>L, <1>B, <2>2
    <3> QED BY <1>0, <3>1, BornGrown
  <2>4. Newcomers = {B + i : i \in 1 .. L}
    <3>1. \A i \in 1 .. L : B + i \notin Known
      BY <1>1
    <3> QED BY <2>1, <3>1 DEF Newcomers
  <2> QED BY <1>B, <2>2, <2>3, <2>4
<1>9. ChainGrown
  <2>1. ASSUME NEW f \in Newcomers PROVE GrownAt(f)
    <3>1. PICK i \in 1 .. L : f = B + i
      BY <1>8
    <3>2. PICK b \in Futures : b = fs[i] /\ b \in Known /\ Waiting(b) /\ b # None
      <4>1. fs[i] \in Futures /\ fs[i] \in Known /\ Waiting(fs[i])
        BY <1>1
      <4>2. PICK b \in Futures : b = fs[i]
        BY <4>1
      <4>3. b # None
        BY DEF Futures, None
      <4> QED BY <4>1, <4>2, <4>3
    <3>3. future'[b].next = B + i
      <4>1. future'[b] = [future[b] EXCEPT !.next = B + i] /\ future[b] \in FutureRecord
        BY <1>0, <1>2, <3>2 DEF Types
      <4> QED BY <4>1 DEF FutureRecord
    <3> QED BY <1>5, <3>1, <3>2, <3>3 DEF GrownAt
  <2>2. Born' \in Nat /\ Born <= Born' /\ Known' = 1 .. Born'
    BY <1>L, <1>B, <1>8
  <2>3. ASSUME NEW f \in Futures \ Newcomers
        PROVE  /\ future'[f].mem = future[f].mem /\ future'[f].cb = future[f].cb /\ future'[f].prev = future[f].prev
               /\ ghost'[f] = ghost[f]
               /\ \/ future'[f].next = future[f].next
                  \/ /\ Waiting(f) /\ future[f].cb # "inner" /\ future[f].next = None
                     /\ future'[f].next \in Newcomers /\ ghost'[future'[f].next].after = f
    <3>1. \A i \in 1 .. L : f # B + i
      BY <1>8
    <3>2. ASSUME NEW i \in 1 .. L, f = fs[i], future'[f].next = B + i
          PROVE  /\ Waiting(f) /\ future[f].cb # "inner" /\ future[f].next = None
                 /\ future'[f].next \in Newcomers /\ ghost'[future'[f].next].after = f
      BY <1>1, <1>5, <1>8, <3>2
    <3> QED BY <1>4, <1>6, <3>1, <3>2
  <2> QED BY <2>1, <2>2, <2>3 DEF ChainGrown
<1>10. ChainInv' /\ ChainKept /\ Heads({h \in Newcomers : future'[h].cb = "none"})
  BY <1>0, <1>7, <1>9, GrownChain
<1>11. StackStep(Len(stack), {}, <<>>) /\ GoodFrames(<<>>)
  BY <1>0, <1>a, StackStill

<1>12. /\ join[p] = NewJoin /\ join'[p].kind = kind /\ join'[p].processed = 0
       /\ join'[p].futures = [i \in 1 .. L |-> B + i]
       /\ promise'[p].mem = "live" /\ promise'[p].future = None
       /\ \A q \in Promises : q # p => promise'[q] = promise[q] /\ join'[q] = join[q]
  <2>1. join[p] = NewJoin
    BY <1>0, <1>a DEF JoinInv, JoinOK
  <2>2. join'[p] = NewJ /\ promise'[p] = NewF
    BY <1>0, <1>a DEF Types
  <2>3. NewF.mem = "live" /\ NewF.future = None
    BY DEF NewPromise
  <2>4. NewJ.kind = kind /\ NewJ.processed = 0 /\ NewJ.futures = [i \in DOMAIN fs |-> Born + i]
    BY DEF NewJoin
  <2>5. \A q \in Promises : q # p => promise'[q] = promise[q] /\ join'[q] = join[q]
    BY <1>0, <1>a DEF Types
  <2> HIDE DEF NewF, NewJ
  <2> QED BY <1>L, <1>B, <2>1, <2>2, <2>3, <2>4, <2>5
<1>13. PromisesKept
  <2>1. \A q \in Promises : promise[q].mem # "unborn" => q # p
    BY <1>a
  <2> QED BY <1>12, <2>1 DEF PromisesKept
<1>14. Len(join'[p].futures) = L /\ \A i : At2(p, i)' <=> i \in 1 .. L
  <2>1. PICK F : F = [i \in 1 .. L |-> B + i]
    OBVIOUS
  <2>2. Len(F) = L /\ \A i \in 1 .. L : F[i] = B + i
    BY <2>1
  <2>3. \A i \in 1 .. L : F[i] # None
    BY <2>2 DEF None
  <2> QED BY <1>12, <2>1, <2>2, <2>3 DEF At2
<1>15. ASSUME NEW q \in Promises, q # p PROVE Missing(q, 1)' = Missing(q, 1) /\ Missing(q, 2)' = Missing(q, 2)
                                           /\ \A i : At2(q, i)' <=> At2(q, i)
  BY <1>12, <1>15 DEF Missing, At2
<1>16. JoinInv'
  <2>1. JoinOK(p)'
    <3>1. Missing(p, 1)' = 0 /\ Missing(p, 2)' = 0
      BY <1>14 DEF Missing, At2
    <3>2. L <= MaxFutures
      <4>1. B + L <= MaxFutures
        BY <1>a
      <4> QED BY <1>F, <4>1
    <3>3. ASSUME NEW i \in 1 .. L PROVE Waiting(join[p].futures[i])' /\ future'[join'[p].futures[i]].cb = "inner"
      <4>1. PICK g \in Futures : g = B + i
        BY <1>1
      <4>2. join'[p].futures[i] = g
        BY <1>12, <4>1
      <4>3. future'[g].cb = "inner" /\ future'[g].mem = "live"
        BY <1>5, <4>1
      <4>4. Waiting(g)'
        BY <4>3 DEF Waiting, Live
      <4> QED BY <4>2, <4>3, <4>4
    <3>4. L = IF kind = "proxy" THEN 1 ELSE 2
      BY <1>l
    <3>5. promise'[p].mem # "unborn" /\ join'[p].kind = kind /\ Len(join'[p].futures) = L /\ join'[p].processed = 0
      BY <1>12, <1>14
    <3>6. Len(join'[p].futures) = CASE join'[p].kind = "none"  -> 0
                                  [] join'[p].kind = "proxy" -> 1
                                  [] OTHER                  -> 2
      <4>1. kind # "none"
        OBVIOUS
      <4>2. CASE kind = "proxy"
        BY <3>4, <3>5, <4>1, <4>2
      <4>3. CASE kind # "proxy"
        BY <3>4, <3>5, <4>1, <4>3
      <4> QED BY <4>2, <4>3
    <3>7. join'[p].processed = Missing(p, 1)' + Missing(p, 2)'
      BY <3>1, <3>5
    <3>8. Len(join'[p].futures) <= MaxFutures
      BY <3>2, <3>5
    <3>9. \A i \in 1 .. Len(join'[p].futures) :
             At2(p, i)' => Waiting(join[p].futures[i])' /\ future'[join'[p].futures[i]].cb = "inner"
      BY <3>3, <3>5
    <3> QED BY <3>5, <3>6, <3>7, <3>8, <3>9 DEF JoinOK
  <2>2. ASSUME NEW q \in Promises, q # p PROVE JoinOK(q)'
    <3>1. JoinOK(q) /\ join'[q] = join[q] /\ promise'[q] = promise[q]
      BY <1>0, <1>12, <2>2 DEF JoinInv
    <3>2. ASSUME NEW i \in 1 .. Len(join[q].futures), At2(q, i)
          PROVE  Waiting(join[q].futures[i])' /\ future'[join'[q].futures[i]].cb = "inner"
      <4>1. PICK f : f = join[q].futures[i]
        OBVIOUS
      <4>2. Waiting(f) /\ future[f].cb = "inner" /\ f \in Futures /\ f \in Known
        BY <3>1, <3>2, <4>1 DEF JoinOK, Waiting, Live, Known
      <4>3. \A k \in 1 .. L : f # B + k
        BY <1>1, <4>2
      <4>4. Waiting(f)' /\ future'[f].cb = "inner"
        BY <1>6, <4>2, <4>3 DEF Waiting, Live
      <4> QED BY <3>1, <4>1, <4>4
    <3> QED BY <1>15, <2>2, <3>1, <3>2 DEF JoinOK
  <2>3. ASSUME NEW q \in Promises, NEW r \in Promises, NEW i \in {1, 2}, NEW k \in {1, 2},
               At2(q, i)', At2(r, k)', join'[q].futures[i] = join'[r].futures[k]
        PROVE  q = r /\ i = k
    <3>1. ASSUME NEW x \in Promises, NEW j \in {1, 2}, x # p, At2(x, j)'
          PROVE  At2(x, j) /\ join'[x].futures[j] = join[x].futures[j] /\ join[x].futures[j] \in Known
      <4>1. At2(x, j) /\ join'[x] = join[x] /\ JoinOK(x)
        BY <1>0, <1>12, <1>15, <3>1 DEF JoinInv
      <4>2. Waiting(join[x].futures[j])
        BY <4>1 DEF JoinOK, At2
      <4> QED BY <4>1, <4>2 DEF Waiting, Live, Known
    <3>2. ASSUME NEW j \in {1, 2}, At2(p, j)' PROVE j \in 1 .. L /\ join'[p].futures[j] = B + j /\ B + j \notin Known
      BY <1>1, <1>12, <1>14, <3>2
    <3>3. CASE q = p /\ r = p
      <4>1. B + i = B + k
        BY <2>3, <3>2, <3>3
      <4> QED BY <3>3, <4>1
    <3>4. CASE q = p /\ r # p
      BY <2>3, <3>1, <3>2, <3>4
    <3>5. CASE q # p /\ r = p
      BY <2>3, <3>1, <3>2, <3>5
    <3>6. CASE q # p /\ r # p
      BY <1>0, <2>3, <3>1, <3>6 DEF JoinInv
    <3> QED BY <3>3, <3>4, <3>5, <3>6
  <2>4. ASSUME NEW f \in Futures, future'[f].cb = "inner"
        PROVE  \E q \in Promises : \E i \in {1, 2} : At2(q, i)' /\ join'[q].futures[i] = f
    <3>1. CASE \E i \in 1 .. L : f = B + i
      <4>1. PICK i \in 1 .. L : f = B + i
        BY <3>1
      <4>2. i \in {1, 2}
        BY <1>l
      <4>3. At2(p, i)'
        BY <1>14, <4>1, <4>2
      <4>4. join'[p].futures[i] = f
        BY <1>12, <1>14, <4>1, <4>2
      <4> QED BY <4>2, <4>3, <4>4
    <3>2. CASE ~\E i \in 1 .. L : f = B + i
      <4>1. future[f].cb = "inner"
        BY <1>6, <2>4, <3>2
      <4>2. PICK q \in Promises, i \in {1, 2} : At2(q, i) /\ join[q].futures[i] = f
        BY <1>0, <4>1 DEF JoinInv
      <4>3. q # p
        BY <1>12, <4>2 DEF At2, NewJoin
      <4> QED BY <1>12, <1>15, <4>2, <4>3
    <3> QED BY <3>1, <3>2
  <2>5. \A q \in Promises : JoinOK(q)'
    BY <2>1, <2>2
  <2> QED BY <2>3, <2>4, <2>5 DEF JoinInv
<1>17. LinkInv'
  <2>1. ASSUME NEW h \in Futures, NEW r \in Promises, Waiting(h)', future'[h].promise = r
        PROVE  Waiting(h) /\ future[h].promise = r
               /\ (Usable(r) /\ promise[r].future = h => Usable(r)' /\ promise'[r].future = h)
    <3>1. \A i \in 1 .. L : h # B + i
      BY <1>5, <2>1 DEF Promises, None
    <3>2. Waiting(h) /\ future[h].promise = r
      BY <1>6, <2>1, <3>1 DEF Waiting, Live
    <3>3. Usable(r) => r # p
      BY <1>a DEF Usable
    <3>4. r # p => promise'[r] = promise[r]
      BY <1>12
    <3> QED BY <3>2, <3>3, <3>4 DEF Usable
  <2>2. \A i \in 1 .. Len(entries') : entries'[i] \in ToSet(entries)
    <3>1. entries' = entries
      BY <1>a
    <3> QED BY <1>0, <3>1, EntriesStill
  <2>3. \A q \in Promises : promise'[q].future # None => promise'[q].future = promise[q].future
    BY <1>12
  <2> QED BY <1>0, <1>7, <1>10, <2>1, <2>2, <2>3, LinkStep DEF Fields
<1>18. Promised({h \in Newcomers : future'[h].cb = "none"}, {}, <<>>)
  <2>1. ASSUME NEW h \in Futures, AtHead(h) PROVE CaredOnwards(h, {}, <<>>)
    <3>1. h \in Known
      BY <2>1 DEF AtHead, Waiting, Live, Known
    <3>2. \A i \in 1 .. L : h # B + i
      BY <1>1, <3>1
    <3>3. future'[h].promise = future[h].promise /\ future'[h].entry = future[h].entry /\ entries' = entries
      BY <1>6, <1>a, <3>2
    <3> QED BY <3>3 DEF CaredOnwards
  <2>2. ASSUME NEW h \in Newcomers PROVE future'[h].cb # "none"
    BY <1>5, <1>8
  <2>3. ASSUME NEW q \in Promises, Usable(q)', promise'[q].future # None PROVE promise'[q].scheduler
    <3>1. q # p
      BY <1>12, <2>3
    <3> QED BY <1>0, <1>12, <2>3, <3>1 DEF Usable, AnswerInv
  <2>4. ASSUME NEW q \in Promises, Usable(q)', Answered(q)' PROVE Usable(q) /\ Answered(q)
    <3>1. ~Answered(p)'
      BY <1>12 DEF Answered
    <3>2. q # p
      BY <2>4, <3>1
    <3> QED BY <1>12, <2>4, <3>2 DEF Usable, Answered
  <2> QED BY <2>1, <2>2, <2>3, <2>4 DEF Promised
<1> QED BY <1>7, <1>10, <1>11, <1>13, <1>16, <1>17, <1>18, StepInv

-----------------------------------------------------------------------------
(* The other steps, but those that call an inner future: they make nothing *)
(* and leave the promises of the library as they are.                      *)
MovedPromises ==
  \A q \in Promises : /\ promise'[q].mem = "unborn" <=> promise[q].mem = "unborn"
                      /\ promise[q].mem \in {"dying", "freed"} => promise'[q].mem \in {"dying", "freed"}

MovedFutures ==
  \A f \in Futures : /\ future'[f].cb = "inner" <=> future[f].cb = "inner"
                     /\ future[f].cb = "inner" /\ Waiting(f) => Waiting(f)'

Relinked ==
  /\ \A p \in Promises : promise'[p].future # None =>
        promise'[p].future = promise[p].future \/ IsHead(promise[p].future)'
  /\ \A i \in 1 .. Len(entries') : entries'[i] \in ToSet(entries) \/ IsHead(entries[i])'
  /\ \A f \in Futures, r \in Promises : Waiting(f)' /\ future'[f].promise = r =>
        \/ /\ Waiting(f) /\ future[f].promise = r
           /\ Usable(r) /\ promise[r].future = f => Usable(r)' /\ promise'[r].future = f
        \/ Usable(r)' /\ promise'[r].future = f

CaredFor(S, G, t) ==
  /\ \A h \in Futures : AtHead(h)' /\ h \in S => CaredNew(t, h) \/ future'[h].promise # None
  /\ \A h \in Futures : AtHead(h) /\ AtHead(h)' => CaredOnwards(h, G, t)

SchedulersKept ==
  \A p \in Promises : Usable(p) /\ Usable(p)' /\ promise'[p].future # None =>
     promise'[p].scheduler \/ (promise'[p].future = promise[p].future /\ promise'[p].scheduler = promise[p].scheduler)

LEMMA PromisesMoved ==
  ASSUME Types, join' = join, MovedPromises
  PROVE  PromisesKept /\ \A q \in Promises : Usable(q)' => Usable(q)
<1>1. PromisesKept
  BY DEF MovedPromises, PromisesKept
<1>2. ASSUME NEW q \in Promises, Usable(q)' PROVE Usable(q)
  <2>1. promise[q].mem \in {"unborn", "live", "dying", "freed"} /\ promise'[q].mem = "live"
    BY <1>2 DEF Types, PromiseRecord, Memory, Usable
  <2> QED BY <2>1 DEF MovedPromises, Usable
<1> QED BY <1>1, <1>2

LEMMA MoveStep ==
  ASSUME Inv, Fields', ChainInv', ChainKept, NEW S, Heads(S),
         join' = join, MovedPromises, MovedFutures, Relinked, SchedulersKept,
         NEW n, NEW G, NEW t, StackStep(n, G, t), GoodFrames(t), CaredFor(S, G, t),
         \A fr \in G : fr.kind = "answer" => ~Usable(fr.p)'
  PROVE  Inv'
<1>0. Types /\ JoinInv /\ LinkInv /\ AnswerInv
  BY DEF Inv
<1>1. PromisesKept /\ \A q \in Promises : Usable(q)' => Usable(q)
  BY <1>0, PromisesMoved
<1>2. JoinsSame
  BY DEF JoinsSame, MovedPromises, MovedFutures
<1>3. JoinInv'
  BY <1>0, <1>2, JoinSame
<1>4. future' \in [Futures -> FutureRecord] /\ entries' \in Seq(Futures)
  BY DEF Fields
<1>5. LinkInv'
  BY <1>0, <1>4, LinkStep DEF Relinked
<1>6. Promised(S, G, t)
  <2>1. \A p \in Promises : Usable(p)' /\ promise'[p].future # None => promise'[p].scheduler
    BY <1>0, <1>1 DEF SchedulersKept, AnswerInv
  <2>2. \A p \in Promises : Answered(p)' <=> Answered(p)
    BY DEF Answered
  <2>3. ASSUME NEW p \in Promises, Usable(p)' PROVE \A fr \in G : ~Answers(fr, p)
    BY <2>3 DEF Answers
  <2> QED BY <1>1, <2>1, <2>2, <2>3 DEF Promised, CaredFor
<1> QED BY <1>1, <1>3, <1>5, <1>6, StepInv

(* Steps that leave alone the promises futures wait for, and the entries.  *)
PromisesAlone ==
  \A r \in Promises :
    /\ promise'[r].future # None => /\ promise'[r].future = promise[r].future
                                   /\ promise'[r].scheduler = promise[r].scheduler
    /\ Usable(r) /\ promise[r].future # None => Usable(r)' /\ promise'[r].future = promise[r].future

LEMMA Alone ==
  ASSUME Types, entries' = entries, PromisesAlone,
         \A f \in Futures : Waiting(f)' => Waiting(f) /\ future'[f].promise = future[f].promise
  PROVE  Relinked /\ SchedulersKept
<1>1. \A i \in 1 .. Len(entries') : entries'[i] \in ToSet(entries)
  BY EntriesStill
<1>2. \A f \in Futures : f # None
  BY DEF Futures, None
<1>3. Relinked
  BY <1>1, <1>2 DEF Relinked, PromisesAlone
<1> QED BY <1>3 DEF SchedulersKept, PromisesAlone

LEMMA Quiet ==
  ASSUME promise' = promise
  PROVE  MovedPromises /\ PromisesAlone
  BY DEF MovedPromises, PromisesAlone, Usable

LEMMA SameMoves ==
  ASSUME ChainSame
  PROVE  MovedFutures /\ \A f \in Futures : Waiting(f)' <=> Waiting(f)
  BY DEF ChainSame, SameLinks, MovedFutures, Waiting, Live

(* The activations that are entered.                                       *)
LEMMA FrameRight ==
  ASSUME NEW k \in FrameKinds, NEW f \in Futures \cup {None}
  PROVE  /\ Frame(k, f) \in FrameRecord /\ Frame(k, f).kind = k /\ Frame(k, f).f = f
         /\ Frame(k, f).p = None /\ Frame(k, f).todo = <<>>
<1>1. <<>> \in Seq(Futures) /\ None \in Promises \cup {None}
  OBVIOUS
<1> QED BY <1>1 DEF Frame, FrameRecord

LEMMA UserRight ==
  ASSUME NEW f \in Futures \cup {None}, NEW x, x = User(f)
  PROVE  x \in FrameRecord /\ x.kind = "user" /\ FrameOK(x)'
<1>1. x \in FrameRecord /\ x.kind = "user"
  BY FrameRight DEF User, FrameKinds
<1> QED BY <1>1 DEF FrameOK, Chainers, Callings

(* Those about promise p.                                                  *)
LEMMA AboutPromise ==
  ASSUME NEW p \in Promises
  PROVE  /\ Dying(p) \in FrameRecord /\ Dying(p).kind = "dying" /\ Dying(p).p = p
         /\ Answer(p) \in FrameRecord /\ Answer(p).kind = "answer" /\ Answer(p).p = p
<1>1. <<>> \in Seq(Futures) /\ None \in Futures \cup {None} /\ {"dying", "answer"} \subseteq FrameKinds
  BY DEF FrameKinds
<1> QED BY <1>1 DEF Dying, Answer, Frame, FrameRecord

LEMMA CleanRight ==
  ASSUME Types, NEW p \in Promises, Len(join[p].futures) <= MaxFutures
  PROVE  /\ Clean(p) \in FrameRecord /\ Clean(p).kind = "clean" /\ Clean(p).p = p
         /\ Len(Clean(p).todo) = Len(join[p].futures)
         /\ \A i \in 1 .. Len(join[p].futures) : Clean(p).todo[i] = i
<1>1. PICK L \in Nat : L = Len(join[p].futures) /\ L <= MaxFutures /\ DOMAIN join[p].futures = 1 .. L
  <2>1. join[p].futures \in Seq(Futures \cup {None})
    BY DEF Types, JoinRecord
  <2> QED BY <2>1, LenProperties
<1>2. PICK d : d = [i \in DOMAIN join[p].futures |-> i]
  OBVIOUS
<1>3. d = [i \in 1 .. L |-> i]
  BY <1>1, <1>2
<1>4. \A i \in 1 .. L : i \in Futures
  <2>1. MaxFutures \in Nat /\ Futures = 1 .. MaxFutures /\ L <= MaxFutures
    BY <1>1, BoundsAssumption DEF Futures
  <2> QED BY <2>1
<1>5. d \in Seq(Futures) /\ Len(d) = L /\ \A i \in 1 .. L : d[i] = i
  BY <1>3, <1>4
<1>6. None \in Futures \cup {None} /\ "clean" \in FrameKinds
  BY DEF FrameKinds
<1>7. Clean(p) = [kind |-> "clean", f |-> None, p |-> p, todo |-> d]
  <2>1. Clean(p) = [Frame("clean", None) EXCEPT !.p = p, !.todo = d]
    BY <1>2 DEF Clean
  <2> QED BY <2>1 DEF Frame
<1> QED BY <1>1, <1>5, <1>6, <1>7 DEF FrameRecord

LEMMA PromiseFrames ==
  ASSUME Types, NEW p \in Promises, PromisesKept, promise[p].mem # "unborn", Len(join[p].futures) <= MaxFutures,
         NEW x, x = Answer(p) \/ x = Clean(p) \/ (x = Dying(p) /\ promise'[p].mem \in {"dying", "freed"})
  PROVE  FrameOK(x)'
<1>0. promise'[p].mem # "unborn" /\ Len(join'[p].futures) = Len(join[p].futures)
  BY DEF PromisesKept
<1>1. CASE x = Dying(p) /\ promise'[p].mem \in {"dying", "freed"}
  <2>1. x.kind = "dying" /\ x.p = p
    BY <1>1, AboutPromise
  <2> QED BY <1>0, <1>1, <2>1 DEF FrameOK, Chainers, Callings
<1>2. CASE x = Answer(p)
  <2>1. x.kind = "answer" /\ x.p = p
    BY <1>2, AboutPromise
  <2> QED BY <1>0, <2>1 DEF FrameOK, Chainers, Callings
<1>3. CASE x = Clean(p)
  <2>1. x.kind = "clean" /\ x.p = p /\ Len(x.todo) = Len(join[p].futures)
        /\ \A i \in 1 .. Len(join[p].futures) : x.todo[i] = i
    BY <1>3, CleanRight
  <2> QED BY <1>0, <2>1 DEF FrameOK, Chainers, Callings
<1> QED BY <1>1, <1>2, <1>3

LEMMA OverNone ==
  ASSUME NEW x \in FrameRecord, NEW y \in FrameRecord
  PROVE  <<x>> = Over(x, <<>>) /\ <<x, y>> = Over(x, Over(y, <<>>)) /\ <<>> \in Seq(FrameRecord)
<1>1. <<x>> \in Seq(FrameRecord) /\ <<y>> \in Seq(FrameRecord) /\ <<>> \in Seq(FrameRecord)
  OBVIOUS
<1>2. \A z \in FrameRecord : Over(z, <<>>) = <<z>>
  BY ConcatSimplifications DEF Over
<1>3. Over(x, <<y>>) = <<x, y>>
  <2>1. /\ Over(x, <<y>>) \in Seq(FrameRecord) /\ Len(Over(x, <<y>>)) = Len(<<y>>) + 1
        /\ Over(x, <<y>>)[1] = x /\ \A i \in 1 .. Len(<<y>>) : Over(x, <<y>>)[i + 1] = <<y>>[i]
    BY <1>1, OverRight
  <2>2. Len(<<y>>) = 1 /\ <<y>>[1] = y
    OBVIOUS
  <2>3. PICK o : o = Over(x, <<y>>)
    OBVIOUS
  <2>4. o \in Seq(FrameRecord) /\ Len(o) = 2 /\ o[1] = x /\ o[2] = y
    BY <2>1, <2>2, <2>3
  <2>5. <<x, y>> \in Seq(FrameRecord) /\ Len(<<x, y>>) = 2 /\ <<x, y>>[1] = x /\ <<x, y>>[2] = y
    OBVIOUS
  <2>6. \A i \in 1 .. 2 : i = 1 \/ i = 2
    OBVIOUS
  <2>7. o = <<x, y>>
    BY <2>4, <2>5, <2>6, SeqEqual
  <2> QED BY <2>3, <2>7
<1> QED BY <1>1, <1>2, <1>3

(* The cancel callback of a promise.                                       *)
LEMMA DoomedRight ==
  ASSUME Types, JoinInv, NEW p \in Promises \cup {None}, PromisesKept,
         p # None => promise[p].mem # "unborn" /\ promise'[p].mem \in {"dying", "freed"},
         NEW r, r = Doomed(p)
  PROVE  GoodFrames(r)
<1>1. CASE p = None
  <2>1. r = <<>>
    BY <1>1 DEF Doomed
  <2> QED BY <2>1, GoodNone
<1>2. CASE p # None
  <2>0. p \in Promises /\ promise[p].mem # "unborn" /\ promise'[p].mem \in {"dying", "freed"}
        /\ Len(join[p].futures) <= MaxFutures
    BY <1>2 DEF JoinInv, JoinOK
  <2>1. PICK d : d = Dying(p)
    OBVIOUS
  <2>2. PICK u : u = User(None)
    OBVIOUS
  <2>3. PICK c : c = Clean(p)
    OBVIOUS
  <2>4. d \in FrameRecord /\ d.kind = "dying" /\ FrameOK(d)'
    BY <2>0, <2>1, AboutPromise, PromiseFrames
  <2>5. u \in FrameRecord /\ u.kind = "user" /\ FrameOK(u)'
    BY <2>2, UserRight
  <2>6. c \in FrameRecord /\ c.kind = "clean" /\ FrameOK(c)'
    BY <2>0, <2>3, CleanRight, PromiseFrames
  <2>7. r = <<d>> \/ r = <<d, u>> \/ r = <<d, c>>
    <3>1. join[p].kind \in JoinKinds
      BY <2>0 DEF Types, JoinRecord
    <3> QED BY <1>2, <2>1, <2>2, <2>3, <3>1 DEF Doomed, JoinKinds
  <2>8. /\ <<d>> = Over(d, <<>>) /\ <<d, u>> = Over(d, Over(u, <<>>)) /\ <<d, c>> = Over(d, Over(c, <<>>))
    BY <2>4, <2>5, <2>6, OverNone
  <2>9. GoodFrames(<<>>)
    BY GoodNone
  <2>10. GoodFrames(Over(d, <<>>))
    BY <2>4, <2>9, GoodOver DEF Callings
  <2>11. GoodFrames(Over(u, <<>>)) /\ GoodFrames(Over(c, <<>>))
    BY <2>5, <2>6, <2>9, GoodOver DEF Callings
  <2>12. GoodFrames(Over(d, Over(u, <<>>))) /\ GoodFrames(Over(d, Over(c, <<>>)))
    BY <2>4, <2>11, GoodOver DEF Callings
  <2> QED BY <2>7, <2>8, <2>10, <2>12
<1> QED BY <1>1, <1>2

LEMMA AppendHas ==
  ASSUME NEW S, NEW s \in Seq(S), NEW f \in S
  PROVE  /\ Append(s, f) \in Seq(S) /\ f \in ToSet(Append(s, f)) /\ ToSet(s) \subseteq ToSet(Append(s, f))
         /\ \A i \in 1 .. Len(Append(s, f)) : Append(s, f)[i] \in ToSet(s) \/ Append(s, f)[i] = f
<1> DEFINE a == Append(s, f)
<1>1. a \in Seq(S) /\ Len(a) = Len(s) + 1 /\ a[Len(s) + 1] = f /\ Len(s) \in Nat /\ \A i \in 1 .. Len(s) : a[i] = s[i]
  BY AppendProperties
<1>2. DOMAIN a = 1 .. Len(s) + 1 /\ DOMAIN s = 1 .. Len(s)
  BY <1>1, LenProperties
<1> HIDE DEF a
<1>3. f \in ToSet(a)
  <2>1. Len(s) + 1 \in DOMAIN a
    BY <1>1, <1>2
  <2> QED BY <1>1, <2>1 DEF ToSet
<1>4. ASSUME NEW x \in ToSet(s) PROVE x \in ToSet(a)
  <2>1. PICK i \in 1 .. Len(s) : x = s[i]
    BY <1>2 DEF ToSet
  <2>2. i \in DOMAIN a /\ a[i] = x
    BY <1>1, <1>2, <2>1
  <2> QED BY <2>2 DEF ToSet
<1>5. ASSUME NEW i \in 1 .. Len(a) PROVE a[i] \in ToSet(s) \/ a[i] = f
  <2>1. CASE i = Len(s) + 1
    BY <1>1, <2>1
  <2>2. CASE i # Len(s) + 1
    <3>1. i \in 1 .. Len(s) /\ a[i] = s[i]
      BY <1>1, <2>2
    <3> QED BY <1>2, <3>1 DEF ToSet
  <2> QED BY <2>1, <2>2
<1> QED BY <1>1, <1>3, <1>4, <1>5 DEF a

LEMMA ResolveRight ==
  ASSUME Inv, NEW p \in Promises, Resolve(p)
  PROVE  Inv'
<1>0. Types /\ ChainInv /\ JoinInv /\ LinkInv
  BY DEF Inv
<1>1. PICK f \in Futures : f = promise[p].future
  BY <1>0 DEF Resolve, Types, PromiseRecord
<1>a. /\ Usable(p) /\ f # None /\ IsHead(f)
      /\ future' = [future EXCEPT ![f].promise = None, ![f].entry = TRUE]
      /\ entries' = Append(entries, f)
      /\ promise' = [promise EXCEPT ![p].mem = "freed", ![p].future = None]
      /\ UNCHANGED <<join, stack, ghost>>
  BY <1>0, <1>1 DEF Resolve, Theirs, Scheduled, LinkInv
<1>2. /\ entries' \in Seq(Futures) /\ f \in ToSet(entries') /\ ToSet(entries) \subseteq ToSet(entries')
      /\ \A i \in 1 .. Len(entries') : entries'[i] \in ToSet(entries) \/ entries'[i] = f
  BY <1>0, <1>a, AppendHas DEF Types
<1>3. \A g \in Futures : SameLinks(g) /\ (g # f => future'[g] = future[g])
  <2>1. \A g \in Futures : g # f => future'[g] = future[g]
    BY <1>0, <1>a DEF Types
  <2>2. future[f] \in FutureRecord /\ future'[f] = [future[f] EXCEPT !.promise = None, !.entry = TRUE]
    BY <1>0, <1>a DEF Types
  <2>3. SameLinks(f)
    BY <2>2 DEF FutureRecord, SameLinks
  <2> QED BY <2>1, <2>3 DEF SameLinks
<1>4. future'[f].promise = None /\ future'[f].entry
  BY <1>0, <1>a DEF Types, FutureRecord
<1>5. /\ promise'[p].mem = "freed" /\ promise'[p].future = None /\ promise[p].mem = "live"
      /\ \A q \in Promises : q # p => promise'[q] = promise[q]
  BY <1>0, <1>a DEF Types, PromiseRecord, Usable
<1>6. Fields'
  <2>1. future' \in [Futures -> FutureRecord]
    <3>1. PICK r : r = [future[f] EXCEPT !.promise = None, !.entry = TRUE]
      OBVIOUS
    <3>2. future \in [Futures -> FutureRecord] /\ future[f] \in FutureRecord
      BY <1>0 DEF Types
    <3>3. r \in FutureRecord
      BY <3>1, <3>2 DEF FutureRecord
    <3>4. future' = [future EXCEPT ![f] = r]
      BY <1>a, <3>1, <3>2
    <3> QED BY <3>2, <3>3, <3>4, PutOne
  <2>2. promise' \in [Promises -> PromiseRecord]
    <3>1. PICK r : r = [promise[p] EXCEPT !.mem = "freed", !.future = None]
      OBVIOUS
    <3>2. promise \in [Promises -> PromiseRecord] /\ promise[p] \in PromiseRecord
      BY <1>0 DEF Types
    <3>3. r \in PromiseRecord
      BY <3>1, <3>2 DEF PromiseRecord, Memory
    <3>4. promise' = [promise EXCEPT ![p] = r]
      BY <1>a, <3>1, <3>2
    <3> QED BY <3>2, <3>3, <3>4, PutOne
  <2> QED BY <1>0, <1>2, <1>a, <2>1, <2>2 DEF Types, Fields
<1>7. ChainSame
  BY <1>3, <1>a DEF ChainSame
<1>8. ChainInv' /\ ChainKept /\ Heads({})
  BY <1>0, <1>7, SameChain
<1>9. MovedFutures /\ \A g \in Futures : Waiting(g)' <=> Waiting(g)
  BY <1>7, SameMoves
<1>10. MovedPromises /\ SchedulersKept
  BY <1>5 DEF MovedPromises, SchedulersKept
<1>11. Relinked
  <2>1. IsHead(f)'
    BY <1>8, <1>a DEF ChainKept
  <2>2. ASSUME NEW i \in 1 .. Len(entries') PROVE entries'[i] \in ToSet(entries) \/ IsHead(entries[i])'
    <3>1. PICK h : h = entries'[i]
      OBVIOUS
    <3>2. CASE h = f
      BY <2>1, <3>1, <3>2 DEF IsHead
    <3> QED BY <1>2, <3>1, <3>2
  <2>3. ASSUME NEW g \in Futures, NEW r \in Promises, Waiting(g)', future'[g].promise = r
        PROVE  /\ Waiting(g) /\ future[g].promise = r
               /\ Usable(r) /\ promise[r].future = g => Usable(r)' /\ promise'[r].future = g
    <3>1. g # f
      BY <1>4, <2>3 DEF Promises, None
    <3>2. promise[r].future = g => r # p
      BY <1>1, <3>1
    <3> QED BY <1>3, <1>5, <1>9, <2>3, <3>1, <3>2 DEF Usable
  <2>4. \A q \in Promises : promise'[q].future # None => promise'[q].future = promise[q].future
    BY <1>5
  <2> QED BY <2>2, <2>3, <2>4 DEF Relinked
<1>12. StackStep(Len(stack), {}, <<>>) /\ GoodFrames(<<>>)
  BY <1>0, <1>a, StackStill
<1>13. CaredFor({}, {}, <<>>)
  <2>1. \A h \in Futures : CaredOnwards(h, {}, <<>>)
    <3>1. ASSUME NEW h \in Futures, h # f PROVE CaredOnwards(h, {}, <<>>)
      <4>1. future'[h] = future[h]
        BY <1>3, <3>1
      <4> QED BY <1>2, <4>1 DEF CaredOnwards
    <3>2. CaredOnwards(f, {}, <<>>)
      BY <1>2, <1>4 DEF CaredOnwards
    <3> QED BY <3>1, <3>2
  <2> QED BY <2>1 DEF CaredFor
<1> QED BY <1>a, <1>6, <1>8, <1>9, <1>10, <1>11, <1>12, <1>13, MoveStep

(* _eina_future_cancel of a chain, from its head on.                       *)
LEMMA CancelChainRight ==
  ASSUME Inv, NEW h \in Futures, AtHead(h), NEW base, CancelChain(h, base)
  PROVE  /\ ChainKept /\ PromisesKept
         /\ LET p == future[h].promise
            IN /\ p \in Promises \cup {None}
               /\ p # None => promise[p].mem # "unborn" /\ promise'[p].mem \in {"dying", "freed"}
         /\ Frame("cancel", h) \in FrameRecord /\ Frame("cancel", h).kind = "cancel" /\ FrameOK(Frame("cancel", h))'
         /\ stack' = base \o <<Frame("cancel", h)>> \o Doomed(future[h].promise)
         /\ \A n, G, t : /\ StackStep(n, G, t) /\ GoodFrames(t) /\ Has(t, Frame("cancel", h))
                         /\ \A fr \in G : fr.kind = "clean"
                         => Inv'
<1>0. Types /\ ChainInv /\ JoinInv /\ LinkInv
  BY DEF Inv
<1>1. PICK p \in Promises \cup {None} : p = future[h].promise
  BY <1>0 DEF Types, FutureRecord
<1>2. p # None => Usable(p) /\ promise[p].future = h /\ p \in Promises
  BY <1>0, <1>1 DEF LinkInv, AtHead
<1>a. /\ entries' = IF future[h].entry THEN Recalled(h) ELSE entries
      /\ future' = [Unlinked(p) EXCEPT ![h].entry = FALSE]
      /\ promise' = IF p = None THEN promise ELSE Condemned(p)
      /\ stack' = base \o <<Frame("cancel", h)>> \o Doomed(p)
      /\ UNCHANGED <<join, ghost>>
  BY <1>1 DEF CancelChain
<1>3. /\ entries' \in Seq(Futures)
      /\ ToSet(entries') \subseteq ToSet(entries) /\ ToSet(entries) \ {h} \subseteq ToSet(entries')
  <2>1. entries \in Seq(Futures)
    BY <1>0 DEF Types
  <2>2. entries' = RemoveFirst(entries, h) \/ entries' = entries
    BY <1>a DEF Recalled
  <2> QED BY <2>1, <2>2, RecallRight
<1>4. /\ future' \in [Futures -> FutureRecord]
      /\ \A g \in Futures : g # h => future'[g] = future[g]
      /\ SameLinks(h) /\ future'[h].promise = None /\ ~future'[h].entry
  <2>1. PICK u : u = Unlinked(p)
    OBVIOUS
  <2>2. ASSUME NEW g \in Futures, g # h PROVE u[g] = future[g] /\ u[g] \in FutureRecord
    BY <1>0, <1>2, <2>1, <2>2 DEF Unlinked, Types
  <2>3. u[h] = IF p = None THEN future[h] ELSE [future[h] EXCEPT !.promise = None]
    BY <1>2, <2>1 DEF Unlinked
  <2>4. future[h] \in FutureRecord
    BY <1>0 DEF Types
  <2>5. u[h] \in FutureRecord /\ u[h].promise = None
        /\ u[h].mem = future[h].mem /\ u[h].cb = future[h].cb /\ u[h].next = future[h].next /\ u[h].prev = future[h].prev
    BY <1>1, <2>3, <2>4 DEF FutureRecord
  <2>6. DOMAIN u = Futures /\ u = [g \in Futures |-> u[g]]
    BY <2>1 DEF Unlinked
  <2>7. u \in [Futures -> FutureRecord]
    BY <2>2, <2>5, <2>6
  <2>8. future' = [u EXCEPT ![h].entry = FALSE]
    BY <1>a, <2>1
  <2>9. future'[h] = [u[h] EXCEPT !.entry = FALSE]
    BY <2>7, <2>8
  <2>10. /\ future'[h] \in FutureRecord /\ future'[h].promise = None /\ ~future'[h].entry
         /\ future'[h].mem = u[h].mem /\ future'[h].cb = u[h].cb /\ future'[h].next = u[h].next /\ future'[h].prev = u[h].prev
    BY <2>5, <2>9 DEF FutureRecord
  <2>11. future' \in [Futures -> FutureRecord]
    BY <2>7, <2>8, <2>9, <2>10
  <2>12. \A g \in Futures : g # h => future'[g] = u[g]
    BY <2>7, <2>8
  <2> QED BY <2>2, <2>5, <2>10, <2>11, <2>12 DEF SameLinks
<1>5. /\ promise' \in [Promises -> PromiseRecord]
      /\ p # None => promise'[p].mem = "dying" /\ promise'[p].future = None /\ promise'[p].scheduler = promise[p].scheduler
      /\ \A q \in Promises : q # p => promise'[q] = promise[q]
  <2>1. CASE p = None
    BY <1>0, <1>a, <2>1 DEF Types, Promises, None
  <2>2. CASE p # None
    <3>1. p \in Promises /\ promise[p] \in PromiseRecord
          /\ promise' = [promise EXCEPT ![p] = [promise[p] EXCEPT !.future = None, !.mem = "dying"]]
      BY <1>0, <1>2, <1>a, <2>2 DEF Types, Condemned
    <3>2. [promise[p] EXCEPT !.future = None, !.mem = "dying"] \in PromiseRecord
      BY <3>1 DEF PromiseRecord, Memory
    <3> QED BY <1>0, <3>1, <3>2 DEF Types, PromiseRecord
  <2> QED BY <2>1, <2>2
<1>6. Fields'
  BY <1>0, <1>a, <1>3, <1>4, <1>5 DEF Types, Fields
<1>7. ChainSame
  BY <1>4, <1>a DEF ChainSame, SameLinks
<1>8. ChainInv' /\ ChainKept /\ Heads({})
  BY <1>0, <1>7, SameChain
<1>9. MovedFutures /\ \A g \in Futures : Waiting(g)' <=> Waiting(g)
  BY <1>7, SameMoves
<1>10. p # None => promise[p].mem = "live"
  BY <1>2 DEF Usable
<1>n. \A q \in Promises : q # None
  BY DEF Promises, None
<1>11. MovedPromises /\ SchedulersKept
  BY <1>5, <1>10, <1>n DEF MovedPromises, SchedulersKept
<1>12. PromisesKept
  BY <1>0, <1>a, <1>11, PromisesMoved
<1>13. Relinked
  <2>1. ASSUME NEW i \in 1 .. Len(entries') PROVE entries'[i] \in ToSet(entries)
    <3>1. entries'[i] \in ToSet(entries')
      BY <1>3, <2>1, LenProperties DEF ToSet
    <3> QED BY <1>3, <3>1
  <2>2. \A q \in Promises : promise'[q].future # None => promise'[q].future = promise[q].future
    BY <1>5, <1>n
  <2>3. ASSUME NEW g \in Futures, NEW r \in Promises, Waiting(g)', future'[g].promise = r
        PROVE  /\ Waiting(g) /\ future[g].promise = r
               /\ Usable(r) /\ promise[r].future = g => Usable(r)' /\ promise'[r].future = g
    <3>1. g # h
      BY <1>4, <2>3 DEF Promises, None
    <3>2. promise[r].future = g => r # p
      BY <1>2, <1>n, <3>1
    <3> QED BY <1>4, <1>5, <1>9, <2>3, <3>1, <3>2 DEF Usable
  <2> QED BY <2>1, <2>2, <2>3 DEF Relinked
<1>14. Frame("cancel", h) \in FrameRecord /\ Frame("cancel", h).kind = "cancel" /\ Frame("cancel", h).f = h
  BY FrameRight DEF FrameKinds
<1>15. PICK x : x = Frame("cancel", h)
  OBVIOUS
<1>16. FrameOK(x)'
  <2>1. IsHead(h)'
    <3>1. IsHead(h)
      BY DEF AtHead, Waiting, Live, IsHead, Known
    <3> QED BY <1>8, <3>1 DEF ChainKept
  <2> QED BY <1>14, <1>15, <2>1 DEF FrameOK, Chainers, Callings
<1>17. ASSUME NEW n, NEW G, NEW t, StackStep(n, G, t), GoodFrames(t), Has(t, x), \A fr \in G : fr.kind = "clean"
       PROVE  Inv'
  <2>1. CaredFor({}, G, t)
    <3>1. CaredNew(t, h)
      <4>1. PICK i \in 1 .. Len(t) : t[i] = x
        BY <1>17 DEF Has
      <4>2. Cares(t[i], h)'
        BY <1>14, <1>15, <4>1 DEF Cares
      <4> QED BY <4>2 DEF CaredNew
    <3>2. ASSUME NEW g \in Futures, g # h PROVE CaredOnwards(g, G, t)
      <4>1. \A fr \in G : ~Cares(fr, g)
        BY <1>17 DEF Cares, Callings
      <4> QED BY <1>3, <1>4, <3>2, <4>1 DEF CaredOnwards
    <3>3. \A g \in Futures : CaredOnwards(g, G, t)
      BY <3>1, <3>2 DEF CaredOnwards
    <3> QED BY <3>3 DEF CaredFor
  <2>2. \A fr \in G : fr.kind = "answer" => ~Usable(fr.p)'
    BY <1>17
  <2> QED BY <1>a, <1>6, <1>8, <1>9, <1>11, <1>13, <1>17, <2>1, <2>2, MoveStep
<1>18. Frame("cancel", h) \in FrameRecord /\ Frame("cancel", h).kind = "cancel" /\ FrameOK(x)' /\ x = Frame("cancel", h)
  BY <1>14, <1>15, <1>16
<1>19. /\ p \in Promises \cup {None}
       /\ p # None => promise[p].mem # "unborn" /\ promise'[p].mem \in {"dying", "freed"}
  BY <1>5, <1>10
<1> QED BY <1>1, <1>8, <1>a, <1>12, <1>15, <1>17, <1>18, <1>19

LEMMA HeadAt ==
  ASSUME Types, ChainInv, NEW f \in Futures, Waiting(f)
  PROVE  HeadOf(f) \in Futures /\ AtHead(HeadOf(f))
<1> DEFINE S == {g \in Futures : Waiting(g)}
<1>1. Descending
  BY DEF ChainInv, ChainOK, Descending
<1>2. ASSUME NEW g \in S, future[g].prev # None PROVE future[g].prev \in S
  <2>1. Waiting(future[g].prev)
    BY <1>2 DEF ChainInv, ChainOK
  <2> QED BY <2>1 DEF Waiting, Live
<1>3. S \in SUBSET Futures /\ f \in S
  OBVIOUS
<1>4. future \in [Futures -> FutureRecord]
  BY DEF Types
<1> HIDE DEF S
<1>5. HeadOf(f) \in S /\ future[HeadOf(f)].prev = None
  BY <1>1, <1>2, <1>3, <1>4, HeadRight
<1> QED BY <1>5 DEF S, AtHead

LEMMA TopRight ==
  ASSUME Types, FramesInv
  PROVE  /\ Top \in FrameRecord /\ FrameOK(Top)
         /\ Top.kind \in Callings => future[Top.f].next = None
<1>1. PICK L \in Nat : L = Len(stack) /\ L >= 1
  BY LenProperties DEF Types
<1>2. L \in 1 .. Len(stack) /\ ~UserOver(L) /\ Top = stack[L]
  BY <1>1 DEF UserOver, Top
<1>3. stack[L] \in FrameRecord
  BY <1>2, ElementOfSeq DEF Types
<1> QED BY <1>2, <1>3 DEF FramesInv

(* One of an activation's list was dealt with.                             *)
LEMMA TailTodo ==
  ASSUME NEW fr \in FrameRecord, FrameOK(fr), fr.todo # <<>>, fr.kind \in {"loop", "clean"},
         NEW y, y = [fr EXCEPT !.todo = Tail(@)]
  PROVE  /\ y \in FrameRecord /\ FrameOK(y) /\ y.kind = fr.kind /\ y.p = fr.p
         /\ 1 \in 1 .. Len(fr.todo) /\ Head(fr.todo) = fr.todo[1] /\ fr.todo[1] \in Futures
         /\ \A h : h \in ToSet(fr.todo) => h = Head(fr.todo) \/ h \in ToSet(y.todo)
<1>1. PICK s \in Seq(Futures) : s = fr.todo
  BY DEF FrameRecord
<1>2. PICK t \in Seq(Futures) : t = Tail(s) /\ Len(t) = Len(s) - 1 /\ (\A i \in 1 .. Len(t) : t[i] = s[i + 1])
  <2>1. s # <<>>
    BY <1>1
  <2>2. /\ Tail(s) \in Seq(Futures) /\ Len(Tail(s)) = Len(s) - 1
        /\ \A i \in 1 .. Len(Tail(s)) : Tail(s)[i] = s[i + 1]
    BY <2>1, HeadTailProperties
  <2>3. PICK t : t = Tail(s)
    OBVIOUS
  <2> QED BY <2>2, <2>3
<1>h. Head(s) = s[1]
  OBVIOUS
<1>3. PICK m \in Nat : m = Len(s) /\ m >= 1 /\ DOMAIN s = 1 .. m /\ DOMAIN t = 1 .. m - 1
  <2>1. Len(s) \in Nat /\ Len(s) # 0
    BY <1>1, EmptySeq, LenProperties
  <2> QED BY <1>2, <2>1, LenProperties
<1>4. y = [fr EXCEPT !.todo = t]
  BY <1>1, <1>2
<1>5. y \in FrameRecord /\ y.kind = fr.kind /\ y.p = fr.p /\ y.f = fr.f /\ y.todo = t
  BY <1>4 DEF FrameRecord
<1>6. \A i \in 1 .. Len(t) : i + 1 \in 1 .. Len(s) /\ t[i] = s[i + 1]
  BY <1>2, <1>3
<1>7. FrameOK(y)
  BY <1>1, <1>5, <1>6 DEF FrameOK, Chainers, Callings
<1>8. ASSUME NEW h, h \in ToSet(s) PROVE h = s[1] \/ h \in ToSet(t)
  <2>1. PICK i \in 1 .. m : h = s[i]
    BY <1>3, <1>8 DEF ToSet
  <2>2. CASE i = 1
    BY <2>1, <2>2
  <2>3. CASE i # 1
    <3>1. i - 1 \in 1 .. m - 1 /\ i - 1 \in 1 .. Len(t) /\ i - 1 + 1 = i
      BY <1>2, <1>3, <2>3
    <3>2. t[i - 1] = h
      BY <1>2, <2>1, <3>1
    <3> QED BY <1>3, <3>1, <3>2 DEF ToSet
  <2> QED BY <2>2, <2>3
<1>9. s[1] \in Futures
  BY <1>3, ElementOfSeq
<1> QED BY <1>1, <1>2, <1>h, <1>3, <1>5, <1>7, <1>8, <1>9

LEMMA CancelRight ==
  ASSUME Inv, NEW f \in Futures, Cancel(f)
  PROVE  Inv'
<1>0. Types /\ ChainInv /\ JoinInv
  BY DEF Inv
<1>1. PICK h : h = HeadOf(f)
  OBVIOUS
<1>2. h \in Futures /\ AtHead(h) /\ CancelChain(h, stack)
  BY <1>0, <1>1, HeadAt DEF Cancel, Given
<1>3. PICK p : p = future[h].promise
  OBVIOUS
<1>4. PICK x : x = Frame("cancel", h)
  OBVIOUS
<1>5. PICK r : r = Doomed(p)
  OBVIOUS
<1>6. /\ PromisesKept
      /\ p \in Promises \cup {None}
      /\ p # None => promise[p].mem # "unborn" /\ promise'[p].mem \in {"dying", "freed"}
      /\ x \in FrameRecord /\ x.kind = "cancel" /\ FrameOK(x)'
      /\ stack' = stack \o <<x>> \o r
      /\ \A n, G, t : /\ StackStep(n, G, t) /\ GoodFrames(t) /\ Has(t, x)
                      /\ \A fr \in G : fr.kind = "clean"
                      => Inv'
  BY <1>2, <1>3, <1>4, <1>5, CancelChainRight
<1>7. GoodFrames(r) /\ r \in Seq(FrameRecord)
  BY <1>0, <1>5, <1>6, DoomedRight DEF GoodFrames
<1>8. GoodFrames(Over(x, r)) /\ Has(Over(x, r), x)
  BY <1>6, <1>7, GoodOver DEF Callings
<1>9. StackStep(Len(stack), {}, Over(x, r))
  BY <1>0, <1>6, <1>7, LeavesAll, GrowOver
<1> QED BY <1>6, <1>8, <1>9

(* Steps that only change the activations, and promises no future waits for.*)
LEMMA OnlyStack ==
  ASSUME Inv, UNCHANGED <<future, join, entries, ghost>>,
         promise' \in [Promises -> PromiseRecord], MovedPromises, PromisesAlone,
         NEW n, NEW G, NEW t, StackStep(n, G, t), GoodFrames(t),
         \A fr \in G : fr.kind # "answer" /\ \A h \in Futures : AtHead(h) => CaredNew(t, h) \/ ~Cares(fr, h)
  PROVE  Inv'
<1>0. Types /\ ChainInv
  BY DEF Inv
<1>1. Fields'
  BY <1>0 DEF Types, Fields
<1>2. ChainSame
  BY DEF ChainSame, SameLinks
<1>3. ChainInv' /\ ChainKept /\ Heads({})
  BY <1>0, <1>2, SameChain
<1>4. MovedFutures
  BY <1>2, SameMoves
<1>5. \A f \in Futures : Waiting(f)' => Waiting(f) /\ future'[f].promise = future[f].promise
  BY DEF Waiting, Live
<1>6. Relinked /\ SchedulersKept
  BY <1>0, <1>5, Alone
<1>7. CaredFor({}, G, t)
  BY DEF CaredFor, CaredOnwards
<1> QED BY <1>1, <1>3, <1>4, <1>6, <1>7, MoveStep

(* The kept promises of a state are those of its type.                     *)
LEMMA PromisesStill ==
  ASSUME Types, promise' = promise
  PROVE  promise' \in [Promises -> PromiseRecord] /\ MovedPromises /\ PromisesAlone
  BY Quiet DEF Types

LEMMA LoopEndRight ==
  ASSUME Inv, LoopEnd
  PROVE  Inv'
<1>0. Types /\ FramesInv
  BY DEF Inv
<1>1. Top.kind = "loop" /\ Top.todo = <<>> /\ stack' = Below /\ UNCHANGED <<future, promise, join, entries, ghost>>
  BY DEF LoopEnd, At
<1>2. Leaves(Below, Len(stack) - 1, {Top})
  BY <1>0, <1>1, LeavesBelow
<1>3. StackStep(Len(stack) - 1, {Top}, <<>>)
  BY <1>0, <1>1, <1>2, GrowNone
<1>4. ToSet(Top.todo) = {}
  BY <1>1 DEF ToSet
<1>5. \A h \in Futures : ~Cares(Top, h)
  BY <1>1, <1>4 DEF Cares, Callings
<1>6. promise' \in [Promises -> PromiseRecord] /\ MovedPromises /\ PromisesAlone
  BY <1>0, <1>1, PromisesStill
<1> QED BY <1>1, <1>3, <1>5, <1>6, GoodNone, OnlyStack

LEMMA CleanNextRight ==
  ASSUME Inv, CleanNext
  PROVE  Inv'
<1>0. Types /\ ChainInv /\ FramesInv /\ JoinInv
  BY DEF Inv
<1>1. At("clean") /\ Top.kind = "clean" /\ Top.todo # <<>>
  BY DEF CleanNext, At
<1>2. Top \in FrameRecord /\ FrameOK(Top) /\ Leaves(Below, Len(stack) - 1, {Top})
  BY <1>0, <1>1, TopRight, LeavesBelow
<1>3. PICK y : y = [Top EXCEPT !.todo = Tail(@)]
  OBVIOUS
<1>4. /\ y \in FrameRecord /\ FrameOK(y) /\ y.kind = "clean"
      /\ 1 \in 1 .. Len(Top.todo) /\ Head(Top.todo) = Top.todo[1]
  <2>1. Top.kind \in {"loop", "clean"}
    BY <1>1
  <2> QED BY <1>1, <1>2, <1>3, <2>1, TailTodo
<1>5. PICK i : i = Head(Top.todo)
  OBVIOUS
<1>6. Top.p \in Promises /\ i \in 1 .. Len(join[Top.p].futures)
  <2>1. Top.todo[1] = i
    BY <1>4, <1>5
  <2> QED BY <1>1, <1>2, <1>4, <2>1 DEF FrameOK
<1>7. PICK g : g = join[Top.p].futures[i]
  OBVIOUS
<1>8. \/ /\ g = None /\ stack' = Append(Below, y) /\ UNCHANGED <<future, promise, join, entries, ghost>>
      \/ g # None /\ CancelChain(HeadOf(g), Append(Below, y))
  BY <1>3, <1>5, <1>7 DEF CleanNext
<1>9. PromisesKept /\ ChainKept => FrameOK(y)'
  BY <1>4, FrameStays
<1>10. CASE g = None
  <2>1. stack' = Append(Below, y) /\ UNCHANGED <<future, promise, join, entries, ghost>>
    BY <1>8, <1>10
  <2>2. ChainSame
    BY <2>1 DEF ChainSame, SameLinks
  <2>3. ChainKept
    BY <1>0, <2>2, SameChain
  <2>4. PromisesKept
    BY <2>1 DEF PromisesKept
  <2>5. StackStep(Len(stack) - 1, {Top}, <<y>>)
    BY <1>0, <1>2, <1>4, <2>1, GrowOne
  <2>6. GoodFrames(Over(y, <<>>)) /\ <<y>> = Over(y, <<>>)
    BY <1>4, <1>9, <2>3, <2>4, GoodNone, GoodOver, OverNone DEF Callings
  <2>7. \A h \in Futures : ~Cares(Top, h)
    BY <1>1 DEF Cares, Callings
  <2>8. Top.kind # "answer"
    BY <1>1
  <2>9. promise' \in [Promises -> PromiseRecord] /\ MovedPromises /\ PromisesAlone
    BY <1>0, <2>1, PromisesStill
  <2> QED BY <2>1, <2>5, <2>6, <2>7, <2>8, <2>9, OnlyStack
<1>11. CASE g # None
  <2>1. g \in Futures /\ Waiting(g)
    <3>1. JoinOK(Top.p) /\ At2(Top.p, i)
      BY <1>0, <1>6, <1>7, <1>11 DEF JoinInv, At2
    <3>2. Waiting(g)
      BY <1>6, <1>7, <3>1 DEF JoinOK
    <3> QED BY <3>2 DEF Waiting, Live
  <2>2. PICK h : h = HeadOf(g)
    OBVIOUS
  <2>3. h \in Futures /\ AtHead(h) /\ CancelChain(h, Append(Below, y))
    BY <1>0, <1>8, <1>11, <2>1, <2>2, HeadAt
  <2>4. PICK p : p = future[h].promise
    OBVIOUS
  <2>5. PICK x : x = Frame("cancel", h)
    OBVIOUS
  <2>6. PICK r : r = Doomed(p)
    OBVIOUS
  <2>7. /\ PromisesKept
        /\ p \in Promises \cup {None}
        /\ p # None => promise[p].mem # "unborn" /\ promise'[p].mem \in {"dying", "freed"}
        /\ x \in FrameRecord /\ x.kind = "cancel" /\ FrameOK(x)'
        /\ stack' = Append(Below, y) \o <<x>> \o r
        /\ \A n, G, t : /\ StackStep(n, G, t) /\ GoodFrames(t) /\ Has(t, x)
                        /\ \A fr \in G : fr.kind = "clean"
                        => Inv'
    BY <2>3, <2>4, <2>5, <2>6, CancelChainRight
  <2>8. ChainKept
    BY <2>3, CancelChainRight
  <2>9. GoodFrames(r) /\ r \in Seq(FrameRecord)
    BY <1>0, <2>6, <2>7, DoomedRight DEF GoodFrames
  <2>10. GoodFrames(Over(x, r)) /\ Has(Over(x, r), x) /\ Over(x, r) \in Seq(FrameRecord)
    BY <2>7, <2>9, GoodOver DEF Callings, GoodFrames
  <2>11. GoodFrames(Over(y, Over(x, r))) /\ Has(Over(y, Over(x, r)), x)
    BY <1>4, <1>9, <2>7, <2>8, <2>10, GoodOver DEF Callings
  <2>12. StackStep(Len(stack) - 1, {Top}, Over(y, Over(x, r)))
    BY <1>0, <1>2, <1>4, <2>7, <2>9, GrowTwice
  <2>13. \A fr \in {Top} : fr.kind = "clean"
    BY <1>1
  <2> QED BY <2>7, <2>11, <2>12, <2>13
<1> QED BY <1>10, <1>11

LEMMA LoopRunRight ==
  ASSUME Inv, LoopRun
  PROVE  Inv'
<1>0. Types /\ ChainInv /\ LinkInv
  BY DEF Inv
<1>1. PICK y : y = [Frame("loop", None) EXCEPT !.todo = entries]
  OBVIOUS
<1>2. stack' = Append(stack, y) /\ entries' = <<>> /\ UNCHANGED <<future, promise, join, ghost>>
  BY <1>1 DEF LoopRun
<1>3. y \in FrameRecord /\ y.kind = "loop" /\ y.todo = entries /\ y.f = None
  <2>1. Frame("loop", None) \in FrameRecord /\ Frame("loop", None).kind = "loop" /\ Frame("loop", None).f = None
    BY FrameRight DEF FrameKinds
  <2>2. PICK z : z = Frame("loop", None)
    OBVIOUS
  <2>3. entries \in Seq(Futures)
    BY <1>0 DEF Types
  <2> QED BY <1>1, <2>1, <2>2, <2>3 DEF FrameRecord
<1>4. Fields'
  <2>1. <<>> \in Seq(Futures)
    OBVIOUS
  <2> QED BY <1>0, <1>2, <2>1 DEF Types, Fields
<1>5. ChainSame
  BY <1>2 DEF ChainSame, SameLinks
<1>6. ChainInv' /\ ChainKept /\ Heads({})
  BY <1>0, <1>5, SameChain
<1>7. MovedFutures /\ \A g \in Futures : Waiting(g)' <=> Waiting(g)
  BY <1>5, SameMoves
<1>8. MovedPromises /\ SchedulersKept
  BY <1>2 DEF MovedPromises, SchedulersKept
<1>9. Relinked
  <2>1. Len(entries') = 0
    BY <1>2
  <2> QED BY <1>2, <1>7, <2>1 DEF Relinked, Usable
<1>10. FrameOK(y)'
  <2>1. \A i \in 1 .. Len(entries) : IsHead(entries[i])
    BY <1>0 DEF LinkInv
  <2>2. FrameOK(y)
    BY <1>3, <2>1 DEF FrameOK, Chainers, Callings
  <2>3. PromisesKept
    BY <1>0, <1>2, <1>8, PromisesMoved
  <2> QED BY <1>3, <1>6, <2>2, <2>3, FrameStays
<1>11. GoodFrames(Over(y, <<>>)) /\ Has(Over(y, <<>>), y) /\ <<y>> = Over(y, <<>>)
  BY <1>3, <1>10, GoodNone, GoodOver, OverNone DEF Callings
<1>12. StackStep(Len(stack), {}, Over(y, <<>>))
  BY <1>0, <1>2, <1>3, <1>11, LeavesAll, GrowOne
<1>13. CaredFor({}, {}, Over(y, <<>>))
  <2>1. ASSUME NEW h \in Futures PROVE CaredOnwards(h, {}, Over(y, <<>>))
    <3>1. CASE future[h].entry /\ h \in ToSet(entries)
      <4>1. Cares(y, h)'
        BY <1>2, <1>3, <3>1 DEF Cares
      <4>2. PICK t : t = Over(y, <<>>)
        OBVIOUS
      <4>3. PICK i \in 1 .. Len(t) : t[i] = y
        BY <1>11, <4>2 DEF Has
      <4>4. CaredNew(t, h)
        BY <4>1, <4>3 DEF CaredNew
      <4> QED BY <4>2, <4>4 DEF CaredOnwards
    <3>2. CASE ~(future[h].entry /\ h \in ToSet(entries))
      BY <1>2, <3>2 DEF CaredOnwards
    <3> QED BY <3>1, <3>2
  <2> QED BY <2>1 DEF CaredFor
<1> QED BY <1>2, <1>4, <1>6, <1>7, <1>8, <1>9, <1>11, <1>12, <1>13, MoveStep

LEMMA LoopNextRight ==
  ASSUME Inv, LoopNext
  PROVE  Inv'
<1>0. Types /\ ChainInv /\ FramesInv
  BY DEF Inv
<1>1. Top.kind = "loop" /\ Top.todo # <<>>
  BY DEF LoopNext, At
<1>2. Top \in FrameRecord /\ FrameOK(Top) /\ Leaves(Below, Len(stack) - 1, {Top})
  BY <1>0, <1>1, TopRight, LeavesBelow
<1>3. PICK y : y = [Top EXCEPT !.todo = Tail(@)]
  OBVIOUS
<1>4. /\ y \in FrameRecord /\ FrameOK(y) /\ y.kind = "loop"
      /\ 1 \in 1 .. Len(Top.todo) /\ Head(Top.todo) = Top.todo[1] /\ Top.todo[1] \in Futures
      /\ \A h : h \in ToSet(Top.todo) => h = Head(Top.todo) \/ h \in ToSet(y.todo)
  <2>1. Top.kind \in {"loop", "clean"}
    BY <1>1
  <2> QED BY <1>1, <1>2, <1>3, <2>1, TailTodo
<1>5. PICK f \in Futures : f = Head(Top.todo)
  BY <1>4
<1>6. PICK x : x = Frame("dispatch", f)
  OBVIOUS
<1>7. /\ future' = [future EXCEPT ![f].entry = FALSE]
      /\ stack' = Below \o <<y, x>>
      /\ UNCHANGED <<promise, join, entries, ghost>>
  BY <1>3, <1>5, <1>6 DEF LoopNext
<1>8. /\ future' \in [Futures -> FutureRecord]
      /\ \A g \in Futures : SameLinks(g) /\ future'[g].promise = future[g].promise /\ (g # f => future'[g] = future[g])
  <2>1. future \in [Futures -> FutureRecord]
    BY <1>0 DEF Types
  <2>2. future' = [future EXCEPT ![f] = [future[f] EXCEPT !.entry = FALSE]] /\ future[f] \in FutureRecord
    BY <1>7, <2>1
  <2>3. [future[f] EXCEPT !.entry = FALSE] \in FutureRecord
    BY <2>2 DEF FutureRecord
  <2>4. future' \in [Futures -> FutureRecord]
    BY <2>1, <2>2, <2>3
  <2>5. \A g \in Futures : g # f => future'[g] = future[g]
    BY <2>1, <2>2
  <2>6. future'[f] = [future[f] EXCEPT !.entry = FALSE]
    BY <2>1, <2>2
  <2>7. SameLinks(f) /\ future'[f].promise = future[f].promise
    BY <2>2, <2>6 DEF FutureRecord, SameLinks
  <2> QED BY <2>4, <2>5, <2>7 DEF SameLinks
<1>9. Fields'
  BY <1>0, <1>7, <1>8 DEF Types, Fields
<1>10. ChainSame
  BY <1>7, <1>8 DEF ChainSame
<1>11. ChainInv' /\ ChainKept /\ Heads({})
  BY <1>0, <1>10, SameChain
<1>12. MovedFutures /\ \A g \in Futures : Waiting(g)' <=> Waiting(g)
  BY <1>10, SameMoves
<1>13. MovedPromises /\ Relinked /\ SchedulersKept
  <2>1. \A g \in Futures : Waiting(g)' => Waiting(g) /\ future'[g].promise = future[g].promise
    BY <1>8, <1>12
  <2> QED BY <1>0, <1>7, <2>1, Quiet, Alone
<1>14. PromisesKept
  BY <1>0, <1>7, <1>13, PromisesMoved
<1>15. FrameOK(y)'
  BY <1>4, <1>11, <1>14, FrameStays
<1>16. x \in FrameRecord /\ x.kind = "dispatch" /\ x.f = f
  BY <1>6, FrameRight DEF FrameKinds
<1>17. FrameOK(x)'
  <2>1. IsHead(f)
    <3>1. IsHead(Top.todo[1])
      BY <1>1, <1>2, <1>4 DEF FrameOK
    <3>2. Top.todo[1] = f
      BY <1>4, <1>5
    <3> QED BY <3>1, <3>2
  <2>2. IsHead(f)'
    BY <1>11, <2>1 DEF ChainKept
  <2> QED BY <1>16, <2>2 DEF FrameOK, Chainers, Callings
<1>18. PICK s : s = Over(x, <<>>)
  OBVIOUS
<1>19. GoodFrames(s) /\ Has(s, x)
  BY <1>16, <1>17, <1>18, GoodNone, GoodOver DEF Callings
<1>20. PICK t : t = Over(y, s)
  OBVIOUS
<1>21. GoodFrames(t) /\ Has(t, y) /\ Has(t, x)
  BY <1>4, <1>15, <1>19, <1>20, GoodOver DEF Callings
<1>22. StackStep(Len(stack) - 1, {Top}, t)
  <2>1. <<y, x>> = t
    BY <1>4, <1>16, <1>18, <1>20, OverNone
  <2>2. t \in Seq(FrameRecord) /\ stack' = Below \o t
    BY <1>7, <1>21, <2>1 DEF GoodFrames
  <2> QED BY <1>0, <1>2, <2>2, GrowBy
<1>23. CaredFor({}, {Top}, t)
  <2>1. ASSUME NEW h \in Futures, h # f PROVE CaredOnwards(h, {Top}, t)
    <3>1. CASE Cares(Top, h)
      <4>1. future[h].entry /\ h \in ToSet(y.todo)
        BY <1>1, <1>4, <1>5, <2>1, <3>1 DEF Cares, Callings
      <4>2. Cares(y, h)'
        BY <1>4, <1>8, <2>1, <4>1 DEF Cares
      <4>3. PICK i \in 1 .. Len(t) : t[i] = y
        BY <1>21 DEF Has
      <4>4. CaredNew(t, h)
        BY <4>2, <4>3 DEF CaredNew
      <4> QED BY <4>4 DEF CaredOnwards
    <3>2. CASE ~Cares(Top, h)
      BY <1>7, <1>8, <2>1, <3>2 DEF CaredOnwards
    <3> QED BY <3>1, <3>2
  <2>2. CaredNew(t, f)
    <3>1. PICK i \in 1 .. Len(t) : t[i] = x
      BY <1>21 DEF Has
    <3>2. Cares(t[i], f)'
      BY <1>16, <3>1 DEF Cares
    <3> QED BY <3>2 DEF CaredNew
  <2>3. \A h \in Futures : CaredOnwards(h, {Top}, t)
    BY <2>1, <2>2 DEF CaredOnwards
  <2> QED BY <2>3 DEF CaredFor
<1>24. \A fr \in {Top} : fr.kind # "answer"
  BY <1>1
<1> QED BY <1>7, <1>9, <1>11, <1>12, <1>13, <1>21, <1>22, <1>23, <1>24, MoveStep

(* _eina_future_free of a head that was called or has no callback.         *)
LEMMA FreedRight ==
  ASSUME Types, ChainInv, NEW x \in Futures, IsHead(x), future[x].cb \in {"none", "dispatched"},
         NEW fs, fs = Freed(x), ghost' = ghost,
         \A g \in Futures : /\ future'[g].mem = fs[g].mem /\ future'[g].cb = fs[g].cb
                            /\ future'[g].next = fs[g].next /\ future'[g].prev = fs[g].prev
  PROVE  /\ ChainInv' /\ ChainKept /\ Heads({future[x].next}) /\ MovedFutures
         /\ fs \in [Futures -> FutureRecord]
         /\ \A g \in Futures : fs[g].promise = future[g].promise /\ fs[g].entry = future[g].entry
         /\ ~Waiting(x)' /\ \A g \in Futures : g # x => (Waiting(g)' <=> Waiting(g))
         /\ \E m \in Futures \cup {None} : m = future[x].next /\ (m # None => IsHead(m)')
<1>1. PICK m \in Futures \cup {None} : m = future[x].next
  BY DEF Types, FutureRecord
<1>2. ChainOK(x) /\ future[x].prev = None
  BY DEF ChainInv, IsHead
<1>3. m # None => m \in Known /\ m # x
  <2>1. m # None => m \in Known /\ ghost[m].after = x
    BY <1>1, <1>2 DEF ChainOK
  <2>2. m # None => ghost[m].after < m
    BY <2>1 DEF ChainInv, ChainOK, Futures, None
  <2> QED BY <1>1, <2>1, <2>2 DEF Futures
<1>4. ASSUME NEW g \in Futures
      PROVE  /\ fs[g] \in FutureRecord /\ fs[g].promise = future[g].promise /\ fs[g].entry = future[g].entry
             /\ fs[g].mem = IF g = x THEN "freed" ELSE future[g].mem
             /\ fs[g].cb = future[g].cb
             /\ fs[g].next = future[g].next
             /\ fs[g].prev = IF g = m THEN None ELSE future[g].prev
  <2>1. future[g] \in FutureRecord /\ g # None
    BY DEF Types, Futures, None
  <2>2. CASE g = x
    <3>1. fs[g] = [future[g] EXCEPT !.mem = "freed"]
      BY <2>2 DEF Freed
    <3>2. g # m
      BY <1>3, <2>1, <2>2
    <3> QED BY <2>1, <2>2, <3>1, <3>2 DEF FutureRecord
  <2>3. CASE g # x /\ g = m
    <3>1. fs[g] = [future[g] EXCEPT !.prev = None, !.next = @]
      BY <1>1, <1>2, <2>1, <2>3 DEF Freed
    <3> QED BY <2>1, <2>3, <3>1 DEF FutureRecord
  <2>4. CASE g # x /\ g # m
    <3>1. fs[g] = [future[g] EXCEPT !.prev = @, !.next = @]
      BY <1>1, <1>2, <2>1, <2>4 DEF Freed
    <3> QED BY <2>1, <2>4, <3>1 DEF FutureRecord
  <2> QED BY <2>2, <2>3, <2>4
<1>5. fs \in [Futures -> FutureRecord]
  <2>1. fs = [g \in Futures |-> fs[g]]
    BY DEF Freed
  <2> QED BY <1>4, <2>1
<1>6. ChainFreed(x)
  BY <1>1, <1>4 DEF ChainFreed
<1>7. ChainInv' /\ ChainKept /\ Heads({future[x].next})
  BY <1>6, FreedChain
<1>8. \A g \in Futures : future'[g].mem = (IF g = x THEN "freed" ELSE future[g].mem) /\ future'[g].cb = future[g].cb
  BY <1>4
<1>9. ~Waiting(x)' /\ \A g \in Futures : g # x => (Waiting(g)' <=> Waiting(g))
  BY <1>8 DEF Waiting, Live
<1>10. MovedFutures
  BY <1>8, <1>9 DEF MovedFutures
<1>11. m # None => IsHead(m)'
  <2>1. ASSUME m # None PROVE IsHead(m)'
    <3>1. m \in Futures /\ m \in Known
      BY <1>3, <2>1
    <3>2. future'[m].prev = None /\ future'[m].mem # "unborn"
      BY <1>3, <1>4, <1>8, <2>1, <3>1 DEF Known
    <3> QED BY <3>1, <3>2 DEF IsHead, Known
  <2> QED BY <2>1
<1> QED BY <1>1, <1>4, <1>5, <1>7, <1>9, <1>10, <1>11

(* An activation that goes on with the future behind a freed one.          *)
LEMMA GoOn ==
  ASSUME Types, NEW b, NEW n, NEW G, Leaves(b, n, G), NEW k \in {"dispatch", "cancel"},
         NEW m \in Futures \cup {None}, m # None => IsHead(m)',
         stack' = IF m = None THEN b ELSE Append(b, Frame(k, m))
  PROVE  \E t : StackStep(n, G, t) /\ GoodFrames(t) /\ (m # None => CaredNew(t, m))
<1>1. CASE m = None
  <2>1. StackStep(n, G, <<>>)
    BY <1>1, GrowNone
  <2> QED BY <1>1, <2>1, GoodNone
<1>2. CASE m # None
  <2>1. PICK x : x = Frame(k, m)
    OBVIOUS
  <2>2. x \in FrameRecord /\ x.kind = k /\ x.f = m
    BY <2>1, FrameRight DEF FrameKinds
  <2>3. FrameOK(x)'
    BY <1>2, <2>2 DEF FrameOK, Chainers, Callings
  <2>4. PICK t : t = Over(x, <<>>)
    OBVIOUS
  <2>5. GoodFrames(t) /\ Has(t, x)
    BY <2>2, <2>3, <2>4, GoodNone, GoodOver DEF Callings
  <2>6. StackStep(n, G, t)
    <3>1. stack' = Append(b, x)
      BY <1>2, <2>1
    <3>2. <<x>> = t
      BY <2>2, <2>4, OverNone
    <3> QED BY <2>2, <3>1, <3>2, GrowOne
  <2>7. CaredNew(t, m)
    <3>1. PICK i \in 1 .. Len(t) : t[i] = x
      BY <2>5 DEF Has
    <3>2. Cares(t[i], m)'
      BY <2>2, <3>1 DEF Cares
    <3> QED BY <3>2 DEF CaredNew
  <2> QED BY <2>5, <2>6, <2>7
<1> QED BY <1>1, <1>2

LEMMA FreeStep ==
  ASSUME Inv, NEW x \in Futures, IsHead(x), future[x].cb \in {"none", "dispatched"},
         future' = Freed(x), UNCHANGED <<join, entries, ghost>>,
         promise' \in [Promises -> PromiseRecord], MovedPromises, PromisesAlone,
         NEW n, NEW G, NEW t, StackStep(n, G, t), GoodFrames(t),
         future[x].next # None => CaredNew(t, future[x].next) \/ ~Waiting(future[x].next),
         \A fr \in G : fr.kind # "answer" /\ \A h \in Futures : AtHead(h) /\ Cares(fr, h) => h = x \/ h = future[x].next
  PROVE  Inv'
<1>0. Types /\ ChainInv
  BY DEF Inv
<1>1. PICK m : m = future[x].next
  OBVIOUS
<1>2. /\ ChainInv' /\ ChainKept /\ Heads({m}) /\ MovedFutures
      /\ future' \in [Futures -> FutureRecord]
      /\ \A g \in Futures : future'[g].promise = future[g].promise /\ future'[g].entry = future[g].entry
      /\ ~Waiting(x)' /\ \A g \in Futures : g # x => (Waiting(g)' <=> Waiting(g))
  BY <1>0, <1>1, FreedRight
<1>3. Fields'
  BY <1>0, <1>2 DEF Types, Fields
<1>4. Relinked /\ SchedulersKept
  <2>1. \A f \in Futures : Waiting(f)' => Waiting(f) /\ future'[f].promise = future[f].promise
    BY <1>2
  <2> QED BY <1>0, <2>1, Alone
<1>5. CaredFor({m}, G, t)
  <2>1. ASSUME NEW h \in Futures, AtHead(h)', h = m PROVE CaredNew(t, h)
    <3>1. Waiting(h)'
      BY <2>1 DEF AtHead
    <3>2. Waiting(m) /\ m # None
      BY <1>2, <2>1, <3>1 DEF Futures, None
    <3> QED BY <1>1, <2>1, <3>2
  <2>2. ASSUME NEW h \in Futures, AtHead(h), AtHead(h)' PROVE CaredOnwards(h, G, t)
    <3>1. h # x
      BY <1>2, <2>2 DEF AtHead
    <3>2. CASE h = m
      <4>1. Waiting(m) /\ m # None
        BY <2>2, <3>2 DEF AtHead, Futures, None
      <4>2. CaredNew(t, h)
        BY <1>1, <3>2, <4>1
      <4> QED BY <4>2 DEF CaredOnwards
    <3>3. CASE h # m
      <4>1. \A fr \in G : ~Cares(fr, h)
        BY <1>1, <2>2, <3>1, <3>3
      <4> QED BY <1>2, <4>1 DEF CaredOnwards
    <3> QED BY <3>2, <3>3
  <2> QED BY <2>1, <2>2 DEF CaredFor
<1>6. \A fr \in G : fr.kind = "answer" => ~Usable(fr.p)'
  OBVIOUS
<1> QED BY <1>2, <1>3, <1>4, <1>5, <1>6, MoveStep

LEMMA FreedNext ==
  ASSUME Types, ChainInv, NEW x \in Futures, IsHead(x), future[x].cb \in {"none", "dispatched"},
         future' = Freed(x), ghost' = ghost
  PROVE  \E m \in Futures \cup {None} : m = future[x].next /\ (m # None => IsHead(m)')
<1>1. PICK fs : fs = Freed(x)
  OBVIOUS
<1>2. future' = fs
  BY <1>1
<1>3. \A g \in Futures : /\ future'[g].mem = fs[g].mem /\ future'[g].cb = fs[g].cb
                         /\ future'[g].next = fs[g].next /\ future'[g].prev = fs[g].prev
  BY <1>2
<1> QED BY <1>1, <1>3, FreedRight

LEMMA SkipRight ==
  ASSUME Inv, NEW k \in {"dispatch", "cancel"}, Skip(k)
  PROVE  Inv'
<1>0. Types /\ ChainInv /\ FramesInv
  BY DEF Inv
<1>1. /\ Top.kind = k /\ future[Top.f].cb \in {"none", "dispatched"}
      /\ future' = IF BeingCalled(Top.f) THEN future ELSE Freed(Top.f)
      /\ stack' = IF BeingCalled(Top.f) THEN Below ELSE Onwards(k, future[Top.f].next)
      /\ UNCHANGED <<promise, join, entries, ghost>>
  BY DEF Skip, At
<1>2. Leaves(Below, Len(stack) - 1, {Top}) /\ FrameOK(Top)
  BY <1>0, <1>1, TopRight, LeavesBelow
<1>3. PICK x \in Futures : x = Top.f /\ IsHead(x)
  <2>1. IsHead(Top.f)
    BY <1>1, <1>2 DEF FrameOK, Chainers
  <2> QED BY <2>1 DEF IsHead, Known
<1>4. promise' \in [Promises -> PromiseRecord] /\ MovedPromises /\ PromisesAlone
  BY <1>0, <1>1, PromisesStill
<1>5. \A h \in Futures : Cares(Top, h) => h = x
  BY <1>1, <1>3 DEF Cares, Callings
<1>6. \A fr \in {Top} : fr.kind # "answer"
  BY <1>1
<1>7. CASE BeingCalled(x)
  <2>1. future' = future /\ stack' = Below
    BY <1>1, <1>3, <1>7
  <2>2. StackStep(Len(stack) - 1, {Top}, <<>>)
    BY <1>0, <1>2, <2>1, GrowNone
  <2>3. ~AtHead(x)
    BY <1>7 DEF BeingCalled, AtHead, Waiting
  <2> QED BY <1>1, <1>4, <1>5, <1>6, <2>1, <2>2, <2>3, GoodNone, OnlyStack
<1>8. CASE ~BeingCalled(x)
  <2>1. future' = Freed(x) /\ stack' = Onwards(k, future[x].next)
    BY <1>1, <1>3, <1>8
  <2>2. PICK m \in Futures \cup {None} : m = future[x].next /\ (m # None => IsHead(m)')
    BY <1>0, <1>1, <1>3, <2>1, FreedNext
  <2>3. PICK t : StackStep(Len(stack) - 1, {Top}, t) /\ GoodFrames(t) /\ (m # None => CaredNew(t, m))
    <3>1. stack' = IF m = None THEN Below ELSE Append(Below, Frame(k, m))
      BY <2>1, <2>2 DEF Onwards
    <3> QED BY <1>0, <1>2, <2>2, <3>1, GoOn
  <2> QED BY <1>1, <1>3, <1>4, <1>5, <1>6, <2>1, <2>2, <2>3, FreeStep
<1> QED BY <1>7, <1>8

LEMMA CancelFreeRight ==
  ASSUME Inv, CancelFree
  PROVE  Inv'
<1>0. Types /\ ChainInv /\ FramesInv
  BY DEF Inv
<1>1. /\ Top.kind = "cancelFree" /\ future' = Freed(Top.f)
      /\ stack' = Onwards("cancel", future[Top.f].next)
      /\ UNCHANGED <<promise, join, entries, ghost>>
  BY DEF CancelFree, At
<1>2. Leaves(Below, Len(stack) - 1, {Top}) /\ FrameOK(Top)
  BY <1>0, <1>1, TopRight, LeavesBelow
<1>3. PICK x \in Futures : x = Top.f /\ IsHead(x) /\ future[x].cb = "dispatched"
  <2>1. IsHead(Top.f) /\ Called(Top.f)
    BY <1>1, <1>2 DEF FrameOK, Chainers
  <2> QED BY <1>0, <2>1 DEF IsHead, Known, ChainInv, ChainOK
<1>4. promise' \in [Promises -> PromiseRecord] /\ MovedPromises /\ PromisesAlone
  BY <1>0, <1>1, PromisesStill
<1>5. \A h \in Futures : Cares(Top, h) => h = future[x].next
  BY <1>1, <1>3 DEF Cares, Callings
<1>6. \A fr \in {Top} : fr.kind # "answer"
  BY <1>1
<1>7. future' = Freed(x) /\ stack' = Onwards("cancel", future[x].next)
  BY <1>1, <1>3
<1>8. PICK m \in Futures \cup {None} : m = future[x].next /\ (m # None => IsHead(m)')
  BY <1>0, <1>1, <1>3, <1>7, FreedNext
<1>9. PICK t : StackStep(Len(stack) - 1, {Top}, t) /\ GoodFrames(t) /\ (m # None => CaredNew(t, m))
  <2>1. stack' = IF m = None THEN Below ELSE Append(Below, Frame("cancel", m))
    BY <1>7, <1>8 DEF Onwards
  <2> QED BY <1>0, <1>2, <1>8, <2>1, GoOn
<1> QED BY <1>1, <1>3, <1>4, <1>5, <1>6, <1>7, <1>8, <1>9, FreeStep

LEMMA InnerReturnRight ==
  ASSUME Inv, InnerReturn
  PROVE  Inv'
<1>0. Types /\ ChainInv /\ FramesInv
  BY DEF Inv
<1>1. /\ Top.kind \in Callings /\ future' = Freed(Top.f) /\ stack' = Below
      /\ UNCHANGED <<promise, join, entries, ghost>>
  BY DEF InnerReturn, At, Callings
<1>2. Leaves(Below, Len(stack) - 1, {Top}) /\ FrameOK(Top) /\ future[Top.f].next = None
  <2>1. Top.kind # "user"
    BY <1>1 DEF Callings
  <2> QED BY <1>0, <1>1, <2>1, TopRight, LeavesBelow
<1>3. PICK x \in Futures : x = Top.f /\ IsHead(x) /\ future[x].cb = "dispatched"
  <2>1. IsHead(Top.f) /\ Called(Top.f)
    BY <1>1, <1>2 DEF FrameOK, Chainers
  <2> QED BY <1>0, <2>1 DEF IsHead, Known, ChainInv, ChainOK
<1>4. promise' \in [Promises -> PromiseRecord] /\ MovedPromises /\ PromisesAlone
  BY <1>0, <1>1, PromisesStill
<1>5. \A h \in Futures : Cares(Top, h) => h = future[x].next
  BY <1>1, <1>3 DEF Cares, Callings
<1>6. \A fr \in {Top} : fr.kind # "answer"
  BY <1>1 DEF Callings
<1>7. StackStep(Len(stack) - 1, {Top}, <<>>)
  BY <1>0, <1>1, <1>2, GrowNone
<1> QED BY <1>1, <1>2, <1>3, <1>4, <1>5, <1>6, <1>7, GoodNone, FreeStep

(* The callback of a future returned.                                      *)
LEMMA UnderRight ==
  ASSUME Types, ChainInv, FramesInv, NEW k \in {"called", "cancelCalled"}, Returning(k)
  PROVE  /\ Leaves(Base, Len(stack) - 2, {Under, Top})
         /\ \E x \in Futures : x = Under.f /\ IsHead(x) /\ future[x].cb = "dispatched" /\ Called(x)
         /\ \A fr \in {Under, Top} : fr.kind # "answer"
         /\ \A fr \in {Under, Top} : \A h \in Futures : Cares(fr, h) => h = future[Under.f].next
<1>1. /\ Leaves(Base, Len(stack) - 2, {Under, Top})
      /\ Under \in FrameRecord /\ Under.kind = k /\ Top.kind = "user"
      /\ Len(stack) - 1 \in 1 .. Len(stack)
  <2>1. k # "user"
    OBVIOUS
  <2> QED BY <2>1, LeavesBase
<1>2. FrameOK(Under)
  BY <1>1 DEF FramesInv, Under
<1>3. IsHead(Under.f) /\ Called(Under.f)
  BY <1>1, <1>2 DEF FrameOK, Chainers, Callings
<1>4. PICK x : x = Under.f
  OBVIOUS
<1>5. x \in Futures /\ x = Under.f /\ IsHead(x) /\ future[x].cb = "dispatched" /\ Called(x)
  BY <1>3, <1>4 DEF IsHead, Known, ChainInv, ChainOK
<1>6. \A fr \in {Under, Top} : fr.kind # "answer"
  BY <1>1
<1>7. \A fr \in {Under, Top} : \A h \in Futures : Cares(fr, h) => h = future[Under.f].next
  BY <1>1 DEF Cares, Callings
<1> QED BY <1>1, <1>5, <1>6, <1>7

LEMMA ReturnValueRight ==
  ASSUME Inv, ReturnValue \/ ReturnCancelled
  PROVE  Inv'
<1>0. Types /\ ChainInv /\ FramesInv
  BY DEF Inv
<1>1. PICK kk \in {<<"called", "dispatch">>, <<"cancelCalled", "cancel">>} :
        /\ Returning(kk[1]) /\ future' = Freed(Under.f) /\ stack' = After(kk[2], future[Under.f].next)
        /\ UNCHANGED <<promise, join, entries, ghost>>
  BY DEF ReturnValue, ReturnCancelled
<1>2. PICK k \in {"called", "cancelCalled"}, o \in {"dispatch", "cancel"} :
        Returning(k) /\ stack' = After(o, future[Under.f].next)
  BY <1>1
<1>3. PICK x \in Futures : x = Under.f /\ IsHead(x) /\ future[x].cb = "dispatched"
  BY <1>0, <1>2, UnderRight
<1>4. /\ Leaves(Base, Len(stack) - 2, {Under, Top})
      /\ \A fr \in {Under, Top} : fr.kind # "answer"
      /\ \A fr \in {Under, Top} : \A h \in Futures : Cares(fr, h) => h = future[x].next
  BY <1>0, <1>2, <1>3, UnderRight
<1>5. promise' \in [Promises -> PromiseRecord] /\ MovedPromises /\ PromisesAlone
  BY <1>0, <1>1, PromisesStill
<1>7. future' = Freed(x) /\ stack' = After(o, future[x].next)
  BY <1>1, <1>2, <1>3
<1>8. PICK m \in Futures \cup {None} : m = future[x].next /\ (m # None => IsHead(m)')
  BY <1>0, <1>1, <1>3, <1>7, FreedNext
<1>9. PICK t : StackStep(Len(stack) - 2, {Under, Top}, t) /\ GoodFrames(t) /\ (m # None => CaredNew(t, m))
  <2>1. stack' = IF m = None THEN Base ELSE Append(Base, Frame(o, m))
    BY <1>7, <1>8 DEF After
  <2> QED BY <1>0, <1>4, <1>8, <2>1, GoOn
<1> QED BY <1>1, <1>3, <1>4, <1>5, <1>7, <1>8, <1>9, FreeStep

(* Promises that come to their end, and that no future waits for.          *)
Ends(p) ==
  /\ promise[p].mem # "unborn" /\ promise'[p].mem \in {"dying", "freed"}
  /\ Usable(p) => promise[p].future = None
  /\ promise'[p].future \in {None, promise[p].future} /\ promise'[p].scheduler = promise[p].scheduler

LEMMA PromisesEnd ==
  ASSUME Types, join' = join, NEW S \in SUBSET Promises,
         \A r \in Promises \ S : promise'[r] = promise[r], \A r \in S : Ends(r)
  PROVE  MovedPromises /\ PromisesAlone /\ PromisesKept
<1>1. ASSUME NEW r \in Promises, r \in S
      PROVE  /\ promise'[r].mem # "unborn" /\ promise[r].mem # "unborn" /\ promise'[r].mem \in {"dying", "freed"}
             /\ promise'[r].future # None => /\ promise'[r].future = promise[r].future
                                             /\ promise'[r].scheduler = promise[r].scheduler
             /\ Usable(r) => promise[r].future = None
  BY <1>1 DEF Ends
<1>2. MovedPromises
  BY <1>1 DEF MovedPromises
<1>3. PromisesAlone
  BY <1>1 DEF PromisesAlone, Usable
<1> QED BY <1>2, <1>3, PromisesMoved

LEMMA DyingDone ==
  ASSUME Inv, NEW p \in Promises, promise[p].mem \in {"dying", "freed"},
         promise' = [promise EXCEPT ![p].mem = "freed"], UNCHANGED <<future, join, entries, ghost>>,
         NEW b, NEW n, NEW G, Leaves(b, n, G), stack' = b,
         \A fr \in G : fr.kind # "answer" /\ \A h \in Futures : ~Cares(fr, h)
  PROVE  Inv'
<1>0. Types
  BY DEF Inv
<1>1. promise \in [Promises -> PromiseRecord]
  BY <1>0 DEF Types
<1>2. promise' = [promise EXCEPT ![p] = [promise[p] EXCEPT !.mem = "freed"]] /\ promise[p] \in PromiseRecord
  BY <1>1
<1>3. PICK z : z = [promise[p] EXCEPT !.mem = "freed"]
  OBVIOUS
<1>4. z \in PromiseRecord /\ z.mem = "freed" /\ z.future = promise[p].future /\ z.scheduler = promise[p].scheduler
  BY <1>2, <1>3 DEF PromiseRecord, Memory
<1>5. promise' \in [Promises -> PromiseRecord] /\ promise'[p] = z /\ \A r \in Promises \ {p} : promise'[r] = promise[r]
  BY <1>1, <1>2, <1>3, <1>4
<1>6. Ends(p)
  BY <1>4, <1>5 DEF Ends, Usable
<1>7. MovedPromises /\ PromisesAlone
  <2>1. PICK S \in SUBSET Promises : S = {p}
    OBVIOUS
  <2>2. (\A r \in S : Ends(r)) /\ \A r \in Promises \ S : promise'[r] = promise[r]
    BY <1>5, <1>6, <2>1
  <2> QED BY <1>0, <2>2, PromisesEnd
<1>8. StackStep(n, G, <<>>)
  BY <1>0, GrowNone
<1> QED BY <1>5, <1>7, <1>8, GoodNone, OnlyStack

LEMMA DyingRight ==
  ASSUME Inv, DyingResolved \/ ReturnDying
  PROVE  Inv'
<1>0. Types /\ FramesInv
  BY DEF Inv
<1>1. CASE DyingResolved
  <2>1. /\ Top.kind = "dying" /\ promise' = [promise EXCEPT ![Top.p].mem = "freed"]
        /\ stack' = Below /\ UNCHANGED <<future, join, entries, ghost>>
    BY <1>1 DEF DyingResolved, At
  <2>2. Leaves(Below, Len(stack) - 1, {Top}) /\ FrameOK(Top)
    BY <1>0, <2>1, TopRight, LeavesBelow
  <2>3. PICK p \in Promises : p = Top.p /\ promise[p].mem \in {"dying", "freed"}
    BY <2>1, <2>2 DEF FrameOK
  <2>4. \A fr \in {Top} : fr.kind # "answer" /\ \A h \in Futures : ~Cares(fr, h)
    BY <2>1 DEF Cares, Callings
  <2> QED BY <2>1, <2>2, <2>3, <2>4, DyingDone
<1>2. CASE ReturnDying
  <2>1. /\ Returning("dying") /\ promise' = [promise EXCEPT ![Under.p].mem = "freed"]
        /\ stack' = Base /\ UNCHANGED <<future, join, entries, ghost>>
    BY <1>2 DEF ReturnDying
  <2>2. /\ Leaves(Base, Len(stack) - 2, {Under, Top})
        /\ Under \in FrameRecord /\ Under.kind = "dying" /\ Top.kind = "user"
        /\ Len(stack) - 1 \in 1 .. Len(stack)
    BY <1>0, <2>1, LeavesBase
  <2>3. FrameOK(Under)
    BY <1>0, <2>2 DEF FramesInv, Under
  <2>4. PICK p \in Promises : p = Under.p /\ promise[p].mem \in {"dying", "freed"}
    BY <2>2, <2>3 DEF FrameOK
  <2>5. \A fr \in {Under, Top} : fr.kind # "answer" /\ \A h \in Futures : ~Cares(fr, h)
    BY <2>2 DEF Cares, Callings
  <2> QED BY <2>1, <2>2, <2>4, <2>5, DyingDone
<1> QED BY <1>1, <1>2

LEMMA ResolveUnlinkedByPromiseRight ==
  ASSUME Inv, NEW p \in Promises, NEW q \in Promises, ResolveUnlinkedByPromise(p, q)
  PROVE  Inv'
<1>0. Types /\ JoinInv
  BY DEF Inv
<1>1. /\ p # q /\ Usable(p) /\ promise[p].future = None /\ Usable(q) /\ promise[q].future = None
      /\ promise' = [promise EXCEPT ![p].mem = "dying", ![q].mem = "dying"]
      /\ stack' = stack \o <<Dying(p)>> \o Doomed(q)
      /\ UNCHANGED <<future, join, entries, ghost>>
  BY DEF ResolveUnlinkedByPromise, Theirs, Own
<1>2. promise \in [Promises -> PromiseRecord]
  BY <1>0 DEF Types
<1>3. \A r \in Promises : LET z == [promise[r] EXCEPT !.mem = "dying"]
                          IN  z \in PromiseRecord /\ z.mem = "dying" /\ z.future = promise[r].future
                              /\ z.scheduler = promise[r].scheduler
  BY <1>2 DEF PromiseRecord, Memory
<1>4. promise' = [r \in Promises |-> IF r = q \/ r = p THEN [promise[r] EXCEPT !.mem = "dying"] ELSE promise[r]]
  BY <1>1, <1>2
<1>5. promise' \in [Promises -> PromiseRecord]
  BY <1>2, <1>3, <1>4
<1>6. Ends(p) /\ Ends(q)
  <2>1. ASSUME NEW r \in Promises, r = p \/ r = q PROVE Ends(r)
    <3>1. PICK z : z = [promise[r] EXCEPT !.mem = "dying"]
      OBVIOUS
    <3>2. z.mem = "dying" /\ z.future = promise[r].future /\ z.scheduler = promise[r].scheduler
      BY <1>3, <3>1
    <3>3. promise'[r] = z
      BY <1>4, <2>1, <3>1
    <3>4. promise[r].mem = "live" /\ promise[r].future = None
      BY <1>1, <2>1 DEF Usable
    <3> QED BY <3>2, <3>3, <3>4 DEF Ends
  <2> QED BY <2>1
<1>7. MovedPromises /\ PromisesAlone /\ PromisesKept
  <2>1. PICK S \in SUBSET Promises : S = {p, q}
    OBVIOUS
  <2>2. (\A r \in S : Ends(r)) /\ \A r \in Promises \ S : promise'[r] = promise[r]
    BY <1>4, <1>6, <2>1
  <2> QED BY <1>0, <1>1, <2>2, PromisesEnd
<1>8. PICK d : d = Dying(p)
  OBVIOUS
<1>9. PICK r : r = Doomed(q)
  OBVIOUS
<1>10. d \in FrameRecord /\ d.kind = "dying" /\ FrameOK(d)'
  <2>1. Len(join[p].futures) <= MaxFutures /\ promise[p].mem # "unborn" /\ promise'[p].mem \in {"dying", "freed"}
    BY <1>0, <1>6 DEF JoinInv, JoinOK, Ends
  <2> QED BY <1>0, <1>7, <1>8, <2>1, AboutPromise, PromiseFrames
<1>11. GoodFrames(r) /\ r \in Seq(FrameRecord)
  <2>1. promise[q].mem # "unborn" /\ promise'[q].mem \in {"dying", "freed"}
    BY <1>6 DEF Ends
  <2> QED BY <1>0, <1>7, <1>9, <2>1, DoomedRight DEF GoodFrames
<1>12. GoodFrames(Over(d, r))
  BY <1>10, <1>11, GoodOver DEF Callings
<1>13. StackStep(Len(stack), {}, Over(d, r))
  BY <1>0, <1>1, <1>8, <1>9, <1>10, <1>11, LeavesAll, GrowOver
<1> QED BY <1>1, <1>5, <1>7, <1>12, <1>13, OnlyStack

(* The start of _eina_promise_cancel of a promise nobody waits for.        *)
LEMMA CondemnedEnds ==
  ASSUME Types, join' = join, NEW q \in Promises, Own(q), promise' = Condemned(q)
  PROVE  /\ promise' \in [Promises -> PromiseRecord] /\ MovedPromises /\ PromisesAlone /\ PromisesKept
         /\ promise[q].mem # "unborn" /\ promise'[q].mem \in {"dying", "freed"}
<1>1. Usable(q) /\ promise[q].future = None /\ promise \in [Promises -> PromiseRecord] /\ promise[q] \in PromiseRecord
  BY DEF Own, Types
<1>2. PICK z : z = [promise[q] EXCEPT !.future = None, !.mem = "dying"]
  OBVIOUS
<1>3. z \in PromiseRecord /\ z.mem = "dying" /\ z.future = None /\ z.scheduler = promise[q].scheduler
  BY <1>1, <1>2 DEF PromiseRecord, Memory
<1>4. promise' = [promise EXCEPT ![q] = z]
  BY <1>1, <1>2 DEF Condemned
<1>5. promise' \in [Promises -> PromiseRecord] /\ promise'[q] = z /\ \A r \in Promises \ {q} : promise'[r] = promise[r]
  BY <1>1, <1>3, <1>4
<1>6. Ends(q)
  BY <1>1, <1>3, <1>5 DEF Ends, Usable
<1>7. MovedPromises /\ PromisesAlone /\ PromisesKept
  <2>1. PICK S \in SUBSET Promises : S = {q}
    OBVIOUS
  <2>2. (\A r \in S : Ends(r)) /\ \A r \in Promises \ S : promise'[r] = promise[r]
    BY <1>5, <1>6, <2>1
  <2> QED BY <2>2, PromisesEnd
<1> QED BY <1>5, <1>6, <1>7 DEF Ends

LEMMA ReturnCancelledPromiseRight ==
  ASSUME Inv, NEW q \in Promises, ReturnCancelledPromise(q)
  PROVE  Inv'
<1>0. Types /\ ChainInv /\ FramesInv /\ JoinInv
  BY DEF Inv
<1>1. /\ Returning("cancelCalled") /\ Own(q) /\ promise' = Condemned(q)
      /\ stack' = Base \o <<Frame("cancelFree", Under.f)>> \o Doomed(q)
      /\ UNCHANGED <<future, join, entries, ghost>>
  BY DEF ReturnCancelledPromise
<1>2. PICK x \in Futures : x = Under.f /\ IsHead(x) /\ Called(x)
  BY <1>0, <1>1, UnderRight
<1>3. /\ Leaves(Base, Len(stack) - 2, {Under, Top})
      /\ \A fr \in {Under, Top} : fr.kind # "answer"
      /\ \A fr \in {Under, Top} : \A h \in Futures : Cares(fr, h) => h = future[x].next
  BY <1>0, <1>1, <1>2, UnderRight
<1>4. /\ promise' \in [Promises -> PromiseRecord] /\ MovedPromises /\ PromisesAlone /\ PromisesKept
      /\ promise[q].mem # "unborn" /\ promise'[q].mem \in {"dying", "freed"}
  BY <1>0, <1>1, CondemnedEnds
<1>5. PICK c : c = Frame("cancelFree", x)
  OBVIOUS
<1>6. c \in FrameRecord /\ c.kind = "cancelFree" /\ c.f = x
  BY <1>5, FrameRight DEF FrameKinds
<1>7. FrameOK(c)'
  <2>1. IsHead(x)' /\ Called(x)'
    BY <1>1, <1>2 DEF IsHead, Known, Called
  <2> QED BY <1>6, <2>1 DEF FrameOK, Chainers, Callings
<1>8. PICK r : r = Doomed(q)
  OBVIOUS
<1>9. GoodFrames(r) /\ r \in Seq(FrameRecord)
  BY <1>0, <1>4, <1>8, DoomedRight DEF GoodFrames
<1>10. PICK t : t = Over(c, r)
  OBVIOUS
<1>11. GoodFrames(t) /\ Has(t, c)
  BY <1>6, <1>7, <1>9, <1>10, GoodOver DEF Callings
<1>12. StackStep(Len(stack) - 2, {Under, Top}, t)
  <2>1. stack' = Base \o <<c>> \o r
    BY <1>1, <1>2, <1>5, <1>8
  <2> QED BY <1>0, <1>3, <1>6, <1>9, <1>10, <2>1, GrowOver
<1>13. \A h \in Futures : h = future[x].next => CaredNew(t, h)
  <2>1. PICK i \in 1 .. Len(t) : t[i] = c
    BY <1>11 DEF Has
  <2>2. ASSUME NEW h \in Futures, h = future[x].next PROVE Cares(t[i], h)'
    BY <1>1, <1>6, <2>1, <2>2 DEF Cares
  <2> QED BY <2>2 DEF CaredNew
<1>14. \A fr \in {Under, Top} : fr.kind # "answer" /\ \A h \in Futures : AtHead(h) => CaredNew(t, h) \/ ~Cares(fr, h)
  BY <1>3, <1>13
<1> QED BY <1>1, <1>4, <1>11, <1>12, <1>14, OnlyStack

(* A promise that gets a future, from one that waited or from a callback.  *)
LEMMA StolenRight ==
  ASSUME Types, NEW q \in Promises, NEW f \in Futures \cup {None}, NEW b \in BOOLEAN,
         NEW st, st = Stolen(q, f, b)
  PROVE  /\ st \in [Promises -> PromiseRecord] /\ \A r \in Promises : r # q => st[r] = promise[r]
         /\ st[q].mem = promise[q].mem /\ st[q].future = f /\ (promise[q].scheduler \/ b => st[q].scheduler)
<1>1. promise \in [Promises -> PromiseRecord] /\ promise[q] \in PromiseRecord
  BY DEF Types
<1>2. PICK z : z = [promise[q] EXCEPT !.future = f, !.given = TRUE, !.scheduler = @ \/ b]
  OBVIOUS
<1>3. z \in PromiseRecord /\ z.mem = promise[q].mem /\ z.future = f /\ (promise[q].scheduler \/ b => z.scheduler)
  BY <1>1, <1>2 DEF PromiseRecord
<1>4. st = [promise EXCEPT ![q] = z]
  BY <1>1, <1>2 DEF Stolen
<1> QED BY <1>1, <1>3, <1>4

LEMMA ReturnPromiseRight ==
  ASSUME Inv, NEW q \in Promises, ReturnPromise(q)
  PROVE  Inv'
<1>0. Types /\ ChainInv /\ FramesInv /\ JoinInv
  BY DEF Inv
<1>1. /\ Returning("called") /\ Own(q)
      /\ UNCHANGED <<join, entries, ghost>>
  BY DEF ReturnPromise
<1>2. PICK x \in Futures : x = Under.f /\ IsHead(x) /\ future[x].cb = "dispatched"
  BY <1>0, <1>1, UnderRight
<1>3. /\ Leaves(Base, Len(stack) - 2, {Under, Top})
      /\ \A fr \in {Under, Top} : fr.kind # "answer"
      /\ \A fr \in {Under, Top} : \A h \in Futures : Cares(fr, h) => h = future[x].next
  BY <1>0, <1>1, <1>2, UnderRight
<1>4. PICK m : m = future[x].next
  OBVIOUS
<1>5. CASE BeingCalled(m)
  <2>1. /\ future' = Freed(x) /\ promise' = Condemned(q) /\ stack' = Base \o Doomed(q)
    BY <1>2, <1>4, <1>5 DEF ReturnPromise
  <2>2. /\ promise' \in [Promises -> PromiseRecord] /\ MovedPromises /\ PromisesAlone /\ PromisesKept
        /\ promise[q].mem # "unborn" /\ promise'[q].mem \in {"dying", "freed"}
    BY <1>0, <1>1, <2>1, CondemnedEnds
  <2>3. PICK r : r = Doomed(q)
    OBVIOUS
  <2>4. GoodFrames(r) /\ r \in Seq(FrameRecord)
    BY <1>0, <2>2, <2>3, DoomedRight DEF GoodFrames
  <2>5. StackStep(Len(stack) - 2, {Under, Top}, r)
    BY <1>0, <1>3, <2>1, <2>3, <2>4, GrowBy
  <2>6. ~Waiting(m)
    BY <1>5 DEF BeingCalled, Waiting
  <2>7. \A fr \in {Under, Top} : fr.kind # "answer" /\ \A h \in Futures : AtHead(h) /\ Cares(fr, h) => h = x \/ h = future[x].next
    BY <1>3
  <2>8. future[x].next # None => CaredNew(r, future[x].next) \/ ~Waiting(future[x].next)
    BY <1>4, <2>6
  <2>9. future[x].cb \in {"none", "dispatched"} /\ IsHead(x)
    BY <1>2
  <2>10. future' = Freed(x) /\ UNCHANGED <<join, entries, ghost>>
    BY <1>1, <2>1
  <2>11. PICK G : G = {Under, Top}
    OBVIOUS
  <2>12. /\ StackStep(Len(stack) - 2, G, r)
         /\ \A fr \in G : fr.kind # "answer" /\ \A h \in Futures : AtHead(h) /\ Cares(fr, h) => h = x \/ h = future[x].next
    BY <2>5, <2>7, <2>11
  <2>13. PICK k : k = Len(stack) - 2
    OBVIOUS
  <2>14. StackStep(k, G, r)
    BY <2>12, <2>13
  <2> HIDE <2>1, <2>5, <2>7
  <2> QED BY <2>2, <2>4, <2>8, <2>9, <2>10, <2>12, <2>14, FreeStep
<1>6. CASE ~BeingCalled(m)
  <2>1. PICK fs : fs = Freed(x)
    OBVIOUS
  <2>2. /\ future' = [g \in Futures |-> IF g = m THEN [fs[g] EXCEPT !.promise = q] ELSE fs[g]]
        /\ promise' = Stolen(q, m, TRUE) /\ stack' = Base
    BY <1>2, <1>4, <1>6, <2>1 DEF ReturnPromise
  <2>3. fs \in [Futures -> FutureRecord]
    <3>1. \A g \in Futures : future[g] \in FutureRecord
      BY <1>0 DEF Types
    <3>2. \A g \in Futures : fs[g] \in FutureRecord
      <4> SUFFICES ASSUME NEW g \in Futures PROVE fs[g] \in FutureRecord
        OBVIOUS
      <4>1. CASE g = x
        <5>1. fs[g] = [future[g] EXCEPT !.mem = "freed"]
          BY <2>1, <4>1 DEF Freed
        <5> QED BY <3>1, <5>1 DEF FutureRecord
      <4>2. CASE g # x
        <5>1. PICK u, v : /\ u = IF future[x].next = g THEN None ELSE future[g].prev
                          /\ v = IF future[x].prev = g THEN None ELSE future[g].next
          OBVIOUS
        <5>2. u \in Futures \cup {None} /\ v \in Futures \cup {None}
          BY <3>1, <5>1 DEF FutureRecord
        <5>3. fs[g] = [future[g] EXCEPT !.prev = u, !.next = v]
          BY <2>1, <4>2, <5>1 DEF Freed
        <5> QED BY <3>1, <5>2, <5>3 DEF FutureRecord
      <4> QED BY <4>1, <4>2
    <3>3. fs = [g \in Futures |-> fs[g]]
      BY <2>1 DEF Freed
    <3> QED BY <3>2, <3>3
  <2>4. ASSUME NEW g \in Futures
        PROVE  /\ future'[g] \in FutureRecord
               /\ future'[g].mem = fs[g].mem /\ future'[g].cb = fs[g].cb
               /\ future'[g].next = fs[g].next /\ future'[g].prev = fs[g].prev
               /\ future'[g].entry = fs[g].entry
               /\ future'[g].promise = IF g = m THEN q ELSE fs[g].promise
    <3>1. fs[g] \in FutureRecord
      BY <2>3
    <3>2. future'[g] = IF g = m THEN [fs[g] EXCEPT !.promise = q] ELSE fs[g]
      BY <2>2
    <3> QED BY <3>1, <3>2 DEF FutureRecord
  <2>5. /\ ChainInv' /\ ChainKept /\ Heads({m}) /\ MovedFutures
        /\ \A g \in Futures : fs[g].promise = future[g].promise /\ fs[g].entry = future[g].entry
        /\ ~Waiting(x)' /\ \A g \in Futures : g # x => (Waiting(g)' <=> Waiting(g))
        /\ m \in Futures \cup {None} /\ (m # None => IsHead(m)')
    <3>1. \A g \in Futures : /\ future'[g].mem = fs[g].mem /\ future'[g].cb = fs[g].cb
                             /\ future'[g].next = fs[g].next /\ future'[g].prev = fs[g].prev
      BY <2>4
    <3>2. future[x].cb \in {"none", "dispatched"} /\ IsHead(x) /\ ghost' = ghost
      BY <1>1, <1>2
    <3>3. /\ ChainInv' /\ ChainKept /\ Heads({future[x].next}) /\ MovedFutures
          /\ \A g \in Futures : fs[g].promise = future[g].promise /\ fs[g].entry = future[g].entry
          /\ ~Waiting(x)' /\ \A g \in Futures : g # x => (Waiting(g)' <=> Waiting(g))
          /\ \E h \in Futures \cup {None} : h = future[x].next /\ (h # None => IsHead(h)')
      BY ONLY <1>0, x \in Futures, <2>1, <3>1, <3>2, FreedRight
    <3> QED BY ONLY <1>4, <3>3
  <2>6. PICK st : st = promise'
    OBVIOUS
  <2>7. /\ st \in [Promises -> PromiseRecord] /\ \A r \in Promises : r # q => st[r] = promise[r]
        /\ st[q].mem = promise[q].mem /\ st[q].future = m /\ st[q].scheduler
    <3>1. st = Stolen(q, m, TRUE)
      BY <2>2, <2>6
    <3>2. PICK h \in Futures \cup {None} : h = m
      BY <2>5
    <3>3. promise \in [Promises -> PromiseRecord] /\ promise[q] \in PromiseRecord
      BY <1>0 DEF Types
    <3>4. PICK z : z = [promise[q] EXCEPT !.future = h, !.given = TRUE, !.scheduler = TRUE]
      OBVIOUS
    <3>5. st = [promise EXCEPT ![q] = z]
      BY <3>1, <3>2, <3>3, <3>4 DEF Stolen
    <3>6. z \in PromiseRecord /\ z.mem = promise[q].mem /\ z.future = h /\ z.scheduler
      BY <3>3, <3>4 DEF PromiseRecord
    <3> QED BY <3>2, <3>3, <3>5, <3>6, PutOne
  <2>8. promise[q].mem = "live" /\ promise[q].future = None
    BY <1>1 DEF Own, Usable
  <2>9. Fields'
    <3>1. future' \in [Futures -> FutureRecord]
      BY <2>2, <2>4
    <3>2. promise' \in [Promises -> PromiseRecord]
      BY <2>6, <2>7
    <3> QED BY <1>0, <1>1, <3>1, <3>2 DEF Types, Fields
  <2>10. MovedPromises /\ SchedulersKept
    BY <2>6, <2>7, <2>8 DEF MovedPromises, SchedulersKept
  <2>11. Relinked
    <3>1. \A r \in Promises : promise'[r].future # None =>
             promise'[r].future = promise[r].future \/ IsHead(promise[r].future)'
      <4>1. ASSUME NEW r \in Promises, promise'[r].future # None, r = q PROVE IsHead(promise[r].future)'
        <5>1. promise'[r].future = m /\ m # None
          BY <2>6, <2>7, <4>1
        <5> QED BY <2>5, <5>1 DEF IsHead
      <4> QED BY <2>6, <2>7, <4>1
    <3>2. \A i \in 1 .. Len(entries') : entries'[i] \in ToSet(entries)
      BY <1>0, <1>1, EntriesStill
    <3>3. ASSUME NEW g \in Futures, NEW r \in Promises, Waiting(g)', future'[g].promise = r
          PROVE  \/ /\ Waiting(g) /\ future[g].promise = r
                    /\ Usable(r) /\ promise[r].future = g => Usable(r)' /\ promise'[r].future = g
                 \/ Usable(r)' /\ promise'[r].future = g
      <4>1. CASE g = m
        <5>1. r = q
          BY <2>4, <3>3, <4>1
        <5> QED BY <2>6, <2>7, <2>8, <4>1, <5>1 DEF Usable
      <4>2. CASE g # m
        <5>1. Waiting(g) /\ future[g].promise = r
          BY <2>4, <2>5, <3>3, <4>2
        <5>2. promise[r].future = g => r # q
          BY <2>8 DEF Futures, None
        <5> QED BY <2>6, <2>7, <5>1, <5>2 DEF Usable
      <4> QED BY <4>1, <4>2
    <3> QED BY <3>1, <3>2, <3>3 DEF Relinked
  <2>12. StackStep(Len(stack) - 2, {Under, Top}, <<>>)
    BY <1>0, <1>3, <2>2, GrowNone
  <2>13. CaredFor({m}, {Under, Top}, <<>>)
    <3>1. \A h \in Futures : h = m => future'[h].promise # None
      BY <2>4 DEF Promises, None
    <3>2. ASSUME NEW h \in Futures, h # m PROVE CaredOnwards(h, {Under, Top}, <<>>)
      <4>1. \A fr \in {Under, Top} : ~Cares(fr, h)
        BY <1>3, <1>4, <3>2
      <4> QED BY <1>1, <2>4, <2>5, <3>2, <4>1 DEF CaredOnwards
    <3>3. \A h \in Futures : CaredOnwards(h, {Under, Top}, <<>>)
      BY <3>1, <3>2 DEF CaredOnwards
    <3> QED BY <3>1, <3>3 DEF CaredFor
  <2> QED BY <1>1, <1>3, <2>5, <2>9, <2>10, <2>11, <2>12, <2>13, GoodNone, MoveStep
<1> QED BY <1>5, <1>6

LEMMA ResolveByPromiseRight ==
  ASSUME Inv, NEW p \in Promises, NEW q \in Promises, ResolveByPromise(p, q)
  PROVE  Inv'
<1>0. Types /\ ChainInv /\ LinkInv /\ AnswerInv
  BY DEF Inv
<1>1. PICK f \in Futures : f = promise[p].future
  BY <1>0 DEF ResolveByPromise, Types, PromiseRecord
<1>2. PICK s \in BOOLEAN : s = promise[p].scheduler
  BY <1>0 DEF Types, PromiseRecord
<1>3. PICK st : st = Stolen(q, f, s)
  OBVIOUS
<1>4. /\ Usable(p) /\ f # None /\ IsHead(f) /\ s
      /\ Usable(q) /\ promise[q].future = None /\ q # p
      /\ future' = [future EXCEPT ![f].promise = q]
      /\ promise' = [st EXCEPT ![p].mem = "freed", ![p].future = None]
      /\ UNCHANGED <<join, entries, stack, ghost>>
  <2>1. Usable(p) /\ promise[p].future # None /\ Usable(q) /\ promise[q].future = None /\ q # p
    BY DEF ResolveByPromise, Theirs, Own
  <2>2. f # None /\ IsHead(f) /\ s
    BY <1>0, <1>1, <1>2, <2>1 DEF LinkInv, AnswerInv
  <2>3. /\ future' = [future EXCEPT ![f].promise = q]
        /\ promise' = [Stolen(q, f, s) EXCEPT ![p].mem = "freed", ![p].future = None]
        /\ UNCHANGED <<join, entries, stack, ghost>>
    BY <1>1, <1>2 DEF ResolveByPromise
  <2> QED BY <1>3, <2>1, <2>2, <2>3
<1>5. /\ st \in [Promises -> PromiseRecord] /\ \A r \in Promises : r # q => st[r] = promise[r]
      /\ st[q].mem = promise[q].mem /\ st[q].future = f /\ st[q].scheduler
  <2>1. f \in Futures \cup {None}
    OBVIOUS
  <2>2. /\ st \in [Promises -> PromiseRecord] /\ \A r \in Promises : r # q => st[r] = promise[r]
        /\ st[q].mem = promise[q].mem /\ st[q].future = f /\ (promise[q].scheduler \/ s => st[q].scheduler)
    BY <1>0, <1>3, <2>1, StolenRight
  <2> QED BY <1>4, <2>2
<1>6. /\ promise' \in [Promises -> PromiseRecord]
      /\ promise'[p].mem = "freed" /\ promise'[p].future = None
      /\ \A r \in Promises : r # p => promise'[r] = st[r]
  <2>1. PICK z : z = [st[p] EXCEPT !.mem = "freed", !.future = None]
    OBVIOUS
  <2>2. st[p] \in PromiseRecord
    BY <1>5
  <2>3. z \in PromiseRecord /\ z.mem = "freed" /\ z.future = None
    BY <2>1, <2>2 DEF PromiseRecord, Memory
  <2>4. promise' = [st EXCEPT ![p] = z]
    BY <1>4, <1>5, <2>1
  <2> QED BY <1>5, <2>3, <2>4
<1>7. /\ future' \in [Futures -> FutureRecord]
      /\ \A g \in Futures : SameLinks(g) /\ future'[g].entry = future[g].entry /\ (g # f => future'[g] = future[g])
      /\ future'[f].promise = q
  <2>1. future \in [Futures -> FutureRecord] /\ future[f] \in FutureRecord
    BY <1>0 DEF Types
  <2>2. PICK z : z = [future[f] EXCEPT !.promise = q]
    OBVIOUS
  <2>3. /\ z \in FutureRecord /\ z.mem = future[f].mem /\ z.cb = future[f].cb /\ z.next = future[f].next
        /\ z.prev = future[f].prev /\ z.entry = future[f].entry /\ z.promise = q
    BY <2>1, <2>2 DEF FutureRecord
  <2>4. future' = [future EXCEPT ![f] = z]
    BY <1>4, <2>1, <2>2
  <2>5. future' \in [Futures -> FutureRecord] /\ future'[f] = z /\ \A g \in Futures : g # f => future'[g] = future[g]
    BY <2>1, <2>3, <2>4
  <2> QED BY <2>3, <2>5 DEF SameLinks
<1>8. Fields'
  BY <1>0, <1>4, <1>6, <1>7 DEF Types, Fields
<1>9. ChainSame
  BY <1>4, <1>7 DEF ChainSame
<1>10. ChainInv' /\ ChainKept /\ Heads({})
  BY <1>0, <1>9, SameChain
<1>11. MovedFutures /\ \A g \in Futures : Waiting(g)' <=> Waiting(g)
  BY <1>9, SameMoves
<1>12. promise[p].mem = "live" /\ promise[q].mem = "live" /\ promise'[q] = st[q]
  BY <1>4, <1>6 DEF Usable
<1>13. MovedPromises /\ SchedulersKept
  BY <1>5, <1>6, <1>12 DEF MovedPromises, SchedulersKept
<1>14. Relinked
  <2>1. IsHead(f)'
    BY <1>4, <1>10 DEF ChainKept
  <2>2. ASSUME NEW r \in Promises, promise'[r].future # None
        PROVE  promise'[r].future = promise[r].future \/ IsHead(promise[r].future)'
    <3>1. CASE r = q
      <4>1. promise'[r].future = f
        BY <1>5, <1>12, <3>1
      <4> QED BY <2>1, <4>1 DEF IsHead
    <3>2. CASE r # q
      BY <1>5, <1>6, <2>2, <3>2
    <3> QED BY <3>1, <3>2
  <2>3. \A i \in 1 .. Len(entries') : entries'[i] \in ToSet(entries)
    BY <1>0, <1>4, EntriesStill
  <2>4. ASSUME NEW g \in Futures, NEW r \in Promises, Waiting(g)', future'[g].promise = r
        PROVE  \/ /\ Waiting(g) /\ future[g].promise = r
                  /\ Usable(r) /\ promise[r].future = g => Usable(r)' /\ promise'[r].future = g
               \/ Usable(r)' /\ promise'[r].future = g
    <3>1. CASE g = f
      <4>1. r = q
        BY <1>7, <2>4, <3>1
      <4> QED BY <1>5, <1>12, <3>1, <4>1 DEF Usable
    <3>2. CASE g # f
      <4>1. Waiting(g) /\ future[g].promise = r
        BY <1>7, <1>11, <2>4, <3>2
      <4>2. promise[r].future = g => r # q /\ r # p
        BY <1>1, <1>4, <3>2 DEF Futures, None
      <4> QED BY <1>5, <1>6, <4>1, <4>2 DEF Usable
    <3> QED BY <3>1, <3>2
  <2> QED BY <2>2, <2>3, <2>4 DEF Relinked
<1>15. StackStep(Len(stack), {}, <<>>) /\ GoodFrames(<<>>)
  BY <1>0, <1>4, StackStill
<1>16. CaredFor({}, {}, <<>>)
  <2>1. future'[f].promise # None
    BY <1>7 DEF Promises, None
  <2>2. ASSUME NEW h \in Futures, h # f PROVE CaredOnwards(h, {}, <<>>)
    BY <1>4, <1>7, <2>2 DEF CaredOnwards
  <2>3. \A h \in Futures : CaredOnwards(h, {}, <<>>)
    BY <2>1, <2>2 DEF CaredOnwards
  <2> QED BY <2>3 DEF CaredFor
<1> QED BY <1>4, <1>8, <1>10, <1>11, <1>13, <1>14, <1>15, <1>16, MoveStep

LEMMA AnswerNowRight ==
  ASSUME Inv, AnswerNow
  PROVE  Inv'
<1>0. Types /\ ChainInv /\ FramesInv /\ LinkInv /\ JoinInv
  BY DEF Inv
<1>1. Top.kind = "answer"
  BY DEF AnswerNow, At
<1>2. Leaves(Below, Len(stack) - 1, {Top}) /\ FrameOK(Top)
  BY <1>0, <1>1, TopRight, LeavesBelow
<1>3. PICK p \in Promises : p = Top.p /\ promise[p].mem # "unborn"
  BY <1>1, <1>2 DEF FrameOK
<1>4. PICK f \in Futures \cup {None} : f = promise[p].future
  BY <1>0 DEF Types, PromiseRecord
<1>5. PICK d : d = Dying(p)
  OBVIOUS
<1>6. PICK x : x = Frame("dispatch", f)
  OBVIOUS
<1>7. /\ future' = Unlinked(p) /\ promise' = Condemned(p)
      /\ stack' = Below \o <<d>> \o (IF f = None THEN <<>> ELSE <<x>>)
      /\ UNCHANGED <<join, entries, ghost>>
  BY <1>3, <1>4, <1>5, <1>6 DEF AnswerNow
<1>8. /\ promise' \in [Promises -> PromiseRecord]
      /\ promise'[p].mem = "dying" /\ promise'[p].future = None
      /\ \A r \in Promises : r # p => promise'[r] = promise[r]
  <2>1. promise \in [Promises -> PromiseRecord] /\ promise[p] \in PromiseRecord
    BY <1>0 DEF Types
  <2>2. PICK z : z = [promise[p] EXCEPT !.future = None, !.mem = "dying"]
    OBVIOUS
  <2>3. z \in PromiseRecord /\ z.mem = "dying" /\ z.future = None
    BY <2>1, <2>2 DEF PromiseRecord, Memory
  <2>4. promise' = [promise EXCEPT ![p] = z]
    BY <1>7, <2>1, <2>2 DEF Condemned
  <2> QED BY <2>1, <2>3, <2>4
<1>9. ASSUME NEW g \in Futures
      PROVE  /\ future'[g] \in FutureRecord /\ SameLinks(g) /\ future'[g].entry = future[g].entry
             /\ future'[g].promise = IF g = f THEN None ELSE future[g].promise
  <2>1. future[g] \in FutureRecord /\ p # None
    BY <1>0 DEF Types, Promises, None
  <2>2. future'[g] = IF g = f THEN [future[g] EXCEPT !.promise = None] ELSE future[g]
    BY <1>4, <1>7, <2>1 DEF Unlinked
  <2> QED BY <2>1, <2>2 DEF FutureRecord, SameLinks
<1>10. Fields'
  <2>1. future' \in [Futures -> FutureRecord]
    <3>1. future' = [g \in Futures |-> future'[g]]
      BY <1>7 DEF Unlinked
    <3> QED BY <1>9, <3>1
  <2> QED BY <1>0, <1>7, <1>8, <2>1 DEF Types, Fields
<1>11. ChainSame
  BY <1>7, <1>9 DEF ChainSame
<1>12. ChainInv' /\ ChainKept /\ Heads({})
  BY <1>0, <1>11, SameChain
<1>13. MovedFutures /\ \A g \in Futures : Waiting(g)' <=> Waiting(g)
  BY <1>11, SameMoves
<1>14. MovedPromises /\ SchedulersKept
  BY <1>3, <1>8 DEF MovedPromises, SchedulersKept
<1>15. PromisesKept
  BY <1>0, <1>7, <1>14, PromisesMoved
<1>16. Relinked
  <2>1. \A r \in Promises : promise'[r].future # None => promise'[r].future = promise[r].future
    BY <1>8
  <2>2. \A i \in 1 .. Len(entries') : entries'[i] \in ToSet(entries)
    BY <1>0, <1>7, EntriesStill
  <2>3. ASSUME NEW g \in Futures, NEW r \in Promises, Waiting(g)', future'[g].promise = r
        PROVE  /\ Waiting(g) /\ future[g].promise = r
               /\ Usable(r) /\ promise[r].future = g => Usable(r)' /\ promise'[r].future = g
    <3>1. g # f
      BY <1>9, <2>3 DEF Promises, None
    <3>2. promise[r].future = g => r # p
      BY <1>4, <3>1
    <3> QED BY <1>8, <1>9, <1>13, <2>3, <3>1, <3>2 DEF Usable
  <2> QED BY <2>1, <2>2, <2>3 DEF Relinked
<1>17. d \in FrameRecord /\ d.kind = "dying" /\ FrameOK(d)'
  <2>1. Len(join[p].futures) <= MaxFutures /\ promise'[p].mem \in {"dying", "freed"}
    BY <1>0, <1>8 DEF JoinInv, JoinOK
  <2> QED BY <1>0, <1>3, <1>5, <1>15, <2>1, AboutPromise, PromiseFrames
<1>18. PICK r : r = IF f = None THEN <<>> ELSE Over(x, <<>>)
  OBVIOUS
<1>19. x \in FrameRecord /\ x.kind = "dispatch" /\ x.f = f
  BY <1>6, FrameRight DEF FrameKinds
<1>20. GoodFrames(r) /\ (f # None => Has(r, x)) /\ r \in Seq(FrameRecord)
  <2>1. CASE f = None
    BY <1>18, <2>1, GoodNone DEF GoodFrames
  <2>2. CASE f # None
    <3>1. IsHead(f)
      BY <1>0, <1>4, <2>2 DEF LinkInv
    <3>2. IsHead(f)'
      BY <1>12, <2>2, <3>1 DEF ChainKept
    <3>3. FrameOK(x)'
      BY <1>19, <3>2 DEF FrameOK, Chainers, Callings
    <3>4. GoodFrames(Over(x, <<>>)) /\ Has(Over(x, <<>>), x)
      BY <1>19, <3>3, GoodNone, GoodOver DEF Callings
    <3> QED BY <1>18, <2>2, <3>4 DEF GoodFrames
  <2> QED BY <2>1, <2>2
<1>21. PICK t : t = Over(d, r)
  OBVIOUS
<1>22. GoodFrames(t) /\ (f # None => Has(t, x))
  BY <1>17, <1>20, <1>21, GoodOver DEF Callings
<1>23. StackStep(Len(stack) - 1, {Top}, t)
  <2>1. <<x>> = Over(x, <<>>)
    BY <1>19, OverNone
  <2>2. stack' = Below \o <<d>> \o r
    BY <1>7, <1>18, <2>1
  <2> QED BY <1>0, <1>2, <1>17, <1>20, <1>21, <2>2, GrowOver
<1>24. CaredFor({}, {Top}, t)
  <2>1. ASSUME NEW h \in Futures, h = f PROVE CaredNew(t, h)
    <3>1. f # None
      BY <2>1 DEF Futures, None
    <3>2. PICK i \in 1 .. Len(t) : t[i] = x
      BY <1>22, <3>1 DEF Has
    <3>3. Cares(t[i], h)'
      BY <1>19, <2>1, <3>2 DEF Cares
    <3> QED BY <3>3 DEF CaredNew
  <2>2. ASSUME NEW h \in Futures, h # f PROVE CaredOnwards(h, {Top}, t)
    <3>1. ~Cares(Top, h)
      BY <1>1 DEF Cares, Callings
    <3> QED BY <1>7, <1>9, <2>2, <3>1 DEF CaredOnwards
  <2>3. \A h \in Futures : CaredOnwards(h, {Top}, t)
    BY <2>1, <2>2 DEF CaredOnwards
  <2> QED BY <2>3 DEF CaredFor
<1>25. \A fr \in {Top} : fr.kind = "answer" => ~Usable(fr.p)'
  BY <1>3, <1>8 DEF Usable
<1> QED BY <1>7, <1>10, <1>12, <1>13, <1>14, <1>16, <1>22, <1>23, <1>24, <1>25, MoveStep

(* _eina_future_cb_dispatch of a head.                                     *)
LEMMA CalledRight ==
  ASSUME Types, ChainInv, NEW x \in Futures, IsHead(x), future[x].cb \in {"user", "inner"},
         future' = Dispatched(x), ghost' = [ghost EXCEPT ![x].calls = @ + 1]
  PROVE  /\ ChainInv' /\ ChainKept /\ Heads({future[x].next})
         /\ future' \in [Futures -> FutureRecord] /\ ghost' \in [Futures -> GhostRecord]
         /\ \A g \in Futures : /\ future'[g].promise = future[g].promise /\ future'[g].entry = future[g].entry
                               /\ future'[g].next = future[g].next
                               /\ future'[g].cb = IF g = x THEN "dispatched" ELSE future[g].cb
         /\ ~Waiting(x)' /\ \A g \in Futures : g # x => (Waiting(g)' <=> Waiting(g))
         /\ IsHead(x)' /\ Called(x)'
<1>1. PICK m \in Futures \cup {None} : m = future[x].next
  BY DEF Types, FutureRecord
<1>2. ChainOK(x) /\ future[x].prev = None
  BY DEF ChainInv, IsHead
<1>3. m # None => m \in Known /\ m # x
  <2>1. m # None => m \in Known /\ ghost[m].after = x
    BY <1>1, <1>2 DEF ChainOK
  <2>2. m # None => ghost[m].after < m
    BY <2>1 DEF ChainInv, ChainOK, Futures, None
  <2> QED BY <1>1, <2>1, <2>2 DEF Futures
<1>4. ASSUME NEW g \in Futures
      PROVE  /\ future'[g] \in FutureRecord /\ future'[g].promise = future[g].promise /\ future'[g].entry = future[g].entry
             /\ future'[g].mem = future[g].mem
             /\ future'[g].cb = IF g = x THEN "dispatched" ELSE future[g].cb
             /\ future'[g].next = future[g].next
             /\ future'[g].prev = IF g = m THEN None ELSE future[g].prev
  <2>1. future[g] \in FutureRecord /\ g # None
    BY DEF Types, Futures, None
  <2>2. CASE g = x
    <3>1. future'[g] = [future[g] EXCEPT !.cb = "dispatched"]
      BY <2>2 DEF Dispatched
    <3>2. g # m
      BY <1>3, <2>1, <2>2
    <3> QED BY <2>1, <2>2, <3>1, <3>2 DEF FutureRecord
  <2>3. CASE g # x /\ g = m
    <3>1. future'[g] = [future[g] EXCEPT !.prev = None, !.next = @]
      BY <1>1, <1>2, <2>1, <2>3 DEF Dispatched
    <3> QED BY <2>1, <2>3, <3>1 DEF FutureRecord
  <2>4. CASE g # x /\ g # m
    <3>1. future'[g] = [future[g] EXCEPT !.prev = @, !.next = @]
      BY <1>1, <1>2, <2>1, <2>4 DEF Dispatched
    <3> QED BY <2>1, <2>4, <3>1 DEF FutureRecord
  <2> QED BY <2>2, <2>3, <2>4
<1>5. future' \in [Futures -> FutureRecord]
  <2>1. future' = [g \in Futures |-> future'[g]]
    BY DEF Dispatched
  <2> QED BY <1>4, <2>1
<1>6. ChainCalled(x)
  BY <1>1, <1>4 DEF ChainCalled
<1>7. ChainInv' /\ ChainKept /\ Heads({future[x].next})
  BY <1>6, CalledChain
<1>8. ghost' \in [Futures -> GhostRecord] /\ ghost'[x].calls = 1
  <2>1. ghost \in [Futures -> GhostRecord] /\ ghost[x] \in GhostRecord
    BY DEF Types
  <2>2. ~Called(x)
    BY <1>2 DEF ChainOK
  <2>3. ghost[x].calls = 0
    BY <2>1, <2>2 DEF GhostRecord, Called
  <2>4. PICK z : z = [ghost[x] EXCEPT !.calls = @ + 1]
    OBVIOUS
  <2>5. z \in GhostRecord /\ z.calls = 1
    BY <2>1, <2>3, <2>4 DEF GhostRecord
  <2>6. ghost' = [ghost EXCEPT ![x] = z]
    BY <2>1, <2>4
  <2> QED BY <2>1, <2>5, <2>6
<1>9. ~Waiting(x)' /\ \A g \in Futures : g # x => (Waiting(g)' <=> Waiting(g))
  BY <1>4 DEF Waiting, Live
<1>10. IsHead(x)' /\ Called(x)'
  BY <1>7, <1>8 DEF ChainKept, Called
<1> QED BY <1>4, <1>5, <1>7, <1>8, <1>9, <1>10

LEMMA CallRight ==
  ASSUME Inv, DispatchCall \/ CancelCall
  PROVE  Inv'
<1>0. Types /\ ChainInv /\ FramesInv
  BY DEF Inv
<1>1. PICK k \in {"dispatch", "cancel"}, o \in {"called", "cancelCalled"} :
        /\ Top.kind = k /\ future[Top.f].cb = "user" /\ CallBack(Top.f, o)
        /\ UNCHANGED <<promise, join, entries>>
  BY DEF DispatchCall, CancelCall, At
<1>2. Leaves(Below, Len(stack) - 1, {Top}) /\ FrameOK(Top)
  BY <1>0, <1>1, TopRight, LeavesBelow
<1>3. PICK x \in Futures : x = Top.f /\ IsHead(x)
  <2>1. IsHead(Top.f)
    BY <1>1, <1>2 DEF FrameOK, Chainers
  <2> QED BY <2>1 DEF IsHead, Known
<1>4. PICK c : c = Frame(o, x)
  OBVIOUS
<1>5. PICK u : u = User(x)
  OBVIOUS
<1>6. /\ future' = Dispatched(x) /\ ghost' = [ghost EXCEPT ![x].calls = @ + 1]
      /\ stack' = Below \o <<c, u>>
  BY <1>1, <1>3, <1>4, <1>5 DEF CallBack
<1>7. /\ ChainInv' /\ ChainKept /\ Heads({future[x].next})
      /\ future' \in [Futures -> FutureRecord] /\ ghost' \in [Futures -> GhostRecord]
      /\ \A g \in Futures : /\ future'[g].promise = future[g].promise /\ future'[g].entry = future[g].entry
                            /\ future'[g].next = future[g].next
                            /\ future'[g].cb = IF g = x THEN "dispatched" ELSE future[g].cb
      /\ ~Waiting(x)' /\ \A g \in Futures : g # x => (Waiting(g)' <=> Waiting(g))
      /\ IsHead(x)' /\ Called(x)'
  BY <1>0, <1>1, <1>3, <1>6, CalledRight
<1>8. Fields'
  BY <1>0, <1>1, <1>7 DEF Types, Fields
<1>9. MovedFutures
  <2>1. future[x].cb = "user"
    BY <1>1, <1>3
  <2> QED BY <1>7, <2>1 DEF MovedFutures
<1>10. MovedPromises /\ Relinked /\ SchedulersKept
  <2>1. \A f \in Futures : Waiting(f)' => Waiting(f) /\ future'[f].promise = future[f].promise
    BY <1>7
  <2> QED BY <1>0, <1>1, <2>1, Quiet, Alone
<1>11. c \in FrameRecord /\ c.kind = o /\ c.f = x /\ c.kind \in Callings
  BY <1>4, FrameRight DEF FrameKinds, Callings
<1>12. u \in FrameRecord /\ u.kind = "user" /\ FrameOK(u)'
  BY <1>5, UserRight
<1>13. FrameOK(c)'
  BY <1>7, <1>11 DEF FrameOK, Chainers, Callings
<1>14. PICK r : r = Over(u, <<>>)
  OBVIOUS
<1>15. GoodFrames(r) /\ Len(r) >= 1 /\ r[1].kind = "user"
  <2>1. GoodFrames(r)
    BY <1>12, <1>14, GoodNone, GoodOver DEF Callings
  <2>2. PICK e \in Seq(FrameRecord) : e = <<>> /\ Len(e) = 0
    <3>1. <<>> \in Seq(FrameRecord)
      BY EmptySeq
    <3>2. Len(<<>>) = 0
      BY EmptySeq
    <3> QED BY <3>1, <3>2
  <2>3. Len(Over(u, e)) = Len(e) + 1 /\ Over(u, e)[1] = u
    BY <1>12, OverRight
  <2>4. r = Over(u, e)
    BY <1>14, <2>2
  <2>5. Len(r) = 1 /\ r[1] = u
    BY <2>2, <2>3, <2>4
  <2> QED BY <1>12, <2>1, <2>5
<1>16. PICK t : t = Over(c, r)
  OBVIOUS
<1>17. GoodFrames(t) /\ Has(t, c)
  BY <1>11, <1>13, <1>15, <1>16, GoodOver
<1>18. StackStep(Len(stack) - 1, {Top}, t)
  <2>1. <<c, u>> = t
    BY <1>11, <1>12, <1>14, <1>16, OverNone
  <2>2. t \in Seq(FrameRecord) /\ stack' = Below \o t
    BY <1>6, <1>17, <2>1 DEF GoodFrames
  <2> QED BY <1>0, <1>2, <2>2, GrowBy
<1>19. CaredFor({future[x].next}, {Top}, t)
  <2>1. PICK m : m = future[x].next
    OBVIOUS
  <2>2. ASSUME NEW h \in Futures, h = m PROVE CaredNew(t, h)
    <3>1. PICK i \in 1 .. Len(t) : t[i] = c
      BY <1>17 DEF Has
    <3>2. future'[c.f].next = h
      BY <1>7, <1>11, <2>1, <2>2
    <3>3. Cares(t[i], h)'
      BY <1>11, <3>1, <3>2 DEF Cares
    <3> QED BY <3>3 DEF CaredNew
  <2>3. ASSUME NEW h \in Futures, AtHead(h)' PROVE CaredOnwards(h, {Top}, t)
    <3>1. h # x
      BY <1>7, <2>3 DEF AtHead
    <3>2. ~Cares(Top, h)
      BY <1>1, <1>3, <3>1 DEF Cares, Callings
    <3> QED BY <1>1, <1>7, <3>2 DEF CaredOnwards
  <2> QED BY <2>1, <2>2, <2>3 DEF CaredFor
<1>20. \A fr \in {Top} : fr.kind # "answer"
  BY <1>1
<1> QED BY <1>1, <1>7, <1>8, <1>9, <1>10, <1>17, <1>18, <1>19, <1>20, MoveStep

LEMMA CleanEndRight ==
  ASSUME Inv, CleanEnd
  PROVE  Inv'
<1>0. Types /\ ChainInv /\ FramesInv /\ JoinInv /\ LinkInv /\ AnswerInv
  BY DEF Inv
<1>1. /\ Top.kind = "clean" /\ join' = [join EXCEPT ![Top.p].mem = "freed"] /\ stack' = Below
      /\ UNCHANGED <<future, promise, entries, ghost>>
  BY DEF CleanEnd, At
<1>2. Leaves(Below, Len(stack) - 1, {Top}) /\ FrameOK(Top)
  BY <1>0, <1>1, TopRight, LeavesBelow
<1>3. PICK p \in Promises : p = Top.p /\ promise[p].mem # "unborn"
  BY <1>1, <1>2 DEF FrameOK
<1>4. /\ join' \in [Promises -> JoinRecord]
      /\ \A q \in Promises : /\ join'[q].kind = join[q].kind /\ join'[q].futures = join[q].futures
                             /\ join'[q].processed = join[q].processed
                             /\ q # p => join'[q] = join[q]
  <2>1. join \in [Promises -> JoinRecord] /\ join[p] \in JoinRecord
    BY <1>0 DEF Types
  <2>2. PICK z : z = [join[p] EXCEPT !.mem = "freed"]
    OBVIOUS
  <2>3. /\ z \in JoinRecord /\ z.kind = join[p].kind /\ z.futures = join[p].futures /\ z.processed = join[p].processed
    BY <2>1, <2>2 DEF JoinRecord, Memory
  <2>4. join' = [join EXCEPT ![p] = z]
    BY <1>1, <1>3, <2>1, <2>2
  <2> QED BY <2>1, <2>3, <2>4
<1>5. Fields'
  BY <1>0, <1>1, <1>4 DEF Types, Fields
<1>6. ChainSame
  BY <1>1 DEF ChainSame, SameLinks
<1>7. ChainInv' /\ ChainKept /\ Heads({})
  BY <1>0, <1>6, SameChain
<1>8. MovedFutures /\ \A g \in Futures : Waiting(g)' <=> Waiting(g)
  BY <1>6, SameMoves
<1>9. PromisesKept
  BY <1>1, <1>4 DEF PromisesKept
<1>10. JoinsSame
  BY <1>1, <1>3, <1>4, <1>8 DEF JoinsSame, MovedFutures
<1>11. JoinInv'
  BY <1>0, <1>10, JoinSame
<1>12. promise' = promise /\ future' = future /\ entries' = entries
  BY <1>1
<1>13. LinkInv'
  BY <1>0, <1>12 DEF LinkInv, Waiting, Live, IsHead, Known, Usable
<1>14. StackStep(Len(stack) - 1, {Top}, <<>>)
  BY <1>0, <1>1, <1>2, GrowNone
<1>15. Promised({}, {Top}, <<>>)
  <2>1. \A h \in Futures : ~Cares(Top, h)
    BY <1>1 DEF Cares, Callings
  <2>2. \A h \in Futures : CaredOnwards(h, {Top}, <<>>)
    BY <1>12, <2>1 DEF CaredOnwards
  <2>3. \A q \in Promises : Usable(q)' <=> Usable(q)
    BY <1>12 DEF Usable
  <2>4. \A q \in Promises : Usable(q)' /\ promise'[q].future # None => promise'[q].scheduler
    BY <1>0, <1>12, <2>3 DEF AnswerInv
  <2>5. \A q \in Promises : Answered(q)' <=> Answered(q)
    BY <1>4 DEF Answered
  <2>6. \A q \in Promises : ~Answers(Top, q)
    BY <1>1 DEF Answers
  <2> QED BY <2>2, <2>3, <2>4, <2>5, <2>6 DEF Promised
<1> QED BY <1>5, <1>7, <1>9, <1>11, <1>13, <1>14, <1>15, GoodNone, StepInv

LEMMA JoinRight ==
  ASSUME Inv, NEW p \in Promises, NEW f \in Futures, NEW g \in Futures,
         PromiseAll(p, f, g) \/ PromiseRace(p, f, g) \/ FutureAsValue(p, f)
  PROVE  Inv'
<1>1. CASE FutureAsValue(p, f)
  <2>1. PICK fs : fs = <<f>>
    OBVIOUS
  <2>2. fs \in Seq(Futures) /\ Len(fs) = 1 /\ \A i, k \in 1 .. Len(fs) : fs[i] = fs[k] => i = k
    BY <2>1
  <2>3. JoinNew("proxy", p, fs)
    BY <1>1, <2>1 DEF FutureAsValue
  <2>4. PICK kind \in {"all", "race", "proxy"} : kind = "proxy"
    OBVIOUS
  <2>5. JoinNew(kind, p, fs) /\ Len(fs) = IF kind = "proxy" THEN 1 ELSE 2
    BY <2>2, <2>3, <2>4
  <2> QED BY <2>2, <2>5, JoinNewRight
<1>2. CASE PromiseAll(p, f, g) \/ PromiseRace(p, f, g)
  <2>1. PICK fs : fs = <<f, g>>
    OBVIOUS
  <2>2. f # g
    BY <1>2 DEF PromiseAll, PromiseRace, Futures
  <2>3. fs \in Seq(Futures) /\ Len(fs) = 2 /\ \A i, k \in 1 .. Len(fs) : fs[i] = fs[k] => i = k
    <3>1. fs \in Seq(Futures) /\ Len(fs) = 2 /\ fs[1] # fs[2]
      BY <2>1, <2>2
    <3>2. \A i \in 1 .. 2 : i = 1 \/ i = 2
      OBVIOUS
    <3> QED BY <3>1, <3>2
  <2>4. PICK kind \in {"all", "race"} : JoinNew(kind, p, fs)
    <3>1. JoinNew("all", p, fs) \/ JoinNew("race", p, fs)
      BY <1>2, <2>1 DEF PromiseAll, PromiseRace
    <3> QED BY <3>1
  <2>5. kind \in {"all", "race", "proxy"} /\ Len(fs) = IF kind = "proxy" THEN 1 ELSE 2
    BY <2>3, <2>4
  <2> QED BY <2>3, <2>4, <2>5, JoinNewRight
<1> QED BY <1>1, <1>2

-----------------------------------------------------------------------------
(* The steps that call an inner future.                                    *)
LEMMA OwnerRight ==
  ASSUME Types, JoinInv, NEW g \in Futures, future[g].cb = "inner"
  PROVE  \E p \in Promises : \E i \in {1, 2} :
           /\ Owner(g) = p /\ Position(g) = i /\ At2(p, i) /\ join[p].futures[i] = g
           /\ promise[p].mem # "unborn" /\ join[p].kind \in {"all", "race", "proxy"}
<1> DEFINE P(q) == g \in ToSet(join[q].futures)
           I(q, k) == k \in DOMAIN join[q].futures /\ join[q].futures[k] = g
<1>0. ASSUME NEW q \in Promises
      PROVE  join[q] \in JoinRecord /\ DOMAIN join[q].futures = 1 .. Len(join[q].futures)
  <2>1. join[q] \in JoinRecord
    BY DEF Types
  <2>2. join[q].futures \in Seq(Futures \cup {None})
    BY <2>1 DEF JoinRecord
  <2> QED BY <2>1, <2>2, LenProperties
<1>1. PICK q \in Promises, k \in {1, 2} : At2(q, k) /\ join[q].futures[k] = g
  BY DEF JoinInv
<1>2. P(q)
  BY <1>0, <1>1 DEF At2, ToSet
<1>3. PICK p : p = Owner(g)
  OBVIOUS
<1>4. p \in Promises /\ P(p)
  BY <1>2, <1>3 DEF Owner
<1>5. \E i : I(p, i)
  BY <1>4 DEF ToSet
<1>6. PICK i : i = Position(g)
  OBVIOUS
<1>7. i \in DOMAIN join[p].futures /\ join[p].futures[i] = g
  BY <1>3, <1>5, <1>6 DEF Position
<1>8. JoinOK(p) /\ join[p].kind \in JoinKinds
  BY <1>0, <1>4 DEF JoinInv, JoinRecord
<1>9. PICK L \in Nat : L = Len(join[p].futures) /\ i \in 1 .. L
  <2>1. join[p].futures \in Seq(Futures \cup {None})
    BY <1>0, <1>4 DEF JoinRecord
  <2>2. Len(join[p].futures) \in Nat
    BY <2>1, LenProperties
  <2> QED BY <1>0, <1>4, <1>7, <2>2
<1>10. L = CASE join[p].kind = "none"  -> 0 [] join[p].kind = "proxy" -> 1 [] OTHER -> 2
  BY <1>8, <1>9 DEF JoinOK
<1>11. join[p].kind # "none"
  BY <1>9, <1>10
<1>12. L = 1 \/ L = 2
  <2>1. CASE join[p].kind = "proxy"
    BY <1>10, <1>11, <2>1
  <2>2. CASE join[p].kind # "proxy"
    BY <1>10, <1>11, <2>2
  <2> QED BY <2>1, <2>2
<1>13. i \in {1, 2}
  <2>1. i \in 1 .. L
    BY <1>9
  <2>2. CASE L = 1
    BY <2>1, <2>2
  <2>3. CASE L = 2
    BY <2>1, <2>3
  <2> QED BY <1>12, <2>2, <2>3
<1>14. At2(p, i) /\ join[p].futures[i] = g
  BY <1>7, <1>9 DEF At2, Futures, None
<1>15. promise[p].mem # "unborn"
  <2>1. join[p] = NewJoin => join[p].kind = "none"
    BY DEF NewJoin
  <2> QED BY <1>8, <1>11, <2>1 DEF JoinOK
<1>16. join[p].kind \in {"all", "race", "proxy"}
  BY <1>8, <1>11 DEF JoinKinds
<1> QED BY <1>3, <1>4, <1>6, <1>13, <1>14, <1>15, <1>16

(* It takes itself out of the context.                                     *)
Taken(p, i) ==
  /\ join' \in [Promises -> JoinRecord]
  /\ \A q \in Promises : q # p => join'[q] = join[q]
  /\ join'[p].kind = join[p].kind /\ Len(join'[p].futures) = Len(join[p].futures)
  /\ join'[p].processed = join[p].processed + 1
  /\ \A k \in 1 .. Len(join[p].futures) :
       join'[p].futures[k] = IF k = i THEN None ELSE join[p].futures[k]

LEMMA TakenRight ==
  ASSUME Types, NEW p \in Promises, NEW i, At2(p, i),
         join' = [join EXCEPT ![p].futures[i] = None, ![p].processed = @ + 1]
  PROVE  Taken(p, i)
<1>1. join \in [Promises -> JoinRecord] /\ join[p] \in JoinRecord
  BY DEF Types
<1>2. PICK s \in Seq(Futures \cup {None}) : s = join[p].futures
  BY <1>1 DEF JoinRecord
<1>3. PICK r : r = [s EXCEPT ![i] = None]
  OBVIOUS
<1>4. i \in 1 .. Len(s)
  BY <1>2 DEF At2
<1>5. /\ r \in Seq(Futures \cup {None}) /\ Len(r) = Len(s)
      /\ \A k \in 1 .. Len(s) : r[k] = IF k = i THEN None ELSE s[k]
  BY <1>3, <1>4, ExceptSeq
<1>6. PICK z : z = [join[p] EXCEPT !.futures = r, !.processed = @ + 1]
  OBVIOUS
<1>7. z \in JoinRecord /\ z.kind = join[p].kind /\ z.futures = r /\ z.processed = join[p].processed + 1
  BY <1>1, <1>5, <1>6 DEF JoinRecord
<1>8. join' = [join EXCEPT ![p] = z]
  BY <1>1, <1>2, <1>3, <1>6
<1>9. join' \in [Promises -> JoinRecord] /\ join'[p] = z /\ \A q \in Promises : q # p => join'[q] = join[q]
  BY <1>1, <1>7, <1>8
<1> QED BY <1>2, <1>5, <1>7, <1>9 DEF Taken

LEMMA TakenJoin ==
  ASSUME Types, JoinInv, promise' = promise, NEW p \in Promises, NEW i \in {1, 2}, At2(p, i), Taken(p, i),
         NEW x \in Futures, x = join[p].futures[i],
         \A g \in Futures : /\ future'[g].cb = IF g = x THEN "dispatched" ELSE future[g].cb
                            /\ g # x => (Waiting(g)' <=> Waiting(g))
  PROVE  JoinInv'
<1>1. ASSUME NEW q \in Promises, NEW k \in {1, 2}
      PROVE  At2(q, k)' <=> (At2(q, k) /\ ~(q = p /\ k = i))
  <2>1. CASE q # p
    BY <2>1 DEF At2, Taken
  <2>2. CASE q = p
    BY <2>2 DEF At2, Taken
  <2> QED BY <2>1, <2>2
<1>2. ASSUME NEW q \in Promises, NEW k \in {1, 2}, At2(q, k)'
      PROVE  /\ At2(q, k) /\ ~(q = p /\ k = i) /\ join'[q].futures[k] = join[q].futures[k]
             /\ join[q].futures[k] \in Futures /\ join[q].futures[k] # x
  <2>1. At2(q, k) /\ ~(q = p /\ k = i)
    BY <1>1, <1>2
  <2>2. join'[q].futures[k] = join[q].futures[k]
    <3>1. CASE q # p
      BY <3>1 DEF Taken
    <3>2. CASE q = p
      BY <2>1, <3>2 DEF At2, Taken
    <3> QED BY <3>1, <3>2
  <2>3. join[q].futures[k] # x
    BY <2>1 DEF JoinInv
  <2>4. Waiting(join[q].futures[k])
    BY <2>1 DEF JoinInv, JoinOK, At2
  <2> QED BY <2>1, <2>2, <2>3, <2>4 DEF Waiting, Live
<1>3. ASSUME NEW q \in Promises PROVE JoinOK(q)'
  <2>1. JoinOK(q) /\ join'[q].kind = join[q].kind /\ Len(join'[q].futures) = Len(join[q].futures)
    BY DEF JoinInv, Taken
  <2>2. promise'[q].mem = "unborn" => join'[q] = NewJoin
    <3>1. ASSUME promise[q].mem = "unborn" PROVE q # p /\ join[q] = NewJoin
      <4>1. join[q] = NewJoin
        BY <2>1, <3>1 DEF JoinOK
      <4>2. ~At2(q, i)
        BY <4>1 DEF At2, NewJoin
      <4> QED BY <4>1, <4>2
    <3>2. q # p => join'[q] = join[q]
      BY DEF Taken
    <3>3. promise'[q].mem = promise[q].mem
      OBVIOUS
    <3> QED BY <3>1, <3>2, <3>3
  <2>3. PICK L \in Nat : L = Len(join[q].futures) /\ (\A k \in 1 .. L : k \in {1, 2})
    <3>1. join[q] \in JoinRecord
      BY DEF Types
    <3>2. join[q].futures \in Seq(Futures \cup {None})
      BY <3>1 DEF JoinRecord
    <3>3. Len(join[q].futures) \in Nat
      BY <3>2, LenProperties
    <3>4. Len(join[q].futures) = CASE join[q].kind = "none"  -> 0 [] join[q].kind = "proxy" -> 1 [] OTHER -> 2
      BY <2>1 DEF JoinOK
    <3>5. Len(join[q].futures) \in {0, 1, 2}
      <4>1. CASE join[q].kind = "none"
        BY <3>4, <4>1
      <4>2. CASE join[q].kind = "proxy"
        BY <3>4, <4>2
      <4>3. CASE join[q].kind \notin {"none", "proxy"}
        BY <3>4, <4>3
      <4> QED BY <4>1, <4>2, <4>3
    <3>6. \A n \in {0, 1, 2} : \A k \in 1 .. n : k \in {1, 2}
      OBVIOUS
    <3> QED BY <3>3, <3>5, <3>6
  <2>4. ASSUME NEW k \in 1 .. Len(join'[q].futures), At2(q, k)'
        PROVE  Waiting(join[q].futures[k])' /\ future'[join'[q].futures[k]].cb = "inner"
    <3>1. k \in {1, 2} /\ k \in 1 .. Len(join[q].futures)
      BY <2>1, <2>3
    <3>2. PICK f \in Futures : f = join[q].futures[k] /\ f = join'[q].futures[k] /\ f # x /\ At2(q, k)
      BY <1>2, <2>4, <3>1
    <3>3. Waiting(f) /\ future[f].cb = "inner"
      BY <2>1, <3>1, <3>2 DEF JoinOK
    <3>4. Waiting(f)' /\ future'[f].cb = "inner"
      BY <3>2, <3>3
    <3> QED BY <3>2, <3>4
  <2>5. join'[q].processed = Missing(q, 1)' + Missing(q, 2)'
    <3>1. join[q].processed = Missing(q, 1) + Missing(q, 2)
      BY <2>1 DEF JoinOK
    <3>2. CASE q # p
      <4>1. join'[q] = join[q]
        BY <3>2 DEF Taken
      <4>2. Missing(q, 1)' = Missing(q, 1) /\ Missing(q, 2)' = Missing(q, 2)
        BY <4>1 DEF Missing
      <4> QED BY <3>1, <4>1, <4>2
    <3>3. CASE q = p
      <4>1. ASSUME NEW k \in {1, 2} PROVE Missing(p, k)' = IF k = i THEN 1 ELSE Missing(p, k)
        BY DEF Missing, Taken, At2
      <4>2. Missing(p, i) = 0
        BY DEF Missing, At2
      <4>3. join'[p].processed = join[p].processed + 1
        BY DEF Taken
      <4>4. Missing(p, 1) \in {0, 1} /\ Missing(p, 2) \in {0, 1}
        BY DEF Missing
      <4>5. CASE i = 1
        <5>1. Missing(p, 1)' = 1 /\ Missing(p, 2)' = Missing(p, 2) /\ Missing(p, 1) = 0
          BY <4>1, <4>2, <4>5
        <5> QED BY <3>1, <3>3, <4>3, <4>4, <5>1
      <4>6. CASE i = 2
        <5>1. Missing(p, 2)' = 1 /\ Missing(p, 1)' = Missing(p, 1) /\ Missing(p, 2) = 0
          BY <4>1, <4>2, <4>6
        <5> QED BY <3>1, <3>3, <4>3, <4>4, <5>1
      <4> QED BY <4>5, <4>6
    <3> QED BY <3>2, <3>3
  <2> QED BY <2>1, <2>2, <2>4, <2>5 DEF JoinOK
<1>4. ASSUME NEW q \in Promises, NEW r \in Promises, NEW j \in {1, 2}, NEW k \in {1, 2},
             At2(q, j)', At2(r, k)', join'[q].futures[j] = join'[r].futures[k]
      PROVE  q = r /\ j = k
  BY <1>2, <1>4 DEF JoinInv
<1>5. ASSUME NEW f \in Futures, future'[f].cb = "inner"
      PROVE  \E q \in Promises : \E k \in {1, 2} : At2(q, k)' /\ join'[q].futures[k] = f
  <2>1. f # x /\ future[f].cb = "inner"
    BY <1>5
  <2>2. PICK q \in Promises, k \in {1, 2} : At2(q, k) /\ join[q].futures[k] = f
    BY <2>1 DEF JoinInv
  <2>3. At2(q, k)'
    BY <1>1, <2>1, <2>2
  <2> QED BY <1>2, <2>2, <2>3
<1> QED BY <1>3, <1>4, <1>5 DEF JoinInv

(* What follows a call before it returns.                                  *)
LEMMA FollowsRight ==
  ASSUME Types, JoinInv, NEW p \in Promises, PromisesKept, promise[p].mem # "unborn",
         NEW i \in {1, 2}, At2(p, i), Taken(p, i), join[p].kind \in {"all", "race", "proxy"},
         NEW fails \in BOOLEAN, join[p].kind = "proxy" /\ fails => "failProxied" \in Liberties,
         NEW r, r = CASE join[p].kind = "all"   -> AllFollows(p)
                      [] join[p].kind = "race"  -> RaceFollows(p)
                      [] join[p].kind = "proxy" -> ProxyFollows(p, fails)
  PROVE  /\ GoodFrames(r)
         /\ "failProxied" \notin Liberties /\ Answered(p)' => Answered(p) \/ AnswersNew(r, p)
<1>0. JoinOK(p)
  BY DEF JoinInv
<1>1. PICK a : a = Answer(p)
  OBVIOUS
<1>2. PICK c : c = Clean(p)
  OBVIOUS
<1>3. Len(join[p].futures) <= MaxFutures
  BY <1>0 DEF JoinOK
<1>4. a \in FrameRecord /\ a.kind = "answer" /\ a.p = p /\ FrameOK(a)'
  BY <1>1, <1>3, AboutPromise, PromiseFrames
<1>5. c \in FrameRecord /\ c.kind = "clean" /\ FrameOK(c)'
  BY <1>2, <1>3, CleanRight, PromiseFrames
<1>6. GoodFrames(<<>>)
  BY GoodNone
<1>7. PICK a1 : a1 = Over(a, <<>>)
  OBVIOUS
<1>8. PICK c1 : c1 = Over(c, <<>>)
  OBVIOUS
<1>9. GoodFrames(a1) /\ Has(a1, a) /\ GoodFrames(c1)
  BY <1>4, <1>5, <1>6, <1>7, <1>8, GoodOver DEF Callings
<1>10. PICK ac : ac = Over(a, c1)
  OBVIOUS
<1>11. PICK ca : ca = Over(c, a1)
  OBVIOUS
<1>12. GoodFrames(ac) /\ Has(ac, a) /\ GoodFrames(ca) /\ Has(ca, a)
  BY <1>4, <1>5, <1>9, <1>10, <1>11, GoodOver DEF Callings
<1>13. <<a>> = a1 /\ <<a, c>> = ac /\ <<c, a>> = ca
  BY <1>4, <1>5, <1>7, <1>8, <1>10, <1>11, OverNone
<1>14. ASSUME NEW t, Has(t, a) PROVE AnswersNew(t, p)
  BY <1>4, <1>14 DEF Has, AnswersNew, Answers
<1>15. /\ join'[p].kind = join[p].kind /\ join'[p].processed = join[p].processed + 1
       /\ join[p].processed \in Nat
  BY DEF Taken, Types, JoinRecord
<1>16. CASE join[p].kind = "all"
  <2>1. Len(join[p].futures) = 2
    BY <1>0, <1>16 DEF JoinOK
  <2>2. r = IF join[p].processed + 1 = 2 THEN ca ELSE <<>>
    BY <1>1, <1>2, <1>13, <1>16, <2>1 DEF AllFollows
  <2>3. Answered(p)' => join[p].processed + 1 = 2
    BY <1>15, <1>16 DEF Answered
  <2> QED BY <1>6, <1>12, <1>14, <2>2, <2>3
<1>17. CASE join[p].kind = "race"
  <2>1. r = IF join[p].processed = 0 THEN ac ELSE <<>>
    BY <1>1, <1>2, <1>13, <1>17 DEF RaceFollows
  <2>2. join[p].processed # 0 => Answered(p)
    BY <1>17 DEF Answered
  <2> QED BY <1>6, <1>12, <1>14, <2>1, <2>2
<1>18. CASE join[p].kind = "proxy"
  <2>1. r = IF fails THEN <<>> ELSE a1
    BY <1>1, <1>13, <1>18 DEF ProxyFollows
  <2> QED BY <1>6, <1>9, <1>14, <1>18, <2>1
<1> QED BY <1>16, <1>17, <1>18

LEMMA InnerCallRight ==
  ASSUME Inv, NEW at \in {"dispatch", "cancel"}, NEW kind \in {"called", "cancelCalled"}, NEW fails \in BOOLEAN,
         InnerCall(at, kind, fails)
  PROVE  Inv'
<1>0. Types /\ ChainInv /\ FramesInv /\ JoinInv /\ LinkInv /\ AnswerInv
  BY DEF Inv
<1>1. Top.kind = at /\ future[Top.f].cb = "inner" /\ UNCHANGED <<promise, entries>>
  BY DEF InnerCall, At
<1>2. Leaves(Below, Len(stack) - 1, {Top}) /\ FrameOK(Top)
  BY <1>0, <1>1, TopRight, LeavesBelow
<1>3. PICK x \in Futures : x = Top.f /\ IsHead(x) /\ future[x].cb = "inner"
  <2>1. IsHead(Top.f)
    BY <1>1, <1>2 DEF FrameOK, Chainers
  <2> QED BY <1>1, <2>1 DEF IsHead, Known
<1>4. PICK p \in Promises, i \in {1, 2} :
        /\ Owner(x) = p /\ Position(x) = i /\ At2(p, i) /\ join[p].futures[i] = x
        /\ promise[p].mem # "unborn" /\ join[p].kind \in {"all", "race", "proxy"}
  BY <1>0, <1>3, OwnerRight
<1>5. PICK c : c = Frame(kind, x)
  OBVIOUS
<1>6. PICK r : r = CASE join[p].kind = "all"   -> AllFollows(p)
                     [] join[p].kind = "race"  -> RaceFollows(p)
                     [] join[p].kind = "proxy" -> ProxyFollows(p, fails)
  OBVIOUS
<1>7. /\ join[p].kind = "proxy" /\ fails => "failProxied" \in Liberties
      /\ join' = [join EXCEPT ![p].futures[i] = None, ![p].processed = @ + 1]
      /\ stack' = Below \o <<c>> \o r
      /\ future' = Dispatched(x)
      /\ ghost' = [ghost EXCEPT ![x].calls = @ + 1]
  BY <1>3, <1>4, <1>5, <1>6 DEF InnerCall
<1>8. Taken(p, i)
  BY <1>0, <1>4, <1>7, TakenRight
<1>9. /\ ChainInv' /\ ChainKept /\ Heads({future[x].next})
      /\ future' \in [Futures -> FutureRecord] /\ ghost' \in [Futures -> GhostRecord]
      /\ \A g \in Futures : /\ future'[g].promise = future[g].promise /\ future'[g].entry = future[g].entry
                            /\ future'[g].next = future[g].next
                            /\ future'[g].cb = IF g = x THEN "dispatched" ELSE future[g].cb
      /\ ~Waiting(x)' /\ \A g \in Futures : g # x => (Waiting(g)' <=> Waiting(g))
      /\ IsHead(x)' /\ Called(x)'
  BY <1>0, <1>3, <1>7, CalledRight
<1>10. Fields'
  <2>1. join' \in [Promises -> JoinRecord]
    BY <1>8 DEF Taken
  <2> QED BY <1>0, <1>1, <1>9, <2>1 DEF Types, Fields
<1>11. PromisesKept
  <2>1. \A q \in Promises : Len(join'[q].futures) = Len(join[q].futures)
    BY <1>8 DEF Taken
  <2> QED BY <1>1, <2>1 DEF PromisesKept
<1>12. JoinInv'
  BY <1>0, <1>1, <1>4, <1>8, <1>9, TakenJoin
<1>13. LinkInv'
  <2>1. \A r1 \in Promises : Usable(r1)' <=> Usable(r1)
    BY <1>1 DEF Usable
  <2>2. \A i1 \in 1 .. Len(entries') : entries'[i1] \in ToSet(entries)
    BY <1>0, <1>1, EntriesStill
  <2>3. entries' \in Seq(Futures)
    BY <1>0, <1>1 DEF Types
  <2>4. ASSUME NEW f \in Futures, NEW q \in Promises, Waiting(f)', future'[f].promise = q
        PROVE  /\ Waiting(f) /\ future[f].promise = q
               /\ Usable(q) /\ promise[q].future = f => Usable(q)' /\ promise'[q].future = f
    BY <1>1, <1>9, <2>1, <2>4
  <2>5. \A q \in Promises : promise'[q].future = promise[q].future
    BY <1>1
  <2> QED BY <1>0, <1>9, <2>2, <2>3, <2>4, <2>5, LinkStep
<1>14. /\ GoodFrames(r)
       /\ "failProxied" \notin Liberties /\ Answered(p)' => Answered(p) \/ AnswersNew(r, p)
  BY <1>0, <1>4, <1>6, <1>7, <1>8, <1>11, FollowsRight
<1>15. c \in FrameRecord /\ c.kind = kind /\ c.f = x /\ c.kind \in Callings
  BY <1>5, FrameRight DEF FrameKinds, Callings
<1>16. FrameOK(c)'
  BY <1>9, <1>15 DEF FrameOK, Chainers, Callings
<1>17. future[x].next = None /\ future'[c.f].next = None
  <2>1. future[x].next = None
    BY <1>0, <1>3 DEF ChainInv, ChainOK
  <2> QED BY <1>9, <1>15, <2>1
<1>18. PICK t : t = Over(c, r)
  OBVIOUS
<1>19. GoodFrames(t) /\ \A fr : Has(r, fr) => Has(t, fr)
  BY <1>14, <1>15, <1>16, <1>17, <1>18, GoodOver
<1>20. StackStep(Len(stack) - 1, {Top}, t)
  <2>1. r \in Seq(FrameRecord)
    BY <1>14 DEF GoodFrames
  <2> QED BY <1>0, <1>2, <1>7, <1>15, <1>18, <2>1, GrowOver
<1>21. \A q \in Promises : AnswersNew(r, q) => AnswersNew(t, q)
  <2>1. ASSUME NEW q \in Promises, AnswersNew(r, q) PROVE AnswersNew(t, q)
    <3>1. PICK k \in 1 .. Len(r) : Answers(r[k], q)
      BY <2>1 DEF AnswersNew
    <3>2. PICK fr : fr = r[k]
      OBVIOUS
    <3>3. Has(r, fr)
      BY <3>1, <3>2 DEF Has
    <3>4. PICK j \in 1 .. Len(t) : t[j] = fr
      BY <1>19, <3>3 DEF Has
    <3> QED BY <3>1, <3>2, <3>4 DEF AnswersNew
  <2> QED BY <2>1
<1>22. Promised({None}, {Top}, t)
  <2>1. \A h \in Futures : h # None
    BY DEF Futures, None
  <2>2. ASSUME NEW h \in Futures, AtHead(h)' PROVE CaredOnwards(h, {Top}, t)
    <3>1. h # x
      BY <1>9, <2>2 DEF AtHead
    <3>2. ~Cares(Top, h)
      BY <1>1, <1>3, <3>1 DEF Cares, Callings
    <3> QED BY <1>1, <1>9, <3>2 DEF CaredOnwards
  <2>3. \A q \in Promises : Usable(q)' <=> Usable(q)
    BY <1>1 DEF Usable
  <2>4. \A q \in Promises : Usable(q)' /\ promise'[q].future # None => promise'[q].scheduler
    BY <1>0, <1>1, <2>3 DEF AnswerInv
  <2>5. \A q \in Promises : ~Answers(Top, q)
    BY <1>1 DEF Answers
  <2>6. \A q \in Promises : q # p => (Answered(q)' <=> Answered(q))
    BY <1>8 DEF Taken, Answered
  <2> QED BY <1>14, <1>21, <2>1, <2>2, <2>3, <2>4, <2>5, <2>6 DEF Promised
<1>23. Heads({None})
  BY <1>9, <1>17
<1> QED BY <1>9, <1>10, <1>11, <1>12, <1>13, <1>19, <1>20, <1>22, <1>23, StepInv

-----------------------------------------------------------------------------
(* The invariant, and what it says.                                        *)
LEMMA InitInv ==
  ASSUME Init
  PROVE  Inv
<1>0. /\ \A f \in Futures : future[f] = NewFuture /\ ghost[f] = [calls |-> 0, after |-> None]
      /\ \A p \in Promises : promise[p] = NewPromise /\ join[p] = NewJoin
      /\ entries = <<>> /\ stack = <<User(None)>>
  BY DEF Init
<1>1. PICK u : u = User(None)
  OBVIOUS
<1>2. u \in FrameRecord /\ u.kind = "user"
  BY <1>1, UserRight
<1>3. /\ NewFuture \in FutureRecord /\ NewFuture.mem = "unborn" /\ NewFuture.cb = "none" /\ NewFuture.next = None
      /\ NewFuture.prev = None /\ NewFuture.promise = None /\ ~NewFuture.entry
  BY DEF NewFuture, FutureRecord
<1>4. /\ NewPromise \in PromiseRecord /\ NewPromise.mem = "unborn" /\ NewPromise.future = None
  BY DEF NewPromise, PromiseRecord, Memory
<1>5. /\ NewJoin \in JoinRecord /\ NewJoin.kind = "none" /\ NewJoin.futures = <<>> /\ NewJoin.processed = 0
  <2>1. <<>> \in Seq(Futures \cup {None})
    OBVIOUS
  <2> QED BY <2>1 DEF NewJoin, JoinRecord, JoinKinds, Memory
<1>6. PICK gh : gh = [calls |-> 0, after |-> None]
  OBVIOUS
<1>7. gh \in GhostRecord /\ gh.calls = 0 /\ gh.after = None
  BY <1>6 DEF GhostRecord
<1>8. stack \in Seq(FrameRecord) /\ Len(stack) = 1 /\ stack[1] = u
  BY <1>0, <1>1, <1>2
<1>9. Types
  <2>1. future \in [Futures -> FutureRecord] /\ promise \in [Promises -> PromiseRecord]
        /\ join \in [Promises -> JoinRecord] /\ ghost \in [Futures -> GhostRecord]
    BY <1>3, <1>4, <1>5, <1>6, <1>7 DEF Init
  <2>2. entries \in Seq(Futures)
    BY <1>0
  <2> QED BY <1>2, <1>8, <2>1, <2>2 DEF Types
<1>10. Known = {} /\ \A f \in Futures : ~Called(f) /\ ~Waiting(f)
  BY <1>0, <1>3, <1>6, <1>7 DEF Known, Called, Waiting, Live
<1>11. ChainInv
  <2>1. Born = 0 /\ Born \in Nat
    <3>1. {f \in Futures : future[f].mem # "unborn"} = {}
      BY <1>10 DEF Known
    <3> QED BY <3>1, FS_EmptySet DEF Born
  <2>2. Known = 1 .. Born
    BY <1>10, <2>1
  <2>3. ASSUME NEW f \in Futures PROVE ChainOK(f)
    <3>1. future[f] = NewFuture /\ ghost[f] = gh
      BY <1>0, <1>6
    <3> QED BY <1>3, <1>6, <1>7, <1>10, <3>1 DEF ChainOK
  <2> QED BY <2>1, <2>2, <2>3 DEF ChainInv
<1>12. FramesInv
  <2>1. \A i \in 1 .. Len(stack) : stack[i] = u
    BY <1>8
  <2> QED BY <1>2, <2>1 DEF FramesInv, FrameOK, Chainers, Callings
<1>13. JoinInv
  <2>1. ASSUME NEW p \in Promises PROVE JoinOK(p) /\ \A i : ~At2(p, i)
    <3>1. Len(join[p].futures) = 0 /\ join[p].kind = "none" /\ join[p].processed = 0 /\ join[p] = NewJoin
      BY <1>0, <1>5
    <3>2. 0 <= MaxFutures
      BY BoundsAssumption
    <3>3. \A i : ~At2(p, i) /\ Missing(p, i) = 0
      BY <3>1 DEF At2, Missing
    <3> QED BY <3>1, <3>2, <3>3 DEF JoinOK
  <2>2. \A f \in Futures : future[f].cb # "inner"
    BY <1>0, <1>3
  <2> QED BY <2>1, <2>2 DEF JoinInv
<1>14. LinkInv
  BY <1>0, <1>4, <1>10 DEF LinkInv
<1>15. CareInv
  BY <1>10 DEF CareInv
<1>16. AnswerInv
  BY <1>0, <1>4 DEF AnswerInv, Usable
<1> QED BY <1>9, <1>11, <1>12, <1>13, <1>14, <1>15, <1>16 DEF Inv

LEMMA NextInv ==
  ASSUME Inv, [Next]_vars
  PROVE  Inv'
<1>1. CASE UNCHANGED vars
  <2>1. Types /\ stack' = stack /\ promise' = promise /\ UNCHANGED <<future, join, entries, ghost>>
    BY <1>1 DEF vars, Inv
  <2>2. StackStep(Len(stack), {}, <<>>) /\ GoodFrames(<<>>)
    BY <2>1, StackStill
  <2>3. promise' \in [Promises -> PromiseRecord] /\ MovedPromises /\ PromisesAlone
    BY <2>1, PromisesStill
  <2> QED BY <2>1, <2>2, <2>3, OnlyStack
<1>2. CASE UserStep
  <2>1. ASSUME NEW p \in Promises, PromiseNew(p) \/ ContinueNew(p) \/ Resolve(p) \/ ResolveUnlinked(p) PROVE Inv'
    BY <2>1, PromiseNewRight, ResolveRight, ResolveUnlinkedRight
  <2>2. ASSUME NEW p \in Promises, NEW q \in Promises, ResolveByPromise(p, q) \/ ResolveUnlinkedByPromise(p, q)
        PROVE  Inv'
    BY <2>2, ResolveByPromiseRight, ResolveUnlinkedByPromiseRight
  <2>3. ASSUME NEW p \in Promises, NEW f \in Futures, FutureNew(p, f) PROVE Inv'
    BY <2>3, FutureNewRight
  <2>4. ASSUME NEW f \in Futures, NEW g \in Futures, Then(f, g) PROVE Inv'
    BY <2>4, ThenRight
  <2>5. ASSUME NEW f \in Futures, Cancel(f) PROVE Inv'
    BY <2>5, CancelRight
  <2>6. ASSUME NEW p \in Promises, NEW f \in Futures, NEW g \in Futures, PromiseAll(p, f, g) \/ PromiseRace(p, f, g)
        PROVE  Inv'
    BY <2>6, JoinRight
  <2>7. ASSUME NEW p \in Promises, NEW f \in Futures, FutureAsValue(p, f) PROVE Inv'
    BY <2>7, JoinRight
  <2> QED BY <1>2, <2>1, <2>2, <2>3, <2>4, <2>5, <2>6, <2>7 DEF UserStep
<1>3. CASE LoopRun
  BY <1>3, LoopRunRight
<1>4. CASE Step
  <2>1. CASE DispatchSkip \/ CancelSkip
    BY <2>1, SkipRight DEF DispatchSkip, CancelSkip
  <2>2. CASE InnerDispatch
    <3>1. PICK fails \in BOOLEAN : InnerCall("dispatch", "called", fails)
      BY <2>2 DEF InnerDispatch
    <3> QED BY <3>1, InnerCallRight
  <2>3. CASE InnerCancel
    <3>1. PICK fails \in BOOLEAN : InnerCall("cancel", "cancelCalled", fails)
      BY <2>3 DEF InnerCancel
    <3> QED BY <3>1, InnerCallRight
  <2>4. CASE LoopEnd \/ LoopNext \/ DispatchCall \/ CancelCall \/ CancelFree \/ DyingResolved
    BY <2>4, LoopEndRight, LoopNextRight, CallRight, CancelFreeRight, DyingRight
  <2>5. CASE InnerReturn \/ AnswerNow \/ CleanNext \/ CleanEnd
    BY <2>5, InnerReturnRight, AnswerNowRight, CleanNextRight, CleanEndRight
  <2> QED BY <1>4, <2>1, <2>2, <2>3, <2>4, <2>5 DEF Step
<1>5. CASE Return
  BY <1>5, ReturnValueRight, DyingRight, ReturnPromiseRight, ReturnCancelledPromiseRight DEF Return
<1> QED BY <1>1, <1>2, <1>3, <1>4, <1>5 DEF Next

LEMMA InvAlways == SafetySpec => []Inv
<1>1. Init => Inv
  BY InitInv
<1>2. Inv /\ [Next]_vars => Inv'
  BY NextInv
<1> QED BY <1>1, <1>2, PTL DEF SafetySpec

LEMMA InvTypes ==
  ASSUME Inv
  PROVE  TypeOK
<1>1. Types /\ JoinInv
  BY DEF Inv
<1>2. MaxFutures \in Nat
  BY BoundsAssumption
<1>3. join \in [Promises -> [kind : JoinKinds, mem : Memory \ {"dying"},
                            futures : Seq(Futures \cup {None}), processed : 0 .. MaxFutures]]
  <2>1. ASSUME NEW p \in Promises PROVE join[p].processed \in 0 .. MaxFutures
    <3>1. JoinOK(p) /\ join[p] \in JoinRecord
      BY <1>1 DEF JoinInv, Types
    <3>2. PICK L \in Nat : L = Len(join[p].futures)
      BY <3>1 DEF JoinRecord
    <3>3. L \in {0, 1, 2} /\ L <= MaxFutures
      BY <3>1, <3>2 DEF JoinOK
    <3>4. /\ Missing(p, 1) \in {0, 1} /\ Missing(p, 2) \in {0, 1}
          /\ L = 0 => Missing(p, 1) = 0
          /\ L \in {0, 1} => Missing(p, 2) = 0
      BY <3>2, <3>3 DEF Missing
    <3>5. join[p].processed = Missing(p, 1) + Missing(p, 2)
      BY <3>1 DEF JoinOK
    <3> QED BY <1>2, <3>3, <3>4, <3>5
  <2>2. join \in [Promises -> JoinRecord]
    BY <1>1 DEF Types
  <2> QED BY <2>1, <2>2 DEF JoinRecord
<1>4. ghost \in [Futures -> [calls : 0 .. 1, after : Futures \cup {None}]]
  <2>1. 0 .. 1 = {0, 1}
    OBVIOUS
  <2> QED BY <1>1, <2>1 DEF Types, GhostRecord
<1>5. future \in [Futures -> [mem : Memory \ {"dying"}, cb : {"none", "user", "inner", "dispatched"},
                              next : Futures \cup {None}, prev : Futures \cup {None},
                              promise : Promises \cup {None}, entry : BOOLEAN]]
  <2>1. Memory \ {"dying"} = {"unborn", "live", "freed"}
    BY DEF Memory
  <2> QED BY <1>1, <2>1 DEF Types, FutureRecord
<1>6. stack # <<>>
  <2>1. Len(stack) >= 1
    BY <1>1 DEF Types
  <2>2. Len(<<>>) = 0
    BY EmptySeq
  <2> QED BY <2>1, <2>2
<1> QED BY <1>1, <1>3, <1>4, <1>5, <1>6 DEF Types, TypeOK, PromiseRecord, FrameRecord

(* The variables keep their types: in particular an entry of the           *)
(* scheduler, an activation and a link always name a future that exists.   *)
THEOREM TypesKept == SafetySpec => []TypeOK
<1>1. Inv => TypeOK
  BY InvTypes
<1> QED BY InvAlways, <1>1, PTL

(* However callbacks, the loop and cancellations are nested, a future is   *)
(* called at most once, and one with a callback was called when it is      *)
(* freed (_eina_future_dispatch, _eina_future_cancel).                     *)
THEOREM OneCall == SafetySpec => []CalledOnce
<1>1. ASSUME Inv PROVE CalledOnce
  <2> SUFFICES ASSUME NEW f \in Futures
               PROVE  /\ ghost[f].calls <= 1
                      /\ future[f].mem = "freed" /\ ghost[f].after # None => ghost[f].calls = 1
    BY DEF CalledOnce
  <2>1. ghost[f] \in GhostRecord /\ ChainOK(f)
    BY <1>1 DEF Inv, Types, ChainInv
  <2>2. ghost[f].calls \in {0, 1}
    BY <2>1 DEF GhostRecord
  <2>3. ghost[f].calls <= 1
    BY <2>2
  <2>4. future[f].mem = "freed" /\ ghost[f].after # None => Called(f)
    BY <2>1 DEF ChainOK
  <2> QED BY <2>3, <2>4 DEF Called
<1> QED BY InvAlways, <1>1, PTL

(* A future is called after the one it was chained to, also when the chain *)
(* is cancelled from its end or from inside one of its callbacks.          *)
THEOREM CalledInChainOrder == SafetySpec => []ChainOrder
<1>1. ASSUME Inv PROVE ChainOrder
  <2> SUFFICES ASSUME NEW f \in Futures, ghost[f].calls > 0, ghost[f].after # None
               PROVE  Called(ghost[f].after) \/ ghost[ghost[f].after].after = None
    BY DEF ChainOrder, Called
  <2>1. ghost[f] \in GhostRecord /\ ChainOK(f)
    BY <1>1 DEF Inv, Types, ChainInv
  <2>2. Called(f)
    <3>1. ghost[f].calls \in {0, 1}
      BY <2>1 DEF GhostRecord
    <3> QED BY <3>1 DEF Called
  <2>3. future[f].prev = None /\ Behind(f, ghost[f].after) /\ ghost[f].after # None
    BY <2>1, <2>2 DEF ChainOK
  <2> QED BY <2>3 DEF Behind
<1> QED BY InvAlways, <1>1, PTL

(* No chain is forgotten: whatever happened around it, the head of a       *)
(* future that was not called yet waits for a promise that knows it, has   *)
(* an entry in the scheduler or in a list the loop took over, or some      *)
(* activation will go on with it.                                          *)
THEOREM NobodyForgotten == SafetySpec => []NoOrphan
<1>1. ASSUME Inv PROVE NoOrphan
  <2> SUFFICES ASSUME NEW f \in Futures, Waiting(f)
               PROVE  LET h == HeadOf(f)
                          p == future[h].promise
                      IN \/ p # None /\ Usable(p) /\ promise[p].future = h
                         \/ future[h].entry /\ (h \in ToSet(entries) \/ Detached(h))
                         \/ Busy(h)
                         \/ \E i \in DOMAIN stack : stack[i].kind = "dispatch" /\ stack[i].f = h
    BY DEF NoOrphan
  <2>1. PICK h \in Futures : h = HeadOf(f) /\ AtHead(h)
    BY <1>1, HeadAt DEF Inv
  <2>2. Cared(h)
    BY <1>1, <2>1 DEF Inv, CareInv, AtHead
  <2>3. CASE future[h].promise # None
    <3>1. Usable(future[h].promise) /\ promise[future[h].promise].future = h
      BY <1>1, <2>1, <2>3 DEF Inv, LinkInv, AtHead
    <3> QED BY <2>1, <2>3, <3>1
  <2>4. CASE future[h].entry /\ h \in ToSet(entries)
    BY <2>1, <2>4
  <2>5. CASE \E i \in 1 .. Len(stack) : Cares(stack[i], h)
    <3>1. PICK i \in 1 .. Len(stack) : Cares(stack[i], h)
      BY <2>5
    <3>2. i \in DOMAIN stack
      BY <1>1, <3>1 DEF Inv, Types
    <3>3. CASE stack[i].kind \in Callings \cup {"cancelFree"} /\ future[stack[i].f].next = h
      <4>1. Busy(h)
        BY <3>2, <3>3 DEF Busy, Callings
      <4> QED BY <2>1, <4>1
    <3>4. CASE stack[i].kind = "dispatch" /\ stack[i].f = h
      BY <2>1, <3>2, <3>4
    <3>5. CASE stack[i].kind = "cancel" /\ stack[i].f = h
      <4>1. Busy(h)
        BY <3>2, <3>5 DEF Busy
      <4> QED BY <2>1, <4>1
    <3>6. CASE stack[i].kind = "loop" /\ future[h].entry /\ h \in ToSet(stack[i].todo)
      <4>1. Detached(h)
        BY <3>2, <3>6 DEF Detached
      <4> QED BY <2>1, <3>6, <4>1
    <3> QED BY <3>1, <3>3, <3>4, <3>5, <3>6 DEF Cares
  <2> QED BY <2>2, <2>3, <2>4, <2>5 DEF Cared
<1> QED BY InvAlways, <1>1, PTL

(* A promise that a future waits for can answer, and will, as long as no   *)
(* future that was made a value fails (_future_proxy then leaves its       *)
(* promise without an answer): it has a scheduler, and one of the library  *)
(* has an inner future that is yet to be called, or some activation is     *)
(* about to answer.                                                        *)
THEOREM AnswersCome ==
  ASSUME "failProxied" \notin Liberties
  PROVE  SafetySpec => []Answerable
<1>1. ASSUME Inv PROVE Answerable
  <2> SUFFICES ASSUME NEW p \in Promises, Usable(p), promise[p].future # None
               PROVE  /\ promise[p].scheduler
                      /\ \/ join[p].kind = "none"
                         \/ Inners(p) # {}
                         \/ \E i \in DOMAIN stack : stack[i].kind = "answer" /\ stack[i].p = p
    BY DEF Answerable
  <2>1. promise[p].scheduler /\ (Answered(p) => \E i \in 1 .. Len(stack) : stack[i].kind = "answer" /\ stack[i].p = p)
    BY <1>1 DEF Inv, AnswerInv
  <2>2. DOMAIN stack = 1 .. Len(stack)
    BY <1>1 DEF Inv, Types
  <2>3. ASSUME join[p].kind # "none", ~Answered(p) PROVE Inners(p) # {}
    <3>1. JoinOK(p) /\ join[p] \in JoinRecord
      BY <1>1 DEF Inv, JoinInv, Types
    <3>2. PICK L \in Nat : L = Len(join[p].futures) /\ DOMAIN join[p].futures = 1 .. L
      BY <3>1 DEF JoinRecord
    <3>3. L = IF join[p].kind = "proxy" THEN 1 ELSE 2
      BY <2>3, <3>1, <3>2 DEF JoinOK, JoinRecord, JoinKinds
    <3>4. join[p].processed # 2 /\ (L = 1 => join[p].processed = 0)
      BY <2>3, <3>1, <3>3 DEF Answered, JoinRecord, JoinKinds
    <3>5. join[p].processed = Missing(p, 1) + Missing(p, 2)
      BY <3>1 DEF JoinOK
    <3>6. PICK i \in 1 .. L : join[p].futures[i] # None
      <4>1. CASE L = 1
        <5>1. 1 \in 1 .. L /\ Missing(p, 1) # 1
          <6>1. Missing(p, 2) \in {0, 1} /\ Missing(p, 1) \in {0, 1}
            BY DEF Missing
          <6> QED BY <3>4, <3>5, <4>1, <6>1
        <5> QED BY <3>2, <5>1 DEF Missing
      <4>2. CASE L = 2
        <5>1. 1 \in 1 .. L /\ 2 \in 1 .. L /\ (Missing(p, 1) # 1 \/ Missing(p, 2) # 1)
          BY <3>4, <3>5, <4>2
        <5> QED BY <3>2, <5>1 DEF Missing
      <4> QED BY <3>3, <4>1, <4>2
    <3>7. join[p].futures[i] \in Inners(p)
      BY <3>2, <3>6 DEF Inners, ToSet
    <3> QED BY <3>7
  <2> QED BY <2>1, <2>2, <2>3
<1> QED BY InvAlways, <1>1, PTL

-----------------------------------------------------------------------------
(* What the library asserts.                                               *)

(* An entry of the scheduler is for a future that was made and is a head;  *)
(* a head stays one.                                                       *)
EntriesOfHeads == \A f \in Futures : future[f].entry => IsHead(f)

Announced(g) == /\ IsHead(g) => IsHead(g)'
                /\ future'[g].entry => future[g].entry \/ IsHead(g)

LEMMA PiecesRight ==
  ASSUME Types, NEW g \in Futures, NEW x, NEW p
  PROVE  /\ Freed(x)[g].entry = future[g].entry /\ Freed(x)[g].mem \in {future[g].mem, "freed"}
         /\ Freed(x)[g].prev \in {future[g].prev, None}
         /\ Dispatched(x)[g].entry = future[g].entry /\ Dispatched(x)[g].mem = future[g].mem
         /\ Dispatched(x)[g].prev \in {future[g].prev, None}
         /\ Unlinked(p)[g].entry = future[g].entry /\ Unlinked(p)[g].mem = future[g].mem
         /\ Unlinked(p)[g].prev = future[g].prev
<1>0. future[g] \in FutureRecord
  BY DEF Types
<1>1. Freed(x)[g].entry = future[g].entry /\ Freed(x)[g].mem \in {future[g].mem, "freed"}
      /\ Freed(x)[g].prev \in {future[g].prev, None}
  BY <1>0 DEF Freed, FutureRecord
<1>2. /\ Dispatched(x)[g].entry = future[g].entry /\ Dispatched(x)[g].mem = future[g].mem
      /\ Dispatched(x)[g].prev \in {future[g].prev, None}
  BY <1>0 DEF Dispatched, FutureRecord
<1>3. /\ Unlinked(p)[g].entry = future[g].entry /\ Unlinked(p)[g].mem = future[g].mem
      /\ Unlinked(p)[g].prev = future[g].prev
  BY <1>0 DEF Unlinked, FutureRecord
<1> QED BY <1>1, <1>2, <1>3

LEMMA AnnouncedSame ==
  ASSUME NEW g \in Futures, future'[g].mem = future[g].mem \/ future'[g].mem = "freed",
         future'[g].prev \in {future[g].prev, None},
         future'[g].entry => future[g].entry \/ IsHead(g)
  PROVE  Announced(g)
  BY DEF Announced, IsHead, Known

LEMMA JoinAnnounces ==
  ASSUME Inv, NEW p \in Promises, NEW kind, NEW fs \in Seq(Futures), JoinNew(kind, p, fs), NEW g \in Futures
  PROVE  Announced(g)
<1>a. g \in Int
  BY BoundsAssumption DEF Futures
<1>b. Types
  BY DEF Inv
<1>0. Types /\ future[g] \in FutureRecord /\ g \in Int
  BY <1>a, <1>b DEF Types
<1>B. PICK B \in Nat : B = Born /\ Known = 1 .. B
  BY DEF Inv, ChainInv
<1>L. PICK L \in Nat : DOMAIN fs = 1 .. L
  BY LenProperties
<1>1. future'[g] = CASE g \in ToSet(fs)    -> [future[g] EXCEPT !.next = NextOf(B, fs, g)]
                     [] g - B \in DOMAIN fs -> [NewFuture EXCEPT !.mem = "live", !.cb = "inner", !.prev = fs[g - B]]
                     [] OTHER              -> future[g]
  BY <1>B DEF JoinNew, Place, NextOf
<1>2. g \in ToSet(fs) => g \in Known
  BY DEF JoinNew, Given, Waiting, Live, Known
<1>3. g - B \in DOMAIN fs => g \notin Known
  BY <1>0, <1>B, <1>L
<1>4. CASE g \in ToSet(fs)
  <2> DEFINE n == NextOf(B, fs, g)
  <2>1. future'[g] = [future[g] EXCEPT !.next = n]
    BY <1>1, <1>2, <1>3, <1>4
  <2> HIDE DEF n
  <2>2. future'[g].mem = future[g].mem /\ future'[g].prev = future[g].prev /\ future'[g].entry = future[g].entry
    BY <1>0, <2>1 DEF FutureRecord
  <2> QED BY <2>2, AnnouncedSame
<1>5. CASE g - B \in DOMAIN fs
  <2> DEFINE b == fs[g - B]
  <2>1. future'[g] = [NewFuture EXCEPT !.mem = "live", !.cb = "inner", !.prev = b]
    BY <1>1, <1>2, <1>3, <1>5
  <2> HIDE DEF b
  <2>2. ~future'[g].entry
    BY <2>1 DEF NewFuture
  <2> QED BY <1>3, <1>5, <2>2 DEF Announced, IsHead
<1>6. CASE g \notin ToSet(fs) /\ g - B \notin DOMAIN fs
  <2>1. future'[g] = future[g]
    BY <1>1, <1>6
  <2> QED BY <2>1, AnnouncedSame
<1> QED BY <1>4, <1>5, <1>6

LEMMA FuturesAnnounced ==
  ASSUME Inv, [Next]_vars, NEW g \in Futures
  PROVE  Announced(g)
<1>0. Types /\ future[g] \in FutureRecord /\ LinkInv
  BY DEF Inv, Types
<1>1. CASE future' = future
  BY <1>1, AnnouncedSame
<1>2. ASSUME NEW x, future' = Freed(x) PROVE Announced(g)
  <2>1. \A p : Freed(x)[g].entry = future[g].entry /\ Freed(x)[g].mem \in {future[g].mem, "freed"}
               /\ Freed(x)[g].prev \in {future[g].prev, None}
    BY <1>0, PiecesRight
  <2> QED BY <1>2, <2>1, AnnouncedSame
<1>3. ASSUME NEW x, future' = Dispatched(x) PROVE Announced(g)
  <2>1. \A p : Dispatched(x)[g].entry = future[g].entry /\ Dispatched(x)[g].mem = future[g].mem
               /\ Dispatched(x)[g].prev \in {future[g].prev, None}
    BY <1>0, PiecesRight
  <2> QED BY <1>3, <2>1, AnnouncedSame
<1>4. ASSUME NEW p, future' = Unlinked(p) PROVE Announced(g)
  <2>1. \A x : Unlinked(p)[g].entry = future[g].entry /\ Unlinked(p)[g].mem = future[g].mem
               /\ Unlinked(p)[g].prev = future[g].prev
    BY <1>0, PiecesRight
  <2> QED BY <1>4, <2>1, AnnouncedSame
<1>5. ASSUME NEW p, NEW h, future' = [Unlinked(p) EXCEPT ![h].entry = FALSE] PROVE Announced(g)
  <2>1. PICK u : u = Unlinked(p)
    OBVIOUS
  <2>2. /\ u[g].entry = future[g].entry /\ u[g].mem = future[g].mem /\ u[g].prev = future[g].prev
        /\ u[g] \in FutureRecord
    <3>1. \A x : Unlinked(p)[g].entry = future[g].entry /\ Unlinked(p)[g].mem = future[g].mem
                 /\ Unlinked(p)[g].prev = future[g].prev
      BY <1>0, PiecesRight
    <3>2. Unlinked(p)[g] \in FutureRecord
      BY <1>0 DEF Unlinked, FutureRecord
    <3> QED BY <2>1, <3>1, <3>2
  <2>3. future'[g] = u[g] \/ future'[g] = [u[g] EXCEPT !.entry = FALSE]
    <3>1. g \in DOMAIN u
      BY <2>1 DEF Unlinked
    <3> QED BY <1>5, <2>1, <3>1
  <2>4. future'[g].mem = future[g].mem /\ future'[g].prev = future[g].prev /\ (future'[g].entry => future[g].entry)
    BY <2>2, <2>3 DEF FutureRecord
  <2> QED BY <2>4, AnnouncedSame
<1>6. CASE UNCHANGED vars
  BY <1>1, <1>6 DEF vars
<1>7. CASE UserStep
  <2>1. ASSUME NEW p \in Promises, PromiseNew(p) \/ ContinueNew(p) \/ ResolveUnlinked(p) PROVE Announced(g)
    BY <1>1, <2>1 DEF PromiseNew, ContinueNew, ResolveUnlinked
  <2>2. ASSUME NEW p \in Promises, Resolve(p) PROVE Announced(g)
    <3>1. PICK f : f = promise[p].future
      OBVIOUS
    <3>2. IsHead(f) /\ future' = [future EXCEPT ![f].promise = None, ![f].entry = TRUE]
      BY <1>0, <2>2, <3>1 DEF Resolve, LinkInv
    <3>3. future'[g] = IF g = f THEN [future[g] EXCEPT !.promise = None, !.entry = TRUE] ELSE future[g]
      BY <1>0, <3>2 DEF Types
    <3>4. future'[g].mem = future[g].mem /\ future'[g].prev = future[g].prev
          /\ (future'[g].entry => future[g].entry \/ g = f)
      BY <1>0, <3>3 DEF FutureRecord
    <3> QED BY <3>2, <3>4, AnnouncedSame
  <2>3. ASSUME NEW p \in Promises, NEW q \in Promises, ResolveByPromise(p, q) PROVE Announced(g)
    <3>1. PICK f : f = promise[p].future
      OBVIOUS
    <3>2. future' = [future EXCEPT ![f].promise = q]
      BY <2>3, <3>1 DEF ResolveByPromise
    <3>3. future'[g] = future[g] \/ future'[g] = [future[g] EXCEPT !.promise = q]
      BY <1>0, <3>2 DEF Types
    <3>4. future'[g].mem = future[g].mem /\ future'[g].prev = future[g].prev /\ future'[g].entry = future[g].entry
      BY <1>0, <3>3 DEF FutureRecord
    <3> QED BY <3>4, AnnouncedSame
  <2>4. ASSUME NEW p \in Promises, NEW q \in Promises, ResolveUnlinkedByPromise(p, q) PROVE Announced(g)
    BY <1>1, <2>4 DEF ResolveUnlinkedByPromise
  <2>5. ASSUME NEW p \in Promises, NEW f \in Futures, FutureNew(p, f) PROVE Announced(g)
    <3>1. /\ future' = [future EXCEPT ![f] = [NewFuture EXCEPT !.mem = "live", !.promise = p]]
          /\ future[f].mem = "unborn"
      BY <2>5 DEF FutureNew, Fresh
    <3>2. CASE g = f
      <4>1. ~future'[g].entry /\ ~IsHead(g)
        BY <1>0, <3>1, <3>2 DEF Types, NewFuture, IsHead, Known
      <4> QED BY <4>1 DEF Announced
    <3>3. CASE g # f
      <4>1. future'[g] = future[g]
        BY <1>0, <3>1, <3>3 DEF Types
      <4> QED BY <4>1, AnnouncedSame
    <3> QED BY <3>2, <3>3
  <2>6. ASSUME NEW f \in Futures, NEW h \in Futures, Then(f, h) PROVE Announced(g)
    <3>1. /\ future' = [future EXCEPT ![f].next = h,
                                      ![h] = [NewFuture EXCEPT !.mem = "live", !.cb = "user", !.prev = f]]
          /\ future[h].mem = "unborn" /\ f # h
      BY <2>6 DEF Then, Fresh, Given, Waiting, Live
    <3>2. CASE g = h
      <4>1. ~future'[g].entry /\ ~IsHead(g)
        BY <1>0, <3>1, <3>2 DEF Types, NewFuture, IsHead, Known
      <4> QED BY <4>1 DEF Announced
    <3>3. CASE g # h
      <4>1. future'[g] = future[g] \/ future'[g] = [future[g] EXCEPT !.next = h]
        BY <1>0, <3>1, <3>3 DEF Types
      <4>2. future'[g].mem = future[g].mem /\ future'[g].prev = future[g].prev /\ future'[g].entry = future[g].entry
        BY <1>0, <4>1 DEF FutureRecord
      <4> QED BY <4>2, AnnouncedSame
    <3> QED BY <3>2, <3>3
  <2>7. ASSUME NEW f \in Futures, Cancel(f) PROVE Announced(g)
    BY <1>5, <2>7 DEF Cancel, CancelChain
  <2>8. ASSUME NEW p \in Promises, NEW f \in Futures, NEW h \in Futures,
               PromiseAll(p, f, h) \/ PromiseRace(p, f, h) \/ FutureAsValue(p, f)
        PROVE  Announced(g)
    <3>1. \E kind : JoinNew(kind, p, <<f, h>>) \/ JoinNew(kind, p, <<f>>)
      BY <2>8 DEF PromiseAll, PromiseRace, FutureAsValue
    <3>2. <<f, h>> \in Seq(Futures) /\ <<f>> \in Seq(Futures)
      OBVIOUS
    <3> QED BY <3>1, <3>2, JoinAnnounces
  <2> QED BY <1>7, <2>1, <2>2, <2>3, <2>4, <2>5, <2>6, <2>7, <2>8 DEF UserStep
<1>8. CASE LoopRun
  BY <1>1, <1>8 DEF LoopRun
<1>9. CASE Step
  <2>1. CASE LoopEnd \/ DyingResolved \/ CleanEnd
    BY <1>1, <2>1 DEF LoopEnd, DyingResolved, CleanEnd
  <2>2. CASE LoopNext
    <3>1. PICK f : future' = [future EXCEPT ![f].entry = FALSE]
      BY <2>2 DEF LoopNext
    <3>2. future'[g] = future[g] \/ future'[g] = [future[g] EXCEPT !.entry = FALSE]
      BY <1>0, <3>1 DEF Types
    <3>3. future'[g].mem = future[g].mem /\ future'[g].prev = future[g].prev /\ (future'[g].entry => future[g].entry)
      BY <1>0, <3>2 DEF FutureRecord
    <3> QED BY <3>3, AnnouncedSame
  <2>3. CASE DispatchSkip \/ CancelSkip
    BY <1>1, <1>2, <2>3 DEF DispatchSkip, CancelSkip, Skip
  <2>4. CASE DispatchCall \/ CancelCall
    BY <1>3, <2>4 DEF DispatchCall, CancelCall, CallBack
  <2>5. CASE CancelFree \/ InnerReturn
    BY <1>2, <2>5 DEF CancelFree, InnerReturn
  <2>6. CASE InnerDispatch \/ InnerCancel
    BY <1>3, <2>6 DEF InnerDispatch, InnerCancel, InnerCall
  <2>7. CASE AnswerNow
    BY <1>4, <2>7 DEF AnswerNow
  <2>8. CASE CleanNext
    BY <1>1, <1>5, <2>8 DEF CleanNext, CancelChain
  <2> QED BY <1>9, <2>1, <2>2, <2>3, <2>4, <2>5, <2>6, <2>7, <2>8 DEF Step
<1>10. CASE Return
  <2>1. CASE ReturnValue \/ ReturnCancelled
    BY <1>2, <2>1 DEF ReturnValue, ReturnCancelled
  <2>2. CASE ReturnDying
    BY <1>1, <2>2 DEF ReturnDying
  <2>3. ASSUME NEW q \in Promises, ReturnCancelledPromise(q) PROVE Announced(g)
    BY <1>1, <2>3 DEF ReturnCancelledPromise
  <2>4. ASSUME NEW q \in Promises, ReturnPromise(q) PROVE Announced(g)
    <3>1. PICK f, n : f = Under.f /\ n = future[f].next
      OBVIOUS
    <3>2. \/ future' = Freed(f)
          \/ future' = [k \in Futures |-> IF k = n THEN [Freed(f)[k] EXCEPT !.promise = q] ELSE Freed(f)[k]]
      BY <2>4, <3>1 DEF ReturnPromise
    <3>3. CASE future' = Freed(f)
      BY <1>2, <3>3
    <3>4. CASE future' = [k \in Futures |-> IF k = n THEN [Freed(f)[k] EXCEPT !.promise = q] ELSE Freed(f)[k]]
      <4>1. PICK r : r = Freed(f)[g]
        OBVIOUS
      <4>2. \A p : r.entry = future[g].entry /\ r.mem \in {future[g].mem, "freed"} /\ r.prev \in {future[g].prev, None}
        BY <1>0, <4>1, PiecesRight
      <4>3. future'[g] = r \/ future'[g] = [r EXCEPT !.promise = q]
        BY <3>4, <4>1
      <4>4. r \in FutureRecord
        BY <1>0, <4>1 DEF Freed, FutureRecord, None
      <4>5. future'[g].mem = r.mem /\ future'[g].prev = r.prev /\ future'[g].entry = r.entry
        BY <4>3, <4>4 DEF FutureRecord
      <4> QED BY <4>2, <4>5, AnnouncedSame
    <3> QED BY <3>2, <3>3, <3>4
  <2> QED BY <1>10, <2>1, <2>2, <2>3, <2>4 DEF Return
<1> QED BY <1>6, <1>7, <1>8, <1>9, <1>10 DEF Next

(* What _eina_future_cancel asserts while it looks for the head of a chain *)
(* (eina_promise.c:453-454): a future behind another one that was not      *)
(* called waits for no promise and has no entry in the scheduler.          *)
IntermediatesBare ==
  \A f \in Futures : Waiting(f) /\ future[f].prev # None => future[f].promise = None /\ ~future[f].entry

(* The assertions of _eina_future_cancel hold, from wherever in a chain it *)
(* is cancelled: only its head has a promise or an entry.                  *)
THEOREM CancelAssertions == SafetySpec => []IntermediatesBare
<1>1. Init => EntriesOfHeads
  BY DEF Init, NewFuture, EntriesOfHeads
<1>2. Inv /\ EntriesOfHeads /\ [Next]_vars => EntriesOfHeads'
  <2> SUFFICES ASSUME Inv, EntriesOfHeads, [Next]_vars, NEW f \in Futures, future'[f].entry PROVE IsHead(f)'
    BY DEF EntriesOfHeads
  <2>1. Announced(f)
    BY FuturesAnnounced
  <2> QED BY <2>1 DEF Announced, EntriesOfHeads
<1>3. ASSUME Inv, EntriesOfHeads PROVE IntermediatesBare
  <2> SUFFICES ASSUME NEW f \in Futures, Waiting(f), future[f].prev # None
               PROVE  future[f].promise = None /\ ~future[f].entry
    BY DEF IntermediatesBare
  <2>1. ~future[f].entry
    BY <1>3 DEF EntriesOfHeads, IsHead
  <2>2. ASSUME future[f].promise # None PROVE FALSE
    <3>1. PICK p \in Promises : p = future[f].promise
      BY <1>3, <2>2 DEF Inv, Types, FutureRecord
    <3>2. promise[p].future = f
      BY <1>3, <2>2, <3>1 DEF Inv, LinkInv
    <3>3. IsHead(f)
      BY <1>3, <3>1, <3>2 DEF Inv, LinkInv, Futures, None
    <3> QED BY <3>3 DEF IsHead
  <2> QED BY <2>1, <2>2
<1> QED BY InvAlways, <1>1, <1>2, <1>3, PTL DEF SafetySpec

(* An inner future is at one place of the context of one promise, which is *)
(* what _race_then_cb and _all_then_cb assert of the future they are       *)
(* called for (eina_promise.c:1226, 1265).                                 *)
OwnersKnown ==
  \A f \in Futures : future[f].cb = "inner" =>
    \E p \in Promises : \E i \in DOMAIN join[p].futures :
      /\ join[p].futures[i] = f
      /\ \A q \in Promises : \A k \in DOMAIN join[q].futures : join[q].futures[k] = f => q = p /\ k = i

(* The callback of an inner future always finds its future in a context,   *)
(* and in no other.                                                        *)
THEOREM InnerFound == SafetySpec => []OwnersKnown
<1>1. ASSUME Inv PROVE OwnersKnown
  <2> SUFFICES ASSUME NEW f \in Futures, future[f].cb = "inner"
               PROVE  \E p \in Promises : \E i \in DOMAIN join[p].futures :
                        /\ join[p].futures[i] = f
                        /\ \A q \in Promises : \A k \in DOMAIN join[q].futures : join[q].futures[k] = f => q = p /\ k = i
    BY DEF OwnersKnown
  <2>1. PICK p \in Promises, i \in {1, 2} : At2(p, i) /\ join[p].futures[i] = f
    BY <1>1 DEF Inv, JoinInv
  <2>2. ASSUME NEW q \in Promises PROVE DOMAIN join[q].futures = 1 .. Len(join[q].futures) /\ Len(join[q].futures) \in {0, 1, 2}
    <3>1. JoinOK(q) /\ join[q] \in JoinRecord
      BY <1>1 DEF Inv, JoinInv, Types
    <3>2. DOMAIN join[q].futures = 1 .. Len(join[q].futures)
      BY <3>1 DEF JoinRecord
    <3> QED BY <3>1, <3>2 DEF JoinOK
  <2>3. i \in DOMAIN join[p].futures
    BY <2>1, <2>2 DEF At2
  <2>4. ASSUME NEW q \in Promises, NEW k \in DOMAIN join[q].futures, join[q].futures[k] = f PROVE q = p /\ k = i
    <3>1. PICK L \in {0, 1, 2} : L = Len(join[q].futures) /\ DOMAIN join[q].futures = 1 .. L
      BY <2>2
    <3>2. k \in {1, 2} /\ k \in 1 .. L
      BY <2>4, <3>1
    <3>3. At2(q, k)
      BY <2>4, <3>1, <3>2 DEF At2, Futures, None
    <3> QED BY <1>1, <2>1, <2>4, <3>2, <3>3 DEF Inv, JoinInv
  <2> QED BY <2>1, <2>3, <2>4
<1> QED BY InvAlways, <1>1, PTL
=============================================================================
