---------------------------- MODULE TimersProofs ----------------------------
(***************************************************************************)
(* Proofs about Timers for every number of timers, calls and loops inside  *)
(* each other, and every precision: the lists of a loop stay whole and     *)
(* sorted, the walk never stands on a timer that is gone and calls none    *)
(* twice, and the loop sleeps past a timer by no more than the precision   *)
(* and the time that user code kept it from updating loop_time.            *)
(***************************************************************************)
EXTENDS Timers, ListLemmas

(* A tick callback does not remove the last tick callback of its timer.    *)
Unmuted == "muteSelf" \notin Liberties
(* A timer that missed its first turn is not given its callback after it.  *)
MutedInTime == "unmuteLate" \notin Liberties
-----------------------------------------------------------------------------
(* Types. *)

TimerData ==
  [status : {"none", "alive", "invalid", "freed"}, at : Int, in : Nat, pending : Int,
   frozen : BOOLEAN, freezes : Nat, just_added : BOOLEAN, listening : {0, 1},
   delete_me : BOOLEAN]

LoopData ==
  [timers : Seq(Timer), suspended : Seq(Timer), current : Timer \cup {None},
   timers_added : BOOLEAN, tm : [Timer -> TimerData]]

WalkFrame ==
  [phase : {"turned", "walked", "asleep", "calling"}, timer : Timer \cup {None},
   when : Nat, heard : BOOLEAN, done : SUBSET Timer]

Types ==
  /\ run \in Seq(WalkFrame) /\ run # <<>>
  /\ now \in Nat /\ loop_time \in Nat
  /\ 1 <= loop_time /\ loop_time <= now

-----------------------------------------------------------------------------
(* The data of a loop, as every function leaves it.                        *)

Listed(L) == Range(L.timers) \cup Range(L.suspended)

(* A list holds a live timer once, and the lists share none.               *)
Linked(L) ==
  /\ IsInjective(L.timers) /\ IsInjective(L.suspended)
  /\ Range(L.timers) \cap Range(L.suspended) = {}
  /\ \A t \in Listed(L) : Live(L, t)

(* Which list a timer belongs in, by its data.                             *)
Runs(m) == ~m.frozen /\ m.listening = 1

(* The lists hold the timers of S, each where it belongs.                  *)
Whole(L, S) ==
  /\ Listed(L) = S
  /\ \A t \in Range(L.timers) : Runs(L.tm[t])
  /\ \A t \in Range(L.suspended) : ~Runs(L.tm[t])
  /\ Sorted(L)

LiveIn(L) == {t \in Timer : Live(L, t)}

(* A timer that runs has a time to expire at; one that is frozen has one   *)
(* once it is thawed at the time n; one that is to be added is not frozen. *)
Timed(m, n) ==
  /\ m.status = "alive" => IF m.frozen THEN m.at >= 0 /\ m.pending + n >= 1 ELSE m.at >= 1
  /\ m.status = "none" => ~m.frozen
AllTimed(L, n) == \A t \in Timer : Timed(L.tm[t], n)

There(L, t) == L.tm[t].status \in {"alive", "invalid"}

(* timer_current names a timer that is not gone.                           *)
CurrentThere(L) == L.current # None => There(L, L.current)

(* While it is live it is in the list of running timers.                   *)
CurrentRuns(L) == L.current # None /\ Live(L, L.current) => L.current \in Range(L.timers)

(* Somebody is told of every running timer that is not enabled.            *)
Told(L) == ~L.timers_added => \A t \in Range(L.timers) : ~L.tm[t].just_added

-----------------------------------------------------------------------------
(* The invariant.  The walk is over when timer_current names nothing that  *)
(* is in a list.                                                           *)
WalkOver(L) == L.current # None => ~Live(L, L.current)

(* timer_current has not been deleted.                                     *)
Fresh(L) == L.current # None => Live(L, L.current)

Passed(m) == m.status = "alive" /\ ~m.frozen => m.just_added

Stack ==
  \A k \in DOMAIN run :
    /\ run[k].phase = "calling" => run[k].timer # None
    /\ run[k].phase # "calling" => run[k].timer = None /\ k = Len(run)
    /\ run[k].timer # None => There(ld, run[k].timer)

Good(L, n) == L \in LoopData /\ Linked(L) /\ AllTimed(L, n) /\ CurrentThere(L)

Right(L) == Whole(L, LiveIn(L)) /\ CurrentRuns(L)

(* How far loop_time may be behind the clock in a loop that is awake.      *)
Prompt == Top.phase # "asleep" => now - loop_time <= MaxBusy

Base == Types /\ Good(ld, now) /\ Stack /\ Prompt

Sane ==
  /\ Right(ld)
  /\ \A k \in DOMAIN run :
       /\ run[k].timer # None /\ Live(ld, run[k].timer) => ld.tm[run[k].timer].listening = 1
       /\ run[k].timer \notin run[k].done
  /\ Top.phase \in {"walked", "asleep"} => WalkOver(ld)
  /\ Top.phase = "calling" /\ ~WalkOver(ld) => \A t \in Top.done : Passed(ld.tm[t])

Awake ==
  /\ Told(ld)
  /\ NoOversleep

TimersInv == Base /\ (Unmuted => Sane) /\ (Unmuted /\ MutedInTime => Awake)

-----------------------------------------------------------------------------
(* Sequences without repetition.                                           *)
(* The elements of r are elements of s, in the order they have there.      *)
Within(r, s) ==
  \A i, j \in DOMAIN r : i < j =>
    \E k, l \in DOMAIN s : k < l /\ s[k] = r[i] /\ s[l] = r[j]

RemovedFrom(r, s, e) ==
  /\ Range(r) = Range(s) \ {e}
  /\ IsInjective(r)
  /\ Within(r, s)

LEMMA RemoveRight ==
  ASSUME NEW S, NEW s \in Seq(S), IsInjective(s), NEW e
  PROVE  RemoveFirst(s, e) \in Seq(S) /\ RemovedFrom(RemoveFirst(s, e), s, e)
<1> DEFINE I == {i \in 1 .. Len(s) : s[i] = e}
<1>1. DOMAIN s = 1 .. Len(s) /\ Len(s) \in Nat
  OBVIOUS
<1>2. CASE I = {}
  <2>1. RemoveFirst(s, e) = s
    BY <1>2 DEF RemoveFirst
  <2>2. e \notin Range(s)
    BY <1>1, <1>2 DEF Range
  <2>3. Within(s, s)
    BY DEF Within
  <2> QED BY <2>1, <2>2, <2>3 DEF RemovedFrom
<1>3. CASE I # {}
  <2>1. PICK m \in 1 .. Len(s) : m \in I /\ \A y \in I : m <= y
    <3>1. I \in SUBSET Nat
      OBVIOUS
    <3>2. PICK m \in I : \A y \in I : m <= y
      <4> HIDE DEF I
      <4> QED BY <1>3, <3>1, Least
    <3> QED BY <3>2
  <2>2. s[m] = e
    BY <2>1
  <2>3. Min(I) = m
    <3>1. \A x \in I : (\A y \in I : x <= y) => x = m
      BY <2>1
    <3> HIDE DEF I
    <3> QED BY <2>1, <3>1 DEF Min
  <2>4. RemoveFirst(s, e) = SubSeq(s, 1, m - 1) \o SubSeq(s, m + 1, Len(s))
    BY <1>3, <2>3 DEF RemoveFirst, RemoveAt, SelectInSeq
  <2> DEFINE a == SubSeq(s, 1, m - 1)
             b == SubSeq(s, m + 1, Len(s))
  <2>5. /\ a \in Seq(S) /\ Len(a) = m - 1 /\ \A i \in 1 .. m - 1 : a[i] = s[i]
        /\ b \in Seq(S) /\ Len(b) = Len(s) - m /\ \A i \in 1 .. Len(s) - m : b[i] = s[m + i]
    <3>1. m - 1 \in 0 .. Len(s) /\ m \in 0 .. Len(s)
      BY <1>1
    <3> QED BY <3>1, Piece
  <2> HIDE DEF a, b
  <2> DEFINE r == a \o b
  <2>6. /\ r \in Seq(S) /\ Len(r) = Len(s) - 1 /\ DOMAIN r = 1 .. Len(s) - 1
        /\ \A i \in 1 .. Len(s) - 1 : r[i] = s[IF i < m THEN i ELSE i + 1]
    <3>1. r \in Seq(S) /\ Len(r) = Len(a) + Len(b)
          /\ \A i \in 1 .. Len(a) + Len(b) : r[i] = IF i <= Len(a) THEN a[i] ELSE b[i - Len(a)]
      BY <2>5, ConcatProperties
    <3> HIDE DEF r
    <3>2. Len(a) + Len(b) = Len(s) - 1 /\ Len(a) = m - 1
      BY <1>1, <2>5
    <3>4. r \in Seq(S) /\ Len(r) = Len(s) - 1
          /\ \A i \in 1 .. Len(s) - 1 : r[i] = IF i <= m - 1 THEN a[i] ELSE b[i - (m - 1)]
      BY <3>1, <3>2
    <3> HIDE DEF I
    <3>3. ASSUME NEW i \in 1 .. Len(s) - 1 PROVE r[i] = s[IF i < m THEN i ELSE i + 1]
      <4>1. CASE i < m
        BY <1>1, <2>5, <3>4, <4>1
      <4>2. CASE ~(i < m)
        <5>1. i - (m - 1) \in 1 .. Len(s) - m /\ m + (i - (m - 1)) = i + 1 /\ ~(i <= m - 1)
          BY <1>1, <4>2
        <5>2. r[i] = b[i - (m - 1)] /\ b[i - (m - 1)] = s[i + 1]
          BY <2>5, <3>4, <5>1
        <5> QED BY <4>2, <5>2
      <4> QED BY <4>1, <4>2
    <3>5. DOMAIN r = 1 .. Len(s) - 1
      BY <3>4
    <3> QED BY <3>3, <3>4, <3>5, Zenon
  <2>7. RemoveFirst(s, e) = r
    BY <2>4 DEF a, b
  <2> HIDE DEF r, I
  <2>8. Range(r) = Range(s) \ {e}
    <3>1. ASSUME NEW i \in DOMAIN r PROVE r[i] \in Range(s) \ {e}
      <4>1. \E j \in DOMAIN s : j # m /\ r[i] = s[j]
        BY <1>1, <2>6
      <4> QED BY <1>1, <2>2, <4>1 DEF Range, IsInjective
    <3>2. ASSUME NEW j \in DOMAIN s, s[j] # e PROVE \E i \in DOMAIN r : r[i] = s[j]
      <4>1. j # m
        BY <2>2, <3>2
      <4>2. CASE j < m
        BY <1>1, <2>6, <4>2
      <4>3. CASE j > m
        <5>1. j - 1 \in DOMAIN r /\ ~(j - 1 < m) /\ (j - 1) + 1 = j
          BY <1>1, <2>6, <4>3
        <5> QED BY <2>6, <5>1
      <4> QED BY <1>1, <4>1, <4>2, <4>3
    <3> QED BY <3>1, <3>2 DEF Range
  <2>9. IsInjective(r)
    <3> SUFFICES ASSUME NEW i \in DOMAIN r, NEW j \in DOMAIN r, r[i] = r[j] PROVE i = j
      BY DEF IsInjective
    <3> DEFINE k == IF i < m THEN i ELSE i + 1
               l == IF j < m THEN j ELSE j + 1
    <3>1. k \in DOMAIN s /\ l \in DOMAIN s /\ s[k] = s[l]
      BY <1>1, <2>6
    <3>2. k = l
      BY <3>1 DEF IsInjective
    <3> QED BY <2>6, <3>2
  <2>10. Within(r, s)
    <3> SUFFICES ASSUME NEW i \in DOMAIN r, NEW j \in DOMAIN r, i < j
                 PROVE  \E k, l \in DOMAIN s : k < l /\ s[k] = r[i] /\ s[l] = r[j]
      BY DEF Within
    <3> DEFINE k == IF i < m THEN i ELSE i + 1
               l == IF j < m THEN j ELSE j + 1
    <3>1. k \in DOMAIN s /\ l \in DOMAIN s /\ k < l
      BY <1>1, <2>6
    <3>2. r[i] = s[k] /\ r[j] = s[l]
      BY <2>6
    <3> QED BY <3>1, <3>2
  <2> QED BY <2>6, <2>7, <2>8, <2>9, <2>10 DEF RemovedFrom
<1> QED BY <1>2, <1>3

LEMMA PushRight ==
  ASSUME NEW S, NEW s \in Seq(S), IsInjective(s), NEW t \in S, t \notin Range(s)
  PROVE  /\ <<t>> \o s \in Seq(S) /\ IsInjective(<<t>> \o s)
         /\ Range(<<t>> \o s) = Range(s) \cup {t}
<1> DEFINE r == <<t>> \o s
<1>1. <<t>> \in Seq(S) /\ Len(<<t>>) = 1 /\ <<t>>[1] = t
  OBVIOUS
<1>2. r \in Seq(S) /\ Len(r) = 1 + Len(s)
      /\ \A i \in 1 .. 1 + Len(s) : r[i] = IF i <= 1 THEN <<t>>[i] ELSE s[i - 1]
  BY <1>1, ConcatProperties
<1> HIDE DEF r
<1>3. DOMAIN s = 1 .. Len(s) /\ Len(s) \in Nat /\ DOMAIN r = 1 .. 1 + Len(s)
  BY <1>2
<1>4. r[1] = t /\ 1 \in DOMAIN r
  BY <1>1, <1>2, <1>3
<1>5. ASSUME NEW i \in DOMAIN r, i # 1 PROVE i - 1 \in DOMAIN s /\ r[i] = s[i - 1]
  BY <1>2, <1>3, <1>5
<1>6. ASSUME NEW j \in DOMAIN s PROVE j + 1 \in DOMAIN r /\ r[j + 1] = s[j]
  <2>1. j + 1 \in DOMAIN r /\ j + 1 # 1 /\ (j + 1) - 1 = j
    BY <1>3
  <2> QED BY <1>5, <2>1
<1>7. Range(r) = Range(s) \cup {t}
  <2>1. \A i \in DOMAIN r : r[i] \in Range(s) \cup {t}
    BY <1>4, <1>5 DEF Range
  <2>2. \A x \in Range(s) \cup {t} : \E i \in DOMAIN r : r[i] = x
    BY <1>4, <1>6 DEF Range
  <2> QED BY <2>1, <2>2 DEF Range
<1>8. IsInjective(r)
  <2> SUFFICES ASSUME NEW i \in DOMAIN r, NEW j \in DOMAIN r, r[i] = r[j] PROVE i = j
    BY DEF IsInjective
  <2>1. \A x \in DOMAIN s : s[x] # t
    BY DEF Range
  <2>2. i = 1 <=> j = 1
    BY <1>4, <1>5, <2>1
  <2>3. CASE i # 1
    <3>1. i - 1 = j - 1
      BY <1>5, <2>2, <2>3 DEF IsInjective
    <3> QED BY <1>3, <3>1
  <2> QED BY <2>2, <2>3
<1> QED BY <1>2, <1>7, <1>8 DEF r

InOrder(tm, s) == \A i, j \in DOMAIN s : i < j => tm[s[i]].at <= tm[s[j]].at

LEMMA InsertRight ==
  ASSUME NEW L, L.timers \in Seq(Timer), IsInjective(L.timers),
         NEW t \in Timer, t \notin Range(L.timers), \A u \in Timer : L.tm[u].at \in Int
  PROVE  /\ Insert(L, t) \in Seq(Timer)
         /\ Range(Insert(L, t)) = Range(L.timers) \cup {t}
         /\ IsInjective(Insert(L, t))
         /\ InOrder(L.tm, L.timers) => InOrder(L.tm, Insert(L, t))
<1> DEFINE s == L.timers
           earlier == {i \in DOMAIN s : L.tm[s[i]].at < L.tm[t].at}
           k == IF earlier = {} THEN 0 ELSE CHOOSE i \in earlier : \A j \in earlier : j <= i
           a == SubSeq(s, 1, k)
           b == SubSeq(s, k + 1, Len(s))
           r == a \o <<t>> \o b
<1>1. DOMAIN s = 1 .. Len(s) /\ Len(s) \in Nat /\ s \in Seq(Timer) /\ IsInjective(s) /\ t \notin Range(s)
  OBVIOUS
<1>2. k \in 0 .. Len(s) /\ (\A i \in earlier : i <= k) /\ (k # 0 => k \in earlier)
  <2>1. CASE earlier = {}
    BY <1>1, <2>1
  <2>2. CASE earlier # {}
    <3>1. earlier \in SUBSET (1 .. Len(s))
      BY <1>1
    <3>2. \E x \in earlier : \A y \in earlier : y <= x
      <4> HIDE DEF earlier
      <4> QED BY <1>1, <2>2, <3>1, Greatest
    <3>3. k \in earlier /\ \A i \in earlier : i <= k
      <4> HIDE DEF earlier
      <4> QED BY <2>2, <3>2
    <3>4. k \in 1 .. Len(s)
      BY <3>1, <3>3
    <3> HIDE DEF k, earlier
    <3> QED BY <3>3, <3>4
  <2> QED BY <2>1, <2>2
<1>3. Insert(L, t) = r
  BY DEF Insert, Tm
<1>4. \A i \in DOMAIN s : L.tm[s[i]].at < L.tm[t].at <=> i \in earlier
  OBVIOUS
<1>5. earlier \subseteq DOMAIN s
  OBVIOUS
<1> HIDE DEF k, earlier
<1> DEFINE n == k + 1
<1>6. n \in 1 .. Len(s) + 1 /\ r = InsertAt(s, n, t)
  <2>1. (k + 1) - 1 = k
    BY <1>2
  <2> QED BY <1>1, <1>2, <2>1 DEF InsertAt
<1> HIDE DEF s, r, a, b
<1>7. /\ r \in Seq(Timer) /\ Len(r) = Len(s) + 1 /\ DOMAIN r = 1 .. Len(s) + 1
      /\ \A i \in 1 .. Len(s) + 1 :
           r[i] = IF i <= k THEN s[i] ELSE IF i = k + 1 THEN t ELSE s[i - 1]
  <2> HIDE DEF n
  <2>1. /\ r \in Seq(Timer) /\ Len(r) = Len(s) + 1
        /\ \A i \in 1 .. Len(s) + 1 : r[i] = IF i < n THEN s[i] ELSE IF i = n THEN t ELSE s[i - 1]
    <3> DEFINE q == InsertAt(s, n, t)
    <3>1. /\ q \in Seq(Timer) /\ Len(q) = Len(s) + 1
          /\ \A i \in 1 .. Len(s) + 1 : q[i] = IF i < n THEN s[i] ELSE IF i = n THEN t ELSE s[i - 1]
      <4>1. s \in Seq(Timer) /\ n \in 1 .. Len(s) + 1 /\ t \in Timer
        BY <1>1, <1>6
      <4> QED BY <4>1, InsertAtRight
    <3> HIDE DEF q
    <3> QED BY <1>6, <3>1 DEF q
  <2>2. ASSUME NEW i \in 1 .. Len(s) + 1 PROVE (i < n <=> i <= k) /\ n = k + 1
    BY <1>1, <1>2 DEF n
  <2> QED BY <2>1, <2>2
<1>8. Range(r) = Range(s) \cup {t}
  <2>1. ASSUME NEW i \in DOMAIN r PROVE r[i] \in Range(s) \cup {t}
    <3>1. CASE i <= k
      BY <1>1, <1>2, <1>7, <3>1 DEF Range
    <3>2. CASE i = k + 1
      BY <1>2, <1>7, <3>2
    <3>3. CASE i > k + 1
      <4>1. i - 1 \in DOMAIN s /\ r[i] = s[i - 1]
        BY <1>1, <1>2, <1>7, <3>3
      <4> QED BY <4>1 DEF Range
    <3> QED BY <1>2, <1>7, <3>1, <3>2, <3>3
  <2>2. ASSUME NEW j \in DOMAIN s PROVE \E i \in DOMAIN r : r[i] = s[j]
    <3>1. CASE j <= k
      BY <1>1, <1>2, <1>7, <3>1
    <3>2. CASE j > k
      <4>1. j + 1 \in DOMAIN r /\ (j + 1) - 1 = j /\ ~(j + 1 <= k) /\ j + 1 # k + 1
        BY <1>1, <1>2, <1>7, <3>2
      <4> QED BY <1>7, <4>1
    <3> QED BY <1>1, <1>2, <3>1, <3>2
  <2>3. k + 1 \in DOMAIN r /\ r[k + 1] = t
    BY <1>1, <1>2, <1>7
  <2> QED BY <2>1, <2>2, <2>3 DEF Range
<1>9. ASSUME NEW i \in DOMAIN r
      PROVE  \/ i <= k /\ i \in DOMAIN s /\ r[i] = s[i]
             \/ i = k + 1 /\ r[i] = t
             \/ i > k + 1 /\ i - 1 \in DOMAIN s /\ r[i] = s[i - 1]
  BY <1>1, <1>2, <1>7
<1>10. IsInjective(r)
  <2> SUFFICES ASSUME NEW i \in DOMAIN r, NEW j \in DOMAIN r, r[i] = r[j] PROVE i = j
    BY DEF IsInjective
  <2>1. \A x, y \in DOMAIN s : s[x] = s[y] => x = y
    BY <1>1 DEF IsInjective
  <2>2. \A x \in DOMAIN s : s[x] # t
    BY <1>1 DEF Range
  <2>3. i \in Int /\ j \in Int /\ k \in Int
    BY <1>1, <1>2, <1>7
  <2> QED BY <1>9, <2>1, <2>2, <2>3
<1>11. ASSUME InOrder(L.tm, s) PROVE InOrder(L.tm, r)
  <2> DEFINE at(x) == L.tm[x].at
  <2>1. \A x, y \in DOMAIN s : x < y => at(s[x]) <= at(s[y])
    BY <1>11 DEF InOrder
  <2>2. \A x \in DOMAIN s : x > k => at(t) <= at(s[x])
    <3> SUFFICES ASSUME NEW x \in DOMAIN s, x > k PROVE at(t) <= at(s[x])
      OBVIOUS
    <3>1. x \notin earlier /\ s[x] \in Timer
      BY <1>1, <1>2
    <3>2. at(t) \in Int /\ at(s[x]) \in Int
      BY <3>1
    <3> QED BY <1>4, <3>1, <3>2
  <2>3. \A x \in DOMAIN s : x <= k => at(s[x]) <= at(t)
    <3> SUFFICES ASSUME NEW x \in DOMAIN s, x <= k PROVE at(s[x]) <= at(t)
      OBVIOUS
    <3>1. k \in earlier /\ k \in DOMAIN s /\ s[k] \in Timer /\ s[x] \in Timer
      BY <1>1, <1>2, <1>5
    <3>2. at(t) \in Int /\ at(s[x]) \in Int /\ at(s[k]) \in Int
      BY <3>1
    <3>3. at(s[k]) < at(t)
      BY <1>4, <3>1
    <3>4. x = k \/ x < k
      BY <1>1, <1>2
    <3>5. at(s[x]) <= at(s[k])
      BY <2>1, <3>1, <3>2, <3>4
    <3> QED BY <3>2, <3>3, <3>5
  <2> HIDE DEF at
  <2>4. ASSUME NEW i \in DOMAIN r, NEW j \in DOMAIN r, i < j PROVE at(r[i]) <= at(r[j])
    <3>1. i \in Int /\ j \in Int /\ k \in Int
      BY <1>1, <1>2, <1>7
    <3>2. CASE i <= k /\ r[i] = s[i] /\ i \in DOMAIN s
      <4>1. CASE j <= k /\ j \in DOMAIN s /\ r[j] = s[j]
        BY <2>1, <2>4, <3>2, <4>1
      <4>2. CASE j = k + 1 /\ r[j] = t
        BY <2>3, <3>2, <4>2
      <4>3. CASE j > k + 1 /\ j - 1 \in DOMAIN s /\ r[j] = s[j - 1]
        BY <2>1, <3>1, <3>2, <4>3
      <4> QED BY <1>9, <4>1, <4>2, <4>3
    <3>3. CASE i = k + 1 /\ r[i] = t
      <4>1. j > k + 1 /\ j - 1 \in DOMAIN s /\ r[j] = s[j - 1]
        BY <1>9, <2>4, <3>1, <3>3
      <4> QED BY <2>2, <3>1, <3>3, <4>1
    <3>4. CASE i > k + 1 /\ i - 1 \in DOMAIN s /\ r[i] = s[i - 1]
      <4>1. j > k + 1 /\ j - 1 \in DOMAIN s /\ r[j] = s[j - 1]
        BY <1>9, <2>4, <3>1, <3>4
      <4> QED BY <2>1, <2>4, <3>1, <3>4, <4>1
    <3> QED BY <1>9, <3>2, <3>3, <3>4
  <2> QED BY <2>4 DEF at, InOrder
<1> QED BY <1>3, <1>7, <1>8, <1>10, <1>11 DEF s

-----------------------------------------------------------------------------
(* The functions on the lists.                                             *)

LEMMA ListedTimers == ASSUME NEW L, L \in LoopData PROVE Listed(L) \subseteq Timer
<1>1. L.timers \in Seq(Timer) /\ L.suspended \in Seq(Timer)
  BY DEF LoopData
<1> QED BY <1>1 DEF Listed, Range

(* The timer after t in a list is another timer of that list.              *)
LEMMA NextRight ==
  ASSUME NEW L, L \in LoopData, Linked(L), NEW t
  PROVE  /\ NextIn(L, t) \in {None} \cup (Listed(L) \ {t})
         /\ t \in Range(L.timers) => NextIn(L, t) \in {None} \cup (Range(L.timers) \ {t})
         /\ t \notin Listed(L) => NextIn(L, t) = None
<1> DEFINE After(s) == LET i == CHOOSE i \in DOMAIN s : s[i] = t
                       IN IF i < Len(s) THEN s[i + 1] ELSE None
<1>1. ASSUME NEW s \in Seq(Timer), IsInjective(s), t \in Range(s)
      PROVE  After(s) \in {None} \cup (Range(s) \ {t})
  <2>1. PICK i : i = (CHOOSE j \in DOMAIN s : s[j] = t) /\ i \in DOMAIN s /\ s[i] = t
    BY <1>1 DEF Range
  <2>4. After(s) = IF i < Len(s) THEN s[i + 1] ELSE None
    BY <2>1
  <2> HIDE DEF After
  <2>2. CASE i < Len(s)
    <3>1. i + 1 \in DOMAIN s /\ i + 1 # i
      <4>1. i \in 1 .. Len(s) /\ Len(s) \in Nat
        BY <2>1
      <4> QED BY <2>2, <4>1
    <3>2. s[i + 1] # t
      BY <1>1, <2>1, <3>1 DEF IsInjective
    <3> QED BY <2>2, <2>4, <3>1, <3>2 DEF Range
  <2>3. CASE ~(i < Len(s))
    BY <2>3, <2>4
  <2> QED BY <2>2, <2>3
<1>2. L.timers \in Seq(Timer) /\ L.suspended \in Seq(Timer)
      /\ IsInjective(L.timers) /\ IsInjective(L.suspended)
  BY DEF LoopData, Linked
<1>3. NextIn(L, t) = IF t \in Range(L.timers) THEN After(L.timers)
                     ELSE IF t \in Range(L.suspended) THEN After(L.suspended) ELSE None
  BY DEF NextIn
<1> HIDE DEF After
<1> QED BY <1>1, <1>2, <1>3 DEF Listed

LEMMA UnlinkedRight ==
  ASSUME NEW L, L \in LoopData, Linked(L), NEW t
  PROVE  /\ Unlinked(L, t) \in LoopData
         /\ Linked(Unlinked(L, t))
         /\ RemovedFrom(Unlinked(L, t).timers, L.timers, t)
         /\ RemovedFrom(Unlinked(L, t).suspended, L.suspended, t)
         /\ Unlinked(L, t).tm = L.tm
         /\ Unlinked(L, t).current = L.current
         /\ Unlinked(L, t).timers_added = L.timers_added
<1> DEFINE U == Unlinked(L, t)
<1>1. L.timers \in Seq(Timer) /\ L.suspended \in Seq(Timer)
      /\ IsInjective(L.timers) /\ IsInjective(L.suspended)
  BY DEF LoopData, Linked
<1>2. U.timers = RemoveFirst(L.timers, t) /\ U.suspended = RemoveFirst(L.suspended, t)
      /\ U.tm = L.tm /\ U.current = L.current /\ U.timers_added = L.timers_added
  BY DEF LoopData, Unlinked
<1>3. U.timers \in Seq(Timer) /\ RemovedFrom(U.timers, L.timers, t)
      /\ U.suspended \in Seq(Timer) /\ RemovedFrom(U.suspended, L.suspended, t)
  BY <1>1, <1>2, RemoveRight
<1>4. U \in LoopData
  BY <1>2, <1>3 DEF LoopData, Unlinked
<1>5. Linked(U)
  BY <1>2, <1>3 DEF Linked, RemovedFrom, Listed, Live, Tm
<1> QED BY <1>2, <1>3, <1>4, <1>5

(* Timers that are not t are in order.                                     *)
InOrderBut(tm, s, t) ==
  \A i, j \in DOMAIN s : i < j /\ s[i] # t /\ s[j] # t => tm[s[i]].at <= tm[s[j]].at

LEMMA RemovedInOrder ==
  ASSUME NEW tm, NEW r, NEW s, NEW t, RemovedFrom(r, s, t), InOrderBut(tm, s, t)
  PROVE  InOrder(tm, r)
<1> SUFFICES ASSUME NEW i \in DOMAIN r, NEW j \in DOMAIN r, i < j
             PROVE  tm[r[i]].at <= tm[r[j]].at
  BY DEF InOrder
<1>1. PICK k, l \in DOMAIN s : k < l /\ s[k] = r[i] /\ s[l] = r[j]
  BY DEF RemovedFrom, Within
<1>2. r[i] # t /\ r[j] # t
  BY DEF RemovedFrom, Range
<1> QED BY <1>1, <1>2 DEF InOrderBut

LEMMA LoopClearRight ==
  ASSUME NEW L, L \in LoopData, Linked(L), NEW t \in Timer
  PROVE  /\ LoopClear(L, t) \in LoopData
         /\ Linked(LoopClear(L, t))
         /\ RemovedFrom(LoopClear(L, t).timers, L.timers, t)
         /\ RemovedFrom(LoopClear(L, t).suspended, L.suspended, t)
         /\ LoopClear(L, t).tm = L.tm
         /\ LoopClear(L, t).timers_added = L.timers_added
         /\ LoopClear(L, t).current = IF L.current = t THEN NextIn(L, t) ELSE L.current
<1> DEFINE C == LoopClear(L, t)
           U == Unlinked(L, t)
<1>1. U \in LoopData /\ U.current = L.current /\ NextIn(L, t) \in Timer \cup {None}
  <2>1. Listed(L) \subseteq Timer
    BY DEF LoopData, Listed, Range
  <2> QED BY <2>1, UnlinkedRight, NextRight
<1>2. /\ C.timers = U.timers /\ C.suspended = U.suspended /\ C.tm = U.tm
      /\ C.timers_added = U.timers_added
      /\ C.current = IF L.current = t THEN NextIn(L, t) ELSE L.current
      /\ C \in LoopData
  <2> HIDE DEF U
  <2>1. C = [U EXCEPT !.current = IF @ = t THEN NextIn(L, t) ELSE @]
    BY DEF LoopClear, U
  <2> QED BY <1>1, <2>1 DEF LoopData
<1>3. Linked(C)
  BY <1>2, UnlinkedRight DEF Linked, Listed, Live, Tm
<1> QED BY <1>2, <1>3, UnlinkedRight

Fires(m) == Runs(m) /\ m.at > 0

(* _efl_loop_timer_util_instanciate() puts the timer in one of the lists   *)
(* and leaves the others where they are.                                   *)
Instanciated(L, I, t) ==
  /\ I \in LoopData /\ Linked(I)
  /\ Range(I.timers) = IF Fires(L.tm[t]) THEN Range(L.timers) \cup {t} ELSE Range(L.timers) \ {t}
  /\ Range(I.suspended)
       = IF Fires(L.tm[t]) THEN Range(L.suspended) \ {t} ELSE Range(L.suspended) \cup {t}
  /\ I.tm = L.tm /\ I.timers_added = L.timers_added
  /\ I.current = IF L.current = t THEN NextIn(L, t) ELSE L.current
  /\ InOrderBut(L.tm, L.timers, t) => InOrder(L.tm, I.timers)

LEMMA InstanciateRight ==
  ASSUME NEW L, L \in LoopData, Linked(L), NEW t \in Timer, Live(L, t)
  PROVE  Instanciated(L, Instanciate(L, t), t)
<1> DEFINE C == LoopClear(L, t)
           I == Instanciate(L, t)
           current == IF L.current = t THEN NextIn(L, t) ELSE L.current
           fires == Fires(L.tm[t])
<1>1. /\ C \in LoopData /\ Linked(C) /\ C.tm = L.tm /\ C.timers_added = L.timers_added
      /\ C.current = current
      /\ RemovedFrom(C.timers, L.timers, t) /\ RemovedFrom(C.suspended, L.suspended, t)
  BY LoopClearRight
<1>2. L.tm[t] \in TimerData /\ \A u \in Timer : C.tm[u].at \in Int
  BY <1>1 DEF LoopData, TimerData
<1>3. fires <=> ~(L.tm[t].listening = 0 \/ L.tm[t].frozen \/ L.tm[t].at <= 0)
  <2>1. ASSUME NEW m \in TimerData
        PROVE  Fires(m) <=> ~(m.listening = 0 \/ m.frozen \/ m.at <= 0)
    BY DEF TimerData, Fires, Runs
  <2> QED BY <1>2, <2>1
<1>4. I = IF fires THEN [C EXCEPT !.timers = Insert(C, t)] ELSE [C EXCEPT !.suspended = <<t>> \o @]
  BY <1>3 DEF Instanciate, Tm
<1> HIDE DEF C, I, current, fires
<1>5. C.timers \in Seq(Timer) /\ C.suspended \in Seq(Timer)
      /\ IsInjective(C.timers) /\ IsInjective(C.suspended)
      /\ Range(C.timers) = Range(L.timers) \ {t} /\ Range(C.suspended) = Range(L.suspended) \ {t}
      /\ Range(C.timers) \cap Range(C.suspended) = {}
  BY <1>1 DEF LoopData, Linked, RemovedFrom
<1>6. ASSUME InOrderBut(L.tm, L.timers, t) PROVE InOrder(C.tm, C.timers)
  BY <1>1, <1>6, RemovedInOrder
<1>7. CASE fires
  <2>1. /\ Insert(C, t) \in Seq(Timer) /\ Range(Insert(C, t)) = Range(C.timers) \cup {t}
        /\ IsInjective(Insert(C, t))
        /\ InOrder(C.tm, C.timers) => InOrder(C.tm, Insert(C, t))
    BY <1>2, <1>5, InsertRight
  <2>2. /\ I.timers = Insert(C, t) /\ I.suspended = C.suspended /\ I.tm = C.tm
        /\ I.timers_added = C.timers_added /\ I.current = C.current /\ I \in LoopData
    BY <1>1, <1>4, <1>7, <2>1 DEF LoopData
  <2>3. Linked(I)
    BY <1>1, <1>5, <2>1, <2>2 DEF Linked, Listed, Live, Tm
  <2> QED BY <1>1, <1>5, <1>6, <1>7, <2>1, <2>2, <2>3 DEF Instanciated, I, fires, current
<1>8. CASE ~fires
  <2> DEFINE s == <<t>> \o C.suspended
  <2>1. s \in Seq(Timer) /\ Range(s) = Range(C.suspended) \cup {t} /\ IsInjective(s)
    BY <1>5, PushRight
  <2> HIDE DEF s
  <2>2. /\ I.timers = C.timers /\ I.suspended = s /\ I.tm = C.tm
        /\ I.timers_added = C.timers_added /\ I.current = C.current /\ I \in LoopData
    BY <1>1, <1>4, <1>8, <2>1 DEF LoopData, s
  <2>3. Linked(I)
    BY <1>1, <1>5, <2>1, <2>2 DEF Linked, Listed, Live, Tm
  <2> QED BY <1>1, <1>5, <1>6, <1>8, <2>1, <2>2, <2>3 DEF Instanciated, I, fires, current
<1> QED BY <1>7, <1>8

(* M is L with another t.                                                  *)
Touched(L, M, t) ==
  /\ M \in LoopData /\ Linked(M) /\ M.current = L.current
  /\ \A u \in Timer \ {t} : M.tm[u] = L.tm[u]
  /\ Range(M.timers) \ {t} = Range(L.timers) \ {t}
  /\ Range(M.suspended) \ {t} = Range(L.suspended) \ {t}
  /\ t \in Range(M.suspended) => t \notin Range(L.timers)
  /\ InOrder(L.tm, L.timers) => InOrderBut(M.tm, M.timers, t)

(* I is L with the data of M and t in the list where it belongs.           *)
Placed(L, I, M, t, n) ==
  /\ Good(I, n)
  /\ Right(L) => Right(I)
  /\ WalkOver(L) => WalkOver(I)
  /\ Fresh(L) => Fresh(I)
  /\ I.tm = M.tm /\ I.timers_added = M.timers_added
  /\ Range(I.timers) \subseteq Range(L.timers) \cup {t}
  /\ t \in Range(I.timers) => Runs(M.tm[t])

LEMMA PlacedRight ==
  ASSUME NEW n \in Nat, NEW L, Good(L, n), NEW t \in Timer, NEW M, Touched(L, M, t),
         Live(M, t), L.tm[t].status \in {"alive", "none"}, Timed(M.tm[t], n)
  PROVE  Placed(L, Instanciate(M, t), M, t, n)
<1> DEFINE I == Instanciate(M, t)
<1>1. /\ I \in LoopData /\ Linked(I) /\ I.tm = M.tm /\ I.timers_added = M.timers_added
      /\ Range(I.timers) = IF Fires(M.tm[t]) THEN Range(M.timers) \cup {t} ELSE Range(M.timers) \ {t}
      /\ Range(I.suspended)
           = IF Fires(M.tm[t]) THEN Range(M.suspended) \ {t} ELSE Range(M.suspended) \cup {t}
      /\ I.current = IF M.current = t THEN NextIn(M, t) ELSE M.current
      /\ InOrderBut(M.tm, M.timers, t) => InOrder(M.tm, I.timers)
  <2>1. M \in LoopData /\ Linked(M)
    BY DEF Touched
  <2>2. Instanciated(M, I, t)
    BY <2>1, InstanciateRight
  <2> HIDE DEF I
  <2> QED BY <2>2 DEF Instanciated
<1> HIDE DEF I
<1>2. M \in LoopData /\ Linked(M) /\ M.current = L.current /\ None \notin Timer
  BY TimerAssumption DEF Touched, Timer
<1>3. M.tm[t] \in TimerData /\ M.tm[t].status = "alive"
  BY <1>2 DEF LoopData, Live, Tm
<1>4. Fires(M.tm[t]) <=> Runs(M.tm[t])
  <2>1. ASSUME NEW m \in TimerData, m.status = "alive", Timed(m, n) PROVE Fires(m) <=> Runs(m)
    BY <2>1 DEF TimerData, Timed, Fires, Runs
  <2> QED BY <1>3, <2>1
<1>5. \A u \in Timer \ {t} : I.tm[u] = L.tm[u]
  BY <1>1 DEF Touched
<1>6. AllTimed(I, n)
  BY <1>1, <1>5 DEF AllTimed, Good
<1>7. Range(I.timers) \ {t} = Range(L.timers) \ {t} /\ Range(I.suspended) \ {t} = Range(L.suspended) \ {t}
  BY <1>1 DEF Touched
<1>8. /\ t \in Range(I.timers) <=> Runs(M.tm[t])
      /\ t \in Range(I.suspended) <=> ~Runs(M.tm[t])
  BY <1>1, <1>4
<1>9. L.current = t => Live(L, t)
  BY <1>2 DEF Good, CurrentThere, There, Live, Tm
<1>10. Listed(M) \subseteq Timer /\ \A u \in Listed(M) : Live(I, u)
  BY <1>1, <1>2 DEF LoopData, Linked, Listed, Range, Live, Tm
<1>11. CurrentThere(I)
  <2>1. CASE L.current = t
    BY <1>1, <1>2, <1>10, <2>1, NextRight DEF CurrentThere, There, Live, Tm
  <2>2. CASE L.current # t
    <3>1. I.current = L.current /\ L.current \in Timer \cup {None}
      BY <1>1, <1>2, <2>2 DEF LoopData
    <3> QED BY <1>5, <2>2, <3>1 DEF Good, CurrentThere, There
  <2> QED BY <2>1, <2>2
<1>12. WalkOver(L) => WalkOver(I)
  <2> SUFFICES ASSUME WalkOver(L), I.current # None PROVE ~Live(I, I.current)
    BY DEF WalkOver
  <2>1. L.current # t
    BY <1>2, <1>9 DEF WalkOver
  <2>2. I.current = L.current /\ L.current \in Timer \ {t}
    BY <1>1, <1>2, <2>1 DEF LoopData
  <2> QED BY <1>5, <2>2 DEF WalkOver, Live, Tm
<1>13. ASSUME Right(L) PROVE Whole(I, LiveIn(I))
  <2>1. Whole(L, LiveIn(L))
    BY <1>13 DEF Right
  <2>2. LiveIn(I) = LiveIn(L) \cup {t}
    BY <1>1, <1>3, <1>5 DEF LiveIn, Live, Tm
  <2>3. Listed(I) = LiveIn(I)
    BY <1>7, <1>8, <2>1, <2>2 DEF Listed, Whole
  <2>4. \A u \in Range(I.timers) : Runs(I.tm[u])
    <3> SUFFICES ASSUME NEW u \in Range(I.timers), u # t PROVE Runs(I.tm[u])
      BY <1>1, <1>8
    <3>1. u \in Range(L.timers) /\ u \in Timer
      BY <1>7, <2>3 DEF Listed, LiveIn
    <3> QED BY <1>5, <2>1, <3>1 DEF Whole
  <2>5. \A u \in Range(I.suspended) : ~Runs(I.tm[u])
    <3> SUFFICES ASSUME NEW u \in Range(I.suspended), u # t PROVE ~Runs(I.tm[u])
      BY <1>1, <1>8
    <3>1. u \in Range(L.suspended) /\ u \in Timer
      BY <1>7, <2>3 DEF Listed, LiveIn
    <3> QED BY <1>5, <2>1, <3>1 DEF Whole
  <2>6. Sorted(I)
    <3>1. InOrder(L.tm, L.timers)
      BY <2>1 DEF Whole, Sorted, InOrder, Tm
    <3> QED BY <1>1, <3>1 DEF Touched, Sorted, InOrder, Tm
  <2> QED BY <2>3, <2>4, <2>5, <2>6 DEF Whole
<1>14. ASSUME Right(L) PROVE CurrentRuns(I)
  <2> SUFFICES ASSUME I.current # None, Live(I, I.current) PROVE I.current \in Range(I.timers)
    BY DEF CurrentRuns
  <2>1. CASE L.current = t
    <3>1. t \in Range(L.timers)
      BY <1>2, <1>9, <1>14, <2>1 DEF Right, CurrentRuns
    <3>2. t \notin Range(M.suspended)
      BY <3>1 DEF Touched
    <3>3. I.current \in Range(M.timers) \ {t}
      BY <1>1, <1>2, <2>1, <3>2, NextRight DEF Listed
    <3> QED BY <1>1, <3>3
  <2>2. CASE L.current # t
    <3>1. I.current = L.current /\ L.current \in Timer \ {t}
      BY <1>1, <1>2, <2>2 DEF LoopData
    <3>2. L.current \in Range(L.timers)
      BY <1>5, <1>14, <3>1 DEF Right, CurrentRuns, Live, Tm
    <3> QED BY <1>7, <2>2, <3>1, <3>2
  <2> QED BY <2>1, <2>2
<1>15. Fresh(L) => Fresh(I)
  <2>1. CASE L.current = t
    BY <1>1, <1>2, <1>10, <2>1, NextRight DEF Fresh
  <2>2. CASE L.current # t
    <3>1. I.current = L.current /\ L.current \in Timer \cup {None}
      BY <1>1, <1>2, <2>2 DEF LoopData
    <3> QED BY <1>5, <2>2, <3>1 DEF Fresh, Live, Tm
  <2> QED BY <2>1, <2>2
<1> QED BY <1>1, <1>6, <1>7, <1>8, <1>11, <1>12, <1>13, <1>14, <1>15 DEF Good, Right, Placed, I

(* Of the lists only t may be missing.                                     *)
LEMMA TouchedBy ==
  ASSUME NEW n, NEW L, Good(L, n), NEW t \in Timer, NEW M, M \in LoopData,
         M.current = L.current, \A u \in Timer \ {t} : M.tm[u] = L.tm[u], Live(M, t),
         M.timers = L.timers \/ RemovedFrom(M.timers, L.timers, t),
         M.suspended = L.suspended \/ RemovedFrom(M.suspended, L.suspended, t)
  PROVE  Touched(L, M, t)
<1>1. /\ IsInjective(L.timers) /\ IsInjective(L.suspended)
      /\ Range(L.timers) \cap Range(L.suspended) = {}
      /\ \A u \in Listed(L) : Live(L, u)
  BY DEF Good, Linked
<1>2. Range(M.timers) \ {t} = Range(L.timers) \ {t} /\ Range(M.timers) \subseteq Range(L.timers)
  BY DEF RemovedFrom
<1>3. Range(M.suspended) \ {t} = Range(L.suspended) \ {t} /\ Range(M.suspended) \subseteq Range(L.suspended)
  BY DEF RemovedFrom
<1>4. IsInjective(M.timers) /\ IsInjective(M.suspended)
  BY <1>1 DEF RemovedFrom
<1>5. \A u \in Listed(M) : u \in Timer /\ Live(M, u)
  <2> SUFFICES ASSUME NEW u \in Listed(M), u # t PROVE u \in Timer /\ Live(M, u)
    OBVIOUS
  <2>1. u \in Listed(L) /\ u \in Timer
    BY <1>2, <1>3, ListedTimers DEF Listed, Good
  <2> QED BY <1>1, <2>1 DEF Live, Tm
<1>6. Linked(M)
  BY <1>1, <1>2, <1>3, <1>4, <1>5 DEF Linked
<1>7. ASSUME InOrder(L.tm, L.timers) PROVE InOrderBut(M.tm, M.timers, t)
  <2>1. InOrder(L.tm, M.timers)
    <3>1. CASE M.timers = L.timers
      BY <1>7, <3>1
    <3>2. CASE RemovedFrom(M.timers, L.timers, t)
      <4>1. InOrderBut(L.tm, L.timers, t)
        BY <1>7 DEF InOrder, InOrderBut
      <4> QED BY <3>2, <4>1, RemovedInOrder
    <3> QED BY <3>1, <3>2
  <2>2. \A i \in DOMAIN M.timers : M.timers[i] \in Timer
    BY <1>5 DEF Listed, Range
  <2> QED BY <2>1, <2>2 DEF InOrder, InOrderBut
<1> QED BY <1>1, <1>2, <1>3, <1>6, <1>7 DEF Touched

(* M is N, t having been told to expire at the given time and to wait for  *)
(* its turn.                                                               *)
SetTo(N, M, t, at) ==
  /\ M \in LoopData
  /\ M.timers = N.timers /\ M.suspended = N.suspended /\ M.current = N.current
  /\ M.timers_added = TRUE
  /\ \A u \in Timer \ {t} : M.tm[u] = N.tm[u]
  /\ M.tm[t].status = N.tm[t].status /\ M.tm[t].just_added
  /\ M.tm[t].listening = N.tm[t].listening
  /\ M.tm[t].frozen <=> N.tm[t].frozen
  /\ M.tm[t].at = (IF N.tm[t].frozen THEN N.tm[t].at ELSE at)
  /\ M.tm[t].pending = (IF N.tm[t].frozen THEN N.tm[t].pending ELSE 0)

(* The data of a timer that was told so.                                   *)
Waiting(x, at) ==
  [x EXCEPT !.just_added = TRUE, !.at = IF x.frozen THEN @ ELSE at,
            !.pending = IF x.frozen THEN @ ELSE 0]

LEMMA WaitingRight ==
  ASSUME NEW x \in TimerData, NEW at \in Int
  PROVE  /\ Waiting(x, at) \in TimerData
         /\ Waiting(x, at).status = x.status /\ Waiting(x, at).just_added
         /\ Waiting(x, at).listening = x.listening
         /\ Waiting(x, at).frozen <=> x.frozen
         /\ Waiting(x, at).at = (IF x.frozen THEN x.at ELSE at)
         /\ Waiting(x, at).pending = (IF x.frozen THEN x.pending ELSE 0)
<1> DEFINE a == IF x.frozen THEN x.at ELSE at
           p == IF x.frozen THEN x.pending ELSE 0
           y == Waiting(x, at)
<1>1. a \in Int /\ p \in Int
  BY DEF TimerData
<1>2. y = [x EXCEPT !.just_added = TRUE, !.at = a, !.pending = p]
  BY DEF Waiting
<1> HIDE DEF a, p, y
<1>3. y \in TimerData
  BY <1>1, <1>2 DEF TimerData
<1>4. /\ y.status = x.status /\ y.just_added /\ y.listening = x.listening
      /\ y.frozen <=> x.frozen
      /\ y.at = a /\ y.pending = p
  BY <1>2 DEF TimerData
<1> QED BY <1>3, <1>4 DEF y, a, p

LEMMA TimerSetRight ==
  ASSUME NEW N, N \in LoopData, NEW t \in Timer, NEW at \in Int
  PROVE  \E M : SetTo(N, M, t, at) /\ TimerSet(N, t, at) = Instanciate(M, t)
<1> DEFINE M == [N EXCEPT !.timers_added = TRUE,
                          !.tm[t].just_added = TRUE,
                          !.tm[t].at = IF N.tm[t].frozen THEN @ ELSE at,
                          !.tm[t].pending = IF N.tm[t].frozen THEN @ ELSE 0]
           m == Waiting(N.tm[t], at)
<1>1. TimerSet(N, t, at) = Instanciate(M, t)
  BY DEF TimerSet
<1>2. N.tm \in [Timer -> TimerData] /\ N.tm[t] \in TimerData
  BY DEF LoopData
<1>3. /\ m \in TimerData /\ m.status = N.tm[t].status /\ m.just_added
      /\ m.listening = N.tm[t].listening
      /\ m.frozen <=> N.tm[t].frozen
      /\ m.at = (IF N.tm[t].frozen THEN N.tm[t].at ELSE at)
      /\ m.pending = (IF N.tm[t].frozen THEN N.tm[t].pending ELSE 0)
  BY <1>2, WaitingRight
<1>4. M.tm = [N.tm EXCEPT ![t] = m]
  BY DEF LoopData, Waiting
<1>5. /\ M.timers = N.timers /\ M.suspended = N.suspended /\ M.current = N.current
      /\ M.timers_added = TRUE
  BY DEF LoopData
<1>6. M \in LoopData
  <2> HIDE DEF m
  <2>1. M.tm \in [Timer -> TimerData]
    <3> HIDE DEF M
    <3> QED BY <1>2, <1>3, <1>4
  <2> QED BY <1>5, <2>1 DEF LoopData
<1> HIDE DEF m
<1>7. M.tm[t] = m /\ \A u \in Timer \ {t} : M.tm[u] = N.tm[u]
  BY <1>2, <1>4
<1> HIDE DEF M
<1>8. SetTo(N, M, t, at)
  BY <1>3, <1>5, <1>6, <1>7 DEF SetTo
<1> QED BY <1>1, <1>8

-----------------------------------------------------------------------------
(* User code.  K is ld after a call: no timer that is being called goes,   *)
(* gets dumb or ready to be called again by the walk that calls it, and    *)
(* timer_current keeps its meaning.                                        *)
Hears(m) == m.status = "alive" => m.listening = 1

Handled(K) ==
  /\ Good(K, now)
  /\ \A u \in Called : There(K, u)
  /\ Unmuted /\ Right(ld) =>
       /\ Right(K)
       /\ WalkOver(ld) => WalkOver(K)
       /\ \A u \in Timer : Passed(ld.tm[u]) => Passed(K.tm[u])
       /\ \A u \in Called : Hears(ld.tm[u]) => Hears(K.tm[u])
       /\ MutedInTime /\ Told(ld) => Told(K)

LEMMA RunTyped ==
  ASSUME Types
  PROVE  /\ Len(run) \in Nat \ {0} /\ DOMAIN run = 1 .. Len(run) /\ Len(run) \in DOMAIN run
         /\ Top \in WalkFrame
         /\ \A k \in DOMAIN run : run[k] \in WalkFrame
         /\ \A k \in DOMAIN run : run[k].timer # None => run[k].timer \in Called
         /\ Called \subseteq Timer
<1>1. run \in Seq(WalkFrame) /\ run # <<>>
  BY DEF Types
<1>2. Len(run) \in Nat \ {0} /\ DOMAIN run = 1 .. Len(run)
  BY <1>1, EmptySeq
<1>3. \A k \in DOMAIN run : run[k] \in WalkFrame
  BY <1>1
<1>4. \A k \in DOMAIN run : run[k].timer \in Timer \cup {None}
  BY <1>3 DEF WalkFrame
<1> QED BY <1>2, <1>3, <1>4 DEF Top, Called

LEMMA HandledKeeps ==
  ASSUME TimersInv, Handled(ld'), Top.phase # "asleep",
         UNCHANGED <<run, now, loop_time, wake>>
  PROVE  TimersInv'
<1>1. Top' = Top /\ Called' = Called
  BY DEF Top, Called
<1>2. /\ \A k \in DOMAIN run : run[k].timer # None => run[k].timer \in Called
      /\ \A k \in DOMAIN run : run[k] \in WalkFrame
      /\ Len(run) \in DOMAIN run /\ Called \subseteq Timer /\ Top \in WalkFrame
  BY RunTyped DEF TimersInv, Base
<1>3. Types'
  BY DEF TimersInv, Base, Types
<1>4. Stack' /\ Prompt'
  BY <1>1, <1>2 DEF TimersInv, Base, Stack, Handled, Prompt
<1>5. ASSUME Unmuted PROVE Sane'
  <2>1. Sane /\ Right(ld)
    BY <1>5 DEF TimersInv, Sane
  <2>2. ASSUME NEW k \in DOMAIN run, run[k].timer # None, Live(ld', run[k].timer)
        PROVE  ld'.tm[run[k].timer].listening = 1
    <3>1. Hears(ld.tm[run[k].timer])
      BY <2>1, <2>2 DEF Sane, Hears, Live, Tm
    <3>2. Hears(ld'.tm[run[k].timer])
      BY <1>2, <1>5, <2>1, <2>2, <3>1 DEF Handled
    <3> QED BY <2>2, <3>2 DEF Hears, Live, Tm
  <2>3. ASSUME Top.phase = "calling", ~WalkOver(ld'), NEW t \in Top.done PROVE Passed(ld'.tm[t])
    <3>1. ~WalkOver(ld) /\ t \in Timer
      BY <1>2, <1>5, <2>1, <2>3 DEF Handled, WalkFrame
    <3>2. Passed(ld.tm[t])
      BY <2>1, <2>3, <3>1 DEF Sane
    <3> QED BY <1>5, <2>1, <3>1, <3>2 DEF Handled
  <2>4. Top.phase = "walked" => WalkOver(ld')
    BY <1>5, <2>1 DEF Sane, Handled
  <2> QED BY <1>1, <1>5, <2>1, <2>2, <2>3, <2>4 DEF Sane, Handled
<1>6. ASSUME Unmuted, MutedInTime PROVE Awake'
  BY <1>1, <1>6 DEF TimersInv, Sane, Awake, Handled, NoOversleep
<1> QED BY <1>3, <1>4, <1>5, <1>6 DEF TimersInv, Base, Handled

(* One timer is put where it belongs.                                      *)
LEMMA PlacedHandled ==
  ASSUME TimersInv, NEW t \in Timer, NEW M, NEW I, Placed(ld, I, M, t, now),
         Touched(ld, M, t), Live(M, t),
         Unmuted /\ t \in Called => M.tm[t].listening = ld.tm[t].listening,
         Passed(ld.tm[t]) => Passed(M.tm[t]), Live(ld, t) \/ t \notin Called,
         \/ M.timers_added
         \/ (M.timers_added <=> ld.timers_added)
            /\ (MutedInTime /\ Right(ld) /\ Told(ld) /\ ~ld.timers_added /\ Runs(M.tm[t])
                  => ~M.tm[t].just_added)
  PROVE  Handled(I)
<1>1. Called \subseteq Timer
  BY RunTyped DEF TimersInv, Base
<1>2. /\ Good(I, now) /\ I.tm = M.tm /\ I.timers_added = M.timers_added
      /\ \A u \in Timer \ {t} : M.tm[u] = ld.tm[u]
      /\ Right(ld) => Right(I)
      /\ WalkOver(ld) => WalkOver(I)
      /\ Range(I.timers) \subseteq Range(ld.timers) \cup {t}
      /\ t \in Range(I.timers) => Runs(M.tm[t])
  BY DEF Placed, Touched
<1>3. ASSUME NEW u \in Called PROVE There(ld, u)
  <2>1. PICK k \in DOMAIN run : u = run[k].timer /\ u # None
    BY DEF Called
  <2> QED BY <2>1 DEF TimersInv, Base, Stack
<1>4. ASSUME NEW u \in Called PROVE There(I, u)
  BY <1>1, <1>2, <1>3 DEF There, Live, Tm
<1>5. ASSUME NEW u \in Timer, Passed(ld.tm[u]) PROVE Passed(I.tm[u])
  BY <1>2, <1>5
<1>6. ASSUME Unmuted, NEW u \in Called, Hears(ld.tm[u]) PROVE Hears(I.tm[u])
  <2>1. CASE u = t
    BY <1>2, <1>6, <2>1 DEF Hears, Live, Tm
  <2>2. CASE u # t
    BY <1>1, <1>2, <1>6, <2>2
  <2> QED BY <2>1, <2>2
<1>7. ASSUME MutedInTime, Right(ld), Told(ld) PROVE Told(I)
  <2> SUFFICES ASSUME ~I.timers_added, NEW u \in Range(I.timers) PROVE ~I.tm[u].just_added
    BY DEF Told
  <2>1. ~ld.timers_added /\ (Runs(M.tm[t]) => ~M.tm[t].just_added)
    BY <1>2, <1>7
  <2>2. CASE u = t
    BY <1>2, <2>1, <2>2
  <2>3. CASE u # t
    <3>1. u \in Range(ld.timers) /\ u \in Timer
      BY <1>2, <2>3, ListedTimers DEF Good, Listed
    <3> QED BY <1>2, <1>7, <2>1, <2>3, <3>1 DEF Told
  <2> QED BY <2>2, <2>3
<1> QED BY <1>2, <1>4, <1>5, <1>6, <1>7 DEF Handled

(* The lists stay, and what decides where a timer belongs.                 *)
SameIn(L, K) ==
  /\ K \in LoopData
  /\ K.timers = L.timers /\ K.suspended = L.suspended /\ K.current = L.current
  /\ \A u \in Timer : /\ K.tm[u].status = L.tm[u].status /\ K.tm[u].at = L.tm[u].at
                      /\ K.tm[u].listening = L.tm[u].listening
                      /\ K.tm[u].frozen <=> L.tm[u].frozen

SameFor(L, K, n) ==
  /\ Good(K, n)
  /\ Right(L) => Right(K)
  /\ WalkOver(L) => WalkOver(K)

LEMMA SameData ==
  ASSUME NEW n, NEW L, Good(L, n), NEW K, SameIn(L, K), \A u \in Timer : Timed(K.tm[u], n)
  PROVE  SameFor(L, K, n)
<1>1. K \in LoopData /\ K.timers = L.timers /\ K.suspended = L.suspended /\ K.current = L.current
  BY DEF SameIn
<1>2. \A u \in Timer : /\ K.tm[u].status = L.tm[u].status /\ K.tm[u].at = L.tm[u].at
                       /\ K.tm[u].listening = L.tm[u].listening
                       /\ K.tm[u].frozen <=> L.tm[u].frozen
  BY DEF SameIn
<1>3. L \in LoopData /\ Good(L, n)
  BY DEF Good
<1>4. Listed(L) \subseteq Timer /\ Listed(K) = Listed(L) /\ L.current \in Timer \cup {None}
  BY <1>1, <1>3, ListedTimers DEF Listed, LoopData
<1>5. Linked(K)
  BY <1>1, <1>2, <1>3, <1>4 DEF Good, Linked, Live, Tm
<1>6. AllTimed(K, n)
  BY DEF AllTimed
<1>7. CurrentThere(K)
  <2>1. L.current # None => There(L, L.current) /\ L.current \in Timer
    BY <1>3, <1>4 DEF Good, CurrentThere
  <2>2. \A u \in Timer : There(L, u) => There(K, u)
    BY <1>2 DEF There
  <2> QED BY <1>1, <2>1, <2>2 DEF CurrentThere
<1>9. ASSUME Right(L) PROVE Right(K)
  <2>1. Whole(L, LiveIn(L)) /\ CurrentRuns(L)
    BY <1>9 DEF Right
  <2>2. LiveIn(K) = LiveIn(L)
    BY <1>2 DEF LiveIn, Live, Tm
  <2>3. \A u \in Listed(L) : Runs(K.tm[u]) <=> Runs(L.tm[u])
    BY <1>2, <1>4 DEF Runs
  <2>4. Sorted(K)
    <3>1. \A i \in DOMAIN L.timers : L.timers[i] \in Timer
      BY <1>4 DEF Listed, Range
    <3> QED BY <1>1, <1>2, <2>1, <3>1 DEF Whole, Sorted, Tm
  <2>5. Whole(K, LiveIn(K))
    BY <1>1, <1>4, <2>1, <2>2, <2>3, <2>4 DEF Whole, Listed
  <2>6. CurrentRuns(K)
    BY <1>1, <1>2, <1>4, <2>1 DEF CurrentRuns, Live, Tm
  <2> QED BY <2>5, <2>6 DEF Right
<1>10. WalkOver(L) => WalkOver(K)
  BY <1>1, <1>2, <1>4 DEF WalkOver, Live, Tm
<1> QED BY <1>1, <1>5, <1>6, <1>7, <1>9, <1>10 DEF Good, SameFor

(* One timer gets other data.                                              *)
LEMMA DataHandled ==
  ASSUME TimersInv, NEW t \in Timer, NEW K, K \in LoopData,
         K.timers = ld.timers, K.suspended = ld.suspended, K.current = ld.current,
         K.timers_added <=> ld.timers_added,
         \A u \in Timer \ {t} : K.tm[u] = ld.tm[u],
         K.tm[t].status = ld.tm[t].status, K.tm[t].at = ld.tm[t].at,
         K.tm[t].listening = ld.tm[t].listening, K.tm[t].frozen <=> ld.tm[t].frozen,
         K.tm[t].just_added <=> ld.tm[t].just_added, Timed(K.tm[t], now)
  PROVE  Handled(K)
<1>1. Called \subseteq Timer
  BY RunTyped DEF TimersInv, Base
<1>2. \A u \in Timer : /\ K.tm[u].status = ld.tm[u].status /\ K.tm[u].at = ld.tm[u].at
                       /\ K.tm[u].listening = ld.tm[u].listening
                       /\ K.tm[u].frozen <=> ld.tm[u].frozen
                       /\ K.tm[u].just_added <=> ld.tm[u].just_added
  OBVIOUS
<1>3. ld \in LoopData /\ Good(ld, now)
  BY DEF TimersInv, Base, Good
<1>4. Listed(ld) \subseteq Timer /\ Listed(K) = Listed(ld)
  BY <1>3, ListedTimers DEF Listed
<1>5. \A u \in Timer : Timed(K.tm[u], now)
  BY <1>3 DEF Good, AllTimed
<1>6. SameFor(ld, K, now)
  BY <1>2, <1>3, <1>5, SameData DEF SameIn
<1>7. Good(K, now)
  BY <1>6 DEF SameFor
<1>8. ASSUME NEW u \in Called PROVE There(K, u)
  <2>1. PICK k \in DOMAIN run : u = run[k].timer /\ u # None
    BY DEF Called
  <2>2. There(ld, u)
    BY <2>1 DEF TimersInv, Base, Stack
  <2> QED BY <1>1, <1>2, <2>2 DEF There
<1>9. Right(ld) => Right(K)
  BY <1>6 DEF SameFor
<1>10. WalkOver(ld) => WalkOver(K)
  BY <1>6 DEF SameFor
<1>11. \A u \in Timer : Passed(ld.tm[u]) => Passed(K.tm[u])
  BY <1>2 DEF Passed
<1>12. \A u \in Called : Hears(ld.tm[u]) => Hears(K.tm[u])
  BY <1>1, <1>2 DEF Hears
<1>13. Told(ld) => Told(K)
  BY <1>2, <1>4 DEF Told, Listed
<1> QED BY <1>7, <1>8, <1>9, <1>10, <1>11, <1>12, <1>13 DEF Handled

With(L, t, m) == [L EXCEPT !.tm[t] = m]

(* K is L but for the data m of t.                                         *)
Differs(L, K, t, m) ==
  /\ K \in LoopData
  /\ K.timers = L.timers /\ K.suspended = L.suspended /\ K.current = L.current
  /\ K.timers_added <=> L.timers_added
  /\ K.tm[t] = m
  /\ \A u \in Timer \ {t} : K.tm[u] = L.tm[u]

LEMMA WithRight ==
  ASSUME NEW L, L \in LoopData, NEW t \in Timer, NEW m \in TimerData
  PROVE  Differs(L, With(L, t, m), t, m)
<1> DEFINE K == With(L, t, m)
<1>1. L.tm \in [Timer -> TimerData]
  BY DEF LoopData
<1>2. /\ K.timers = L.timers /\ K.suspended = L.suspended /\ K.current = L.current
      /\ K.timers_added = L.timers_added /\ K.tm = [L.tm EXCEPT ![t] = m]
  BY DEF LoopData, With
<1>3. K.tm \in [Timer -> TimerData]
  BY <1>1, <1>2
<1>4. K \in LoopData
  BY <1>2, <1>3 DEF LoopData, With
<1> QED BY <1>1, <1>2, <1>4 DEF Differs

LEMMA SetHandled ==
  ASSUME TimersInv, NEW t \in Timer, NEW at \in Int, NEW N, N \in LoopData,
         N.current = ld.current, \A u \in Timer \ {t} : N.tm[u] = ld.tm[u],
         N.timers = ld.timers \/ RemovedFrom(N.timers, ld.timers, t),
         N.suspended = ld.suspended \/ RemovedFrom(N.suspended, ld.suspended, t),
         Live(N, t), Live(ld, t) \/ ld.tm[t].status = "none",
         Live(ld, t) => N.tm[t].listening = ld.tm[t].listening,
         IF N.tm[t].frozen THEN N.tm[t].at >= 0 /\ N.tm[t].pending + now >= 1 ELSE at >= 1
  PROVE  Handled(TimerSet(N, t, at))
<1>1. PICK M : SetTo(N, M, t, at) /\ TimerSet(N, t, at) = Instanciate(M, t)
  BY TimerSetRight
<1>2. Good(ld, now) /\ now \in Nat
  BY DEF TimersInv, Base, Types
<1>3. Live(M, t)
  BY <1>1 DEF SetTo, Live, Tm
<1>4. Touched(ld, M, t)
  BY <1>1, <1>2, <1>3, TouchedBy DEF SetTo
<1>5. Timed(M.tm[t], now)
  BY <1>1, <1>3 DEF SetTo, Timed, Live, Tm
<1>6. ld.tm[t].status \in {"alive", "none"}
  BY DEF Live, Tm
<1>7. Placed(ld, Instanciate(M, t), M, t, now)
  BY <1>2, <1>3, <1>4, <1>5, <1>6, PlacedRight
<1>8. Live(ld, t) \/ t \notin Called
  <2> SUFFICES ASSUME t \in Called PROVE Live(ld, t)
    OBVIOUS
  <2>1. PICK k \in DOMAIN run : t = run[k].timer /\ t # None
    BY DEF Called
  <2>2. There(ld, t)
    BY <2>1 DEF TimersInv, Base, Stack
  <2> QED BY <1>6, <2>2 DEF There, Live, Tm
<1>9. Passed(M.tm[t]) /\ M.timers_added
  BY <1>1 DEF SetTo, Passed
<1>10. t \in Called => M.tm[t].listening = ld.tm[t].listening
  BY <1>1, <1>8 DEF SetTo
<1>11. Handled(Instanciate(M, t))
  BY <1>3, <1>4, <1>7, <1>8, <1>9, <1>10, PlacedHandled
<1> QED BY <1>1, <1>11

LEMMA UserCodeRuns == ASSUME UserCode PROVE Top.phase # "asleep"
  BY DEF UserCode

LEMMA AddStep ==
  ASSUME TimersInv, NEW t \in Timer, NEW in \in Interval, NEW listening \in {0, 1},
         Add(t, in, listening)
  PROVE  TimersInv'
<1> DEFINE m == [ld.tm[t] EXCEPT !.status = "alive", !.in = in, !.listening = listening]
           N == With(ld, t, m)
<1>1. /\ ld.tm[t].status = "none" /\ UserCode /\ UNCHANGED <<run, now, loop_time, wake>>
      /\ ld' = TimerSet([ld EXCEPT !.tm[t].status = "alive", !.tm[t].in = in,
                                   !.tm[t].listening = listening], t, now + in)
  BY DEF Add, Change, Tm
<1>2. ld \in LoopData /\ now \in Nat /\ 1 <= now /\ Timed(ld.tm[t], now) /\ in \in Nat
  BY TimerAssumption DEF TimersInv, Base, Good, AllTimed, Types
<1>3. ld.tm[t] \in TimerData
  BY <1>2 DEF LoopData
<1>4. m \in TimerData /\ m.status = "alive" /\ (m.frozen <=> ld.tm[t].frozen)
  BY <1>2, <1>3 DEF TimerData
<1>5. N = [ld EXCEPT !.tm[t].status = "alive", !.tm[t].in = in, !.tm[t].listening = listening]
  BY <1>2 DEF LoopData, With
<1> HIDE DEF m
<1>6. /\ N \in LoopData
      /\ N.timers = ld.timers /\ N.suspended = ld.suspended /\ N.current = ld.current
      /\ N.tm[t] = m
      /\ \A u \in Timer \ {t} : N.tm[u] = ld.tm[u]
  BY <1>2, <1>4, WithRight DEF Differs
<1> HIDE DEF N
<1>7. Live(N, t) /\ ~Live(ld, t) /\ ~N.tm[t].frozen /\ now + in \in Int /\ now + in >= 1
  BY <1>1, <1>2, <1>4, <1>6 DEF Live, Tm, Timed
<1>8. Handled(TimerSet(N, t, now + in))
  BY <1>1, <1>6, <1>7, SetHandled
<1> QED BY <1>1, <1>5, <1>8, HandledKeeps, UserCodeRuns

(* K is L without t, which was deleted or destroyed.                       *)
Gone(L, K, t) ==
  /\ K \in LoopData
  /\ RemovedFrom(K.timers, L.timers, t) /\ RemovedFrom(K.suspended, L.suspended, t)
  /\ K.timers_added <=> L.timers_added
  /\ \A u \in Timer \ {t} : K.tm[u] = L.tm[u]
  /\ K.tm[t].status \in {"invalid", "freed"}
  /\ K.current = L.current \/ (L.current = t /\ K.current = None)
  /\ K.current = t => K.tm[t].status = "invalid"

LEMMA GoneRight ==
  ASSUME NEW n, NEW L, Good(L, n), NEW t \in Timer, NEW K, Gone(L, K, t)
  PROVE  /\ Good(K, n)
         /\ Right(L) => Right(K)
         /\ WalkOver(L) => WalkOver(K)
         /\ Told(L) => Told(K)
<1>1. /\ K \in LoopData /\ L \in LoopData /\ Linked(L)
      /\ RemovedFrom(K.timers, L.timers, t) /\ RemovedFrom(K.suspended, L.suspended, t)
      /\ \A u \in Timer \ {t} : K.tm[u] = L.tm[u]
      /\ K.tm[t].status \in {"invalid", "freed"}
  BY DEF Gone, Good
<1>2. /\ Range(K.timers) = Range(L.timers) \ {t} /\ Range(K.suspended) = Range(L.suspended) \ {t}
      /\ IsInjective(K.timers) /\ IsInjective(K.suspended)
  BY <1>1 DEF RemovedFrom
<1>3. Listed(L) \subseteq Timer /\ L.current \in Timer \cup {None}
  BY <1>1, ListedTimers DEF LoopData
<1>4. Linked(K)
  BY <1>1, <1>2, <1>3 DEF Linked, Listed, Live, Tm
<1>5. AllTimed(K, n)
  BY <1>1 DEF Good, AllTimed, Timed
<1>6. CurrentThere(K)
  <2>1. CASE K.current = t
    BY <2>1 DEF Gone, CurrentThere, There
  <2>2. CASE K.current # t
    BY <1>1, <1>3, <2>2 DEF Gone, Good, CurrentThere, There
  <2> QED BY <2>1, <2>2
<1>7. WalkOver(L) => WalkOver(K)
  BY <1>1, <1>3 DEF Gone, WalkOver, Live, Tm
<1>8. Told(L) => Told(K)
  BY <1>1, <1>2, <1>3 DEF Gone, Told, Listed
<1>9. ASSUME Right(L) PROVE Right(K)
  <2>1. Whole(L, LiveIn(L)) /\ CurrentRuns(L)
    BY <1>9 DEF Right
  <2>2. LiveIn(K) = LiveIn(L) \ {t}
    BY <1>1 DEF LiveIn, Live, Tm
  <2>3. Sorted(K)
    <3>1. InOrderBut(L.tm, L.timers, t)
      BY <2>1 DEF Whole, Sorted, InOrderBut, Tm
    <3>2. InOrder(L.tm, K.timers)
      BY <1>1, <3>1, RemovedInOrder
    <3>3. \A i \in DOMAIN K.timers : K.timers[i] \in Timer \ {t}
      BY <1>2, <1>3 DEF Listed, Range
    <3> QED BY <1>1, <3>2, <3>3 DEF Sorted, InOrder, Tm
  <2>4. Whole(K, LiveIn(K))
    BY <1>1, <1>2, <1>3, <2>1, <2>2, <2>3 DEF Whole, Listed
  <2>5. CurrentRuns(K)
    BY <1>1, <1>2, <1>3, <2>1 DEF Gone, CurrentRuns, Live, Tm
  <2> QED BY <2>4, <2>5 DEF Right
<1> QED BY <1>1, <1>4, <1>5, <1>6, <1>7, <1>8, <1>9 DEF Good

LEMMA BlankTyped ==
  ASSUME NEW status \in {"invalid", "freed"}
  PROVE  Blank(status) \in TimerData /\ Blank(status).status = status
  BY DEF Blank, TimerData

LEMMA DestroyRight ==
  ASSUME NEW n, NEW L, Good(L, n), NEW t \in Timer, t \notin Listed(L)
  PROVE  /\ Gone(L, Destroy(L, t), t) /\ Destroy(L, t).current # t
         /\ \A u \in Timer \ {t} : Destroy(L, t).tm[u] = L.tm[u]
         /\ Destroy(L, t).tm[t].status = "freed"
<1> DEFINE C == LoopClear(L, t)
           K == Destroy(L, t)
<1>1. /\ C \in LoopData /\ C.tm = L.tm /\ C.timers_added = L.timers_added
      /\ RemovedFrom(C.timers, L.timers, t) /\ RemovedFrom(C.suspended, L.suspended, t)
      /\ C.current = IF L.current = t THEN None ELSE L.current
  BY LoopClearRight, NextRight DEF Good
<1>2. K = With(C, t, Blank("freed"))
  BY DEF Destroy, With
<1> HIDE DEF C, K
<1>3. Differs(C, K, t, Blank("freed"))
  BY <1>1, <1>2, BlankTyped, WithRight
<1>4. None # t
  BY TimerAssumption DEF Timer
<1>5. K.current = C.current /\ K.current # t
  BY <1>1, <1>3, <1>4 DEF Differs
<1>6. K.tm[t].status = "freed"
  BY <1>3, BlankTyped DEF Differs
<1>7. Gone(L, K, t)
  BY <1>1, <1>3, <1>5, <1>6 DEF Differs, Gone
<1> QED BY <1>1, <1>3, <1>5, <1>6, <1>7 DEF Differs, K

LEMMA DelRight ==
  ASSUME TimersInv, NEW t \in Timer, Live(ld, t)
  PROVE  /\ Handled(Del(ld, t)) /\ ~Live(Del(ld, t), t)
         /\ \A u \in Timer \ {t} : Del(ld, t).tm[u] = ld.tm[u]
<1> DEFINE U == Unlinked(ld, t)
           I == [Unlinked(ld, t) EXCEPT !.tm[t] = Blank("invalid")]
           K == Del(ld, t)
<1>1. Good(ld, now) /\ ld \in LoopData /\ Linked(ld)
  BY DEF TimersInv, Base, Good
<1>2. /\ U \in LoopData /\ U.tm = ld.tm /\ U.current = ld.current /\ U.timers_added = ld.timers_added
      /\ RemovedFrom(U.timers, ld.timers, t) /\ RemovedFrom(U.suspended, ld.suspended, t)
  BY <1>1, UnlinkedRight
<1>3. I = With(U, t, Blank("invalid"))
  BY DEF With
<1>4. K = IF t \in Called THEN I ELSE Destroy(I, t)
  BY DEF Del
<1> HIDE DEF U, I, K
<1>5. Differs(U, I, t, Blank("invalid"))
  BY <1>2, <1>3, BlankTyped, WithRight
<1>6. I.tm[t].status = "invalid"
  BY <1>5, BlankTyped DEF Differs
<1>7. Gone(ld, I, t)
  BY <1>2, <1>5, <1>6 DEF Differs, Gone
<1>8. Good(I, now)
  BY <1>1, <1>7, GoneRight
<1>9. Told(ld) => Told(I)
  BY <1>1, <1>7, GoneRight
<1>10. t \notin Listed(I)
  BY <1>2, <1>5 DEF Differs, RemovedFrom, Listed
<1>11. /\ Gone(I, Destroy(I, t), t) /\ Destroy(I, t).tm[t].status = "freed"
       /\ \A u \in Timer \ {t} : Destroy(I, t).tm[u] = I.tm[u]
  BY <1>8, <1>10, DestroyRight
<1>12. /\ Good(K, now)
       /\ Right(ld) => Right(K)
       /\ WalkOver(ld) => WalkOver(K)
       /\ Told(ld) => Told(K)
  <2>1. CASE t \in Called
    BY <1>1, <1>4, <1>7, <2>1, GoneRight
  <2>2. CASE t \notin Called
    <3>1. /\ Good(K, now)
          /\ Right(I) => Right(K)
          /\ WalkOver(I) => WalkOver(K)
          /\ Told(I) => Told(K)
      BY <1>4, <1>8, <1>11, <2>2, GoneRight
    <3>2. Right(ld) => Right(I)
      BY <1>1, <1>7, GoneRight
    <3>3. WalkOver(ld) => WalkOver(I)
      BY <1>1, <1>7, GoneRight
    <3> QED BY <1>9, <3>1, <3>2, <3>3
  <2> QED BY <2>1, <2>2
<1>13. \A u \in Timer \ {t} : K.tm[u] = ld.tm[u]
  BY <1>2, <1>4, <1>5, <1>11 DEF Differs
<1>14. K.tm[t].status = IF t \in Called THEN "invalid" ELSE "freed"
  BY <1>4, <1>6, <1>11
<1>15. Called \subseteq Timer
  BY RunTyped DEF TimersInv, Base
<1>16. ASSUME NEW u \in Called PROVE There(K, u)
  <2>1. PICK k \in DOMAIN run : u = run[k].timer /\ u # None
    BY DEF Called
  <2>2. There(ld, u)
    BY <2>1 DEF TimersInv, Base, Stack
  <2> QED BY <1>13, <1>14, <1>15, <2>2 DEF There
<1>17. ~Live(K, t)
  BY <1>14 DEF Live, Tm
<1>18. \A u \in Timer : Passed(ld.tm[u]) => Passed(K.tm[u])
  BY <1>13, <1>17 DEF Passed, Live, Tm
<1>19. \A u \in Timer : Hears(ld.tm[u]) => Hears(K.tm[u])
  BY <1>13, <1>17 DEF Hears, Live, Tm
<1>20. Handled(K)
  BY <1>12, <1>15, <1>16, <1>18, <1>19 DEF Handled
<1> QED BY <1>13, <1>17, <1>20 DEF K

(* What is known of a live timer.                                          *)
LEMMA LiveTimer ==
  ASSUME TimersInv, NEW t \in Timer, Live(ld, t)
  PROVE  /\ ld \in LoopData /\ Good(ld, now) /\ now \in Nat /\ loop_time \in Nat
         /\ 1 <= loop_time /\ loop_time <= now
         /\ ld.tm[t] \in TimerData /\ ld.tm[t].status = "alive"
         /\ IF ld.tm[t].frozen THEN ld.tm[t].at >= 0 /\ ld.tm[t].pending + now >= 1
            ELSE ld.tm[t].at >= 1
<1>1. ld \in LoopData /\ Good(ld, now) /\ AllTimed(ld, now) /\ Types
  BY DEF TimersInv, Base, Good
<1> QED BY <1>1 DEF LoopData, AllTimed, Timed, Live, Tm, Types

LEMMA DelNowStep ==
  ASSUME TimersInv, NEW t \in Timer, DelNow(t) PROVE TimersInv'
  BY DelRight, HandledKeeps, UserCodeRuns DEF DelNow, Call, Change

LEMMA DelLaterStep ==
  ASSUME TimersInv, NEW t \in Timer, DelLater(t) PROVE TimersInv'
<1> DEFINE m == [ld.tm[t] EXCEPT !.delete_me = TRUE]
<1>1. /\ Live(ld, t) /\ UserCode /\ UNCHANGED <<run, now, loop_time, wake>>
      /\ ld' = [ld EXCEPT !.tm[t].delete_me = TRUE]
  BY DEF DelLater, Call, Change
<1>2. ld' = With(ld, t, m)
  BY <1>1, LiveTimer DEF LoopData, With
<1>3. /\ m \in TimerData /\ m.status = ld.tm[t].status /\ m.at = ld.tm[t].at
      /\ m.listening = ld.tm[t].listening /\ m.pending = ld.tm[t].pending
      /\ m.frozen <=> ld.tm[t].frozen
      /\ m.just_added <=> ld.tm[t].just_added
  BY <1>1, LiveTimer DEF TimerData
<1> HIDE DEF m
<1>4. Differs(ld, ld', t, m)
  <2>1. ld \in LoopData
    BY <1>1, LiveTimer
  <2>2. Differs(ld, With(ld, t, m), t, m)
    BY <1>3, <2>1, WithRight
  <2> QED BY <1>2, <2>2
<1>5. Timed(m, now)
  BY <1>1, <1>3, LiveTimer DEF Timed
<1>6. Handled(ld')
  BY <1>3, <1>4, <1>5, DataHandled DEF Differs
<1> QED BY <1>1, <1>6, HandledKeeps, UserCodeRuns

LEMMA SetIntervalStep ==
  ASSUME TimersInv, NEW t \in Timer, NEW in \in Interval, SetInterval(t, in) PROVE TimersInv'
<1> DEFINE m == [ld.tm[t] EXCEPT !.in = in]
<1>1. /\ Live(ld, t) /\ UserCode /\ UNCHANGED <<run, now, loop_time, wake>>
      /\ ld' = [ld EXCEPT !.tm[t].in = in] /\ in \in Nat
  BY TimerAssumption DEF SetInterval, Call, Change
<1>2. ld' = With(ld, t, m)
  BY <1>1, LiveTimer DEF LoopData, With
<1>3. /\ m \in TimerData /\ m.status = ld.tm[t].status /\ m.at = ld.tm[t].at
      /\ m.listening = ld.tm[t].listening /\ m.pending = ld.tm[t].pending
      /\ m.frozen <=> ld.tm[t].frozen
      /\ m.just_added <=> ld.tm[t].just_added
  BY <1>1, LiveTimer DEF TimerData
<1> HIDE DEF m
<1>4. Differs(ld, ld', t, m)
  <2>1. ld \in LoopData
    BY <1>1, LiveTimer
  <2>2. Differs(ld, With(ld, t, m), t, m)
    BY <1>3, <2>1, WithRight
  <2> QED BY <1>2, <2>2
<1>5. Timed(m, now)
  BY <1>1, <1>3, LiveTimer DEF Timed
<1>6. Handled(ld')
  BY <1>3, <1>4, <1>5, DataHandled DEF Differs
<1> QED BY <1>1, <1>6, HandledKeeps, UserCodeRuns

LEMMA UtilDelayRight ==
  ASSUME TimersInv, NEW t \in Timer, Live(ld, t), NEW add \in Int,
         IF ld.tm[t].frozen THEN ld.tm[t].pending + add + now >= 1 ELSE ld.tm[t].at + add >= 1
  PROVE  Handled(UtilDelay(ld, t, add))
<1> DEFINE K == UtilDelay(ld, t, add)
           m == [ld.tm[t] EXCEPT !.pending = @ + add]
<1>1. /\ ld \in LoopData /\ now \in Nat /\ ld.tm[t] \in TimerData /\ ld.tm[t].status = "alive"
      /\ ld.tm[t].at \in Int
  BY LiveTimer DEF TimerData
<1>2. CASE ld.tm[t].frozen
  <2>1. K = With(ld, t, m)
    BY <1>1, <1>2 DEF LoopData, With, UtilDelay, Tm
  <2>2. /\ m \in TimerData /\ m.status = ld.tm[t].status /\ m.at = ld.tm[t].at
        /\ m.listening = ld.tm[t].listening /\ m.pending = ld.tm[t].pending + add
        /\ m.frozen <=> ld.tm[t].frozen
        /\ m.just_added <=> ld.tm[t].just_added
    BY <1>1 DEF TimerData
  <2> HIDE DEF m, K
  <2>3. Differs(ld, K, t, m)
    BY <1>1, <2>1, <2>2, WithRight
  <2>4. Timed(m, now)
    BY <1>1, <1>2, <2>2, LiveTimer DEF Timed
  <2> QED BY <2>2, <2>3, <2>4, DataHandled DEF Differs, K
<1>3. CASE ~ld.tm[t].frozen
  <2>1. K = TimerSet(ld, t, ld.tm[t].at + add)
    BY <1>3 DEF UtilDelay, Tm
  <2> HIDE DEF K
  <2>2. ld.tm[t].at + add \in Int
    BY <1>1
  <2> QED BY <1>1, <1>3, <2>1, <2>2, SetHandled DEF K
<1> QED BY <1>2, <1>3

LEMMA DelayStep ==
  ASSUME TimersInv, NEW t \in Timer, NEW add \in Interval, Delay(t, add) PROVE TimersInv'
<1>1. /\ Live(ld, t) /\ UserCode /\ UNCHANGED <<run, now, loop_time, wake>>
      /\ ld' = UtilDelay(ld, t, add) /\ add \in Nat
  BY TimerAssumption DEF Delay, Call, Change
<1>2. ld.tm[t].at \in Int /\ ld.tm[t].pending \in Int /\ now \in Nat
  BY <1>1, LiveTimer DEF TimerData
<1>3. IF ld.tm[t].frozen THEN ld.tm[t].pending + add + now >= 1 ELSE ld.tm[t].at + add >= 1
  BY <1>1, <1>2, LiveTimer
<1>4. Handled(ld')
  BY <1>1, <1>3, UtilDelayRight
<1> QED BY <1>1, <1>4, HandledKeeps, UserCodeRuns

LEMMA ResetStep ==
  ASSUME TimersInv, NEW t \in Timer, Reset(t, now) \/ Reset(t, loop_time) PROVE TimersInv'
<1>1. PICK time \in {now, loop_time} : Reset(t, time)
  OBVIOUS
<1> DEFINE add == ld.tm[t].in - (IF ld.tm[t].frozen THEN ld.tm[t].pending ELSE ld.tm[t].at - time)
<1>2. /\ Live(ld, t) /\ UserCode /\ UNCHANGED <<run, now, loop_time, wake>>
      /\ ld' = UtilDelay(ld, t, add)
  BY <1>1 DEF Reset, Call, Change, Tm
<1>3. ld.tm[t].at \in Int /\ ld.tm[t].pending \in Int /\ ld.tm[t].in \in Nat
  BY <1>2, LiveTimer DEF TimerData
<1>4. now \in Nat /\ time \in Nat /\ 1 <= time /\ 1 <= now
  BY <1>2, LiveTimer
<1>5. add \in Int
  BY <1>3, <1>4
<1>6. IF ld.tm[t].frozen THEN ld.tm[t].pending + add + now >= 1 ELSE ld.tm[t].at + add >= 1
  BY <1>3, <1>4
<1> HIDE DEF add
<1>7. Handled(ld')
  BY <1>2, <1>5, <1>6, UtilDelayRight
<1> QED BY <1>2, <1>7, HandledKeeps, UserCodeRuns

(* Where a live timer belongs is looked at again.                          *)
LEMMA PlaceAgain ==
  ASSUME TimersInv, NEW t \in Timer, Live(ld, t), NEW M, M \in LoopData,
         M.current = ld.current, M.timers_added <=> ld.timers_added,
         \A u \in Timer \ {t} : M.tm[u] = ld.tm[u],
         M.timers = ld.timers \/ RemovedFrom(M.timers, ld.timers, t),
         M.suspended = ld.suspended \/ RemovedFrom(M.suspended, ld.suspended, t),
         M.tm[t].status = "alive", Timed(M.tm[t], now), Passed(ld.tm[t]) => Passed(M.tm[t]),
         Unmuted /\ t \in Called => M.tm[t].listening = ld.tm[t].listening,
         MutedInTime /\ Right(ld) /\ Told(ld) /\ ~ld.timers_added /\ Runs(M.tm[t])
           => ~M.tm[t].just_added
  PROVE  Handled(Instanciate(M, t))
<1>1. Good(ld, now) /\ now \in Nat /\ ld.tm[t].status = "alive"
  BY LiveTimer
<1>2. Live(M, t)
  BY DEF Live, Tm
<1>3. Touched(ld, M, t)
  BY <1>1, <1>2, TouchedBy
<1>4. Placed(ld, Instanciate(M, t), M, t, now)
  BY <1>1, <1>2, <1>3, PlacedRight
<1> QED BY <1>2, <1>3, <1>4, PlacedHandled

(* A live timer that is new while nobody is told of it is in no list of    *)
(* running timers.                                                         *)
LEMMA NewRuns ==
  ASSUME TimersInv, NEW t \in Timer, Live(ld, t), Right(ld), Told(ld), ~ld.timers_added,
         Runs(ld.tm[t])
  PROVE  ~ld.tm[t].just_added
<1>1. t \in LiveIn(ld)
  BY DEF LiveIn
<1>2. t \in Range(ld.timers)
  BY <1>1 DEF Right, Whole, Listed
<1> QED BY <1>2 DEF Told

Frost(x, p, a) == [x EXCEPT !.pending = p, !.at = a, !.frozen = TRUE]

LEMMA FrostRight ==
  ASSUME NEW x \in TimerData, NEW p \in Int, NEW a \in Int
  PROVE  /\ Frost(x, p, a) \in TimerData
         /\ Frost(x, p, a).status = x.status /\ Frost(x, p, a).at = a
         /\ Frost(x, p, a).pending = p /\ Frost(x, p, a).listening = x.listening
         /\ Frost(x, p, a).frozen
<1>1. Frost(x, p, a) \in TimerData
  BY DEF TimerData, Frost
<1>2. /\ Frost(x, p, a).status = x.status /\ Frost(x, p, a).at = a
      /\ Frost(x, p, a).pending = p /\ Frost(x, p, a).listening = x.listening
      /\ Frost(x, p, a).frozen
  BY DEF TimerData, Frost
<1> QED BY <1>1, <1>2

LEMMA FreezeStep ==
  ASSUME TimersInv, NEW t \in Timer, Freeze(t) PROVE TimersInv'
<1> DEFINE l == [ld.tm[t] EXCEPT !.freezes = @ + 1]
           L == With(ld, t, l)
           m == Frost(l, l.at - loop_time, 0)
           M == With(L, t, m)
           Froze(K) == IF Tm(K, t).frozen THEN K
                       ELSE Instanciate([K EXCEPT !.tm[t].pending = Tm(K, t).at - loop_time,
                                                  !.tm[t].at = 0, !.tm[t].frozen = TRUE], t)
<1>1. /\ Live(ld, t) /\ UserCode /\ UNCHANGED <<run, now, loop_time, wake>>
      /\ ld' = Froze([ld EXCEPT !.tm[t].freezes = @ + 1])
  BY DEF Freeze, Call, Change
<1>2. /\ ld \in LoopData /\ ld.tm[t] \in TimerData /\ ld.tm[t].status = "alive"
      /\ now \in Nat /\ loop_time \in Nat /\ loop_time <= now
  BY <1>1, LiveTimer
<1>3. L = [ld EXCEPT !.tm[t].freezes = @ + 1]
  BY <1>2 DEF LoopData, With
<1>4. /\ l \in TimerData /\ l.status = "alive" /\ l.at = ld.tm[t].at
      /\ l.listening = ld.tm[t].listening /\ l.pending = ld.tm[t].pending
      /\ l.frozen <=> ld.tm[t].frozen
      /\ l.just_added <=> ld.tm[t].just_added
  BY <1>2 DEF TimerData
<1> HIDE DEF l
<1>5. Differs(ld, L, t, l)
  BY <1>2, <1>4, WithRight
<1> HIDE DEF L
<1>6. L \in LoopData /\ L.tm[t] = l
  BY <1>5 DEF Differs
<1>7. M = [L EXCEPT !.tm[t].pending = L.tm[t].at - loop_time, !.tm[t].at = 0, !.tm[t].frozen = TRUE]
  BY <1>6 DEF LoopData, With, Frost
<1>8. m \in TimerData /\ m.status = "alive" /\ m.at = 0 /\ m.pending = l.at - loop_time
      /\ m.frozen /\ m.listening = l.listening
  <2>1. l.at - loop_time \in Int
    BY <1>2, <1>4 DEF TimerData
  <2> DEFINE p == l.at - loop_time
  <2>2. l \in TimerData /\ p \in Int /\ 0 \in Int
    BY <1>4, <2>1
  <2>3. m = Frost(l, p, 0)
    OBVIOUS
  <2> HIDE DEF p, m
  <2>4. /\ Frost(l, p, 0) \in TimerData
        /\ Frost(l, p, 0).status = l.status /\ Frost(l, p, 0).at = 0
        /\ Frost(l, p, 0).pending = p /\ Frost(l, p, 0).listening = l.listening
        /\ Frost(l, p, 0).frozen
    BY <2>2, FrostRight
  <2> QED BY <1>4, <2>3, <2>4 DEF p
<1> HIDE DEF m
<1>9. Differs(L, M, t, m)
  BY <1>6, <1>8, WithRight
<1> HIDE DEF M
<1>10. ld' = IF l.frozen THEN L ELSE Instanciate(M, t)
  <2>1. ld' = Froze(L)
    <3> HIDE DEF Froze
    <3> QED BY <1>1, <1>3
  <2> QED BY <1>6, <1>7, <2>1 DEF Tm
<1>11. CASE l.frozen
  <2>1. Timed(l, now)
    BY <1>1, <1>4, <1>11, LiveTimer DEF Timed
  <2>2. Handled(L)
    BY <1>2, <1>4, <1>5, <2>1, DataHandled DEF Differs
  <2> QED BY <1>1, <1>10, <1>11, <2>2, HandledKeeps, UserCodeRuns
<1>12. CASE ~l.frozen
  <2>1. l.at \in Nat /\ l.at >= 1
    BY <1>1, <1>4, <1>12, LiveTimer DEF TimerData
  <2>2. m.pending + now >= 1
    BY <1>2, <1>8, <2>1
  <2>3. Timed(m, now)
    BY <1>8, <2>2 DEF Timed
  <2>4. Passed(m) /\ ~Runs(m)
    BY <1>8 DEF Passed, Runs
  <2>5. /\ M \in LoopData /\ M.current = ld.current /\ (M.timers_added <=> ld.timers_added)
        /\ \A u \in Timer \ {t} : M.tm[u] = ld.tm[u]
        /\ M.timers = ld.timers /\ M.suspended = ld.suspended /\ M.tm[t] = m
    BY <1>5, <1>9 DEF Differs
  <2>6. Handled(Instanciate(M, t))
    BY <1>1, <1>4, <1>8, <2>3, <2>4, <2>5, PlaceAgain
  <2> QED BY <1>1, <1>10, <1>12, <2>6, HandledKeeps, UserCodeRuns
<1> QED BY <1>11, <1>12

LEMMA ThawStep ==
  ASSUME TimersInv, NEW t \in Timer, Thaw(t) PROVE TimersInv'
<1> DEFINE l == [ld.tm[t] EXCEPT !.freezes = @ - 1]
           L == With(ld, t, l)
           N == [L EXCEPT !.tm[t].frozen = FALSE, !.suspended = RemoveFirst(@, t)]
           at == l.pending + now
           Thawed(K) == IF ~Tm(K, t).frozen THEN K
                        ELSE TimerSet([K EXCEPT !.tm[t].frozen = FALSE,
                                                !.suspended = RemoveFirst(@, t)],
                                      t, Tm(K, t).pending + now)
<1>1. /\ Live(ld, t) /\ UserCode /\ UNCHANGED <<run, now, loop_time, wake>>
      /\ ld.tm[t].freezes > 0
      /\ ld' = Thawed([ld EXCEPT !.tm[t].freezes = @ - 1])
  BY DEF Thaw, Call, Change, Tm
<1>2. /\ ld \in LoopData /\ ld.tm[t] \in TimerData /\ ld.tm[t].status = "alive"
      /\ now \in Nat /\ Linked(ld)
  BY <1>1, LiveTimer DEF Good
<1>3. L = [ld EXCEPT !.tm[t].freezes = @ - 1]
  BY <1>2 DEF LoopData, With
<1>4. /\ l \in TimerData /\ l.status = "alive" /\ l.at = ld.tm[t].at
      /\ l.listening = ld.tm[t].listening /\ l.pending = ld.tm[t].pending
      /\ l.frozen <=> ld.tm[t].frozen
      /\ l.just_added <=> ld.tm[t].just_added
  BY <1>1, <1>2 DEF TimerData
<1> HIDE DEF l
<1>5. Differs(ld, L, t, l)
  BY <1>2, <1>4, WithRight
<1> HIDE DEF L
<1>6. L \in LoopData /\ L.tm[t] = l
  BY <1>5 DEF Differs
<1>7. ld' = IF ~l.frozen THEN L ELSE TimerSet(N, t, at)
  <2>1. ld' = Thawed(L)
    <3> HIDE DEF Thawed
    <3> QED BY <1>1, <1>3
  <2> QED BY <1>6, <2>1 DEF Tm
<1>8. CASE ~l.frozen
  <2>1. Timed(l, now)
    BY <1>1, <1>4, <1>8, LiveTimer DEF Timed
  <2>2. Handled(L)
    BY <1>2, <1>4, <1>5, <2>1, DataHandled DEF Differs
  <2> QED BY <1>1, <1>7, <1>8, <2>2, HandledKeeps, UserCodeRuns
<1>9. CASE l.frozen
  <2> DEFINE m == [l EXCEPT !.frozen = FALSE]
             K == With(L, t, m)
  <2>1. m \in TimerData /\ m.status = "alive" /\ ~m.frozen /\ m.listening = l.listening
    BY <1>4 DEF TimerData
  <2>2. K = [L EXCEPT !.tm[t].frozen = FALSE]
    BY <1>6 DEF LoopData, With
  <2> HIDE DEF m
  <2>3. Differs(L, K, t, m)
    BY <1>6, <2>1, WithRight
  <2> HIDE DEF K
  <2>4. K.suspended = ld.suspended /\ ld.suspended \in Seq(Timer) /\ IsInjective(ld.suspended)
    BY <1>2, <1>5, <2>3 DEF Differs, LoopData, Linked
  <2>5. N = [K EXCEPT !.suspended = RemoveFirst(@, t)]
    BY <2>2
  <2> DEFINE s == RemoveFirst(ld.suspended, t)
  <2>6. s \in Seq(Timer) /\ RemovedFrom(s, ld.suspended, t)
    BY <2>4, RemoveRight
  <2> HIDE DEF s
  <2>7. N = [K EXCEPT !.suspended = s]
    BY <2>4, <2>5 DEF s
  <2> HIDE DEF N
  <2>8. /\ N.timers = K.timers /\ N.suspended = s /\ N.current = K.current
        /\ N.tm = K.tm /\ N \in LoopData
    BY <2>3, <2>6, <2>7 DEF LoopData, Differs
  <2>9. /\ N.timers = ld.timers /\ N.current = ld.current /\ N.tm[t] = m
        /\ \A u \in Timer \ {t} : N.tm[u] = ld.tm[u]
    BY <1>5, <2>3, <2>8 DEF Differs
  <2>10. Live(N, t)
    BY <2>1, <2>9 DEF Live, Tm
  <2>11. at \in Int /\ at >= 1
    BY <1>1, <1>2, <1>4, <1>9, LiveTimer DEF TimerData
  <2>12. Handled(TimerSet(N, t, at))
    BY <1>1, <1>4, <2>1, <2>6, <2>8, <2>9, <2>10, <2>11, SetHandled
  <2> QED BY <1>1, <1>7, <1>9, <2>12, HandledKeeps, UserCodeRuns
<1> QED BY <1>8, <1>9

Heard(x, l) == [x EXCEPT !.listening = l]

LEMMA HeardRight ==
  ASSUME NEW x \in TimerData, NEW l \in {0, 1}
  PROVE  /\ Heard(x, l) \in TimerData
         /\ Heard(x, l).status = x.status /\ Heard(x, l).at = x.at
         /\ Heard(x, l).pending = x.pending /\ Heard(x, l).listening = l
         /\ Heard(x, l).frozen <=> x.frozen
         /\ Heard(x, l).just_added <=> x.just_added
  BY DEF TimerData, Heard

(* Mute and Unmute.                                                        *)
LEMMA ListeningStep ==
  ASSUME TimersInv, NEW t \in Timer, Live(ld, t), NEW l \in {0, 1},
         Unmuted /\ t \in Called => ld.tm[t].listening = l,
         MutedInTime /\ l = 1 /\ ld.tm[t].just_added => ld.timers_added
  PROVE  Handled(Instanciate([ld EXCEPT !.tm[t].listening = l], t))
<1> DEFINE m == Heard(ld.tm[t], l)
           M == With(ld, t, m)
<1>1. ld \in LoopData /\ ld.tm[t] \in TimerData /\ ld.tm[t].status = "alive" /\ Good(ld, now)
  BY LiveTimer
<1>2. M = [ld EXCEPT !.tm[t].listening = l]
  BY <1>1 DEF LoopData, With, Heard
<1>3. /\ m \in TimerData /\ m.status = "alive" /\ m.at = ld.tm[t].at
      /\ m.pending = ld.tm[t].pending /\ m.listening = l
      /\ m.frozen <=> ld.tm[t].frozen
      /\ m.just_added <=> ld.tm[t].just_added
  BY <1>1, HeardRight
<1> HIDE DEF m
<1>4. Differs(ld, M, t, m)
  BY <1>1, <1>3, WithRight
<1> HIDE DEF M
<1>5. Timed(m, now)
  BY <1>3, LiveTimer DEF Timed
<1>6. Passed(ld.tm[t]) => Passed(m)
  BY <1>1, <1>3 DEF Passed
<1>7. MutedInTime /\ ~ld.timers_added /\ Runs(m) => ~m.just_added
  BY <1>3 DEF Runs
<1>8. /\ M \in LoopData /\ M.current = ld.current /\ (M.timers_added <=> ld.timers_added)
      /\ \A u \in Timer \ {t} : M.tm[u] = ld.tm[u]
      /\ M.timers = ld.timers /\ M.suspended = ld.suspended /\ M.tm[t] = m
  BY <1>4 DEF Differs
<1>9. Handled(Instanciate(M, t))
  BY <1>3, <1>5, <1>6, <1>7, <1>8, PlaceAgain
<1> QED BY <1>2, <1>9

LEMMA MuteStep ==
  ASSUME TimersInv, NEW t \in Timer, Mute(t) PROVE TimersInv'
<1>1. /\ Live(ld, t) /\ UserCode /\ UNCHANGED <<run, now, loop_time, wake>>
      /\ ld' = Instanciate([ld EXCEPT !.tm[t].listening = 0], t)
      /\ t \in Called => ~Unmuted
  BY DEF Mute, Call, Change, Unmuted
<1>2. Unmuted => t \notin Called
  BY <1>1
<1>3. PICK l \in {0, 1} : l = 0
  OBVIOUS
<1>6. l = 1 => ld.timers_added
  BY <1>3
<1>4. Handled(Instanciate([ld EXCEPT !.tm[t].listening = l], t))
  BY <1>1, <1>2, <1>6, ListeningStep
<1>5. Handled(ld')
  BY <1>1, <1>3, <1>4
<1> QED BY <1>1, <1>5, HandledKeeps, UserCodeRuns

LEMMA UnmuteStep ==
  ASSUME TimersInv, NEW t \in Timer, Unmute(t) PROVE TimersInv'
<1>1. /\ Live(ld, t) /\ UserCode /\ UNCHANGED <<run, now, loop_time, wake>>
      /\ ld' = Instanciate([ld EXCEPT !.tm[t].listening = 1], t)
      /\ ld.tm[t].listening = 0
      /\ MutedInTime => ~(ld.tm[t].just_added /\ ~ld.timers_added)
  BY DEF Unmute, Call, Change, MutedInTime, Tm
<1>2. Unmuted => t \notin Called
  <2> SUFFICES ASSUME Unmuted, t \in Called PROVE FALSE
    OBVIOUS
  <2>1. PICK k \in DOMAIN run : t = run[k].timer /\ t # None
    BY DEF Called
  <2>2. ld.tm[t].listening = 1
    BY <1>1, <2>1 DEF TimersInv, Sane
  <2> QED BY <1>1, <2>2
<1>3. Handled(ld')
  BY <1>1, <1>2, ListeningStep
<1> QED BY <1>1, <1>3, HandledKeeps, UserCodeRuns

LEMMA ReparentStep ==
  ASSUME TimersInv, NEW t \in Timer, Reparent(t) PROVE TimersInv'
<1> DEFINE M == Unlinked(ld, t)
<1>1. /\ Live(ld, t) /\ UserCode /\ UNCHANGED <<run, now, loop_time, wake>>
      /\ ld' = Instanciate(M, t)
  BY DEF Reparent, Call, Change
<1>2. /\ ld \in LoopData /\ Linked(ld) /\ ld.tm[t].status = "alive" /\ Timed(ld.tm[t], now)
  BY <1>1, LiveTimer DEF Good, Timed
<1>3. /\ M \in LoopData /\ M.tm = ld.tm /\ M.current = ld.current /\ M.timers_added = ld.timers_added
      /\ RemovedFrom(M.timers, ld.timers, t) /\ RemovedFrom(M.suspended, ld.suspended, t)
  BY <1>2, UnlinkedRight
<1> HIDE DEF M
<1>4. Right(ld) /\ Told(ld) /\ ~ld.timers_added /\ Runs(M.tm[t]) => ~M.tm[t].just_added
  BY <1>1, <1>3, NewRuns
<1>5. Handled(Instanciate(M, t))
  BY <1>1, <1>2, <1>3, <1>4, PlaceAgain
<1> QED BY <1>1, <1>5, HandledKeeps, UserCodeRuns

LEMMA UserStep == ASSUME TimersInv, UserOp PROVE TimersInv'
<1>1. PICK t \in Timer :
        \/ \E in \in Interval : Add(t, in, 1) \/ Add(t, in, 0)
        \/ \E in \in Interval : SetInterval(t, in) \/ Delay(t, in)
        \/ DelNow(t) \/ DelLater(t) \/ Reset(t, now) \/ Reset(t, loop_time)
        \/ Freeze(t) \/ Thaw(t) \/ Mute(t) \/ Unmute(t) \/ Reparent(t)
  BY DEF UserOp
<1>2. CASE \E in \in Interval : Add(t, in, 1) \/ Add(t, in, 0)
  BY <1>2, AddStep
<1>3. CASE \E in \in Interval : SetInterval(t, in) \/ Delay(t, in)
  BY <1>3, SetIntervalStep, DelayStep
<1>4. CASE DelNow(t) \/ DelLater(t) \/ Reset(t, now) \/ Reset(t, loop_time)
  BY <1>4, DelNowStep, DelLaterStep, ResetStep
<1>5. CASE Freeze(t) \/ Thaw(t) \/ Mute(t) \/ Unmute(t) \/ Reparent(t)
  BY <1>5, FreezeStep, ThawStep, MuteStep, UnmuteStep, ReparentStep
<1> QED BY <1>1, <1>2, <1>3, <1>4, <1>5

-----------------------------------------------------------------------------
(* The loop around the walk.                                               *)

LEMMA StackOf ==
  ASSUME TimersInv
  PROVE  /\ Len(run) \in Nat \ {0} /\ DOMAIN run = 1 .. Len(run) /\ Len(run) \in DOMAIN run
         /\ Top \in WalkFrame /\ Top = run[Len(run)]
         /\ \A k \in DOMAIN run : run[k] \in WalkFrame
         /\ run \in Seq(WalkFrame) /\ run # <<>>
         /\ now \in Nat /\ loop_time \in Nat /\ 1 <= loop_time /\ loop_time <= now
         /\ Good(ld, now) /\ ld \in LoopData
         /\ MaxBusy \in Nat /\ Prompt
  BY RunTyped, TimerAssumption DEF TimersInv, Base, Types, Good, Top

LEMMA NestStep == ASSUME TimersInv, Nest PROVE TimersInv'
<1> DEFINE f == Frame("turned")
<1>1. /\ Top.phase = "calling" /\ run' = Append(run, f)
      /\ ld' = ld /\ now' = now /\ loop_time' = now /\ wake' = wake
  BY DEF Nest
<1>2. /\ Len(run) \in Nat \ {0} /\ DOMAIN run = 1 .. Len(run) /\ Top = run[Len(run)]
      /\ run \in Seq(WalkFrame) /\ now \in Nat /\ 1 <= now /\ MaxBusy \in Nat
  BY StackOf
<1>3. f \in WalkFrame /\ f.phase = "turned" /\ f.timer = None /\ f.done = {}
  BY DEF Frame, WalkFrame
<1> HIDE DEF f
<1>4. /\ run' \in Seq(WalkFrame) /\ Len(run') = Len(run) + 1 /\ DOMAIN run' = 1 .. Len(run) + 1
      /\ run'[Len(run) + 1] = f /\ \A k \in 1 .. Len(run) : run'[k] = run[k]
  BY <1>1, <1>2, <1>3, AppendProperties
<1>5. run' # <<>>
  BY <1>2, <1>4
<1>6. Top' = f
  BY <1>4 DEF Top
<1>7. Types' /\ Prompt'
  BY <1>1, <1>2, <1>4, <1>5 DEF TimersInv, Base, Types, Prompt
<1>8. Stack'
  <2> SUFFICES ASSUME NEW k \in DOMAIN run'
               PROVE  /\ run'[k].phase = "calling" => run'[k].timer # None
                      /\ run'[k].phase # "calling" => run'[k].timer = None /\ k = Len(run')
                      /\ run'[k].timer # None => There(ld, run'[k].timer)
    BY <1>1 DEF Stack
  <2>1. CASE k = Len(run) + 1
    BY <1>3, <1>4, <2>1
  <2>2. CASE k \in 1 .. Len(run)
    <3>1. run[k].phase = "calling"
      BY <1>1, <1>2, <2>2 DEF TimersInv, Base, Stack
    <3> QED BY <1>2, <1>4, <2>2, <3>1 DEF TimersInv, Base, Stack
  <2> QED BY <1>2, <1>4, <2>1, <2>2
<1>9. ASSUME Unmuted PROVE Sane'
  <2> SUFFICES ASSUME NEW k \in DOMAIN run'
               PROVE  /\ run'[k].timer # None /\ Live(ld, run'[k].timer)
                           => ld.tm[run'[k].timer].listening = 1
                      /\ run'[k].timer \notin run'[k].done
    BY <1>1, <1>3, <1>6, <1>9 DEF TimersInv, Sane
  <2>1. CASE k = Len(run) + 1
    BY <1>3, <1>4, <2>1
  <2>2. CASE k \in 1 .. Len(run)
    BY <1>2, <1>4, <1>9, <2>2 DEF TimersInv, Sane
  <2> QED BY <1>2, <1>4, <2>1, <2>2
<1>10. ASSUME Unmuted, MutedInTime PROVE Awake'
  BY <1>1, <1>3, <1>6, <1>10 DEF TimersInv, Awake, NoOversleep
<1> QED BY <1>1, <1>7, <1>8, <1>9, <1>10 DEF TimersInv, Base

LEMMA PassStep == ASSUME TimersInv, Pass PROVE TimersInv'
<1>1. /\ now' = now + 1 /\ UNCHANGED <<ld, run, loop_time, wake>>
      /\ Top.phase = "asleep" \/ now - loop_time < MaxBusy
  BY DEF Pass
<1>2. now \in Nat /\ loop_time \in Nat /\ loop_time <= now /\ MaxBusy \in Nat
  BY StackOf
<1>3. AllTimed(ld, now + 1)
  <2>1. AllTimed(ld, now) /\ ld \in LoopData
    BY DEF TimersInv, Base, Good
  <2>2. \A m \in TimerData : Timed(m, now) => Timed(m, now + 1)
    BY <1>2 DEF TimerData, Timed
  <2>3. \A u \in Timer : ld.tm[u] \in TimerData
    BY <2>1 DEF LoopData
  <2> QED BY <2>1, <2>2, <2>3 DEF AllTimed
<1>4. Types' /\ Prompt'
  <2>1. Top' = Top
    BY <1>1 DEF Top
  <2> QED BY <1>1, <1>2, <2>1 DEF TimersInv, Base, Types, Prompt
<1>5. Good(ld', now')
  BY <1>1, <1>3 DEF TimersInv, Base, Good
<1>6. Stack'
  BY <1>1 DEF TimersInv, Base, Stack
<1>7. Sane' <=> Sane
  BY <1>1 DEF Sane, Top
<1>8. Awake' <=> Awake
  BY <1>1 DEF Awake, NoOversleep, Top
<1> QED BY <1>4, <1>5, <1>6, <1>7, <1>8 DEF TimersInv, Base

(* All running timers are enabled, if the loop was told of those that are  *)
(* not.                                                                    *)
LEMMA EnableNewRight ==
  ASSUME NEW n, NEW L, Good(L, n)
  PROVE  /\ SameIn(L, EnableNew(L)) /\ SameFor(L, EnableNew(L), n)
         /\ Told(L) => \A u \in Range(L.timers) : ~EnableNew(L).tm[u].just_added
<1> DEFINE K == EnableNew(L)
           tm == [t \in Timer |-> IF t \in Range(L.timers) THEN [L.tm[t] EXCEPT !.just_added = FALSE]
                                  ELSE L.tm[t]]
<1>1. L \in LoopData /\ L.tm \in [Timer -> TimerData] /\ Range(L.timers) \subseteq Timer
  BY ListedTimers DEF Good, LoopData, Listed
<1>2. CASE ~L.timers_added
  <2>1. K = L
    BY <1>2 DEF EnableNew
  <2>2. SameIn(L, L)
    BY <1>1 DEF SameIn
  <2>3. SameFor(L, L, n)
    BY DEF SameFor
  <2>4. Told(L) => \A u \in Range(L.timers) : ~L.tm[u].just_added
    BY <1>2 DEF Told
  <2> QED BY <2>1, <2>2, <2>3, <2>4
<1>3. CASE L.timers_added
  <2>1. K = [L EXCEPT !.timers_added = FALSE, !.tm = tm]
    BY <1>1, <1>3 DEF EnableNew
  <2>2. ASSUME NEW x \in TimerData
        PROVE  LET y == [x EXCEPT !.just_added = FALSE]
               IN /\ y \in TimerData /\ y.status = x.status /\ y.at = x.at /\ y.in = x.in
                  /\ y.pending = x.pending /\ y.listening = x.listening
                  /\ y.frozen <=> x.frozen
                  /\ ~y.just_added
    BY DEF TimerData
  <2>3. ASSUME NEW u \in Timer
        PROVE  /\ tm[u] \in TimerData /\ tm[u].status = L.tm[u].status /\ tm[u].at = L.tm[u].at
               /\ tm[u].pending = L.tm[u].pending /\ tm[u].listening = L.tm[u].listening
               /\ tm[u].frozen <=> L.tm[u].frozen
               /\ u \in Range(L.timers) => ~tm[u].just_added
    <3>1. L.tm[u] \in TimerData
      BY <1>1
    <3>2. CASE u \in Range(L.timers)
      <4>1. tm[u] = [L.tm[u] EXCEPT !.just_added = FALSE]
        BY <3>2
      <4> HIDE DEF tm
      <4> QED BY <2>2, <3>1, <4>1
    <3>3. CASE u \notin Range(L.timers)
      <4>1. tm[u] = L.tm[u]
        BY <3>3
      <4> HIDE DEF tm
      <4> QED BY <3>1, <3>3, <4>1
    <3> QED BY <3>2, <3>3
  <2>4. tm \in [Timer -> TimerData]
    <3>1. tm = [u \in Timer |-> tm[u]]
      OBVIOUS
    <3> HIDE DEF tm
    <3> QED BY <2>3, <3>1
  <2> HIDE DEF tm, K
  <2>5. /\ K.timers = L.timers /\ K.suspended = L.suspended /\ K.current = L.current /\ K.tm = tm
        /\ K \in LoopData
    BY <1>1, <2>1, <2>4 DEF LoopData
  <2>6. SameIn(L, K)
    BY <2>3, <2>5 DEF SameIn
  <2>7. \A u \in Timer : Timed(K.tm[u], n)
    BY <2>3, <2>5 DEF Timed, Good, AllTimed
  <2>8. SameFor(L, K, n)
    BY <2>6, <2>7, SameData
  <2>9. \A u \in Range(L.timers) : ~K.tm[u].just_added
    BY <1>1, <2>3, <2>5
  <2> QED BY <2>6, <2>8, <2>9 DEF K
<1> QED BY <1>2, <1>3

(* r is s with another last element.                                       *)
Replaced(s, r, e) ==
  /\ Len(r) = Len(s) /\ DOMAIN r = 1 .. Len(s) /\ r[Len(s)] = e
  /\ \A k \in 1 .. Len(s) - 1 : r[k] = s[k]

LEMMA LastReplaced ==
  ASSUME NEW S, NEW s \in Seq(S), s # <<>>, NEW e \in S
  PROVE  /\ [s EXCEPT ![Len(s)] = e] \in Seq(S)
         /\ Replaced(s, [s EXCEPT ![Len(s)] = e], e)
<1> DEFINE r == [s EXCEPT ![Len(s)] = e]
<1>1. Len(s) \in 1 .. Len(s) /\ Len(s) \in Nat
  BY EmptySeq
<1>2. /\ r \in Seq(S) /\ Len(r) = Len(s)
      /\ \A j \in 1 .. Len(s) : r[j] = IF j = Len(s) THEN e ELSE s[j]
  BY <1>1, ExceptSeq
<1>3. \A k \in 1 .. Len(s) - 1 : k \in 1 .. Len(s) /\ k # Len(s)
  BY <1>1
<1>4. DOMAIN r = 1 .. Len(s)
  BY <1>2
<1>5. \A k \in 1 .. Len(s) - 1 : r[k] = s[k]
  BY <1>2, <1>3
<1> HIDE DEF r
<1> QED BY <1>1, <1>2, <1>4, <1>5 DEF r, Replaced

(* The innermost loop becomes f.                                           *)
TopBecomes(f) ==
  /\ run' \in Seq(WalkFrame) /\ run' # <<>> /\ Len(run') = Len(run) /\ DOMAIN run' = 1 .. Len(run)
  /\ run'[Len(run)] = f /\ Top' = f
  /\ \A k \in DOMAIN run' :
       k # Len(run) => k \in 1 .. Len(run) - 1 /\ k \in DOMAIN run /\ run'[k] = run[k]

LEMMA TopSet ==
  ASSUME TimersInv, NEW f \in WalkFrame, run' = SetTop(f)
  PROVE  TopBecomes(f)
<1>1. /\ Len(run) \in Nat \ {0} /\ DOMAIN run = 1 .. Len(run)
      /\ run \in Seq(WalkFrame) /\ run # <<>>
  BY StackOf
<1>2. run' = [run EXCEPT ![Len(run)] = f]
  BY DEF SetTop
<1>3. /\ run' \in Seq(WalkFrame) /\ Len(run') = Len(run) /\ DOMAIN run' = 1 .. Len(run)
      /\ run'[Len(run)] = f
      /\ \A k \in 1 .. Len(run) - 1 : run'[k] = run[k]
  <2>1. run' \in Seq(WalkFrame) /\ Replaced(run, run', f)
    <3>1. /\ [run EXCEPT ![Len(run)] = f] \in Seq(WalkFrame)
          /\ Replaced(run, [run EXCEPT ![Len(run)] = f], f)
      BY <1>1, LastReplaced
    <3> QED BY <1>2, <3>1, Zenon
  <2> QED BY <2>1 DEF Replaced
<1>4. run' # <<>> /\ Top' = f
  BY <1>1, <1>3 DEF Top
<1>5. ASSUME NEW k \in DOMAIN run', k # Len(run)
      PROVE  k \in 1 .. Len(run) - 1 /\ k \in DOMAIN run /\ run'[k] = run[k]
  BY <1>1, <1>3, <1>5
<1> QED BY <1>3, <1>4, <1>5 DEF TopBecomes

(* The innermost loop goes on without a timer that it calls.               *)
LEMMA Resting ==
  ASSUME TimersInv, NEW f \in WalkFrame, f.phase \in {"turned", "asleep"}, f.timer = None,
         f.done = {}, run' = SetTop(f), now' = now, SameIn(ld, ld'), SameFor(ld, ld', now),
         f.phase = "asleep" => Top.phase = "walked"
  PROVE  TopBecomes(f) /\ Good(ld', now') /\ Stack' /\ (Unmuted => Sane' /\ Right(ld'))
<1>1. TopBecomes(f)
  BY TopSet
<1>2. Len(run) \in Nat \ {0} /\ Len(run) \in DOMAIN run /\ \A k \in DOMAIN run : run[k] \in WalkFrame
  BY StackOf
<1>3. ASSUME NEW k \in DOMAIN run', k # Len(run)
      PROVE  k \in DOMAIN run /\ run'[k] = run[k] /\ run[k].phase = "calling"
             /\ run[k].timer \in Timer /\ run[k].timer # None /\ There(ld, run[k].timer)
  <2>1. k \in DOMAIN run /\ run'[k] = run[k]
    BY <1>1, <1>3 DEF TopBecomes
  <2>2. run[k].phase = "calling" /\ run[k].timer # None /\ There(ld, run[k].timer)
    BY <1>3, <2>1 DEF TimersInv, Base, Stack
  <2> QED BY <1>2, <2>1, <2>2 DEF WalkFrame
<1>4. Stack'
  <2> SUFFICES ASSUME NEW k \in DOMAIN run'
               PROVE  /\ run'[k].phase = "calling" => run'[k].timer # None
                      /\ run'[k].phase # "calling" => run'[k].timer = None /\ k = Len(run')
                      /\ run'[k].timer # None => There(ld', run'[k].timer)
    BY DEF Stack
  <2>1. CASE k = Len(run)
    BY <1>1, <2>1 DEF TopBecomes
  <2>2. CASE k # Len(run)
    BY <1>3, <2>2 DEF SameIn, There
  <2> QED BY <2>1, <2>2
<1>5. ASSUME Unmuted PROVE Sane' /\ Right(ld')
  <2>1. Right(ld')
    BY <1>5 DEF TimersInv, Sane, SameFor
  <2>2. ASSUME NEW k \in DOMAIN run'
        PROVE  /\ run'[k].timer # None /\ Live(ld', run'[k].timer) => ld'.tm[run'[k].timer].listening = 1
               /\ run'[k].timer \notin run'[k].done
    <3>1. CASE k = Len(run)
      BY <1>1, <3>1 DEF TopBecomes
    <3>2. CASE k # Len(run)
      <4>1. /\ run[k].timer # None /\ Live(ld, run[k].timer) => ld.tm[run[k].timer].listening = 1
            /\ run[k].timer \notin run[k].done
        BY <1>3, <1>5, <3>2 DEF TimersInv, Sane
      <4> QED BY <1>3, <3>2, <4>1 DEF SameIn, Live, Tm
    <3> QED BY <3>1, <3>2
  <2>3. f.phase = "asleep" => WalkOver(ld')
    BY <1>5 DEF TimersInv, Sane, SameFor
  <2> QED BY <1>1, <2>1, <2>2, <2>3 DEF Sane, TopBecomes
<1> QED BY <1>1, <1>4, <1>5 DEF SameFor

(* An inner loop ends, and the tick that ran it goes on.                   *)
LEMMA Popped ==
  ASSUME TimersInv, Len(run) > 1, run' = SubSeq(run, 1, Len(run) - 1), now' = now,
         Top.phase \in {"walked", "asleep"}, SameIn(ld, ld'), SameFor(ld, ld', now)
  PROVE  /\ run' \in Seq(WalkFrame) /\ run' # <<>> /\ Top'.phase = "calling"
         /\ Good(ld', now') /\ Stack' /\ (Unmuted => Sane')
<1>1. /\ Len(run) \in Nat \ {0} /\ DOMAIN run = 1 .. Len(run) /\ Top = run[Len(run)]
      /\ run \in Seq(WalkFrame) /\ now \in Nat /\ 1 <= now /\ Good(ld, now)
      /\ \A k \in DOMAIN run : run[k] \in WalkFrame
  BY StackOf
<1>2. /\ run' \in Seq(WalkFrame) /\ Len(run') = Len(run) - 1 /\ DOMAIN run' = 1 .. Len(run) - 1
      /\ \A k \in 1 .. Len(run) - 1 : run'[k] = run[k]
  <2>1. Len(run) - 1 \in 0 .. Len(run)
    BY <1>1
  <2>2. /\ run' \in Seq(WalkFrame) /\ Len(run') = Len(run) - 1
        /\ \A k \in 1 .. Len(run) - 1 : run'[k] = run[k]
    BY <1>1, <2>1, Piece
  <2> QED BY <2>2
<1>3. run' # <<>> /\ Top' = run[Len(run) - 1] /\ Len(run) - 1 \in DOMAIN run
  <2>1. Len(run') \in DOMAIN run' /\ Len(run') \in DOMAIN run
    BY <1>1, <1>2
  <2>2. Top' = run[Len(run) - 1]
    BY <1>2, <2>1 DEF Top
  <2>3. Len(run') = Len(run) - 1 /\ Len(run') # 0
    BY <1>1, <1>2
  <2>4. run' # <<>>
    BY <2>3
  <2> QED BY <2>1, <2>2, <2>3, <2>4
<1>4. ASSUME NEW k \in DOMAIN run'
      PROVE  k \in DOMAIN run /\ k # Len(run) /\ run'[k] = run[k] /\ run[k].phase = "calling"
             /\ run[k].timer \in Timer /\ There(ld, run[k].timer)
  <2>1. k \in DOMAIN run /\ k # Len(run) /\ run'[k] = run[k]
    BY <1>1, <1>2
  <2>2. run[k].phase = "calling" /\ run[k].timer # None /\ There(ld, run[k].timer)
    BY <2>1 DEF TimersInv, Base, Stack
  <2> QED BY <1>1, <2>1, <2>2 DEF WalkFrame
<1>5. Stack'
  <2>1. \A k \in DOMAIN run' : There(ld', run'[k].timer) /\ run'[k].timer # None
                              /\ run'[k].phase = "calling"
    <3> TAKE k \in DOMAIN run'
    <3>1. /\ run'[k].timer \in Timer /\ There(ld, run'[k].timer)
          /\ run'[k].phase = "calling"
      BY <1>4
    <3>2. run'[k].timer # None
      BY <3>1, TimerAssumption DEF Timer
    <3> QED BY <3>1, <3>2 DEF SameIn, There
  <2> QED BY <2>1 DEF Stack
<1>6. Top'.phase = "calling"
  BY <1>2, <1>3, <1>4
<1>7. ASSUME Unmuted PROVE Sane'
  <2>1. Right(ld) /\ WalkOver(ld)
    BY <1>7 DEF TimersInv, Sane
  <2>2. Right(ld') /\ WalkOver(ld')
    BY <2>1 DEF SameFor
  <2>3. ASSUME NEW k \in DOMAIN run'
        PROVE  /\ Live(ld', run'[k].timer) => ld'.tm[run'[k].timer].listening = 1
               /\ run'[k].timer \notin run'[k].done
    <3>1. /\ run[k].timer # None /\ Live(ld, run[k].timer) => ld.tm[run[k].timer].listening = 1
          /\ run[k].timer \notin run[k].done
      BY <1>4, <1>7 DEF TimersInv, Sane
    <3>2. run[k].timer # None
      BY <1>4, TimerAssumption DEF Timer
    <3> QED BY <1>4, <3>1, <3>2 DEF SameIn, Live, Tm
  <2> QED BY <1>6, <2>2, <2>3 DEF Sane
<1> QED BY <1>2, <1>3, <1>5, <1>6, <1>7 DEF SameFor

LEMMA UnnestStep == ASSUME TimersInv, Unnest PROVE TimersInv'
<1>1. /\ Top.phase = "walked" /\ Len(run) > 1 /\ loop_time' \in {loop_time, now} /\ now' = now
      /\ ld' = EnableNew(ld) /\ run' = SubSeq(run, 1, Len(run) - 1)
  BY DEF Unnest
<1>2. /\ now \in Nat /\ Good(ld, now) /\ loop_time \in Nat /\ 1 <= loop_time /\ loop_time <= now
      /\ MaxBusy \in Nat /\ now - loop_time <= MaxBusy
  BY <1>1, StackOf DEF Prompt
<1>3. SameIn(ld, ld') /\ SameFor(ld, ld', now)
  BY <1>1, <1>2, EnableNewRight
<1>4. /\ run' \in Seq(WalkFrame) /\ run' # <<>> /\ Top'.phase = "calling"
      /\ Good(ld', now') /\ Stack' /\ (Unmuted => Sane')
  BY <1>1, <1>3, Popped
<1>5. Types' /\ Prompt'
  <2>1. loop_time' = loop_time \/ loop_time' = now
    BY <1>1
  <2>2. now' \in Nat /\ loop_time' \in Nat /\ 1 <= loop_time' /\ loop_time' <= now'
    BY <1>1, <1>2, <2>1
  <2>3. now' - loop_time' <= MaxBusy
    <3>1. now - now <= MaxBusy
      BY <1>2
    <3> QED BY <1>1, <1>2, <2>1, <3>1
  <2> QED BY <1>4, <2>2, <2>3 DEF Types, Prompt
<1>6. ASSUME Unmuted, MutedInTime PROVE Awake'
  <2>1. Told(ld)
    BY <1>6 DEF TimersInv, Awake
  <2>2. Told(ld')
    BY <1>1, <1>2, <1>3, <2>1, EnableNewRight DEF Told, SameIn
  <2> QED BY <1>4, <2>2 DEF Awake, NoOversleep
<1> QED BY <1>4, <1>5, <1>6 DEF TimersInv, Base

(* The time to sleep is up to the first timer, or to one that expires at   *)
(* most the precision later, by loop_time.                                 *)
LEMMA NextGetRight ==
  ASSUME NEW n, NEW L, Good(L, n), L.timers # <<>>, \A u \in Range(L.timers) : ~L.tm[u].just_added,
         \A u \in Range(L.timers) : Runs(L.tm[u]), loop_time \in Nat
  PROVE  LET at == Tm(L, L.timers[1]).at
         IN /\ at \in Int /\ NextGet(L) \in Nat
            /\ \/ NextGet(L) = 0
               \/ loop_time + NextGet(L) <= at
               \/ loop_time + NextGet(L) < at + Precision
<1> DEFINE ready == {i \in DOMAIN L.timers : ~Tm(L, L.timers[i]).just_added}
           At(i) == Tm(L, L.timers[i]).at
           first == CHOOSE i \in ready : \A j \in ready : i <= j
           near  == {i \in ready : /\ i >= first
                                   /\ \A j \in first..i : j = first \/ At(j) < At(first) + Precision}
           last == CHOOSE i \in near : \A j \in near : j <= i
<1>1. L.timers \in Seq(Timer) /\ L.tm \in [Timer -> TimerData] /\ L \in LoopData
  BY DEF Good, LoopData
<1>2. DOMAIN L.timers = 1 .. Len(L.timers) /\ Len(L.timers) \in Nat /\ Len(L.timers) # 0
  BY <1>1, EmptySeq
<1>3. ready = 1 .. Len(L.timers) /\ 1 \in ready
  BY <1>2 DEF Tm, Range
<1>4. first = 1
  <2>1. \A i \in ready : (\A j \in ready : i <= j) => i = 1
    BY <1>3
  <2>2. \A j \in ready : 1 <= j
    BY <1>3
  <2> HIDE DEF ready
  <2> QED BY <1>3, <2>1, <2>2
<1>5. \A i \in ready : At(i) \in Int /\ At(i) >= 1
  <2> SUFFICES ASSUME NEW i \in ready PROVE At(i) \in Int /\ At(i) >= 1
    OBVIOUS
  <2>1. L.timers[i] \in Timer /\ L.timers[i] \in Range(L.timers) /\ L.timers[i] \in Listed(L)
    BY <1>1, <1>2, <1>3 DEF Range, Listed
  <2>2. L.tm[L.timers[i]] \in TimerData /\ ~L.tm[L.timers[i]].frozen
        /\ L.tm[L.timers[i]].status = "alive" /\ Timed(L.tm[L.timers[i]], n)
    BY <1>1, <2>1 DEF Good, Linked, Live, Tm, AllTimed, Runs
  <2> QED BY <2>2 DEF TimerData, Timed, Tm
<1>6. NextGet(L) = IF At(last) < loop_time THEN 0 ELSE At(last) - loop_time
  <2>1. ready # {}
    BY <1>3
  <2> QED BY <2>1 DEF NextGet
<1> HIDE DEF At, first
<1>7. near \subseteq ready /\ 1 \in near
  BY <1>3, <1>4
<1>8. last \in near
  <2>1. near \in SUBSET (1 .. Len(L.timers)) /\ near # {}
    BY <1>3, <1>7
  <2>2. \E x \in near : \A y \in near : y <= x
    <3> HIDE DEF near
    <3> QED BY <1>2, <2>1, Greatest
  <2> HIDE DEF near
  <2> QED BY <2>2
<1> HIDE DEF last
<1>9. last = 1 \/ At(last) < At(1) + Precision
  BY <1>3, <1>4, <1>8
<1>10. At(1) \in Int /\ At(last) \in Int /\ (At(last) <= At(1) \/ At(last) < At(1) + Precision)
  BY <1>3, <1>5, <1>7, <1>8, <1>9
<1>11. NextGet(L) \in Nat /\ (NextGet(L) = 0 \/ loop_time + NextGet(L) = At(last))
  BY <1>6, <1>10
<1> QED BY <1>10, <1>11 DEF At

LEMMA SleepStep == ASSUME TimersInv, Sleep PROVE TimersInv'
<1> DEFINE f == Frame("asleep")
<1>1. /\ Top.phase = "walked" /\ loop_time' = loop_time /\ now' = now
      /\ ld' = EnableNew(ld) /\ run' = SetTop(f)
      /\ wake' = IF NextGet(ld') = -1 THEN -1 ELSE now + NextGet(ld')
  BY DEF Sleep
<1>2. /\ now \in Nat /\ Good(ld, now) /\ loop_time \in Nat /\ 1 <= loop_time /\ loop_time <= now
      /\ MaxBusy \in Nat /\ Precision \in Nat /\ now - loop_time <= MaxBusy
  BY <1>1, StackOf, TimerAssumption DEF Prompt
<1>3. f \in WalkFrame /\ f.phase = "asleep" /\ f.timer = None /\ f.done = {}
  BY DEF Frame, WalkFrame
<1> HIDE DEF f
<1>4. SameIn(ld, ld') /\ SameFor(ld, ld', now)
  BY <1>1, <1>2, EnableNewRight
<1>5. TopBecomes(f) /\ Good(ld', now') /\ Stack' /\ (Unmuted => Sane' /\ Right(ld'))
  BY <1>1, <1>3, <1>4, Resting
<1>6. Types' /\ Prompt'
  BY <1>1, <1>2, <1>3, <1>5 DEF Types, Prompt, TopBecomes
<1>7. ASSUME Unmuted, MutedInTime PROVE Awake'
  <2>1. Told(ld)
    BY <1>7 DEF TimersInv, Awake
  <2>2. \A u \in Range(ld'.timers) : ~ld'.tm[u].just_added
    BY <1>1, <1>2, <1>4, <2>1, EnableNewRight DEF SameIn
  <2>3. \A u \in Range(ld'.timers) : Runs(ld'.tm[u])
    BY <1>5, <1>7 DEF Right, Whole
  <2>4. NoOversleep'
    <3> DEFINE at == Tm(ld', ld'.timers[1]).at
               g == NextGet(ld')
    <3> SUFFICES ASSUME ld'.timers # <<>>
                 PROVE  /\ wake' # -1
                        /\ \/ wake' <= loop_time + MaxBusy
                           \/ wake' <= at + MaxBusy
                           \/ wake' < at + Precision + MaxBusy
      BY <1>1 DEF NoOversleep
    <3>1. /\ at \in Int /\ g \in Nat
          /\ g = 0 \/ loop_time + g <= at \/ loop_time + g < at + Precision
      BY <1>2, <1>5, <1>1, <2>2, <2>3, NextGetRight
    <3>2. wake' = IF g = -1 THEN -1 ELSE now + g
      BY <1>1
    <3> HIDE DEF at, g
    <3> QED BY <1>2, <3>1, <3>2
  <2> QED BY <2>2, <2>4 DEF Awake, Told
<1> QED BY <1>5, <1>6, <1>7 DEF TimersInv, Base

LEMMA WakeStep ==
  ASSUME TimersInv, WakeUp \/ WakeEvent PROVE TimersInv'
<1> DEFINE f == Frame("turned")
<1>1. /\ loop_time' = now /\ now' = now /\ ld' = ld /\ Top.phase = "asleep"
      /\ \/ run' = SetTop(f)
         \/ Len(run) > 1 /\ run' = SubSeq(run, 1, Len(run) - 1)
  BY DEF WakeUp, WakeEvent, Woken, Turned
<1>2. now \in Nat /\ 1 <= now /\ Good(ld, now) /\ MaxBusy \in Nat
  BY StackOf
<1>3. f \in WalkFrame /\ f.phase = "turned" /\ f.timer = None /\ f.done = {}
  BY DEF Frame, WalkFrame
<1> HIDE DEF f
<1>4. SameIn(ld, ld') /\ SameFor(ld, ld', now)
  BY <1>1, <1>2 DEF SameIn, SameFor, Good
<1>5. /\ run' \in Seq(WalkFrame) /\ run' # <<>> /\ Top'.phase # "asleep"
      /\ Good(ld', now') /\ Stack' /\ (Unmuted => Sane')
  <2>1. CASE run' = SetTop(f)
    <3>1. TopBecomes(f) /\ Good(ld', now') /\ Stack' /\ (Unmuted => Sane')
      BY <1>1, <1>3, <1>4, <2>1, Resting
    <3> QED BY <1>3, <3>1 DEF TopBecomes
  <2>2. CASE Len(run) > 1 /\ run' = SubSeq(run, 1, Len(run) - 1)
    <3>1. /\ run' \in Seq(WalkFrame) /\ run' # <<>> /\ Top'.phase = "calling"
          /\ Good(ld', now') /\ Stack' /\ (Unmuted => Sane')
      BY <1>1, <1>4, <2>2, Popped
    <3> QED BY <3>1
  <2> QED BY <1>1, <2>1, <2>2
<1>6. Types' /\ Prompt'
  BY <1>1, <1>2, <1>5 DEF Types, Prompt
<1>7. Unmuted /\ MutedInTime => Awake'
  BY <1>1, <1>5 DEF TimersInv, Awake, NoOversleep
<1> QED BY <1>5, <1>6, <1>7 DEF TimersInv, Base

-----------------------------------------------------------------------------
(* The walk.                                                               *)

(* timer_current moves to the next timer.                                  *)
Moved(L) == [L EXCEPT !.current = NextIn(L, @)]

LEMMA MovedRight ==
  ASSUME NEW n, NEW L, Good(L, n), L.current # None
  PROVE  /\ Good(Moved(L), n)
         /\ Right(L) => Right(Moved(L))
         /\ ~Live(L, L.current) => Moved(L).current = None
         /\ Fresh(Moved(L))
         /\ Moved(L).tm = L.tm /\ Moved(L).timers = L.timers /\ Moved(L).suspended = L.suspended
         /\ Told(L) => Told(Moved(L))
<1> DEFINE K == Moved(L)
           next == NextIn(L, L.current)
<1>1. L \in LoopData /\ Linked(L) /\ AllTimed(L, n) /\ CurrentThere(L) /\ None \notin Timer
  BY TimerAssumption DEF Good, Timer
<1>2. /\ next \in {None} \cup (Listed(L) \ {L.current})
      /\ L.current \in Range(L.timers) => next \in {None} \cup (Range(L.timers) \ {L.current})
      /\ L.current \notin Listed(L) => next = None
  BY <1>1, NextRight
<1>3. Listed(L) \subseteq Timer /\ \A u \in Listed(L) : Live(L, u)
  BY <1>1, ListedTimers DEF Linked
<1>4. K = [L EXCEPT !.current = next]
  BY DEF Moved
<1> HIDE DEF next, K
<1>5. /\ K.tm = L.tm /\ K.timers = L.timers /\ K.suspended = L.suspended /\ K.current = next
      /\ K.timers_added = L.timers_added /\ K \in LoopData
  BY <1>1, <1>2, <1>3, <1>4 DEF LoopData
<1>6. Linked(K)
  BY <1>1, <1>5 DEF Linked, Listed, Live, Tm
<1>7. CurrentThere(K)
  BY <1>2, <1>3, <1>5 DEF CurrentThere, There, Live, Tm
<1>8. Good(K, n)
  BY <1>1, <1>5, <1>6, <1>7 DEF Good, AllTimed
<1>9. ASSUME ~Live(L, L.current) PROVE K.current = None
  BY <1>2, <1>3, <1>5, <1>9
<1>10. ASSUME Right(L) PROVE Right(K)
  <2>1. Whole(K, LiveIn(K))
    BY <1>5, <1>10 DEF Right, Whole, LiveIn, Listed, Live, Sorted, Tm
  <2>2. CurrentRuns(K)
    BY <1>2, <1>5, <1>9, <1>10 DEF Right, CurrentRuns
  <2> QED BY <2>1, <2>2 DEF Right
<1>11. Told(L) => Told(K)
  BY <1>5 DEF Told
<1>12. Fresh(K)
  BY <1>2, <1>3, <1>5 DEF Fresh, Live, Tm
<1> QED BY <1>5, <1>8, <1>9, <1>10, <1>11, <1>12 DEF K

(* R is L after t was set to expire again, if it may.                      *)
Again(L, R, t, n) ==
  /\ Good(R, n)
  /\ \A u \in Timer \ {t} : R.tm[u] = L.tm[u]
  /\ R.tm[t].status = L.tm[t].status /\ R.tm[t].listening = L.tm[t].listening
  /\ Fresh(L) => Fresh(R)
  /\ Right(L) /\ (Live(L, t) /\ ~L.tm[t].frozen => L.tm[t].listening = 1) =>
       /\ Right(R)
       /\ WalkOver(L) => WalkOver(R)
       /\ Passed(R.tm[t])
       /\ Told(L) => Told(R)

LEMMA SetAgain ==
  ASSUME NEW n \in Nat, NEW B, Good(B, n), NEW t \in Timer, Live(B, t), ~B.tm[t].frozen,
         NEW at \in Int, at >= 1, NEW N, N \in LoopData, N.current = B.current, N.tm = B.tm,
         N.timers = B.timers \/ RemovedFrom(N.timers, B.timers, t),
         N.suspended = B.suspended \/ RemovedFrom(N.suspended, B.suspended, t)
  PROVE  /\ Again(B, TimerSet(N, t, at), t, n)
<1> DEFINE R == TimerSet(N, t, at)
<1>1. PICK M : SetTo(N, M, t, at) /\ R = Instanciate(M, t)
  BY TimerSetRight
<1> HIDE DEF R
<1>2. /\ M \in LoopData /\ M.timers = N.timers /\ M.suspended = N.suspended
      /\ M.current = N.current /\ M.timers_added
      /\ \A u \in Timer \ {t} : M.tm[u] = B.tm[u]
      /\ M.tm[t].status = B.tm[t].status /\ M.tm[t].just_added
      /\ M.tm[t].listening = B.tm[t].listening
      /\ ~M.tm[t].frozen /\ M.tm[t].at = at
  BY <1>1 DEF SetTo
<1>3. Live(M, t) /\ Timed(M.tm[t], n)
  BY <1>2 DEF Live, Tm, Timed
<1>4. Touched(B, M, t)
  BY <1>2, <1>3, TouchedBy
<1>5. B.tm[t].status \in {"alive", "none"}
  BY DEF Live, Tm
<1>6. Placed(B, R, M, t, n)
  BY <1>1, <1>3, <1>4, <1>5, PlacedRight
<1>7. Passed(M.tm[t])
  BY <1>2 DEF Passed
<1>8. R.timers_added => Told(R)
  BY DEF Told
<1> QED BY <1>2, <1>6, <1>7, <1>8 DEF Placed, Again, R

LEMMA RescheduleRight ==
  ASSUME NEW n \in Nat, NEW L, Good(L, n), NEW t \in Timer, NEW when \in Int
  PROVE  Again(L, Reschedule(L, t, when), t, n)
<1> DEFINE R == Reschedule(L, t, when)
           m == L.tm[t]
           at == IF m.at + m.in < when - Hang THEN when + m.in ELSE m.at + m.in
           odd == [L EXCEPT !.timers = Tail(L.suspended), !.suspended = <<t>>]
           Off == IF L.timers = <<>> THEN L
                  ELSE IF t \in Range(L.timers) THEN [L EXCEPT !.timers = RemoveFirst(@, t)]
                  ELSE IF t \in Range(L.suspended) /\ Len(L.suspended) > 1
                    THEN IF t = L.suspended[1] THEN odd
                           ELSE [L EXCEPT !.suspended = RemoveFirst(@, t)]
                  ELSE L
<1>1. R = IF m.frozen \/ m.status # "alive" THEN L ELSE TimerSet(Off, t, at)
  BY DEF Reschedule, Tm
<1>2. L \in LoopData /\ Linked(L) /\ AllTimed(L, n) /\ m \in TimerData /\ Timed(m, n)
  BY DEF Good, LoopData, AllTimed
<1>3. CASE m.frozen \/ m.status # "alive"
  <2>1. R = L /\ Passed(m)
    BY <1>1, <1>3 DEF Passed
  <2> QED BY <2>1 DEF Again
<1>4. CASE ~m.frozen /\ m.status = "alive"
  <2>1. at \in Int /\ at >= 1
    BY <1>2, <1>4, TimerAssumption DEF TimerData, Timed
  <2>2. Live(L, t) /\ ~L.tm[t].frozen
    BY <1>4 DEF Live, Tm
  <2>3. L.timers \in Seq(Timer) /\ L.suspended \in Seq(Timer)
        /\ IsInjective(L.timers) /\ IsInjective(L.suspended)
    BY <1>2 DEF LoopData, Linked
  <2>4. CASE Off = L
    <3> HIDE DEF at, Off, m, R
    <3>1. Again(L, TimerSet(L, t, at), t, n)
      BY <1>2, <2>1, <2>2, SetAgain
    <3> QED BY <1>1, <1>4, <2>4, <3>1 DEF R
  <2>5. CASE Off = [L EXCEPT !.timers = RemoveFirst(@, t)]
    <3> HIDE DEF at, Off, m, R
    <3>1. RemovedFrom(RemoveFirst(L.timers, t), L.timers, t) /\ RemoveFirst(L.timers, t) \in Seq(Timer)
      BY <2>3, RemoveRight
    <3>2. /\ Off.timers = RemoveFirst(L.timers, t) /\ Off.suspended = L.suspended
          /\ Off.current = L.current /\ Off.tm = L.tm /\ Off \in LoopData
      BY <1>2, <2>5, <3>1 DEF LoopData
    <3>3. Again(L, TimerSet(Off, t, at), t, n)
      BY <2>1, <2>2, <3>1, <3>2, SetAgain
    <3> QED BY <1>1, <1>4, <3>3 DEF R
  <2>6. CASE Off = [L EXCEPT !.suspended = RemoveFirst(@, t)]
    <3> HIDE DEF at, Off, m, R
    <3>1. RemovedFrom(RemoveFirst(L.suspended, t), L.suspended, t)
          /\ RemoveFirst(L.suspended, t) \in Seq(Timer)
      BY <2>3, RemoveRight
    <3>2. /\ Off.suspended = RemoveFirst(L.suspended, t) /\ Off.timers = L.timers
          /\ Off.current = L.current /\ Off.tm = L.tm /\ Off \in LoopData
      BY <1>2, <2>6, <3>1 DEF LoopData
    <3>3. Again(L, TimerSet(Off, t, at), t, n)
      BY <2>1, <2>2, <3>1, <3>2, SetAgain
    <3> QED BY <1>1, <1>4, <3>3 DEF R
  <2>7. CASE Off = odd /\ t \in Range(L.suspended) /\ Len(L.suspended) > 1 /\ t = L.suspended[1]
    <3> DEFINE rest == Tail(L.suspended)
    <3>1. L.suspended # <<>> /\ Len(L.suspended) \in Nat
      BY <2>3, <2>7
    <3>2. /\ rest \in Seq(Timer) /\ Len(rest) = Len(L.suspended) - 1
          /\ \A i \in 1 .. Len(rest) : rest[i] = L.suspended[i + 1]
      BY <2>3, <3>1, HeadTailProperties
    <3> HIDE DEF rest
    <3>3. /\ DOMAIN rest = 1 .. Len(L.suspended) - 1
          /\ \A i \in DOMAIN rest : i + 1 \in DOMAIN L.suspended /\ i + 1 # 1 /\ rest[i] = L.suspended[i + 1]
      <4>1. DOMAIN rest = 1 .. Len(L.suspended) - 1 /\ DOMAIN L.suspended = 1 .. Len(L.suspended)
        BY <2>3, <3>1, <3>2
      <4>2. \A i \in 1 .. Len(L.suspended) - 1 : i + 1 \in 1 .. Len(L.suspended) /\ i + 1 # 1
        BY <3>1
      <4> QED BY <3>2, <4>1, <4>2
    <3>4. IsInjective(rest)
      <4> SUFFICES ASSUME NEW i \in DOMAIN rest, NEW j \in DOMAIN rest, rest[i] = rest[j] PROVE i = j
        BY DEF IsInjective
      <4>1. i + 1 = j + 1
        BY <2>3, <3>3 DEF IsInjective
      <4> QED BY <3>1, <3>3, <4>1
    <3>5. Range(rest) \subseteq Range(L.suspended) \ {t}
      <4> SUFFICES ASSUME NEW i \in DOMAIN rest PROVE rest[i] \in Range(L.suspended) \ {t}
        BY DEF Range
      <4>1. i + 1 \in DOMAIN L.suspended /\ i + 1 # 1 /\ rest[i] = L.suspended[i + 1]
            /\ 1 \in DOMAIN L.suspended
        BY <2>3, <3>1, <3>3
      <4> QED BY <2>3, <2>7, <4>1 DEF IsInjective, Range
    <3>6. <<t>> \in Seq(Timer) /\ IsInjective(<<t>>) /\ Range(<<t>>) = {t}
      BY DEF IsInjective, Range
    <3>7. odd = [L EXCEPT !.timers = rest, !.suspended = <<t>>]
      BY DEF rest
    <3> HIDE DEF odd, at, Off, m, R
    <3>8. /\ odd.timers = rest /\ odd.suspended = <<t>> /\ odd.current = L.current /\ odd.tm = L.tm
          /\ odd \in LoopData
      BY <1>2, <3>2, <3>6, <3>7 DEF LoopData
    <3>9. Linked(odd)
      <4>1. \A u \in Range(L.suspended) : Live(L, u)
        BY <1>2 DEF Linked, Listed
      <4> QED BY <2>2, <3>4, <3>5, <3>6, <3>8, <4>1 DEF Linked, Listed, Live, Tm
    <3>10. Good(odd, n)
      BY <1>2, <3>8, <3>9 DEF Good, AllTimed, CurrentThere, There
    <3>11. Live(odd, t) /\ ~odd.tm[t].frozen
      BY <2>2, <3>8 DEF Live, Tm
    <3>12. Again(odd, TimerSet(odd, t, at), t, n)
      BY <2>1, <3>8, <3>10, <3>11, SetAgain
    <3>13. ~(Right(L) /\ L.tm[t].listening = 1)
      BY <2>2, <2>7 DEF Right, Whole, Runs
    <3> QED BY <1>1, <1>4, <2>2, <2>7, <3>8, <3>12, <3>13 DEF Again, Fresh, Live, Tm, R
  <2>8. \/ Off = L
        \/ Off = [L EXCEPT !.timers = RemoveFirst(@, t)]
        \/ Off = [L EXCEPT !.suspended = RemoveFirst(@, t)]
        \/ Off = odd /\ t \in Range(L.suspended) /\ Len(L.suspended) > 1 /\ t = L.suspended[1]
    <3> HIDE DEF odd
    <3> QED OBVIOUS
  <2> HIDE DEF Off, R
  <2> QED BY <2>4, <2>5, <2>6, <2>7, <2>8 DEF R
<1> HIDE DEF R
<1> QED BY <1>3, <1>4 DEF R

(* What WalkOn is given: the data L, and the timers the walk has called.   *)
Walking(L, done) ==
  /\ Good(L, now) /\ Fresh(L)
  /\ \A k \in 1 .. Len(run) - 1 : There(L, run[k].timer)
  /\ Unmuted =>
       /\ Right(L)
       /\ \A k \in 1 .. Len(run) - 1 : Hears(L.tm[run[k].timer])
       /\ L.current # None => \A u \in done : Passed(L.tm[u])
       /\ MutedInTime => Told(L)

(* The innermost walk may become f, and the data K.                        *)
Stands(K, f) ==
  /\ Good(K, now)
  /\ f \in WalkFrame /\ f.phase # "asleep"
  /\ f.phase = "calling" => f.timer # None /\ There(K, f.timer)
  /\ f.phase # "calling" => f.timer = None
  /\ \A k \in 1 .. Len(run) - 1 : There(K, run[k].timer)
  /\ Unmuted =>
       /\ Right(K)
       /\ \A k \in 1 .. Len(run) - 1 : Hears(K.tm[run[k].timer])
       /\ f.timer # None => Hears(K.tm[f.timer])
       /\ f.timer \notin f.done
       /\ f.phase = "walked" => WalkOver(K)
       /\ f.phase = "calling" => \A u \in f.done : Passed(K.tm[u])
       /\ MutedInTime => Told(K)

LEMMA SetTopRight ==
  ASSUME TimersInv, NEW K, NEW f, Stands(K, f), Top.phase # "asleep",
         ld' = K, run' = SetTop(f), UNCHANGED <<now, loop_time, wake>>
  PROVE  TimersInv'
<1>1. /\ Len(run) \in Nat \ {0} /\ DOMAIN run = 1 .. Len(run) /\ f \in WalkFrame
      /\ now \in Nat /\ loop_time \in Nat /\ 1 <= loop_time /\ loop_time <= now
  BY StackOf DEF Stands
<1>2. TopBecomes(f)
  BY <1>1, TopSet
<1>3. /\ run' \in Seq(WalkFrame) /\ Len(run') = Len(run) /\ DOMAIN run' = 1 .. Len(run)
      /\ run'[Len(run)] = f
  BY <1>2 DEF TopBecomes
<1>4. run' # <<>> /\ Top' = f
  BY <1>2 DEF TopBecomes
<1>5. Types' /\ Prompt'
  BY <1>1, <1>3, <1>4 DEF Types, Prompt, TimersInv, Base
<1>6. ASSUME NEW k \in DOMAIN run', k # Len(run)
      PROVE  k \in 1 .. Len(run) - 1 /\ k \in DOMAIN run /\ run'[k] = run[k]
  BY <1>2, <1>6 DEF TopBecomes
<1>7. Stack'
  <2> SUFFICES ASSUME NEW k \in DOMAIN run'
               PROVE  /\ run'[k].phase = "calling" => run'[k].timer # None
                      /\ run'[k].phase # "calling" => run'[k].timer = None /\ k = Len(run')
                      /\ run'[k].timer # None => There(K, run'[k].timer)
    BY DEF Stack
  <2>1. CASE k = Len(run)
    BY <1>3, <2>1 DEF Stands
  <2>2. CASE k # Len(run)
    BY <1>1, <1>6, <2>2 DEF TimersInv, Base, Stack, Stands
  <2> QED BY <2>1, <2>2
<1>8. ASSUME Unmuted PROVE Sane'
  <2>1. ASSUME NEW k \in DOMAIN run'
        PROVE  /\ run'[k].timer # None /\ Live(K, run'[k].timer) => K.tm[run'[k].timer].listening = 1
               /\ run'[k].timer \notin run'[k].done
    <3>1. CASE k = Len(run)
      BY <1>3, <1>8, <3>1 DEF Hears, Live, Tm, Stands
    <3>2. CASE k # Len(run)
      BY <1>1, <1>6, <1>8, <3>2 DEF TimersInv, Sane, Hears, Live, Tm, Stands
    <3> QED BY <3>1, <3>2
  <2> QED BY <1>4, <1>8, <2>1 DEF Sane, Stands
<1>9. ASSUME Unmuted, MutedInTime PROVE Awake'
  BY <1>4, <1>9 DEF Awake, NoOversleep, Stands
<1> QED BY <1>5, <1>7, <1>8, <1>9 DEF TimersInv, Base, Stands

LEMMA WalkOnStep ==
  ASSUME TimersInv, NEW lists, NEW when \in Nat, NEW done \in SUBSET Timer,
         Walking(lists, done), WalkOn(lists, when, done), Top.phase # "asleep",
         UNCHANGED <<now, loop_time, wake>>
  PROVE  TimersInv'
<1> DEFINE L == lists
           from == IF L.current = None THEN 0
                   ELSE CHOOSE i \in DOMAIN L.timers : L.timers[i] = L.current
           stops == {i \in DOMAIN L.timers :
                       /\ i >= from
                       /\ Tm(L, L.timers[i]).at > when \/ ~Tm(L, L.timers[i]).just_added}
           i == CHOOSE k \in stops : \A j \in stops : k <= j
           t == L.timers[i]
           over == L.current = None \/ stops = {} \/ Tm(L, t).at > when
           w == [Frame("walked") EXCEPT !.when = when]
           c == [phase |-> "calling", timer |-> t, when |-> when,
                 heard |-> Tm(L, t).freezes = 0, done |-> done]
           N == [L EXCEPT !.current = None]
           K == [L EXCEPT !.current = t]
           Walks(M) ==
             LET ffrom == IF M.current = None THEN 0
                         ELSE CHOOSE ii \in DOMAIN M.timers : M.timers[ii] = M.current
                 sstops == {ii \in DOMAIN M.timers :
                            /\ ii >= ffrom
                            /\ Tm(M, M.timers[ii]).at > when \/ ~Tm(M, M.timers[ii]).just_added}
                 i0 == CHOOSE k \in sstops : \A j \in sstops : k <= j
                 t0 == M.timers[i0]
             IN IF M.current = None \/ sstops = {} \/ Tm(M, t0).at > when
                  THEN /\ ld' = [M EXCEPT !.current = None]
                       /\ run' = SetTop([Frame("walked") EXCEPT !.when = when])
                  ELSE /\ ld' = [M EXCEPT !.current = t0]
                       /\ run' = SetTop([phase |-> "calling", timer |-> t0, when |-> when,
                                         heard |-> Tm(M, t0).freezes = 0, done |-> done])
<1>1. IF over THEN ld' = N /\ run' = SetTop(w) ELSE ld' = K /\ run' = SetTop(c)
  <2>1. \E M \in {L} : Walks(M)
    BY Zenon DEF WalkOn
  <2>2. Walks(L)
    <3> HIDE DEF Walks
    <3> QED BY <2>1
  <2> QED BY <2>2
<1> HIDE DEF Walks
<1>2. L \in LoopData /\ L.timers \in Seq(Timer) /\ None \notin Timer
  BY TimerAssumption DEF Walking, Good, LoopData, Timer
<1>3. CASE over
  <2>1. w \in WalkFrame /\ w.phase = "walked" /\ w.timer = None /\ w.done = {}
    BY DEF Frame, WalkFrame
  <2> HIDE DEF w, over, N
  <2>2. /\ N.timers = L.timers /\ N.suspended = L.suspended /\ N.current = None /\ N.tm = L.tm
        /\ N.timers_added = L.timers_added /\ N \in LoopData
    BY <1>2 DEF LoopData, N
  <2>3. Good(N, now)
    BY <2>2 DEF Walking, Good, Linked, Listed, Live, Tm, AllTimed, CurrentThere
  <2>4. Right(L) => Right(N)
    BY <2>2 DEF Right, Whole, LiveIn, Listed, Live, Sorted, Tm, CurrentRuns
  <2>5. WalkOver(N) /\ (Told(L) => Told(N))
    BY <2>2 DEF WalkOver, Told
  <2>6. ld' = N /\ run' = SetTop(w)
    BY <1>1, <1>3
  <2>7. \A u : There(L, u) <=> There(N, u)
    BY <2>2 DEF There
  <2>8. ASSUME Unmuted PROVE /\ Right(N)
                             /\ \A k \in 1 .. Len(run) - 1 : Hears(N.tm[run[k].timer])
                             /\ MutedInTime => Told(N)
    BY <2>2, <2>4, <2>5, <2>8 DEF Walking
  <2>9. \A k \in 1 .. Len(run) - 1 : There(N, run[k].timer)
    BY <2>7 DEF Walking
  <2> QED BY <2>1, <2>3, <2>5, <2>6, <2>8, <2>9, SetTopRight DEF Stands
<1>4. CASE ~over
  <2>1. L.current # None /\ stops # {} /\ ~(Tm(L, t).at > when)
    BY <1>4
  <2>2. i \in stops
    <3>1. stops \in SUBSET Nat
      BY <1>2
    <3>2. \E x \in stops : \A y \in stops : x <= y
      <4> HIDE DEF stops
      <4> QED BY <2>1, <3>1, Least
    <3> HIDE DEF stops
    <3> QED BY <3>2
  <2>3. i \in DOMAIN L.timers /\ ~Tm(L, t).just_added
    BY <2>1, <2>2
  <2> HIDE DEF i, stops, over
  <2>4. t \in Timer /\ t \in Range(L.timers) /\ Live(L, t)
    BY <1>2, <2>3 DEF Range, Walking, Good, Linked, Listed
  <2>5. c \in WalkFrame /\ c.phase = "calling" /\ c.timer = t /\ c.done = done
    BY <2>4 DEF WalkFrame
  <2>6. ld' = K /\ run' = SetTop(c)
    BY <1>1, <1>4
  <2> HIDE DEF t, c
  <2>7. /\ K.timers = L.timers /\ K.suspended = L.suspended /\ K.current = t /\ K.tm = L.tm
        /\ K.timers_added = L.timers_added /\ K \in LoopData
    BY <1>2, <2>4 DEF LoopData
  <2> HIDE DEF K
  <2>8. Good(K, now)
    BY <2>4, <2>7 DEF Walking, Good, Linked, Listed, Live, Tm, AllTimed, CurrentThere, There
  <2>9. Right(L) => Right(K)
    BY <2>4, <2>7 DEF Right, Whole, LiveIn, Listed, Live, Sorted, Tm, CurrentRuns
  <2>10. Told(L) => Told(K)
    BY <2>7 DEF Told
  <2>11. \A u : There(L, u) <=> There(K, u)
    BY <2>7 DEF There
  <2>12. There(K, t) /\ t # None
    BY <1>2, <2>4, <2>7 DEF There, Live, Tm
  <2>13. \A k \in 1 .. Len(run) - 1 : There(K, run[k].timer)
    BY <2>11 DEF Walking
  <2>14. ASSUME Unmuted PROVE /\ Right(K)
                              /\ \A k \in 1 .. Len(run) - 1 : Hears(K.tm[run[k].timer])
                              /\ Hears(K.tm[t])
                              /\ t \notin done
                              /\ \A u \in done : Passed(K.tm[u])
                              /\ MutedInTime => Told(K)
    <3>1. Right(L) /\ Runs(L.tm[t])
      BY <2>4, <2>14 DEF Walking, Right, Whole
    <3>2. \A u \in done : Passed(L.tm[u])
      BY <2>1, <2>14 DEF Walking
    <3>3. ~Passed(L.tm[t])
      BY <2>3, <2>4, <3>1 DEF Passed, Runs, Live, Tm
    <3>4. Hears(L.tm[t])
      BY <3>1 DEF Hears, Runs
    <3> QED BY <2>7, <2>9, <2>10, <2>14, <3>1, <3>2, <3>3, <3>4 DEF Walking
  <2> QED BY <2>5, <2>6, <2>8, <2>12, <2>13, <2>14, SetTopRight DEF Stands
<1> QED BY <1>3, <1>4

(* The timers that are being called.                                       *)
LEMMA FramesRight ==
  ASSUME TimersInv
  PROVE  /\ Handled(ld)
         /\ \A k \in DOMAIN run : run[k].timer # None =>
              /\ run[k].timer \in Called /\ run[k].timer \in Timer /\ There(ld, run[k].timer)
              /\ Unmuted => Hears(ld.tm[run[k].timer])
         /\ \A k \in 1 .. Len(run) - 1 : k \in DOMAIN run /\ run[k].timer # None
<1>1. /\ Len(run) \in Nat \ {0} /\ DOMAIN run = 1 .. Len(run)
      /\ \A k \in DOMAIN run : run[k].timer # None => run[k].timer \in Called
      /\ Called \subseteq Timer
  BY RunTyped DEF TimersInv, Base
<1>2. \A k \in DOMAIN run : run[k].timer # None => There(ld, run[k].timer)
  BY DEF TimersInv, Base, Stack
<1>3. \A u \in Called : There(ld, u)
  BY <1>2 DEF Called
<1>4. ASSUME Unmuted, NEW k \in DOMAIN run, run[k].timer # None PROVE Hears(ld.tm[run[k].timer])
  BY <1>4 DEF TimersInv, Sane, Hears, Live, Tm
<1>5. ASSUME NEW k \in 1 .. Len(run) - 1 PROVE k \in DOMAIN run /\ run[k].timer # None
  <2>1. Len(run) \in Nat
    BY <1>1
  <2>2. k \in 1 .. Len(run) /\ k # Len(run)
    BY <2>1
  <2>3. k \in DOMAIN run
    BY <1>1, <2>2
  <2> QED BY <2>2, <2>3 DEF TimersInv, Base, Stack
<1>6. Handled(ld)
  BY <1>3 DEF TimersInv, Base, Handled
<1> QED BY <1>1, <1>2, <1>4, <1>5, <1>6

LEMMA WalkStartStep == ASSUME TimersInv, WalkStart PROVE TimersInv'
<1> DEFINE f == [Frame("walked") EXCEPT !.when = loop_time]
           First == [ld EXCEPT !.current = ld.timers[1]]
           Next1 == Reschedule(Moved(ld), ld.current, loop_time)
           L == IF ld.current = None THEN First ELSE Next1
<1>1. /\ IF ld.timers = <<>> THEN ld' = ld /\ run' = SetTop(f) ELSE WalkOn(L, loop_time, {})
      /\ UNCHANGED <<now, loop_time, wake>> /\ Top.phase # "asleep"
  BY DEF WalkStart, Moved
<1>2. /\ ld \in LoopData /\ Good(ld, now) /\ Linked(ld) /\ loop_time \in Nat /\ now \in Nat
      /\ ld.timers \in Seq(Timer) /\ None \notin Timer /\ ld.current \in Timer \cup {None}
  BY StackOf, TimerAssumption DEF Good, LoopData, Timer
<1>3. ASSUME NEW k \in 1 .. Len(run) - 1
      PROVE  /\ run[k].timer \in Timer /\ There(ld, run[k].timer)
             /\ Unmuted => Hears(ld.tm[run[k].timer])
  BY FramesRight
<1>4. CASE ld.timers = <<>>
  <2>1. f \in WalkFrame /\ f.phase = "walked" /\ f.timer = None /\ f.done = {}
    BY <1>2 DEF Frame, WalkFrame
  <2> HIDE DEF f
  <2>2. ASSUME Unmuted PROVE Right(ld) /\ WalkOver(ld) /\ (MutedInTime => Told(ld))
    <3>1. Right(ld) /\ (MutedInTime => Told(ld))
      BY <2>2 DEF TimersInv, Sane, Awake
    <3>2. Range(ld.timers) = {}
      BY <1>4 DEF Range
    <3> QED BY <3>1, <3>2 DEF Right, CurrentRuns, WalkOver
  <2>3. Stands(ld, f)
    BY <1>2, <1>3, <2>1, <2>2 DEF Stands
  <2> QED BY <1>1, <1>4, <2>3, SetTopRight
<1>5. CASE ld.timers # <<>> /\ ld.current = None
  <2> DEFINE t == ld.timers[1]
  <2>1. t \in Range(ld.timers) /\ t \in Timer /\ Live(ld, t)
    <3>1. 1 \in DOMAIN ld.timers
      BY <1>2, <1>5, EmptySeq
    <3>2. t \in Range(ld.timers)
      BY <3>1 DEF Range
    <3> QED BY <1>2, <3>2, ListedTimers DEF Linked, Listed
  <2> HIDE DEF t
  <2>2. First = [ld EXCEPT !.current = t]
    BY DEF t
  <2> HIDE DEF First
  <2>3. /\ First.timers = ld.timers /\ First.suspended = ld.suspended /\ First.current = t
        /\ First.tm = ld.tm /\ First.timers_added = ld.timers_added /\ First \in LoopData
    BY <1>2, <2>1, <2>2 DEF LoopData
  <2>4. Good(First, now)
    BY <1>2, <2>1, <2>3 DEF Good, Linked, Listed, Live, Tm, AllTimed, CurrentThere, There
  <2>5. Right(ld) => Right(First)
    BY <2>1, <2>3 DEF Right, Whole, LiveIn, Listed, Live, Sorted, Tm, CurrentRuns
  <2>6. Fresh(First) /\ (Told(ld) => Told(First))
    BY <2>1, <2>3 DEF Fresh, Live, Tm, Told
  <2>7. Unmuted => Right(ld) /\ (MutedInTime => Told(ld))
    BY DEF TimersInv, Sane, Awake
  <2>8. Walking(First, {})
    BY <1>3, <2>3, <2>4, <2>5, <2>6, <2>7 DEF Walking, There
  <2> QED BY <1>1, <1>2, <1>5, <2>8, WalkOnStep
<1>6. CASE ld.timers # <<>> /\ ld.current # None
  <2> DEFINE C == Moved(ld)
             t == ld.current
  <2>1. /\ Good(C, now) /\ Fresh(C) /\ C.tm = ld.tm
        /\ Right(ld) => Right(C)
        /\ Told(ld) => Told(C)
    BY <1>2, <1>6, MovedRight
  <2>2. t \in Timer /\ loop_time \in Int
    BY <1>2, <1>6
  <2> HIDE DEF C
  <2>3. Again(C, Next1, t, now)
    <3>1. Next1 = Reschedule(C, t, loop_time)
      BY DEF C
    <3> HIDE DEF Next1, t
    <3> QED BY <1>2, <2>1, <2>2, <3>1, RescheduleRight
  <2> HIDE DEF Next1
  <2>4. /\ Good(Next1, now) /\ Fresh(Next1)
        /\ \A u \in Timer : /\ Next1.tm[u].status = ld.tm[u].status
                            /\ Next1.tm[u].listening = ld.tm[u].listening
    BY <2>1, <2>3 DEF Again
  <2>5. ASSUME Unmuted PROVE Right(Next1) /\ (MutedInTime => Told(Next1))
    <3>1. Right(ld) /\ (MutedInTime => Told(ld))
      BY <2>5 DEF TimersInv, Sane, Awake
    <3>2. Live(ld, t) => ld.tm[t].listening = 1
      BY <1>6, <3>1 DEF Right, Whole, CurrentRuns, Runs
    <3> QED BY <2>1, <2>3, <3>1, <3>2 DEF Again, Live, Tm
  <2>6. Walking(Next1, {})
    <3>1. \A k \in 1 .. Len(run) - 1 : There(Next1, run[k].timer)
      BY <1>3, <2>4 DEF There
    <3>2. Unmuted => \A k \in 1 .. Len(run) - 1 : Hears(Next1.tm[run[k].timer])
      BY <1>3, <2>4 DEF Hears
    <3> QED BY <2>4, <2>5, <3>1, <3>2 DEF Walking
  <2> QED BY <1>1, <1>2, <1>6, <2>6, WalkOnStep
<1> QED BY <1>4, <1>5, <1>6

(* What is left of a timer that was deleted goes with its last call.       *)
LEMMA LastCallRight ==
  ASSUME NEW n, NEW R, Good(R, n), NEW t \in Timer, ~Live(R, t)
  PROVE  /\ Good(Destroy(R, t), n)
         /\ Right(R) => Right(Destroy(R, t))
         /\ WalkOver(R) => WalkOver(Destroy(R, t))
         /\ Told(R) => Told(Destroy(R, t))
         /\ Fresh(R) => Fresh(Destroy(R, t))
         /\ \A u \in Timer \ {t} : Destroy(R, t).tm[u] = R.tm[u]
         /\ ~Live(Destroy(R, t), t)
<1> DEFINE X == Destroy(R, t)
<1>1. t \notin Listed(R)
  BY DEF Good, Linked
<1>2. /\ Gone(R, X, t) /\ X.current # t /\ X.tm[t].status = "freed"
      /\ \A u \in Timer \ {t} : X.tm[u] = R.tm[u]
  BY <1>1, DestroyRight
<1> HIDE DEF X
<1>3. /\ Good(X, n)
      /\ Right(R) => Right(X)
      /\ WalkOver(R) => WalkOver(X)
      /\ Told(R) => Told(X)
  BY <1>2, GoneRight
<1>4. R.current \in Timer \cup {None}
  BY DEF Good, LoopData
<1>5. Fresh(R) => Fresh(X)
  BY <1>2, <1>4 DEF Gone, Fresh, Live, Tm
<1>6. ~Live(X, t)
  BY <1>2 DEF Live, Tm
<1> QED BY <1>2, <1>3, <1>5, <1>6 DEF X

LEMMA ReturnStep == ASSUME TimersInv, NEW cancel, Return(cancel) PROVE TimersInv'
<1> DEFINE t == Top.timer
           when == Top.when
           others == {run[k].timer : k \in 1 .. (Len(run) - 1)}
<1>1. /\ Top.phase = "calling"
      /\ \E D \in {IF (cancel \/ Tm(ld, t).delete_me) /\ Live(ld, t) THEN Del(ld, t) ELSE ld} :
         \E C \in {IF D.current = None THEN D ELSE Moved(D)} :
         \E R \in {Reschedule(C, t, when)} :
           WalkOn(IF ~Live(R, t) /\ t \notin others THEN Destroy(R, t) ELSE R, when, Top.done \cup {t})
      /\ UNCHANGED <<now, loop_time, wake>>
  BY DEF Return, Moved
<1>2. PICK D : /\ D \in {IF (cancel \/ Tm(ld, t).delete_me) /\ Live(ld, t) THEN Del(ld, t) ELSE ld}
               /\ \E C \in {IF D.current = None THEN D ELSE Moved(D)} :
                  \E R \in {Reschedule(C, t, when)} :
                    WalkOn(IF ~Live(R, t) /\ t \notin others THEN Destroy(R, t) ELSE R, when,
                           Top.done \cup {t})
  BY <1>1
<1>3. PICK C : /\ C \in {IF D.current = None THEN D ELSE Moved(D)}
               /\ \E R \in {Reschedule(C, t, when)} :
                    WalkOn(IF ~Live(R, t) /\ t \notin others THEN Destroy(R, t) ELSE R, when,
                           Top.done \cup {t})
  BY <1>2
<1>4. PICK R : /\ R \in {Reschedule(C, t, when)}
               /\ WalkOn(IF ~Live(R, t) /\ t \notin others THEN Destroy(R, t) ELSE R, when,
                         Top.done \cup {t})
  BY <1>3
<1> DEFINE X == IF ~Live(R, t) /\ t \notin others THEN Destroy(R, t) ELSE R
<1>5. /\ Top \in WalkFrame /\ when \in Nat /\ when \in Int /\ Top.done \in SUBSET Timer
      /\ now \in Nat /\ Top = run[Len(run)] /\ Len(run) \in DOMAIN run
  BY StackOf DEF WalkFrame
<1>6. /\ t \in Timer /\ t \in Called
      /\ Unmuted => Hears(ld.tm[t])
  <2>1. t # None
    BY <1>1, <1>5 DEF TimersInv, Base, Stack
  <2> QED BY <1>5, <2>1, FramesRight
<1>7. ASSUME NEW k \in 1 .. Len(run) - 1
      PROVE  /\ run[k].timer \in Timer /\ run[k].timer \in Called /\ run[k].timer \in others
             /\ Unmuted => Hears(ld.tm[run[k].timer])
  <2>1. run[k].timer \in others
    OBVIOUS
  <2> QED BY <2>1, FramesRight
<1> HIDE DEF t, when, others
<1>8. Handled(D)
  <2>1. CASE (cancel \/ Tm(ld, t).delete_me) /\ Live(ld, t)
    BY <1>2, <1>6, <2>1, DelRight
  <2>2. CASE ~((cancel \/ Tm(ld, t).delete_me) /\ Live(ld, t))
    BY <1>2, <2>2, FramesRight
  <2> QED BY <2>1, <2>2
<1>9. /\ Good(C, now) /\ Fresh(C) /\ C.tm = D.tm
      /\ Right(D) => Right(C)
      /\ WalkOver(D) => WalkOver(C)
      /\ Told(D) => Told(C)
  <2>1. Good(D, now)
    BY <1>8 DEF Handled
  <2>2. CASE D.current = None
    BY <1>3, <2>1, <2>2 DEF Fresh
  <2>3. CASE D.current # None
    <3>1. C = Moved(D)
      BY <1>3, <2>3
    <3>2. WalkOver(D) => C.current = None
      BY <2>1, <2>3, <3>1, MovedRight DEF WalkOver
    <3> QED BY <2>1, <2>3, <3>1, <3>2, MovedRight DEF WalkOver
  <2> QED BY <2>2, <2>3
<1>10. Again(C, R, t, now)
  BY <1>4, <1>5, <1>6, <1>9, RescheduleRight
<1>11. Good(R, now) /\ Fresh(R)
  BY <1>9, <1>10 DEF Again
<1>12. /\ Good(X, now) /\ Fresh(X)
       /\ Right(R) => Right(X)
       /\ WalkOver(R) => WalkOver(X)
       /\ Told(R) => Told(X)
       /\ \A u \in Timer \ {t} : X.tm[u] = R.tm[u]
       /\ X = R \/ (t \notin others /\ ~Live(X, t))
  <2>1. CASE ~Live(R, t) /\ t \notin others
    <3>1. X = Destroy(R, t)
      BY <2>1
    <3> HIDE DEF X
    <3> QED BY <1>6, <1>11, <2>1, <3>1, LastCallRight
  <2>2. CASE ~(~Live(R, t) /\ t \notin others)
    <3>1. X = R
      BY <2>2
    <3> HIDE DEF X
    <3> QED BY <1>11, <3>1
  <2> QED BY <2>1, <2>2
<1>13. WalkOn(X, when, Top.done \cup {t})
  BY <1>4
<1> HIDE DEF X
<1>14. \A u \in Timer : R.tm[u].status = D.tm[u].status /\ R.tm[u].listening = D.tm[u].listening
  BY <1>9, <1>10 DEF Again
<1>15. ASSUME NEW k \in 1 .. Len(run) - 1 PROVE X.tm[run[k].timer] = R.tm[run[k].timer]
  BY <1>7, <1>12
<1>16. ASSUME NEW k \in 1 .. Len(run) - 1 PROVE There(X, run[k].timer)
  <2>1. There(D, run[k].timer) /\ run[k].timer \in Timer
    BY <1>7, <1>8 DEF Handled
  <2> QED BY <1>14, <1>15, <2>1 DEF There
<1>17. ASSUME Unmuted
       PROVE  /\ Right(X)
              /\ \A k \in 1 .. Len(run) - 1 : Hears(X.tm[run[k].timer])
              /\ X.current # None => \A u \in Top.done \cup {t} : Passed(X.tm[u])
              /\ MutedInTime => Told(X)
  <2>1. Right(ld) /\ (MutedInTime => Told(ld))
    BY <1>17 DEF TimersInv, Sane, Awake
  <2>2. /\ Right(D)
        /\ WalkOver(ld) => WalkOver(D)
        /\ \A u \in Timer : Passed(ld.tm[u]) => Passed(D.tm[u])
        /\ \A u \in Called : Hears(ld.tm[u]) => Hears(D.tm[u])
        /\ MutedInTime => Told(D)
    BY <1>8, <1>17, <2>1 DEF Handled
  <2>3. Right(C) /\ (MutedInTime => Told(C))
    BY <1>9, <2>2
  <2>4. Live(C, t) => C.tm[t].listening = 1
    BY <1>6, <1>9, <1>17, <2>2 DEF Hears, Live, Tm
  <2>5. /\ Right(R) /\ Passed(R.tm[t])
        /\ WalkOver(C) => WalkOver(R)
        /\ MutedInTime => Told(R)
    BY <1>10, <2>3, <2>4 DEF Again
  <2>6. Right(X) /\ (MutedInTime => Told(X))
    BY <1>12, <2>5
  <2>7. ASSUME NEW k \in 1 .. Len(run) - 1 PROVE Hears(X.tm[run[k].timer])
    <3>1. Hears(D.tm[run[k].timer]) /\ run[k].timer \in Timer
      BY <1>7, <1>17, <2>2
    <3> QED BY <1>14, <1>15, <3>1 DEF Hears
  <2>8. ASSUME X.current # None, NEW u \in Top.done \cup {t} PROVE Passed(X.tm[u])
    <3>1. ~WalkOver(X)
      BY <1>12, <2>8 DEF Fresh, WalkOver
    <3>2. ~WalkOver(ld)
      BY <1>9, <1>12, <2>2, <2>5, <3>1
    <3>3. CASE u = t
      BY <1>12, <2>5, <3>3 DEF Passed, Live, Tm
    <3>4. CASE u # t
      <4>1. u \in Top.done /\ u \in Timer
        BY <1>5, <2>8, <3>4
      <4>2. Passed(ld.tm[u])
        BY <1>1, <1>17, <3>2, <4>1 DEF TimersInv, Sane
      <4> QED BY <1>9, <1>10, <1>12, <2>2, <3>4, <4>1, <4>2 DEF Again
    <3> QED BY <3>3, <3>4
  <2> QED BY <2>6, <2>7, <2>8
<1>18. Walking(X, Top.done \cup {t})
  BY <1>12, <1>16, <1>17 DEF Walking
<1>19. Top.done \cup {t} \in SUBSET Timer
  BY <1>5, <1>6
<1> QED BY <1>1, <1>5, <1>13, <1>18, <1>19, WalkOnStep

-----------------------------------------------------------------------------
(* The theorems.                                                           *)

LEMMA InitRight == ASSUME Init PROVE TimersInv
<1> DEFINE f == Frame("turned")
           tm == [t \in Timer |-> Blank("none")]
<1>1. /\ ld = [timers |-> <<>>, suspended |-> <<>>, current |-> None, timers_added |-> FALSE, tm |-> tm]
      /\ run = <<f>> /\ now = 1 /\ loop_time = 1
  BY DEF Init
<1>2. f \in WalkFrame /\ f.phase = "turned" /\ f.timer = None /\ f.done = {}
  BY DEF Frame, WalkFrame
<1> HIDE DEF f
<1>3. run \in Seq(WalkFrame) /\ run # <<>> /\ DOMAIN run = {1} /\ Len(run) = 1 /\ Top = f
  BY <1>1, <1>2 DEF Top
<1>4. \A t \in Timer : tm[t] \in TimerData /\ tm[t].status = "none" /\ ~tm[t].frozen
  BY DEF Blank, TimerData
<1>5. tm \in [Timer -> TimerData]
  <2>1. tm = [t \in Timer |-> tm[t]]
    OBVIOUS
  <2> HIDE DEF tm
  <2> QED BY <1>4, <2>1
<1> HIDE DEF tm
<1>6. /\ ld.timers = <<>> /\ ld.suspended = <<>> /\ ld.current = None /\ ld.tm = tm
      /\ ld \in LoopData
  BY <1>1, <1>5 DEF LoopData
<1>7. Range(ld.timers) = {} /\ Range(ld.suspended) = {} /\ DOMAIN ld.timers = {} /\ DOMAIN ld.suspended = {}
  BY <1>6 DEF Range
<1>8. Good(ld, now)
  <2>1. Linked(ld)
    BY <1>7 DEF Linked, Listed, IsInjective
  <2>2. AllTimed(ld, now) /\ CurrentThere(ld)
    BY <1>4, <1>6 DEF AllTimed, Timed, CurrentThere
  <2> QED BY <1>6, <2>1, <2>2 DEF Good
<1>9. Right(ld)
  <2>1. LiveIn(ld) = {}
    BY <1>4, <1>6 DEF LiveIn, Live, Tm
  <2> QED BY <1>6, <1>7, <2>1 DEF Right, Whole, Listed, Sorted, CurrentRuns
<1>10. Types /\ Stack /\ Prompt
  BY <1>1, <1>2, <1>3, TimerAssumption DEF Types, Stack, Prompt
<1>11. Sane
  <2>1. run[1] = f
    BY <1>1
  <2> QED BY <1>2, <1>3, <1>9, <2>1 DEF Sane
<1>12. Awake
  BY <1>2, <1>3, <1>7 DEF Awake, Told, NoOversleep
<1> QED BY <1>8, <1>10, <1>11, <1>12 DEF TimersInv, Base

LEMMA NextRightStep == ASSUME TimersInv, [Next]_vars PROVE TimersInv'
<1>1. CASE UserOp
  BY <1>1, UserStep
<1>2. CASE WalkStart
  BY <1>2, WalkStartStep
<1>3. CASE Return(FALSE) \/ Return(TRUE)
  <2>1. PICK cancel \in BOOLEAN : Return(cancel)
    BY <1>3
  <2> QED BY <2>1, ReturnStep
<1>4. CASE Unnest
  BY <1>4, UnnestStep
<1>5. CASE Sleep
  BY <1>5, SleepStep
<1>6. CASE WakeUp \/ WakeEvent
  BY <1>6, WakeStep
<1>7. CASE Nest
  BY <1>7, NestStep
<1>8. CASE Pass
  BY <1>8, PassStep
<1>9. CASE UNCHANGED vars
  BY <1>9 DEF vars, TimersInv, Base, Types, Stack, Prompt, Sane, Awake, NoOversleep, Top
<1> QED BY <1>1, <1>2, <1>3, <1>4, <1>5, <1>6, <1>7, <1>8, <1>9 DEF Next, LoopStep

LEMMA TimersInvariant == Spec => []TimersInv
<1> QED BY InitRight, NextRightStep, PTL DEF Spec

(* Neither timer_current nor a tick that is running is left with a timer   *)
(* that is gone: every way out of a list that destroys the timer moves     *)
(* timer_current on (ecore_timer.c:389) and a timer that is being called   *)
(* is destroyed only when its callback has returned (ecore_timer.c:645).   *)
THEOREM CurrentOutlivesWalk == Spec => []CurrentSafe
<1>1. ASSUME TimersInv PROVE CurrentSafe
  <2>1. CurrentThere(ld) /\ Stack
    BY <1>1 DEF TimersInv, Base, Good
  <2>2. \A t \in Called : There(ld, t)
    BY <2>1 DEF Stack, Called
  <2> QED BY <2>1, <2>2 DEF CurrentSafe, CurrentThere, There, Tm
<1> QED BY <1>1, TimersInvariant, PTL

(* Each live timer is in one list, once, in the one where it belongs, and  *)
(* the running timers are in the order of their expiry, whatever the       *)
(* callbacks of a walk do (ecore_timer.c:410), provided that no callback   *)
(* removes the tick callback of the timer it is called for.                *)
THEOREM ListsStaySane == ASSUME Unmuted PROVE Spec => []ListsSane
<1>1. ASSUME TimersInv PROVE ListsSane
  <2>1. Right(ld) /\ Linked(ld) /\ ld \in LoopData
    BY <1>1 DEF TimersInv, Base, Good, Sane
  <2> DEFINE s == ld.timers
             r == ld.suspended
             all == s \o r
  <2>2. /\ s \in Seq(Timer) /\ r \in Seq(Timer) /\ IsInjective(s) /\ IsInjective(r)
        /\ Range(s) \cap Range(r) = {} /\ Range(s) \cup Range(r) = LiveIn(ld)
    BY <2>1 DEF LoopData, Linked, Right, Whole, Listed
  <2>3. /\ all \in Seq(Timer) /\ Len(all) = Len(s) + Len(r)
        /\ \A i \in 1 .. Len(s) + Len(r) : all[i] = IF i <= Len(s) THEN s[i] ELSE r[i - Len(s)]
    <3>1. s \in Seq(Timer) /\ r \in Seq(Timer)
      BY <2>2
    <3> QED BY <3>1, ConcatProperties
  <2>4. \A t \in Range(s) : Runs(ld.tm[t])
    BY <2>1 DEF Right, Whole
  <2>5. \A t \in Range(r) : ~Runs(ld.tm[t]) /\ ld.tm[t] \in TimerData
    BY <2>1, ListedTimers DEF Right, Whole, Listed, LoopData
  <2>6. Sorted(ld)
    BY <2>1 DEF Right, Whole
  <2> HIDE DEF s, r, all
  <2>7. Len(s) \in Nat /\ Len(r) \in Nat /\ DOMAIN s = 1 .. Len(s) /\ DOMAIN r = 1 .. Len(r)
        /\ DOMAIN all = 1 .. Len(s) + Len(r)
    BY <2>2, <2>3
  <2>8. ASSUME NEW i \in DOMAIN all
        PROVE  \/ i \in DOMAIN s /\ all[i] = s[i]
               \/ i - Len(s) \in DOMAIN r /\ all[i] = r[i - Len(s)] /\ i \in Int
    BY <2>3, <2>7
  <2>9. IsInjective(all)
    <3> SUFFICES ASSUME NEW i \in DOMAIN all, NEW j \in DOMAIN all, all[i] = all[j] PROVE i = j
      BY DEF IsInjective
    <3>1. \A x \in DOMAIN s, y \in DOMAIN r : s[x] # r[y]
      BY <2>2 DEF Range
    <3>2. CASE i \in DOMAIN s /\ all[i] = s[i]
      BY <2>2, <2>8, <3>1, <3>2 DEF IsInjective
    <3>3. CASE i - Len(s) \in DOMAIN r /\ all[i] = r[i - Len(s)] /\ i \in Int
      <4>1. j - Len(s) \in DOMAIN r /\ all[j] = r[j - Len(s)] /\ j \in Int
        BY <2>8, <3>1, <3>3
      <4>2. i - Len(s) = j - Len(s)
        BY <2>2, <3>3, <4>1 DEF IsInjective
      <4> QED BY <2>7, <3>3, <4>1, <4>2
    <3> QED BY <2>8, <3>2, <3>3
  <2>10. Range(all) = Range(s) \cup Range(r)
    <3>1. \A i \in DOMAIN all : all[i] \in Range(s) \cup Range(r)
      BY <2>8 DEF Range
    <3>2. ASSUME NEW i \in DOMAIN s PROVE \E j \in DOMAIN all : all[j] = s[i]
      <4>1. i \in 1 .. Len(s) + Len(r) /\ i <= Len(s)
        BY <2>7
      <4> QED BY <2>3, <2>7, <4>1
    <3>3. ASSUME NEW i \in DOMAIN r PROVE \E j \in DOMAIN all : all[j] = r[i]
      <4>1. i + Len(s) \in 1 .. Len(s) + Len(r) /\ ~(i + Len(s) <= Len(s)) /\ (i + Len(s)) - Len(s) = i
        BY <2>7
      <4> QED BY <2>3, <2>7, <4>1
    <3> QED BY <3>1, <3>2, <3>3 DEF Range
  <2> QED BY <2>2, <2>4, <2>5, <2>6, <2>9, <2>10
       DEF ListsSane, LiveIn, Runs, Tm, TimerData, s, r, all
<1> QED BY <1>1, TimersInvariant, PTL

(* A walk calls no timer twice: one that was called and set to expire      *)
(* again waits for the next turn of the loop, even if it has expired       *)
(* (ecore_timer.c:633, 669), under the same proviso.                       *)
THEOREM NoSecondCall == ASSUME Unmuted PROVE Spec => []NoDoubleCall
<1>1. ASSUME TimersInv PROVE NoDoubleCall
  BY <1>1 DEF TimersInv, Sane, NoDoubleCall
<1> QED BY <1>1, TimersInvariant, PTL

(* The loop sleeps past its first timer by no more than the precision and  *)
(* MaxBusy, the time user code ran since loop_time was updated: the code   *)
(* takes the expiry relative to that time (ecore_timer.c:559), and         *)
(* select() counts it from when it is called (ecore_main.c:2452).  No      *)
(* running timer is left out of the timeout for not being enabled          *)
(* (ecore_timer.c:503, 545), provided besides that a timer without a tick  *)
(* callback is given one before its first turn has passed.                 *)
THEOREM SleepEndsInTime == ASSUME Unmuted, MutedInTime PROVE Spec => []NoOversleep
<1>1. ASSUME TimersInv PROVE NoOversleep
  BY <1>1 DEF TimersInv, Awake
<1> QED BY <1>1, TimersInvariant, PTL
=============================================================================
