--------------------------- MODULE EoEventsProofs ---------------------------
(***************************************************************************)
(* Proofs about EoEvents for every kind of callbacks, every number of them *)
(* and of emissions inside each other.                                     *)
(***************************************************************************)
EXTENDS EoEvents, ListLemmas

-----------------------------------------------------------------------------
(* Types. *)

CbData ==
  [mem : {"unborn", "live", "freed"}, items : Seq(AllEvents), priority : Int,
   generation : Nat, deleted : BOOLEAN]

FrameData ==
  [event : AllEvents, idx : Nat, inserted : Nat, generation : Nat, before : BOOLEAN,
   owner : BOOLEAN, cb : Cbs \cup {0}, item : Nat, due : SUBSET Cbs, called : Seq(Cbs),
   excused : BOOLEAN]

ObjData ==
  [callbacks : Seq(Cbs), cb : [Cbs -> CbData], freeze : Nat, stopped : BOOLEAN,
   cleaning : BOOLEAN, adds : Int, dels : Int, current : [Restart -> Nat \cup {Absent}],
   frames : Seq(FrameData)]

-----------------------------------------------------------------------------
(* The list.                                                               *)

(* In the order of the list c comes before d.                              *)
Above(o, c, d) == \/ o.cb[c].priority > o.cb[d].priority
                  \/ o.cb[c].priority = o.cb[d].priority /\ c < d

Sorted(o) == \A i, j \in DOMAIN o.callbacks : i < j => Above(o, o.callbacks[i], o.callbacks[j])

Live(o) == {c \in Cbs : o.cb[c].mem = "live"}

CountsRight(o) ==
  /\ o.adds = Cardinality(ItemsOf(o, Listed(o), Add))
  /\ o.dels = Cardinality(ItemsOf(o, Listed(o), Del))

(* Descriptions are made in the order of their numbers.                    *)
BornInOrder(o) == \A c, d \in Cbs : c < d /\ o.cb[d].mem # "unborn" => o.cb[c].mem # "unborn"

Generations(o) ==
  \A c \in Listed(o) : /\ o.cb[c].generation <= Generation(o)
                       /\ ~o.cleaning => o.cb[c].generation = 0

Deletions(o) == \A c \in Listed(o) : o.cb[c].deleted => o.cleaning /\ o.frames # <<>>

ListGood(o) ==
  /\ o \in ObjData
  /\ Sorted(o) /\ Listed(o) = Live(o) /\ CountsRight(o) /\ BornInOrder(o)
  /\ Generations(o) /\ Deletions(o)

-----------------------------------------------------------------------------
(* Emissions.                                                              *)

Listens(o, c, e) == ItemsFor(o, c, e) # {}

(* The callback at a position of the list is one that f has to know.       *)
Known(o, f, c) == ~o.cb[c].deleted /\ Listens(o, c, f.event) /\ o.cb[c].generation < f.generation

(* An emission that has called the callback at position p.                 *)
StandsAt(o, f, p) ==
  /\ o.callbacks[p] = f.cb
  /\ f.idx >= 1 /\ f.idx + f.inserted <= p
  /\ f.idx = 1 => \A q \in 1 .. p - 1 : o.cb[o.callbacks[q]].generation >= f.generation
  /\ "crowdIn" \notin Liberties /\ f.idx > 1 => f.idx + f.inserted = p

(* What f has called, it has called in order, down to the callback c.      *)
CalledDown(o, s) ==
  /\ ToSet(s) \subseteq Listed(o)
  /\ \A i, j \in DOMAIN s : i < j => s[i] = s[j] \/ Above(o, s[j], s[i])

DueRight(o, f) ==
  /\ f.due \subseteq Listed(o)
  /\ \A c \in f.due : Listens(o, c, f.event) /\ o.cb[c].generation < f.generation
  /\ \A c \in Listed(o) : Known(o, f, c) => c \in f.due

Between(o, f) == \E k \in ItemsFor(o, f.cb, f.event) : k > f.item

FrameGood(o, f) ==
  /\ f.cb \in f.due /\ f.item \in ItemsFor(o, f.cb, f.event)
  /\ \E p \in DOMAIN o.callbacks : StandsAt(o, f, p)
  /\ DueRight(o, f)
  /\ f.event \notin Restart => f.called # <<>> /\ Last(f.called) = f.cb /\ CalledDown(o, f.called)
  /\ "editInArray" \notin Liberties /\ Between(o, f) =>
       ~o.cb[f.cb].deleted /\ o.callbacks[f.idx] = f.cb
  /\ Frozen(o, f.event) => f.excused

(* The event has been stopped for the emission i.                          *)
StopSeen(o, i) == IF i = Len(o.frames) THEN o.stopped ELSE o.frames[i + 1].before

(* Emissions that one of an event with restart stands for.                 *)
Same(o, i, j) == i = j \/ (o.frames[i].event = o.frames[j].event /\ o.frames[i].event \in Restart)

StopsRight(o) ==
  \A i, j \in DOMAIN o.frames : StopSeen(o, i) /\ j <= i /\ Same(o, i, j) => o.frames[j].excused

OwnersRight(o) ==
  /\ \A i \in DOMAIN o.frames : o.frames[i].event \in Restart =>
       (o.frames[i].owner <=> \A j \in 1 .. i - 1 : o.frames[j].event # o.frames[i].event)
  /\ \A e \in Restart : /\ o.current[e] = Absent <=> \A i \in DOMAIN o.frames : o.frames[i].event # e
                        /\ o.current[e] <= Len(o.callbacks)

FramesGood(o) ==
  /\ \A i \in DOMAIN o.frames : o.frames[i].generation = i /\ FrameGood(o, o.frames[i])
  /\ StopsRight(o) /\ OwnersRight(o)

(* The part of the walk that is done.                                      *)
Reached(o, f) ==
  \A c \in f.due : ~o.cb[c].deleted =>
    Times(c, f.called) =
      IF c = f.cb THEN Cardinality({k \in ItemsFor(o, c, f.event) : k <= f.item})
      ELSE IF Above(o, f.cb, c) THEN Cardinality(ItemsFor(o, c, f.event)) ELSE 0

(* The emission k is the last one of the event e.                          *)
LastOf(o, k, e) ==
  o.frames[k].event = e /\ \A j \in DOMAIN o.frames : o.frames[j].event = e => j <= k

(* The same for the emissions of an event with restart.                    *)
ReachedTogether(o, f, g) ==
  /\ o.current[f.event] > 0 => o.current[f.event] = g.idx - 1
  /\ \A c \in f.due : ~o.cb[c].deleted /\ (o.current[f.event] = 0 \/ c = g.cb \/ Above(o, g.cb, c))
                        => c \in ToSet(f.called)

WalksRight(o) ==
  \A i \in DOMAIN o.frames :
    LET f == o.frames[i]
    IN /\ f.event \in Restart => IsInjective(f.called)
       /\ ~f.excused /\ f.event \notin Restart => Reached(o, f)
       /\ ~f.excused /\ f.event \in Restart /\ f.owner =>
             \A k \in DOMAIN o.frames : LastOf(o, k, f.event) => ReachedTogether(o, f, o.frames[k])

NoneSkipped == {"crowdIn", "addAndRestart"} \cap Liberties = {}

Right(o) == ListGood(o) /\ FramesGood(o) /\ (NoneSkipped => WalksRight(o))

EventsInv == Right(obj)

-----------------------------------------------------------------------------
(* The elements of r are elements of s, in the order they have there.      *)
Within(r, s) ==
  \A i, j \in DOMAIN r : i < j =>
    \E k, l \in DOMAIN s : k < l /\ s[k] = r[i] /\ s[l] = r[j]

(* The members of a set of positions have different ranks, up to how many  *)
(* they are.                                                               *)
LEMMA RankRight ==
  ASSUME NEW n \in Nat, NEW I \in SUBSET (1 .. n)
  PROVE  LET rank(i) == Cardinality({k \in I : k <= i})
         IN /\ Cardinality(I) \in Nat
            /\ \A i \in I : rank(i) \in 1 .. Cardinality(I)
            /\ \A i, j \in I : i < j <=> rank(i) < rank(j)
            /\ \A m \in 1 .. Cardinality(I) : \E i \in I : rank(i) = m
<1> DEFINE upto(i) == {k \in I : k <= i}
           rank(i) == Cardinality(upto(i))
<1>1. IsFiniteSet(I) /\ Cardinality(I) \in Nat
  <2>1. IsFiniteSet(1 .. n)
    BY FS_Interval
  <2>2. IsFiniteSet(I)
    BY <2>1, FS_Subset
  <2> QED BY <2>2, FS_CardinalityType
<1>2. ASSUME NEW i \in I
      PROVE  IsFiniteSet(upto(i)) /\ upto(i) \in SUBSET I /\ i \in upto(i) /\ rank(i) \in 1 .. Cardinality(I)
  <2>1. upto(i) \in SUBSET I /\ i \in upto(i)
    <3>1. i \in 1 .. n
      OBVIOUS
    <3> QED BY <3>1
  <2> HIDE DEF upto
  <2>2. IsFiniteSet(upto(i)) /\ Cardinality(upto(i)) <= Cardinality(I)
    BY <1>1, <2>1, FS_Subset
  <2>3. Cardinality(upto(i)) \in Nat /\ Cardinality(upto(i)) # 0
    BY <2>1, <2>2, FS_CardinalityType, FS_EmptySet
  <2> QED BY <1>1, <2>1, <2>2, <2>3
<1>3. ASSUME NEW i \in I, NEW j \in I, i < j PROVE rank(i) < rank(j)
  <2>1. upto(i) \in SUBSET upto(j) /\ j \notin upto(i) /\ j \in upto(j)
    <3>1. i \in 1 .. n /\ j \in 1 .. n
      OBVIOUS
    <3>2. ASSUME NEW x \in I, x <= i PROVE x <= j
      <4>1. x \in 1 .. n
        OBVIOUS
      <4> QED BY <1>3, <3>1, <3>2, <4>1
    <3>3. upto(i) \in SUBSET upto(j)
      BY <3>2
    <3>4. ~(j <= i) /\ j <= j
      BY <1>3, <3>1
    <3> QED BY <3>3, <3>4
  <2>2. IsFiniteSet(upto(i)) /\ IsFiniteSet(upto(j))
    BY <1>2
  <2> HIDE DEF upto
  <2>3. Cardinality(upto(i)) <= Cardinality(upto(j))
        /\ (Cardinality(upto(j)) = Cardinality(upto(i)) => upto(j) = upto(i))
    BY <2>1, <2>2, FS_Subset
  <2>4. Cardinality(upto(i)) \in Nat /\ Cardinality(upto(j)) \in Nat
    BY <2>2, FS_CardinalityType
  <2> QED BY <2>1, <2>3, <2>4
<1>6. \A i \in I : rank(i) \in Nat
  BY <1>1, <1>2
<1>4. ASSUME NEW i \in I, NEW j \in I, rank(i) < rank(j) PROVE i < j
  <2>1. i \in 1 .. n /\ j \in 1 .. n
    OBVIOUS
  <2>2. rank(i) \in Nat /\ rank(j) \in Nat
    BY <1>6
  <2>3. i # j
    BY <1>4, <2>2
  <2>4. ~(j < i)
    <3>1. j < i => rank(j) < rank(i)
      BY <1>3
    <3> HIDE DEF rank
    <3> QED BY <1>4, <2>2, <3>1
  <2> QED BY <2>1, <2>3, <2>4
<1>5. ASSUME NEW m \in 1 .. Cardinality(I) PROVE \E i \in I : rank(i) = m
  <2> DEFINE T == 1 .. Cardinality(I)
             f == [i \in I |-> rank(i)]
  <2> HIDE DEF rank
  <2>1. f \in [I -> T] /\ \A i \in I : f[i] = rank(i)
    BY <1>2
  <2>2. IsInjective(f)
    <3>1. ASSUME NEW i \in I, NEW j \in I, rank(i) = rank(j) PROVE i = j
      <4>1. i \in 1 .. n /\ j \in 1 .. n
        OBVIOUS
      <4>2. rank(i) \in Nat /\ rank(j) \in Nat
        BY <1>6
      <4>3. ~(rank(i) < rank(j)) /\ ~(rank(j) < rank(i))
        BY <3>1, <4>2
      <4>4. ~(i < j) /\ ~(j < i)
        BY <1>3, <4>3
      <4> QED BY <4>1, <4>4
    <3> QED BY <2>1, <3>1 DEF IsInjective
  <2>3. IsFiniteSet(T) /\ Cardinality(T) = Cardinality(I)
    <3>1. Cardinality(I) \in Int /\ 1 \in Int
      BY <1>1
    <3> QED BY <1>1, <3>1, FS_Interval
  <2>4. f \in Injection(I, T)
    BY <2>1, <2>2 DEF Injection
  <2>5. f \in Surjection(I, T)
    BY <2>3, <2>4, FS_Injection
  <2> QED BY <2>1, <2>5 DEF Surjection
<1> QED BY <1>1, <1>2, <1>3, <1>4, <1>5

(* What Without leaves are the other elements, in their order.             *)
LEMMA WithoutRight ==
  ASSUME NEW T, NEW l \in Seq(T), NEW S
  PROVE  /\ Without(l, S) \in Seq(T)
         /\ ToSet(Without(l, S)) = ToSet(l) \ S
         /\ Within(Without(l, S), l)
<1> DEFINE stay == {i \in DOMAIN l : l[i] \notin S}
           rank(i) == Cardinality({k \in stay : k <= i})
           N == Cardinality(stay)
           at(n) == CHOOSE i \in stay : rank(i) = n
           r == [n \in 1 .. N |-> l[at(n)]]
<1>1. Without(l, S) = r
  BY DEF Without
<1>2. Len(l) \in Nat /\ DOMAIN l = 1 .. Len(l) /\ stay \in SUBSET (1 .. Len(l))
  OBVIOUS
<1>3. /\ N \in Nat
      /\ \A i \in stay : rank(i) \in 1 .. N
      /\ \A i, j \in stay : i < j <=> rank(i) < rank(j)
      /\ \A m \in 1 .. N : \E i \in stay : rank(i) = m
  <2> HIDE DEF stay
  <2> QED BY <1>2, RankRight
<1>4. \A i \in stay : i \in DOMAIN l /\ l[i] \notin S /\ l[i] \in T
  BY <1>2
<1>5. \A i \in DOMAIN l : l[i] \notin S => i \in stay
  OBVIOUS
<1> HIDE DEF stay, rank, N
<1>6. \A n \in 1 .. N : at(n) \in stay /\ rank(at(n)) = n
  BY <1>3
<1>7. DOMAIN r = 1 .. N /\ \A n \in 1 .. N : r[n] = l[at(n)]
  OBVIOUS
<1>8. r \in Seq(T)
  <2>1. \A n \in 1 .. N : r[n] \in T
    BY <1>4, <1>6, <1>7
  <2> QED BY <1>3, <1>7, <2>1
<1> HIDE DEF at, r
<1>9. ToSet(r) = ToSet(l) \ S
  <2>1. ASSUME NEW n \in DOMAIN r PROVE r[n] \in ToSet(l) \ S
    BY <1>4, <1>6, <1>7 DEF ToSet
  <2>2. ASSUME NEW i \in DOMAIN l, l[i] \notin S PROVE \E n \in DOMAIN r : r[n] = l[i]
    <3>1. i \in stay /\ rank(i) \in 1 .. N
      BY <1>3, <1>5, <2>2
    <3>2. at(rank(i)) \in stay /\ rank(at(rank(i))) = rank(i)
      BY <1>6, <3>1
    <3>3. at(rank(i)) = i
      <4>1. rank(i) \in Int /\ at(rank(i)) \in Int /\ i \in Int
        BY <1>2, <3>1, <3>2
      <4>2. ~(rank(i) < rank(at(rank(i)))) /\ ~(rank(at(rank(i))) < rank(i))
        BY <3>2, <4>1
      <4>3. ~(i < at(rank(i))) /\ ~(at(rank(i)) < i)
        BY <1>3, <3>1, <3>2, <4>2
      <4> QED BY <4>1, <4>3
    <3> QED BY <1>7, <3>1, <3>3
  <2> QED BY <2>1, <2>2 DEF ToSet
<1>10. Within(r, l)
  <2> SUFFICES ASSUME NEW m \in 1 .. N, NEW n \in 1 .. N, m < n
               PROVE  \E k, q \in DOMAIN l : k < q /\ l[k] = r[m] /\ l[q] = r[n]
    BY <1>7 DEF Within
  <2>1. at(m) \in stay /\ at(n) \in stay /\ rank(at(m)) < rank(at(n))
    BY <1>6
  <2>2. at(m) < at(n)
    BY <1>3, <2>1
  <2> QED BY <1>4, <1>7, <2>1, <2>2
<1> QED BY <1>1, <1>8, <1>9, <1>10

-----------------------------------------------------------------------------
(* The place of an insertion.                                              *)

(* The list by positions from 0, as the search sees it, and one step of it.*)
Ahead(o, i) == o.cb[o.callbacks[i + 1]].priority
Mid(p)      == p[1] + (p[2] - p[1]) \div 2
Pieces(o)   == (0 .. Len(o.callbacks)) \X (0 .. Len(o.callbacks))
Probe(o, priority, g, p) ==
  IF Ahead(o, Mid(p)) > priority THEN (IF Mid(p) + 1 <= p[2] THEN g[<<Mid(p) + 1, p[2]>>] ELSE Mid(p))
  ELSE IF Ahead(o, Mid(p)) < priority /\ Mid(p) > p[1] THEN g[<<p[1], Mid(p) - 1>>]
  ELSE Mid(p)
Searches(o, priority, g) == g = [p \in Pieces(o) |-> Probe(o, priority, g, p)]

Size(p) == IF p[2] < p[1] THEN 0 ELSE p[2] - p[1] + 1

LEMMA MidRight ==
  ASSUME NEW n \in Nat, NEW s \in 0 .. n, NEW l \in 0 .. n
  PROVE  LET p == <<s, l>>
         IN /\ Mid(p) \in Int /\ Size(p) \in Nat /\ p[1] = s /\ p[2] = l
            /\ s <= l => s <= Mid(p) /\ Mid(p) <= l
            /\ Mid(p) + 1 <= l => /\ s <= Mid(p) /\ Mid(p) + 1 \in 0 .. n
                                  /\ Size(<<Mid(p) + 1, l>>) < Size(p)
            /\ Mid(p) > s => /\ Mid(p) <= l /\ Mid(p) - 1 \in 0 .. n /\ s <= Mid(p) - 1
                             /\ Size(<<s, Mid(p) - 1>>) < Size(p)
<1> DEFINE m == Mid(<<s, l>>)
<1>1. m = s + (l - s) \div 2 /\ m \in Int
  BY DEF Mid
<1>2. Size(<<s, l>>) = IF l < s THEN 0 ELSE l - s + 1
  BY DEF Size
<1>3. s <= l => s <= m /\ m <= l
  BY <1>1
<1>4. l < s => l <= m /\ m < s
  BY <1>1
<1> HIDE DEF m
<1>5. ASSUME m + 1 <= l
      PROVE  s <= m /\ m + 1 \in 0 .. n /\ Size(<<m + 1, l>>) < Size(<<s, l>>)
  <2>1. s <= l /\ s <= m
    BY <1>1, <1>3, <1>4, <1>5
  <2>2. m + 1 \in 0 .. n
    BY <1>1, <1>5, <2>1
  <2>3. Size(<<m + 1, l>>) = IF l < m + 1 THEN 0 ELSE l - (m + 1) + 1
    BY DEF Size
  <2> QED BY <1>1, <1>2, <1>5, <2>1, <2>2, <2>3
<1>6. ASSUME m > s
      PROVE  m <= l /\ m - 1 \in 0 .. n /\ s <= m - 1 /\ Size(<<s, m - 1>>) < Size(<<s, l>>)
  <2>1. s <= l /\ m <= l
    BY <1>1, <1>3, <1>4, <1>6
  <2>2. m - 1 \in 0 .. n /\ s <= m - 1
    BY <1>1, <1>6, <2>1
  <2>3. Size(<<s, m - 1>>) = IF m - 1 < s THEN 0 ELSE (m - 1) - s + 1
    BY DEF Size
  <2> QED BY <1>1, <1>2, <1>6, <2>1, <2>2, <2>3
<1>7. Size(<<s, l>>) \in Nat
  BY <1>2
<1> QED BY <1>1, <1>3, <1>5, <1>6, <1>7 DEF m

(* A step uses the answers for smaller pieces only.                        *)
LEMMA ProbeLocal ==
  ASSUME NEW o, NEW priority, Len(o.callbacks) \in Nat, NEW g, NEW h, NEW p \in Pieces(o),
         \A q \in Pieces(o) : Size(q) < Size(p) => g[q] = h[q]
  PROVE  Probe(o, priority, g, p) = Probe(o, priority, h, p)
<1> DEFINE n == Len(o.callbacks)
<1>1. PICK s \in 0 .. n, l \in 0 .. n : p = <<s, l>>
  BY DEF Pieces
<1>2. p[1] = s /\ p[2] = l
  BY <1>1
<1>3. CASE Mid(p) + 1 <= l
  <2>1. <<Mid(p) + 1, l>> \in Pieces(o) /\ Size(<<Mid(p) + 1, l>>) < Size(p)
    BY <1>1, <1>3, MidRight DEF Pieces
  <2>2. g[<<Mid(p) + 1, l>>] = h[<<Mid(p) + 1, l>>]
    BY <2>1
  <2>3. Mid(p) > s => g[<<s, Mid(p) - 1>>] = h[<<s, Mid(p) - 1>>]
    BY <1>1, MidRight DEF Pieces
  <2> QED BY <1>2, <2>2, <2>3 DEF Probe
<1>4. CASE ~(Mid(p) + 1 <= l)
  <2>1. Mid(p) > s => g[<<s, Mid(p) - 1>>] = h[<<s, Mid(p) - 1>>]
    BY <1>1, MidRight DEF Pieces
  <2> QED BY <1>2, <1>4, <2>1 DEF Probe
<1> QED BY <1>3, <1>4

(* So there is a function that searches.                                   *)
LEMMA SearchExists ==
  ASSUME NEW o, NEW priority, Len(o.callbacks) \in Nat
  PROVE  \E g : Searches(o, priority, g)
<1> DEFINE D == Pieces(o)
           n == Len(o.callbacks)
           Upto(g, k) == \A p \in D : Size(p) < k => g[p] = Probe(o, priority, g, p)
           Found(k) == \E g : g = [p \in D |-> g[p]] /\ Upto(g, k)
           bad == {k \in Nat : ~Found(k)}
<1>1. \A p \in D : Size(p) \in Nat /\ Size(p) < n + 2
  <2>1. ASSUME NEW s \in 0 .. n, NEW l \in 0 .. n PROVE Size(<<s, l>>) \in Nat /\ Size(<<s, l>>) < n + 2
    BY DEF Size
  <2> QED BY <2>1 DEF Pieces
<1>2. Found(0)
  <2> DEFINE g == [p \in D |-> 0]
  <2>1. g = [p \in D |-> g[p]]
    OBVIOUS
  <2>2. Upto(g, 0)
    BY <1>1
  <2> QED BY <2>1, <2>2
<1>3. ASSUME NEW k \in Nat, Found(k) PROVE Found(k + 1)
  <2>1. PICK g : Upto(g, k)
    BY <1>3
  <2> DEFINE h == [p \in D |-> IF Size(p) < k THEN g[p] ELSE Probe(o, priority, g, p)]
  <2>2. \A p \in D : h[p] = IF Size(p) < k THEN g[p] ELSE Probe(o, priority, g, p)
    OBVIOUS
  <2>3. h = [p \in D |-> h[p]]
    OBVIOUS
  <2> HIDE DEF h, D
  <2>4. ASSUME NEW p \in D, Size(p) < k + 1 PROVE h[p] = Probe(o, priority, h, p)
    <3>1. \A q \in D : Size(q) < Size(p) => g[q] = h[q]
      <4>1. ASSUME NEW q \in D, Size(q) < Size(p) PROVE Size(q) < k
        BY <1>1, <2>4, <4>1
      <4> QED BY <2>2, <4>1
    <3>2. Probe(o, priority, g, p) = Probe(o, priority, h, p)
      BY <3>1, ProbeLocal DEF D
    <3>3. h[p] = Probe(o, priority, g, p)
      BY <2>1, <2>2
    <3> QED BY <3>2, <3>3
  <2> QED BY <2>3, <2>4
<1>4. bad = {}
  <2> SUFFICES ASSUME bad # {} PROVE FALSE
    OBVIOUS
  <2>1. bad \in SUBSET Nat
    OBVIOUS
  <2>2. PICK k \in bad : \A y \in bad : k <= y
    <3> HIDE DEF bad
    <3> QED BY <2>1, Least
  <2>3. k \in Nat /\ ~Found(k)
    OBVIOUS
  <2>4. k # 0
    BY <1>2, <2>3
  <2>5. k - 1 \in Nat /\ (k - 1) + 1 = k
    BY <2>3, <2>4
  <2>6. k - 1 \notin bad
    BY <2>2, <2>3, <2>5
  <2>7. Found(k - 1)
    BY <2>5, <2>6
  <2> HIDE DEF Found, bad
  <2>8. Found((k - 1) + 1)
    BY <1>3, <2>5, <2>7
  <2> QED BY <2>3, <2>5, <2>8
<1>5. Found(n + 2)
  <2>1. n + 2 \in Nat
    OBVIOUS
  <2> HIDE DEF Found, n
  <2> QED BY <1>4, <2>1
<1>6. PICK g : g = [p \in D |-> g[p]] /\ Upto(g, n + 2)
  BY <1>5
<1>7. \A p \in D : g[p] = Probe(o, priority, g, p)
  BY <1>1, <1>6
<1>8. g = [p \in D |-> Probe(o, priority, g, p)]
  <2> HIDE DEF D
  <2> QED BY <1>6, <1>7
<1> QED BY <1>8 DEF Searches

(* What the search finds has only callbacks of its priority or above       *)
(* before it.                                                              *)
SortedAhead(o) ==
  \A i, j \in 0 .. Len(o.callbacks) - 1 :
    /\ Ahead(o, i) \in Int
    /\ i <= j => Ahead(o, i) >= Ahead(o, j)

Behind(o, priority, m) ==
  m \in 0 .. Len(o.callbacks) - 1 /\ \A i \in 0 .. m - 1 : Ahead(o, i) >= priority

LEMMA SearchRight ==
  ASSUME NEW o, NEW priority \in Int, Len(o.callbacks) \in Nat, SortedAhead(o),
         NEW g, Searches(o, priority, g),
         NEW s \in 0 .. Len(o.callbacks) - 1, NEW l \in 0 .. Len(o.callbacks) - 1, s <= l,
         \A i \in 0 .. s - 1 : Ahead(o, i) >= priority
  PROVE  Behind(o, priority, g[<<s, l>>])
<1> DEFINE n == Len(o.callbacks)
           Ready(k, a, b) == Size(<<a, b>>) = k /\ a <= b /\ \A i \in 0 .. a - 1 : Ahead(o, i) >= priority
           bad == {k \in Nat : \E a, b \in 0 .. n - 1 :
                     Ready(k, a, b) /\ ~Behind(o, priority, g[<<a, b>>])}
<1>1. ASSUME NEW a \in 0 .. n - 1, NEW b \in 0 .. n - 1, a <= b,
             \A i \in 0 .. a - 1 : Ahead(o, i) >= priority,
             \A c, d \in 0 .. n - 1 :
               Size(<<c, d>>) < Size(<<a, b>>) /\ c <= d /\ (\A i \in 0 .. c - 1 : Ahead(o, i) >= priority)
                 => Behind(o, priority, g[<<c, d>>])
      PROVE  Behind(o, priority, g[<<a, b>>])
  <2> DEFINE m == Mid(<<a, b>>)
  <2>1. /\ m \in Int /\ a <= m /\ m <= b
        /\ m + 1 <= b => m + 1 \in 0 .. n - 1 /\ Size(<<m + 1, b>>) < Size(<<a, b>>)
        /\ m > a => m - 1 \in 0 .. n - 1 /\ a <= m - 1 /\ Size(<<a, m - 1>>) < Size(<<a, b>>)
    <3>1. n - 1 \in Nat
      OBVIOUS
    <3> QED BY <1>1, <3>1, MidRight
  <2>2. g[<<a, b>>] =
          IF Ahead(o, m) > priority THEN (IF m + 1 <= b THEN g[<<m + 1, b>>] ELSE m)
          ELSE IF Ahead(o, m) < priority /\ m > a THEN g[<<a, m - 1>>]
          ELSE m
    <3>1. <<a, b>> \in Pieces(o)
      BY DEF Pieces
    <3>2. <<a, b>>[1] = a /\ <<a, b>>[2] = b
      OBVIOUS
    <3>3. g[<<a, b>>] = Probe(o, priority, g, <<a, b>>)
      BY <3>1 DEF Searches
    <3> QED BY <3>2, <3>3 DEF Probe
  <2> HIDE DEF m
  <2>3. m \in 0 .. n - 1 /\ \A i \in 0 .. m : Ahead(o, i) >= Ahead(o, m) /\ Ahead(o, i) \in Int
    <3>1. m \in 0 .. n - 1
      BY <2>1
    <3>2. ASSUME NEW i \in 0 .. m PROVE Ahead(o, i) >= Ahead(o, m) /\ Ahead(o, i) \in Int
      <4>1. i \in 0 .. n - 1 /\ i <= m
        BY <3>1
      <4> QED BY <3>1, <4>1 DEF SortedAhead
    <3> QED BY <3>1, <3>2
  <2>4. CASE Ahead(o, m) > priority
    <3>1. \A i \in 0 .. m : Ahead(o, i) >= priority
      <4>1. ASSUME NEW i \in 0 .. m PROVE Ahead(o, i) >= priority
        <5>1. Ahead(o, i) >= Ahead(o, m) /\ Ahead(o, i) \in Int /\ Ahead(o, m) \in Int
          BY <2>3
        <5> QED BY <2>4, <5>1
      <4> QED BY <4>1
    <3>2. CASE m + 1 <= b
      <4>1. \A i \in 0 .. (m + 1) - 1 : Ahead(o, i) >= priority
        BY <2>1, <3>1
      <4>2. Behind(o, priority, g[<<m + 1, b>>])
        BY <1>1, <2>1, <3>2, <4>1
      <4> QED BY <2>2, <2>4, <3>2, <4>2
    <3>3. CASE ~(m + 1 <= b)
      <4>1. g[<<a, b>>] = m
        BY <2>2, <2>4, <3>3
      <4>2. \A i \in 0 .. m - 1 : i \in 0 .. m
        BY <2>1
      <4> QED BY <2>3, <3>1, <4>1, <4>2 DEF Behind
    <3> QED BY <3>2, <3>3
  <2>5. CASE ~(Ahead(o, m) > priority) /\ Ahead(o, m) < priority /\ m > a
    <3>1. g[<<a, b>>] = g[<<a, m - 1>>]
      BY <2>2, <2>5
    <3> QED BY <1>1, <2>1, <2>5, <3>1
  <2>6. CASE ~(Ahead(o, m) > priority) /\ ~(Ahead(o, m) < priority /\ m > a)
    <3>1. g[<<a, b>>] = m
      BY <2>2, <2>6
    <3>2. ASSUME NEW i \in 0 .. m - 1 PROVE Ahead(o, i) >= priority
      <4>1. i \in 0 .. m
        BY <2>1
      <4>2. Ahead(o, i) >= Ahead(o, m) /\ Ahead(o, i) \in Int /\ Ahead(o, m) \in Int
        <5>1. m \in 0 .. m
          BY <2>3
        <5> QED BY <2>3, <4>1, <5>1
      <4>3. CASE Ahead(o, m) < priority
        <5>1. m = a
          BY <2>1, <2>6, <4>3
        <5> QED BY <1>1, <5>1
      <4>4. CASE ~(Ahead(o, m) < priority)
        BY <4>2, <4>4
      <4> QED BY <4>3, <4>4
    <3> QED BY <2>3, <3>1, <3>2 DEF Behind
  <2> QED BY <2>4, <2>5, <2>6
<1>2. bad = {}
  <2> SUFFICES ASSUME bad # {} PROVE FALSE
    OBVIOUS
  <2>1. bad \in SUBSET Nat
    OBVIOUS
  <2>2. PICK k \in bad : \A y \in bad : k <= y
    <3> HIDE DEF bad
    <3> QED BY <2>1, Least
  <2>3. PICK a \in 0 .. n - 1, b \in 0 .. n - 1 : Ready(k, a, b) /\ ~Behind(o, priority, g[<<a, b>>])
    OBVIOUS
  <2>4. ASSUME NEW c \in 0 .. n - 1, NEW d \in 0 .. n - 1,
               Size(<<c, d>>) < Size(<<a, b>>), c <= d, \A i \in 0 .. c - 1 : Ahead(o, i) >= priority
        PROVE  Behind(o, priority, g[<<c, d>>])
    <3>1. Size(<<c, d>>) \in Nat
      <4>1. n \in Nat /\ c \in 0 .. n /\ d \in 0 .. n
        OBVIOUS
      <4> QED BY <4>1, MidRight
    <3>2. Ready(Size(<<c, d>>), c, d)
      BY <2>4
    <3>3. k \in Nat /\ k = Size(<<a, b>>)
      BY <2>3
    <3>4. Size(<<c, d>>) \notin bad
      <4> HIDE DEF bad
      <4>1. k <= Size(<<c, d>>) <=> ~(Size(<<c, d>>) < k)
        BY <3>1, <3>3
      <4> QED BY <2>2, <2>4, <3>3, <4>1
    <3> QED BY <3>1, <3>2, <3>4
  <2>5. a <= b /\ \A i \in 0 .. a - 1 : Ahead(o, i) >= priority
    BY <2>3
  <2> QED BY <1>1, <2>3, <2>4, <2>5
<1>3. Size(<<s, l>>) \in Nat
  <2>1. n \in Nat /\ s \in 0 .. n /\ l \in 0 .. n
    OBVIOUS
  <2> QED BY <2>1, MidRight
<1>4. Ready(Size(<<s, l>>), s, l)
  OBVIOUS
<1>5. Size(<<s, l>>) \notin bad
  BY <1>2
<1> QED BY <1>3, <1>4, <1>5

LEMMA NearRight ==
  ASSUME NEW o, NEW priority \in Int, Len(o.callbacks) \in Nat, SortedAhead(o)
  PROVE  /\ Near(o, priority) \in 0 .. Len(o.callbacks)
         /\ \A i \in 0 .. Near(o, priority) - 1 : Ahead(o, i) >= priority
<1> DEFINE n == Len(o.callbacks)
           g == CHOOSE g : Searches(o, priority, g)
<1>1. Searches(o, priority, g)
  BY SearchExists
<1>2. Near(o, priority) = IF n <= 1 THEN 0 ELSE g[<<0, n - 1>>]
  BY DEF Near, Searches, Pieces, Probe, Ahead, Mid
<1> HIDE DEF g
<1>3. CASE n <= 1
  BY <1>2, <1>3
<1>4. CASE ~(n <= 1)
  <2>1. 0 \in 0 .. n - 1 /\ n - 1 \in 0 .. n - 1 /\ 0 <= n - 1
    BY <1>4
  <2>2. \A i \in 0 .. 0 - 1 : Ahead(o, i) >= priority
    OBVIOUS
  <2>3. Behind(o, priority, g[<<0, n - 1>>])
    BY <1>1, <2>1, <2>2, SearchRight
  <2> QED BY <1>2, <1>4, <2>3 DEF Behind
<1> QED BY <1>3, <1>4

(* A new callback comes after those of its priority.                       *)
LEMMA PlaceRight ==
  ASSUME NEW o, NEW priority \in Int, Len(o.callbacks) \in Nat, SortedAhead(o)
  PROVE  /\ Place(o, priority) \in 0 .. Len(o.callbacks)
         /\ \A i \in 0 .. Place(o, priority) - 1 : Ahead(o, i) >= priority
         /\ \A i \in Place(o, priority) .. Len(o.callbacks) - 1 : Ahead(o, i) < priority
<1> DEFINE n == Len(o.callbacks)
           I == {i \in Near(o, priority) .. n : i = n \/ Ahead(o, i) < priority}
<1>1. /\ Near(o, priority) \in 0 .. n
      /\ \A i \in 0 .. Near(o, priority) - 1 : Ahead(o, i) >= priority
  BY NearRight
<1>2. Place(o, priority) = Min(I)
  BY DEF Place, Ahead
<1>3. I \in SUBSET Nat /\ I # {} /\ \A i \in I : i \in 0 .. n
  <2>1. n \in I
    BY <1>1
  <2> QED BY <1>1, <2>1
<1>4. Min(I) \in I /\ \A y \in I : Min(I) <= y
  <2> HIDE DEF I
  <2> QED BY <1>3, MinRight
<1> DEFINE j == Min(I)
<1>5. j \in 0 .. n /\ (j = n \/ Ahead(o, j) < priority) /\ \A i \in I : j <= i
  BY <1>3, <1>4
<1> HIDE DEF j
<1>6. ASSUME NEW i \in 0 .. j - 1 PROVE Ahead(o, i) >= priority
  <2>1. i \in 0 .. n - 1 /\ ~(j <= i) /\ i # n
    BY <1>5
  <2>2. CASE i < Near(o, priority)
    BY <1>1, <2>1, <2>2
  <2>3. CASE ~(i < Near(o, priority))
    <3>1. i \in Near(o, priority) .. n
      BY <1>1, <2>1, <2>3
    <3>2. ~(Ahead(o, i) < priority)
      BY <1>5, <2>1, <3>1
    <3> QED BY <2>1, <3>2 DEF SortedAhead
  <2> QED BY <2>2, <2>3
<1>7. ASSUME NEW i \in j .. n - 1 PROVE Ahead(o, i) < priority
  <2>1. j # n /\ j \in 0 .. n - 1 /\ i \in 0 .. n - 1 /\ j <= i
    BY <1>5
  <2>2. Ahead(o, j) >= Ahead(o, i) /\ Ahead(o, j) \in Int /\ Ahead(o, i) \in Int
    BY <2>1 DEF SortedAhead
  <2> QED BY <1>5, <2>1, <2>2
<1> QED BY <1>2, <1>5, <1>6, <1>7 DEF j

-----------------------------------------------------------------------------
(* Types, spelt out.                                                       *)
LEMMA ObjTyped ==
  ASSUME NEW o \in ObjData
  PROVE  /\ Len(o.callbacks) \in Nat /\ DOMAIN o.callbacks = 1 .. Len(o.callbacks)
         /\ \A i \in 1 .. Len(o.callbacks) : o.callbacks[i] \in Cbs
         /\ Listed(o) \subseteq Cbs
         /\ \A c \in Cbs : /\ o.cb[c].items \in Seq(AllEvents) /\ o.cb[c].priority \in Int
                           /\ o.cb[c].generation \in Nat /\ o.cb[c].deleted \in BOOLEAN
                           /\ \A e : ItemsFor(o, c, e) \subseteq 1 .. Len(o.cb[c].items)
                           /\ Len(o.cb[c].items) \in Nat
         /\ \A c \in Listed(o) : c \in Int
<1>1. o.callbacks \in Seq(Cbs) /\ o.cb \in [Cbs -> CbData]
  BY DEF ObjData
<1>2. Len(o.callbacks) \in Nat /\ DOMAIN o.callbacks = 1 .. Len(o.callbacks)
      /\ \A i \in 1 .. Len(o.callbacks) : o.callbacks[i] \in Cbs
  BY <1>1
<1>3. Listed(o) \subseteq Cbs
  BY <1>2 DEF Listed, ToSet
<1>4. ASSUME NEW c \in Cbs
      PROVE  /\ o.cb[c].items \in Seq(AllEvents) /\ o.cb[c].priority \in Int
             /\ o.cb[c].generation \in Nat /\ o.cb[c].deleted \in BOOLEAN
             /\ \A e : ItemsFor(o, c, e) \subseteq 1 .. Len(o.cb[c].items)
             /\ Len(o.cb[c].items) \in Nat
  <2>1. /\ o.cb[c].items \in Seq(AllEvents) /\ o.cb[c].priority \in Int
        /\ o.cb[c].generation \in Nat /\ o.cb[c].deleted \in BOOLEAN
    BY <1>1 DEF CbData
  <2>2. DOMAIN o.cb[c].items = 1 .. Len(o.cb[c].items) /\ Len(o.cb[c].items) \in Nat
    BY <2>1
  <2> QED BY <2>1, <2>2 DEF ItemsFor
<1>5. \A c \in Listed(o) : c \in Int
  BY <1>3 DEF Cbs
<1> QED BY <1>2, <1>3, <1>4, <1>5

LEMMA FrameTyped ==
  ASSUME NEW o \in ObjData
  PROVE  /\ Len(o.frames) \in Nat /\ DOMAIN o.frames = 1 .. Len(o.frames)
         /\ \A i \in 1 .. Len(o.frames) : o.frames[i] \in FrameData
         /\ o.frames = <<>> <=> Len(o.frames) = 0
<1>1. o.frames \in Seq(FrameData)
  BY DEF ObjData
<1> QED BY <1>1

(* A sequence with other elements at the same positions.                   *)
LEMMA SameLength ==
  ASSUME NEW S, NEW s \in Seq(S), NEW g, g = [i \in DOMAIN s |-> g[i]],
         \A i \in 1 .. Len(s) : g[i] \in S
  PROVE  g \in Seq(S) /\ Len(g) = Len(s) /\ DOMAIN g = 1 .. Len(s)
<1>1. Len(s) \in Nat /\ DOMAIN s = 1 .. Len(s)
  OBVIOUS
<1>2. g \in [1 .. Len(s) -> S]
  BY <1>1
<1> QED BY <1>1, <1>2

-----------------------------------------------------------------------------
(* The counters.                                                           *)
LEMMA CbsFinite == ASSUME NEW S \in SUBSET Cbs PROVE IsFiniteSet(S) /\ IsFiniteSet(Cbs)
<1>1. MaxCbs \in Nat
  BY BoundsAssumption
<1>2. IsFiniteSet(Cbs)
  BY <1>1, FS_Interval DEF Cbs
<1> QED BY <1>2, FS_Subset

LEMMA ItemsFinite ==
  ASSUME NEW o \in ObjData, NEW S \in SUBSET Cbs, NEW e
  PROVE  IsFiniteSet(ItemsOf(o, S, e)) /\ Cardinality(ItemsOf(o, S, e)) \in Nat
<1> DEFINE f == [c \in S |-> {c} \X ItemsFor(o, c, e)]
           T == {{c} \X ItemsFor(o, c, e) : c \in S}
<1>1. IsFiniteSet(S)
  BY CbsFinite
<1>2. f \in [S -> T] /\ \A t \in T : \E c \in S : f[c] = t
  OBVIOUS
<1>3. \A t \in T : IsFiniteSet(t)
  <2>1. ASSUME NEW c \in S PROVE IsFiniteSet({c} \X ItemsFor(o, c, e))
    <3>1. ItemsFor(o, c, e) \subseteq 1 .. Len(o.cb[c].items) /\ Len(o.cb[c].items) \in Nat
      BY ObjTyped
    <3>2. IsFiniteSet(ItemsFor(o, c, e))
      <4>1. IsFiniteSet(1 .. Len(o.cb[c].items))
        BY <3>1, FS_Interval
      <4> QED BY <3>1, <4>1, FS_Subset
    <3>3. IsFiniteSet({c})
      BY FS_Singleton
    <3> QED BY <3>2, <3>3, FS_Product
  <2> QED BY <2>1
<1>4. ItemsOf(o, S, e) = UNION T
  BY DEF ItemsOf
<1> HIDE DEF f, T
<1>5. f \in Surjection(S, T)
  BY <1>2 DEF Surjection
<1>6. IsFiniteSet(T)
  BY <1>1, <1>5, FS_Surjection
<1>7. IsFiniteSet(UNION T)
  BY <1>3, <1>6, FS_UNION
<1> QED BY <1>4, <1>7, FS_CardinalityType

(* What two sets of callbacks have adds up.                                *)
LEMMA ItemsSplit ==
  ASSUME NEW o \in ObjData, NEW S \in SUBSET Cbs, NEW T \in SUBSET Cbs, S \cap T = {}, NEW e
  PROVE  Cardinality(ItemsOf(o, S \cup T, e)) =
           Cardinality(ItemsOf(o, S, e)) + Cardinality(ItemsOf(o, T, e))
<1>1. ItemsOf(o, S \cup T, e) = ItemsOf(o, S, e) \cup ItemsOf(o, T, e)
  BY DEF ItemsOf
<1>2. ItemsOf(o, S, e) \cap ItemsOf(o, T, e) = {}
  <2>1. \A x \in ItemsOf(o, S, e) : x[1] \in S
    BY DEF ItemsOf
  <2>2. \A x \in ItemsOf(o, T, e) : x[1] \in T
    BY DEF ItemsOf
  <2> QED BY <2>1, <2>2
<1>3. IsFiniteSet(ItemsOf(o, S, e)) /\ IsFiniteSet(ItemsOf(o, T, e))
      /\ Cardinality(ItemsOf(o, S, e)) \in Nat /\ Cardinality(ItemsOf(o, T, e)) \in Nat
  BY ItemsFinite
<1>4. Cardinality(ItemsOf(o, S, e) \cap ItemsOf(o, T, e)) = 0
  BY <1>2, FS_EmptySet
<1> DEFINE a == ItemsOf(o, S, e)
           b == ItemsOf(o, T, e)
<1>5. Cardinality(a \cup b) = Cardinality(a) + Cardinality(b) - Cardinality(a \cap b)
  <2> HIDE DEF a, b
  <2>1. IsFiniteSet(a) /\ IsFiniteSet(b)
    BY <1>3 DEF a, b
  <2> QED BY <2>1, FS_Union
<1>6. Cardinality(a) \in Nat /\ Cardinality(b) \in Nat /\ Cardinality(a \cap b) = 0
  BY <1>3, <1>4
<1>7. Cardinality(a \cup b) = Cardinality(a) + Cardinality(b)
  <2> HIDE DEF a, b
  <2> QED BY <1>5, <1>6
<1> QED BY <1>1, <1>7

(* They depend on the items alone.                                         *)
LEMMA ItemsSame ==
  ASSUME NEW o, NEW p, NEW S, \A c \in S : p.cb[c].items = o.cb[c].items, NEW e
  PROVE  ItemsOf(p, S, e) = ItemsOf(o, S, e)
<1>1. \A c \in S : ItemsFor(p, c, e) = ItemsFor(o, c, e)
  BY DEF ItemsFor
<1>2. \A c \in S : {c} \X ItemsFor(p, c, e) = {c} \X ItemsFor(o, c, e)
  BY <1>1
<1>3. {{c} \X ItemsFor(p, c, e) : c \in S} = {{c} \X ItemsFor(o, c, e) : c \in S}
  BY <1>2
<1> QED BY <1>3 DEF ItemsOf

-----------------------------------------------------------------------------
(* What the operations on the list make of it.  The part of ListGood that  *)
(* is not about emissions:                                                 *)
ListWhole(o) ==
  /\ o \in ObjData
  /\ Sorted(o) /\ Listed(o) = Live(o) /\ CountsRight(o) /\ BornInOrder(o)

LEMMA CountedRight ==
  ASSUME NEW o \in ObjData, NEW S \in SUBSET Cbs, NEW n \in {1, -1}
  PROVE  /\ Counted(o, S, n) \in ObjData
         /\ Counted(o, S, n) = [o EXCEPT !.adds = Counted(o, S, n).adds, !.dels = Counted(o, S, n).dels]
         /\ n = 1 => /\ Counted(o, S, n).adds = o.adds + Cardinality(ItemsOf(o, S, Add))
                     /\ Counted(o, S, n).dels = o.dels + Cardinality(ItemsOf(o, S, Del))
         /\ n = -1 => /\ Counted(o, S, n).adds = o.adds - Cardinality(ItemsOf(o, S, Add))
                      /\ Counted(o, S, n).dels = o.dels - Cardinality(ItemsOf(o, S, Del))
<1> DEFINE a == Cardinality(ItemsOf(o, S, Add))
           d == Cardinality(ItemsOf(o, S, Del))
           x == o.adds + n * a
           y == o.dels + n * d
           p == [o EXCEPT !.adds = x, !.dels = y]
<1>1. a \in Nat /\ d \in Nat
  BY ItemsFinite
<1>2. Counted(o, S, n) = p
  BY DEF Counted
<1>3. o.adds \in Int /\ o.dels \in Int
  BY DEF ObjData
<1> HIDE DEF a, d
<1>4. x \in Int /\ y \in Int
  BY <1>1, <1>3
<1>5. n = 1 => x = o.adds + a /\ y = o.dels + d
  BY <1>1, <1>3
<1>6. n = -1 => x = o.adds - a /\ y = o.dels - d
  BY <1>1, <1>3
<1> HIDE DEF x, y
<1>7. p \in ObjData
  BY <1>4 DEF ObjData
<1>8. p.adds = x /\ p.dels = y /\ p = [o EXCEPT !.adds = p.adds, !.dels = p.dels]
  BY DEF ObjData
<1> HIDE DEF p
<1>9. n = 1 => p.adds = o.adds + a /\ p.dels = o.dels + d
  BY <1>5, <1>8
<1>10. n = -1 => p.adds = o.adds - a /\ p.dels = o.dels - d
  BY <1>6, <1>8
<1> QED BY <1>2, <1>7, <1>8, <1>9, <1>10 DEF a, d

(* _eo_callback_remove: the others stay as they are.                       *)
LEMMA RemovedRight ==
  ASSUME NEW o, ListWhole(o), NEW S \in SUBSET Listed(o)
  PROVE  LET p == Removed(o, S)
         IN /\ ListWhole(p) /\ Listed(p) = Listed(o) \ S
            /\ p = [o EXCEPT !.callbacks = p.callbacks, !.cb = p.cb, !.adds = p.adds, !.dels = p.dels]
            /\ \A c \in Cbs \ S : p.cb[c] = o.cb[c]
<1> DEFINE l == Without(o.callbacks, S)
           b == [c \in Cbs |-> IF c \in S THEN [o.cb[c] EXCEPT !.mem = "freed"] ELSE o.cb[c]]
           k == Counted(o, S, -1)
           p == [o EXCEPT !.callbacks = l, !.cb = b, !.adds = k.adds, !.dels = k.dels]
<1>1. o \in ObjData /\ o.callbacks \in Seq(Cbs) /\ o.cb \in [Cbs -> CbData] /\ S \in SUBSET Cbs
      /\ Listed(o) \subseteq Cbs
  BY ObjTyped DEF ListWhole, ObjData
<1>2. /\ k \in ObjData /\ k = [o EXCEPT !.adds = k.adds, !.dels = k.dels]
      /\ k.adds = o.adds - Cardinality(ItemsOf(o, S, Add))
      /\ k.dels = o.dels - Cardinality(ItemsOf(o, S, Del))
  BY <1>1, CountedRight
<1>3. l \in Seq(Cbs) /\ ToSet(l) = Listed(o) \ S /\ Within(l, o.callbacks)
  BY <1>1, WithoutRight DEF Listed
<1>4. b \in [Cbs -> CbData] /\ \A c \in Cbs : b[c] = IF c \in S THEN [o.cb[c] EXCEPT !.mem = "freed"] ELSE o.cb[c]
  BY <1>1 DEF CbData
<1>5. Removed(o, S) = p
  <2>1. Removed(o, S) = [k EXCEPT !.callbacks = l, !.cb = b]
    <3>1. k.callbacks = o.callbacks /\ k.cb = o.cb
      BY <1>1, <1>2 DEF ObjData
    <3> HIDE DEF k
    <3> QED BY <3>1 DEF Removed, k
  <2> HIDE DEF k, l, b
  <2> QED BY <1>1, <1>2, <2>1 DEF ObjData
<1>6. k.adds \in Int /\ k.dels \in Int
  BY <1>2 DEF ObjData
<1> HIDE DEF k, l, b
<1>7. p \in ObjData /\ p.callbacks = l /\ p.cb = b /\ p.adds = k.adds /\ p.dels = k.dels
      /\ Listed(p) = Listed(o) \ S
  BY <1>1, <1>3, <1>4, <1>6 DEF ObjData, Listed
<1>8. p = [o EXCEPT !.callbacks = p.callbacks, !.cb = p.cb, !.adds = p.adds, !.dels = p.dels]
  BY <1>1 DEF ObjData
<1> HIDE DEF p
<1>9. \A c \in Cbs : p.cb[c].priority = o.cb[c].priority /\ p.cb[c].items = o.cb[c].items
                     /\ p.cb[c].mem = IF c \in S THEN "freed" ELSE o.cb[c].mem
  BY <1>1, <1>4, <1>7 DEF CbData
<1>10. Sorted(p)
  <2> SUFFICES ASSUME NEW i \in DOMAIN p.callbacks, NEW j \in DOMAIN p.callbacks, i < j
               PROVE  Above(p, p.callbacks[i], p.callbacks[j])
    BY DEF Sorted
  <2>1. PICK m \in DOMAIN o.callbacks, n \in DOMAIN o.callbacks :
           m < n /\ o.callbacks[m] = p.callbacks[i] /\ o.callbacks[n] = p.callbacks[j]
    BY <1>3, <1>7 DEF Within
  <2>2. Above(o, p.callbacks[i], p.callbacks[j])
    BY <2>1 DEF ListWhole, Sorted
  <2>3. p.callbacks[i] \in Cbs /\ p.callbacks[j] \in Cbs
    BY <1>7, ObjTyped
  <2> QED BY <1>9, <2>2, <2>3 DEF Above
<1>11. Listed(p) = Live(p)
  BY <1>1, <1>7, <1>9 DEF Live, ListWhole
<1>12. CountsRight(p)
  <2>1. \A e : Cardinality(ItemsOf(o, Listed(o), e)) =
               Cardinality(ItemsOf(o, Listed(o) \ S, e)) + Cardinality(ItemsOf(o, S, e))
    <3>1. (Listed(o) \ S) \cup S = Listed(o) /\ (Listed(o) \ S) \cap S = {}
          /\ (Listed(o) \ S) \in SUBSET Cbs
      BY <1>1
    <3> QED BY <1>1, <3>1, ItemsSplit
  <2>2. \A e : ItemsOf(p, Listed(p), e) = ItemsOf(o, Listed(o) \ S, e)
    BY <1>1, <1>7, <1>9, ItemsSame
  <2>3. \A e : /\ Cardinality(ItemsOf(o, Listed(o) \ S, e)) \in Nat
               /\ Cardinality(ItemsOf(o, S, e)) \in Nat
    BY <1>1, ItemsFinite
  <2>4. o.adds = Cardinality(ItemsOf(o, Listed(o), Add)) /\ o.dels = Cardinality(ItemsOf(o, Listed(o), Del))
    BY DEF ListWhole, CountsRight
  <2> DEFINE u(e) == Cardinality(ItemsOf(o, Listed(o) \ S, e))
             v(e) == Cardinality(ItemsOf(o, S, e))
  <2>5. /\ p.adds = (u(Add) + v(Add)) - v(Add) /\ p.dels = (u(Del) + v(Del)) - v(Del)
        /\ u(Add) \in Nat /\ v(Add) \in Nat /\ u(Del) \in Nat /\ v(Del) \in Nat
    BY <1>2, <1>7, <2>1, <2>3, <2>4
  <2> HIDE DEF u, v
  <2>6. p.adds = u(Add) /\ p.dels = u(Del)
    BY <2>5
  <2> QED BY <2>2, <2>6 DEF CountsRight, u
<1>13. BornInOrder(p)
  <2>1. \A c \in S : o.cb[c].mem = "live"
    BY DEF ListWhole, Live
  <2>2. \A c \in Cbs : p.cb[c].mem = "unborn" <=> o.cb[c].mem = "unborn"
    BY <1>1, <1>9, <2>1
  <2> QED BY <2>2 DEF ListWhole, BornInOrder
<1>14. \A c \in Cbs \ S : p.cb[c] = o.cb[c]
  BY <1>4, <1>7
<1> QED BY <1>5, <1>7, <1>8, <1>10, <1>11, <1>12, <1>13, <1>14 DEF ListWhole, p

(* The order of the list is the order of its positions.                    *)
LEMMA PlacesRight ==
  ASSUME NEW o \in ObjData, Sorted(o)
  PROVE  /\ \A i, j \in 1 .. Len(o.callbacks) :
              /\ i < j <=> Above(o, o.callbacks[i], o.callbacks[j])
              /\ i = j <=> o.callbacks[i] = o.callbacks[j]
         /\ \A c, d \in Cbs : ~(Above(o, c, d) /\ Above(o, d, c)) /\ ~Above(o, c, c)
         /\ \A c \in Listed(o) : \E i \in 1 .. Len(o.callbacks) : o.callbacks[i] = c
         /\ \A i \in 1 .. Len(o.callbacks) : o.callbacks[i] \in Listed(o)
<1>1. /\ Len(o.callbacks) \in Nat /\ DOMAIN o.callbacks = 1 .. Len(o.callbacks)
      /\ \A i \in 1 .. Len(o.callbacks) : o.callbacks[i] \in Cbs
  BY ObjTyped
<1>2. ASSUME NEW c \in Cbs, NEW d \in Cbs
      PROVE  ~(Above(o, c, d) /\ Above(o, d, c)) /\ ~Above(o, c, c)
  <2>1. o.cb[c].priority \in Int /\ o.cb[d].priority \in Int /\ c \in Int /\ d \in Int
    BY ObjTyped DEF Cbs
  <2> QED BY <2>1 DEF Above
<1>3. ASSUME NEW i \in 1 .. Len(o.callbacks), NEW j \in 1 .. Len(o.callbacks)
      PROVE  /\ i < j <=> Above(o, o.callbacks[i], o.callbacks[j])
             /\ i = j <=> o.callbacks[i] = o.callbacks[j]
  <2>1. i < j => Above(o, o.callbacks[i], o.callbacks[j])
    BY <1>1 DEF Sorted
  <2>2. j < i => Above(o, o.callbacks[j], o.callbacks[i])
    BY <1>1 DEF Sorted
  <2>3. i < j \/ i = j \/ j < i
    BY <1>1
  <2>4. o.callbacks[i] \in Cbs /\ o.callbacks[j] \in Cbs
    BY <1>1
  <2> QED BY <1>1, <1>2, <2>1, <2>2, <2>3, <2>4
<1>4. \A c \in Listed(o) : \E i \in 1 .. Len(o.callbacks) : o.callbacks[i] = c
  BY <1>1 DEF Listed, ToSet
<1>5. \A i \in 1 .. Len(o.callbacks) : o.callbacks[i] \in Listed(o)
  BY <1>1 DEF Listed, ToSet
<1> QED BY <1>2, <1>3, <1>4, <1>5

(* A sorted list can be searched.                                          *)
LEMMA SortedSeen ==
  ASSUME NEW o \in ObjData, Sorted(o)
  PROVE  SortedAhead(o) /\ \A i \in 1 .. Len(o.callbacks) : Ahead(o, i - 1) = o.cb[o.callbacks[i]].priority
<1> SUFFICES ASSUME NEW i \in 0 .. Len(o.callbacks) - 1, NEW j \in 0 .. Len(o.callbacks) - 1
             PROVE  Ahead(o, i) \in Int /\ (i <= j => Ahead(o, i) >= Ahead(o, j))
  <2>1. ASSUME NEW i \in 1 .. Len(o.callbacks) PROVE Ahead(o, i - 1) = o.cb[o.callbacks[i]].priority
    <3>1. (i - 1) + 1 = i
      OBVIOUS
    <3> QED BY <3>1 DEF Ahead
  <2> QED BY <2>1 DEF SortedAhead
<1>1. Len(o.callbacks) \in Nat /\ i + 1 \in 1 .. Len(o.callbacks) /\ j + 1 \in 1 .. Len(o.callbacks)
  BY ObjTyped
<1>2. o.callbacks[i + 1] \in Cbs /\ o.callbacks[j + 1] \in Cbs
  BY <1>1, ObjTyped
<1>3. Ahead(o, i) \in Int /\ Ahead(o, j) \in Int
  BY <1>2, ObjTyped DEF Ahead
<1>4. ASSUME i < j PROVE Ahead(o, i) >= Ahead(o, j)
  <2>1. i + 1 < j + 1
    BY <1>4
  <2>2. Above(o, o.callbacks[i + 1], o.callbacks[j + 1])
    BY <1>1, <2>1, PlacesRight
  <2> QED BY <1>3, <2>2 DEF Above, Ahead
<1> QED BY <1>3, <1>4

(* A description made, and put into the list.                              *)
Made(o, c, kind) ==
  [o EXCEPT !.cb[c] = [NewCb EXCEPT !.mem = "live", !.items = kind.items,
                         !.priority = kind.priority, !.generation = Generation(o)],
            !.cleaning = @ \/ Generation(o) > 0]
Added(o, c, kind) == Counted(Inserted(Made(o, c, kind), c), {c}, 1)

(* The place depends on the priorities in the list alone.                  *)
LEMMA PlaceSame ==
  ASSUME NEW o \in ObjData, Sorted(o), NEW p \in ObjData, Sorted(p), NEW priority \in Int,
         p.callbacks = o.callbacks,
         \A c \in Listed(o) : p.cb[c].priority = o.cb[c].priority
  PROVE  Place(p, priority) = Place(o, priority)
<1> DEFINE n == Len(o.callbacks)
           i == Place(o, priority)
           j == Place(p, priority)
<1>1. n \in Nat /\ SortedAhead(o) /\ SortedAhead(p)
  BY ObjTyped, SortedSeen
<1>2. /\ i \in 0 .. n /\ \A k \in 0 .. i - 1 : Ahead(o, k) >= priority
      /\ \A k \in i .. n - 1 : Ahead(o, k) < priority
  BY <1>1, PlaceRight
<1>3. /\ j \in 0 .. n /\ \A k \in 0 .. j - 1 : Ahead(p, k) >= priority
      /\ \A k \in j .. n - 1 : Ahead(p, k) < priority
  BY <1>1, PlaceRight
<1>4. \A k \in 0 .. n - 1 : Ahead(p, k) = Ahead(o, k) /\ Ahead(o, k) \in Int
  <2>1. ASSUME NEW k \in 0 .. n - 1 PROVE Ahead(p, k) = Ahead(o, k) /\ Ahead(o, k) \in Int
    <3>1. k + 1 \in 1 .. n
      BY <1>1
    <3>2. o.callbacks[k + 1] \in Listed(o)
      BY <3>1, PlacesRight
    <3> QED BY <1>1, <3>2 DEF Ahead, SortedAhead
  <2> QED BY <2>1
<1> HIDE DEF i, j
<1>5. ~(i < j)
  <2> SUFFICES ASSUME i < j PROVE FALSE
    OBVIOUS
  <2>1. i \in i .. n - 1 /\ i \in 0 .. j - 1 /\ i \in 0 .. n - 1
    BY <1>1, <1>2, <1>3
  <2> QED BY <1>2, <1>3, <1>4, <2>1
<1>6. ~(j < i)
  <2> SUFFICES ASSUME j < i PROVE FALSE
    OBVIOUS
  <2>1. j \in j .. n - 1 /\ j \in 0 .. i - 1 /\ j \in 0 .. n - 1
    BY <1>1, <1>2, <1>3
  <2> QED BY <1>2, <1>3, <1>4, <2>1
<1>7. i = j
  BY <1>2, <1>3, <1>5, <1>6
<1> QED BY <1>7 DEF i, j

(* The latest generation is that of the last emission.                     *)
LEMMA GenerationRight ==
  ASSUME NEW o \in ObjData
  PROVE  /\ Generation(o) \in Nat
         /\ o.frames # <<>> => /\ Top(o) \in FrameData /\ Top(o) = o.frames[Len(o.frames)]
                               /\ Generation(o) = Top(o).generation
         /\ o.frames = <<>> => Generation(o) = 0
<1>1. o.frames \in Seq(FrameData)
  BY DEF ObjData
<1>2. o.frames # <<>> => Last(o.frames) \in FrameData /\ Last(o.frames) = o.frames[Len(o.frames)]
  BY <1>1, FrontRight
<1>3. \A f \in FrameData : f.generation \in Nat
  BY DEF FrameData
<1> QED BY <1>2, <1>3 DEF Generation, Top

LEMMA MadeRight ==
  ASSUME NEW o \in ObjData, NEW c \in Cbs, NEW kind \in Kinds
  PROVE  LET p == Made(o, c, kind)
         IN /\ p \in ObjData
            /\ p = [o EXCEPT !.cb = p.cb, !.cleaning = p.cleaning]
            /\ p.cleaning = (o.cleaning \/ Generation(o) > 0)
            /\ \A d \in Cbs : d # c => p.cb[d] = o.cb[d]
            /\ p.cb[c].mem = "live" /\ p.cb[c].items = kind.items /\ p.cb[c].priority = kind.priority
            /\ p.cb[c].generation = Generation(o) /\ p.cb[c].deleted = FALSE
<1> DEFINE b == [NewCb EXCEPT !.mem = "live", !.items = kind.items,
                   !.priority = kind.priority, !.generation = Generation(o)]
           z == o.cleaning \/ Generation(o) > 0
           p == [o EXCEPT !.cb[c] = b, !.cleaning = z]
<1>1. kind.priority \in Int /\ kind.items \in Seq(AllEvents)
  BY KindsAssumption
<1>2. Generation(o) \in Nat
  BY GenerationRight
<1>3. b \in CbData /\ b.mem = "live" /\ b.items = kind.items /\ b.priority = kind.priority
      /\ b.generation = Generation(o) /\ b.deleted = FALSE
  BY <1>1, <1>2 DEF CbData, NewCb
<1>4. z \in BOOLEAN
  OBVIOUS
<1>5. Made(o, c, kind) = p
  BY DEF Made
<1> HIDE DEF b, z
<1>6. p \in ObjData
  BY <1>3, <1>4 DEF ObjData
<1>7. p.cleaning = z /\ p.cb = [o.cb EXCEPT ![c] = b] /\ o.cb \in [Cbs -> CbData]
  BY DEF ObjData
<1>8. p = [o EXCEPT !.cb = p.cb, !.cleaning = p.cleaning]
  BY <1>7 DEF ObjData
<1> HIDE DEF p
<1>9. p.cb[c] = b /\ \A d \in Cbs : d # c => p.cb[d] = o.cb[d]
  BY <1>7
<1> QED BY <1>3, <1>5, <1>6, <1>7, <1>8, <1>9 DEF z

(* What a list with c at the place j + 1 has at its positions.             *)
PutIn(l, r, j, c) ==
  /\ Len(r) = Len(l) + 1
  /\ \A i \in 1 .. Len(l) + 1 :
       r[i] = IF i < j + 1 THEN l[i] ELSE IF i = j + 1 THEN c ELSE l[i - 1]

LEMMA ShiftedRight ==
  ASSUME NEW o \in ObjData, NEW j
  PROVE  /\ Shifted(o, j) \in Seq(FrameData) /\ Len(Shifted(o, j)) = Len(o.frames)
         /\ \A i \in 1 .. Len(o.frames) :
              Shifted(o, j)[i] = [o.frames[i] EXCEPT !.inserted = IF j < o.frames[i].idx THEN @ + 1 ELSE @]
<1>1. o.frames \in Seq(FrameData) /\ DOMAIN o.frames = 1 .. Len(o.frames)
  BY DEF ObjData
<1>2. ASSUME NEW i \in 1 .. Len(o.frames)
      PROVE  Shifted(o, j)[i] \in FrameData /\
             Shifted(o, j)[i] = [o.frames[i] EXCEPT !.inserted = IF j < o.frames[i].idx THEN @ + 1 ELSE @]
  <2>1. o.frames[i] \in FrameData
    BY <1>1
  <2>2. Shifted(o, j)[i] =
          IF j < o.frames[i].idx THEN [o.frames[i] EXCEPT !.inserted = @ + 1] ELSE o.frames[i]
    BY <1>1 DEF Shifted
  <2> QED BY <2>1, <2>2, SMTT(20) DEF FrameData
<1>3. Shifted(o, j) \in Seq(FrameData) /\ Len(Shifted(o, j)) = Len(o.frames)
  <2> DEFINE g == Shifted(o, j)
  <2>1. g = [i \in DOMAIN o.frames |-> g[i]]
    BY DEF Shifted
  <2>2. \A i \in 1 .. Len(o.frames) : g[i] \in FrameData
    BY <1>2
  <2> HIDE DEF g
  <2>3. g \in Seq(FrameData) /\ Len(g) = Len(o.frames)
    BY <1>1, <2>1, <2>2, SameLength
  <2> QED BY <2>3 DEF g
<1> QED BY <1>2, <1>3

LEMMA InsertedRight ==
  ASSUME NEW o \in ObjData, NEW c \in Cbs, Place(o, o.cb[c].priority) \in 0 .. Len(o.callbacks)
  PROVE  LET p == Inserted(o, c)
             j == Place(o, o.cb[c].priority)
         IN /\ p \in ObjData
            /\ p = [o EXCEPT !.callbacks = p.callbacks, !.frames = Shifted(o, j)]
            /\ PutIn(o.callbacks, p.callbacks, j, c)
<1> DEFINE j == Place(o, o.cb[c].priority)
           l == InsertAt(o.callbacks, j + 1, c)
           s == Shifted(o, j)
           p == [o EXCEPT !.callbacks = l, !.frames = s]
           n == j + 1
<1>1. Inserted(o, c) = p
  BY DEF Inserted
<1>2. o.callbacks \in Seq(Cbs) /\ Len(o.callbacks) \in Nat /\ n \in 1 .. Len(o.callbacks) + 1
  BY DEF ObjData
<1> HIDE DEF n
<1>3. /\ InsertAt(o.callbacks, n, c) \in Seq(Cbs)
      /\ Len(InsertAt(o.callbacks, n, c)) = Len(o.callbacks) + 1
      /\ \A i \in 1 .. Len(o.callbacks) + 1 :
           InsertAt(o.callbacks, n, c)[i] =
             IF i < n THEN o.callbacks[i] ELSE IF i = n THEN c ELSE o.callbacks[i - 1]
  <2> DEFINE t == o.callbacks
  <2>1. t \in Seq(Cbs) /\ n \in 1 .. Len(t) + 1
    BY <1>2
  <2> HIDE DEF t
  <2>2. /\ InsertAt(t, n, c) \in Seq(Cbs)
        /\ Len(InsertAt(t, n, c)) = Len(t) + 1
        /\ \A i \in 1 .. Len(t) + 1 :
             InsertAt(t, n, c)[i] = IF i < n THEN t[i] ELSE IF i = n THEN c ELSE t[i - 1]
    BY <2>1, InsertAtRight
  <2> QED BY <2>2 DEF t
<1>4. l \in Seq(Cbs) /\ PutIn(o.callbacks, l, j, c)
  BY <1>3 DEF PutIn, n
<1>5. s \in Seq(FrameData)
  BY ShiftedRight
<1> HIDE DEF l, s
<1>6. p \in ObjData /\ p.callbacks = l /\ p.frames = s
  BY <1>4, <1>5 DEF ObjData
<1>7. p = [o EXCEPT !.callbacks = p.callbacks, !.frames = s]
  BY <1>6 DEF ObjData
<1> HIDE DEF p
<1> QED BY <1>1, <1>4, <1>6, <1>7 DEF s

(* efl_event_callback_priority_add, before it tells.                       *)
AddedAs(o, p, c, j) ==
  /\ ListWhole(p) /\ Listed(p) = Listed(o) \cup {c} /\ c \notin Listed(o)
  /\ j \in 0 .. Len(o.callbacks) /\ PutIn(o.callbacks, p.callbacks, j, c)
  /\ p.frames = Shifted(o, j)
  /\ p.cleaning = (o.cleaning \/ Generation(o) > 0)
  /\ p.freeze = o.freeze /\ p.stopped = o.stopped /\ p.current = o.current
  /\ \A d \in Cbs : d # c => p.cb[d] = o.cb[d]
  /\ p.cb[c].generation = Generation(o) /\ p.cb[c].deleted = FALSE

Unborn(o, c) == o.cb[c].mem = "unborn" /\ \A d \in Cbs : d < c => o.cb[d].mem # "unborn"

LEMMA AddedRight ==
  ASSUME NEW o, ListWhole(o), NEW c \in Cbs, NEW kind \in Kinds, Unborn(o, c)
  PROVE  AddedAs(o, Added(o, c, kind), c, Place(o, kind.priority))
<1>0. o.cb[c].mem = "unborn" /\ \A d \in Cbs : d < c => o.cb[d].mem # "unborn"
  BY DEF Unborn
<1> DEFINE m == Made(o, c, kind)
           q == Inserted(m, c)
           p == Counted(q, {c}, 1)
           j == Place(o, kind.priority)
<1>1. o \in ObjData /\ Sorted(o) /\ Listed(o) = Live(o) /\ kind.priority \in Int
  BY KindsAssumption DEF ListWhole
<1>2. /\ m \in ObjData
      /\ m = [o EXCEPT !.cb = m.cb, !.cleaning = m.cleaning]
      /\ m.cleaning = (o.cleaning \/ Generation(o) > 0)
      /\ \A d \in Cbs : d # c => m.cb[d] = o.cb[d]
      /\ m.cb[c].mem = "live" /\ m.cb[c].items = kind.items /\ m.cb[c].priority = kind.priority
      /\ m.cb[c].generation = Generation(o) /\ m.cb[c].deleted = FALSE
  BY <1>0, <1>1, MadeRight
<1> HIDE DEF m
<1>3. m.callbacks = o.callbacks /\ m.frames = o.frames /\ m.freeze = o.freeze /\ m.stopped = o.stopped
      /\ m.current = o.current /\ m.adds = o.adds /\ m.dels = o.dels
  BY <1>1, <1>2 DEF ObjData
<1>4. c \notin Listed(o) /\ Listed(o) \subseteq Cbs
  BY <1>0, <1>1 DEF Live
<1>5. \A d \in Listed(o) : m.cb[d] = o.cb[d] /\ d \in Cbs
  BY <1>2, <1>4
<1>6. Sorted(m)
  <2> SUFFICES ASSUME NEW i \in DOMAIN m.callbacks, NEW k \in DOMAIN m.callbacks, i < k
               PROVE  Above(m, m.callbacks[i], m.callbacks[k])
    BY DEF Sorted
  <2>1. Above(o, o.callbacks[i], o.callbacks[k])
    BY <1>1, <1>3 DEF Sorted
  <2>2. o.callbacks[i] \in Listed(o) /\ o.callbacks[k] \in Listed(o)
    BY <1>3 DEF Listed, ToSet
  <2> QED BY <1>3, <1>5, <2>1, <2>2 DEF Above
<1>7. Place(m, kind.priority) = j
  BY <1>1, <1>2, <1>3, <1>5, <1>6, PlaceSame
<1>8. /\ j \in 0 .. Len(o.callbacks)
      /\ \A i \in 0 .. j - 1 : Ahead(o, i) >= kind.priority
      /\ \A i \in j .. Len(o.callbacks) - 1 : Ahead(o, i) < kind.priority
  BY <1>1, ObjTyped, SortedSeen, PlaceRight
<1> HIDE DEF j
<1>9. /\ q \in ObjData
      /\ q = [m EXCEPT !.callbacks = q.callbacks, !.frames = Shifted(m, j)]
      /\ PutIn(m.callbacks, q.callbacks, j, c)
  <2>1. Place(m, m.cb[c].priority) \in 0 .. Len(m.callbacks) /\ j = Place(m, m.cb[c].priority)
    BY <1>2, <1>3, <1>7, <1>8
  <2> QED BY <1>2, <2>1, InsertedRight
<1> HIDE DEF q
<1>10. q.cb = m.cb /\ q.frames = Shifted(m, j) /\ q.freeze = m.freeze /\ q.stopped = m.stopped
       /\ q.cleaning = m.cleaning /\ q.current = m.current /\ q.adds = m.adds /\ q.dels = m.dels
  BY <1>2, <1>9 DEF ObjData
<1>11. /\ p \in ObjData /\ p = [q EXCEPT !.adds = p.adds, !.dels = p.dels]
       /\ p.adds = q.adds + Cardinality(ItemsOf(q, {c}, Add))
       /\ p.dels = q.dels + Cardinality(ItemsOf(q, {c}, Del))
  <2>1. {c} \in SUBSET Cbs /\ 1 \in {1, -1}
    OBVIOUS
  <2> QED BY <1>9, <2>1, CountedRight
<1> HIDE DEF p
<1>12. p.callbacks = q.callbacks /\ p.cb = q.cb /\ p.frames = q.frames /\ p.freeze = q.freeze
       /\ p.stopped = q.stopped /\ p.cleaning = q.cleaning /\ p.current = q.current
  BY <1>9, <1>11 DEF ObjData
<1>13. p.frames = Shifted(o, j)
  BY <1>3, <1>10, <1>12 DEF Shifted
<1>14. PutIn(o.callbacks, p.callbacks, j, c)
  BY <1>3, <1>9, <1>12
<1> DEFINE n == Len(o.callbacks)
           l == o.callbacks
           r == p.callbacks
<1>15. n \in Nat /\ DOMAIN l = 1 .. n /\ Len(r) = n + 1 /\ DOMAIN r = 1 .. n + 1
       /\ \A i \in 1 .. n + 1 : r[i] = IF i < j + 1 THEN l[i] ELSE IF i = j + 1 THEN c ELSE l[i - 1]
  <2>1. n \in Nat /\ DOMAIN l = 1 .. n /\ DOMAIN r = 1 .. Len(r)
    BY <1>1, <1>11, ObjTyped
  <2> QED BY <1>14, <2>1 DEF PutIn
<1>16. ASSUME NEW i \in 1 .. n + 1
       PROVE  \/ i < j + 1 /\ i \in 1 .. n /\ r[i] = l[i]
              \/ i = j + 1 /\ r[i] = c
              \/ i > j + 1 /\ i - 1 \in 1 .. n /\ r[i] = l[i - 1]
  BY <1>8, <1>15
<1>17. Listed(p) = Listed(o) \cup {c}
  <2>1. ASSUME NEW i \in DOMAIN r PROVE r[i] \in Listed(o) \cup {c}
    BY <1>15, <1>16 DEF Listed, ToSet
  <2>2. ASSUME NEW i \in DOMAIN l PROVE \E k \in DOMAIN r : r[k] = l[i]
    <3>1. CASE i < j + 1
      <4>1. i \in 1 .. n + 1 /\ r[i] = l[i]
        BY <1>8, <1>15, <3>1
      <4> QED BY <1>15, <4>1
    <3>2. CASE ~(i < j + 1)
      <4> DEFINE k == i + 1
      <4>1. k \in 1 .. n + 1 /\ ~(k < j + 1) /\ k # j + 1 /\ k - 1 = i
        BY <1>8, <1>15, <3>2
      <4> HIDE DEF k
      <4>2. r[k] = l[i]
        BY <1>15, <4>1
      <4> QED BY <1>15, <4>1, <4>2
    <3> QED BY <3>1, <3>2
  <2>3. \E k \in DOMAIN r : r[k] = c
    <3>1. j + 1 \in 1 .. n + 1
      BY <1>8, <1>15
    <3>2. r[j + 1] = c
      BY <1>15, <1>16, <3>1
    <3> QED BY <1>15, <3>1, <3>2
  <2> QED BY <2>1, <2>2, <2>3 DEF Listed, ToSet
<1>18. \A d \in Cbs : d # c => p.cb[d] = o.cb[d]
  BY <1>2, <1>10, <1>12
<1>19. p.cb[c].mem = "live" /\ p.cb[c].items = kind.items /\ p.cb[c].priority = kind.priority
       /\ p.cb[c].generation = Generation(o) /\ p.cb[c].deleted = FALSE
  BY <1>2, <1>10, <1>12
<1>20. \A d \in Listed(o) : p.cb[d] = o.cb[d] /\ d \in Cbs /\ d # c
  BY <1>4, <1>18
<1>21. \A d \in Listed(o) : d < c
  <2> TAKE d \in Listed(o)
  <2>1. o.cb[d].mem = "live" /\ d \in Cbs
    BY <1>1 DEF Live
  <2>2. ~(c < d)
    BY <1>0, <2>1 DEF ListWhole, BornInOrder
  <2>3. d \in Int /\ c \in Int /\ d # c
    BY <1>20, <2>1 DEF Cbs
  <2> QED BY <2>2, <2>3
<1>22. Sorted(p)
  <2> SUFFICES ASSUME NEW i \in 1 .. n + 1, NEW k \in 1 .. n + 1, i < k
               PROVE  Above(p, r[i], r[k])
    BY <1>15 DEF Sorted
  <2>1. ASSUME NEW a \in 1 .. n, NEW b \in 1 .. n, a < b PROVE Above(p, l[a], l[b])
    <3>1. Above(o, l[a], l[b])
      BY <1>15, <2>1, <1>1 DEF Sorted
    <3>2. l[a] \in Listed(o) /\ l[b] \in Listed(o)
      BY <1>15 DEF Listed, ToSet
    <3> QED BY <1>20, <3>1, <3>2 DEF Above
  <2>2. ASSUME NEW a \in 1 .. n, a < j + 1 PROVE Above(p, l[a], c)
    <3>1. a - 1 \in 0 .. j - 1
      BY <1>8, <2>2
    <3>2. Ahead(o, a - 1) >= kind.priority
      BY <1>8, <3>1
    <3>3. o.cb[l[a]].priority >= kind.priority /\ o.cb[l[a]].priority \in Int
      <4>1. Ahead(o, a - 1) = o.cb[l[a]].priority
        BY <1>1, SortedSeen
      <4>2. l[a] \in Cbs
        BY <1>1, ObjTyped
      <4> QED BY <1>1, <3>2, <4>1, <4>2, ObjTyped
    <3>4. l[a] \in Listed(o)
      BY <1>15 DEF Listed, ToSet
    <3> QED BY <1>1, <1>19, <1>20, <1>21, <3>3, <3>4 DEF Above
  <2>3. ASSUME NEW a \in 1 .. n, a > j PROVE Above(p, c, l[a])
    <3>1. a - 1 \in j .. n - 1
      BY <1>8, <1>15, <2>3
    <3>2. Ahead(o, a - 1) < kind.priority
      BY <1>8, <3>1
    <3>3. o.cb[l[a]].priority < kind.priority /\ o.cb[l[a]].priority \in Int
      <4>1. Ahead(o, a - 1) = o.cb[l[a]].priority
        BY <1>1, SortedSeen
      <4>2. l[a] \in Cbs
        BY <1>1, ObjTyped
      <4> QED BY <1>1, <3>2, <4>1, <4>2, ObjTyped
    <3>4. l[a] \in Listed(o)
      BY <1>15 DEF Listed, ToSet
    <3> QED BY <1>1, <1>19, <1>20, <3>3, <3>4 DEF Above
  <2>4. CASE i < j + 1
    <3>1. i \in 1 .. n /\ r[i] = l[i]
      BY <1>8, <1>15, <2>4
    <3>2. CASE k < j + 1
      <4>1. k \in 1 .. n /\ r[k] = l[k]
        BY <1>8, <1>15, <3>2
      <4> QED BY <2>1, <3>1, <4>1
    <3>3. CASE k = j + 1
      <4>1. r[k] = c
        BY <1>15, <3>3
      <4> QED BY <2>2, <2>4, <3>1, <4>1
    <3>4. CASE k > j + 1
      <4>1. k - 1 \in 1 .. n /\ r[k] = l[k - 1]
        BY <1>8, <1>15, <3>4
      <4>2. i < k - 1
        BY <1>8, <2>4, <3>4
      <4> DEFINE b == k - 1
      <4> HIDE DEF b
      <4>3. b \in 1 .. n /\ i < b /\ r[k] = l[b]
        BY <4>1, <4>2 DEF b
      <4> QED BY <2>1, <3>1, <4>3
    <3>5. k < j + 1 \/ k = j + 1 \/ k > j + 1
      BY <1>8
    <3> QED BY <3>2, <3>3, <3>4, <3>5
  <2>5. CASE ~(i < j + 1)
    <3> DEFINE b == k - 1
    <3>1. b \in 1 .. n /\ r[k] = l[b] /\ b > j
      BY <1>8, <1>15, <2>5
    <3> HIDE DEF b
    <3>2. CASE i = j + 1
      <4>1. r[i] = c
        BY <1>15, <3>2
      <4> QED BY <2>3, <3>1, <4>1
    <3>3. CASE i # j + 1
      <4> DEFINE a == i - 1
      <4>1. a \in 1 .. n /\ r[i] = l[a] /\ a < b
        BY <1>8, <1>15, <2>5, <3>3 DEF b
      <4> HIDE DEF a
      <4> QED BY <2>1, <3>1, <4>1
    <3> QED BY <3>2, <3>3
  <2> QED BY <2>4, <2>5
<1>23. Listed(p) = Live(p)
  <2>1. \A d \in Cbs : d # c => (p.cb[d].mem = "live" <=> o.cb[d].mem = "live")
    BY <1>18
  <2> QED BY <1>1, <1>17, <1>19, <2>1 DEF Live
<1>24. CountsRight(p)
  <2>1. \A e : Cardinality(ItemsOf(p, Listed(p), e)) =
               Cardinality(ItemsOf(p, Listed(o), e)) + Cardinality(ItemsOf(p, {c}, e))
    BY <1>4, <1>11, <1>17, ItemsSplit
  <2>2. \A e : ItemsOf(p, Listed(o), e) = ItemsOf(o, Listed(o), e)
    BY <1>20, ItemsSame
  <2>3. \A e : ItemsOf(p, {c}, e) = ItemsOf(q, {c}, e)
    BY <1>12, ItemsSame
  <2>4. o.adds = Cardinality(ItemsOf(o, Listed(o), Add)) /\ o.dels = Cardinality(ItemsOf(o, Listed(o), Del))
    BY DEF ListWhole, CountsRight
  <2> QED BY <1>3, <1>10, <1>11, <2>1, <2>2, <2>3, <2>4 DEF CountsRight
<1>25. BornInOrder(p)
  <2> SUFFICES ASSUME NEW d \in Cbs, NEW e \in Cbs, d < e, p.cb[e].mem # "unborn"
               PROVE  p.cb[d].mem # "unborn"
    BY DEF BornInOrder
  <2>1. CASE e = c
    <3>1. d # c /\ o.cb[d].mem # "unborn"
      BY <1>0, <2>1 DEF Cbs
    <3> QED BY <1>18, <3>1
  <2>2. CASE e # c
    <3>1. o.cb[e].mem # "unborn"
      BY <1>18, <2>2
    <3>2. o.cb[d].mem # "unborn"
      BY <3>1 DEF ListWhole, BornInOrder
    <3> QED BY <1>18, <1>19, <3>2
  <2> QED BY <2>1, <2>2
<1>26. ListWhole(p)
  BY <1>11, <1>22, <1>23, <1>24, <1>25 DEF ListWhole
<1>27. Added(o, c, kind) = p
  BY DEF Added, p, q, m
<1> QED BY <1>2, <1>3, <1>4, <1>8, <1>10, <1>12, <1>13, <1>14, <1>17, <1>18, <1>19, <1>26, <1>27
     DEF AddedAs, j

(* What the list is made of.                                               *)
SameList(o, p) ==
  /\ p.callbacks = o.callbacks /\ p.adds = o.adds /\ p.dels = o.dels
  /\ \A c \in Cbs : /\ p.cb[c].mem = o.cb[c].mem /\ p.cb[c].items = o.cb[c].items
                    /\ p.cb[c].priority = o.cb[c].priority

LEMMA ListKept ==
  ASSUME NEW o, ListWhole(o), NEW p \in ObjData, SameList(o, p)
  PROVE  ListWhole(p) /\ Listed(p) = Listed(o)
<1>1. Listed(p) = Listed(o) /\ Listed(o) \subseteq Cbs
  BY ObjTyped DEF SameList, Listed, ListWhole
<1>2. Live(p) = Live(o)
  BY DEF Live, SameList
<1>3. Sorted(p)
  <2> SUFFICES ASSUME NEW i \in DOMAIN p.callbacks, NEW j \in DOMAIN p.callbacks, i < j
               PROVE  Above(p, p.callbacks[i], p.callbacks[j])
    BY DEF Sorted
  <2>1. Above(o, o.callbacks[i], o.callbacks[j])
    BY DEF ListWhole, Sorted, SameList
  <2>2. p.callbacks[i] \in Cbs /\ p.callbacks[j] \in Cbs
    BY ObjTyped
  <2> QED BY <2>1, <2>2 DEF Above, SameList
<1>4. CountsRight(p)
  <2>1. \A e : ItemsOf(p, Listed(p), e) = ItemsOf(o, Listed(o), e)
    BY <1>1, ItemsSame DEF SameList
  <2> QED BY <2>1 DEF CountsRight, ListWhole, SameList
<1>5. BornInOrder(p)
  BY DEF BornInOrder, SameList, ListWhole
<1> QED BY <1>1, <1>2, <1>3, <1>4, <1>5 DEF ListWhole

LEMMA ClampedRight ==
  ASSUME NEW o, ListWhole(o)
  PROVE  LET p == Clamped(o)
         IN /\ ListWhole(p) /\ p = [o EXCEPT !.cb = p.cb] /\ Listed(p) = Listed(o)
            /\ \A c \in Cbs :
                 /\ p.cb[c].items = o.cb[c].items /\ p.cb[c].priority = o.cb[c].priority
                 /\ p.cb[c].deleted = o.cb[c].deleted
                 /\ p.cb[c].generation = IF o.cb[c].mem = "live" /\ o.cb[c].generation > Generation(o)
                                         THEN Generation(o) ELSE o.cb[c].generation
<1> DEFINE g == Generation(o)
           b == [c \in Cbs |-> IF o.cb[c].mem = "live" /\ o.cb[c].generation > g
                               THEN [o.cb[c] EXCEPT !.generation = g] ELSE o.cb[c]]
           p == [o EXCEPT !.cb = b]
<1>1. o \in ObjData /\ o.cb \in [Cbs -> CbData] /\ g \in Nat
  BY GenerationRight DEF ListWhole, ObjData
<1>2. Clamped(o) = p
  BY DEF Clamped
<1> HIDE DEF g
<1>3. /\ b \in [Cbs -> CbData]
      /\ \A c \in Cbs : /\ b[c].mem = o.cb[c].mem /\ b[c].items = o.cb[c].items
                        /\ b[c].priority = o.cb[c].priority /\ b[c].deleted = o.cb[c].deleted
                        /\ b[c].generation = IF o.cb[c].mem = "live" /\ o.cb[c].generation > g
                                             THEN g ELSE o.cb[c].generation
  BY <1>1 DEF CbData
<1> HIDE DEF b
<1>4. p \in ObjData /\ p.cb = b /\ p.callbacks = o.callbacks /\ p.adds = o.adds /\ p.dels = o.dels
      /\ p = [o EXCEPT !.cb = p.cb]
  BY <1>1, <1>3 DEF ObjData
<1> HIDE DEF p
<1>5. SameList(o, p)
  BY <1>3, <1>4 DEF SameList
<1>6. ListWhole(p) /\ Listed(p) = Listed(o)
  BY <1>4, <1>5, ListKept
<1> QED BY <1>2, <1>3, <1>4, <1>6 DEF g

(* _eo_callbacks_clear.                                                    *)
ClearedAs(o, p) ==
  /\ ListGood(p) /\ p.frames = o.frames /\ p.freeze = o.freeze /\ p.stopped = o.stopped
  /\ p.current = o.current
  /\ o.frames # <<>> => /\ p.callbacks = o.callbacks /\ Listed(p) = Listed(o)
                        /\ \A c \in Cbs :
                             /\ p.cb[c].items = o.cb[c].items /\ p.cb[c].priority = o.cb[c].priority
                             /\ p.cb[c].deleted = o.cb[c].deleted
                             /\ \/ p.cb[c].generation = o.cb[c].generation
                                \/ /\ o.cb[c].generation > Generation(o)
                                   /\ p.cb[c].generation = Generation(o)

LEMMA ClearedRight ==
  ASSUME NEW o, ListWhole(o),
         \A c \in Listed(o) : /\ ~o.cleaning => o.cb[c].generation = 0
                              /\ o.cb[c].deleted => o.cleaning
  PROVE  ClearedAs(o, Cleared(o))
<1>1. o \in ObjData /\ Listed(o) \subseteq Cbs /\ Generation(o) \in Nat
  BY ObjTyped, GenerationRight DEF ListWhole
<1>2. CASE ~o.cleaning
  <2>1. Cleared(o) = o
    BY <1>2 DEF Cleared
  <2>2. Generations(o) /\ Deletions(o)
    BY <1>1, <1>2 DEF Generations, Deletions
  <2>3. ListGood(o)
    BY <2>2 DEF ListGood, ListWhole
  <2> QED BY <2>1, <2>3 DEF ClearedAs
<1>3. CASE o.cleaning /\ o.frames # <<>>
  <2> DEFINE p == Clamped(o)
  <2>1. Cleared(o) = p
    BY <1>3 DEF Cleared
  <2>2. /\ ListWhole(p) /\ p = [o EXCEPT !.cb = p.cb] /\ Listed(p) = Listed(o)
        /\ \A c \in Cbs :
             /\ p.cb[c].items = o.cb[c].items /\ p.cb[c].priority = o.cb[c].priority
             /\ p.cb[c].deleted = o.cb[c].deleted
             /\ p.cb[c].generation = IF o.cb[c].mem = "live" /\ o.cb[c].generation > Generation(o)
                                     THEN Generation(o) ELSE o.cb[c].generation
    BY ClampedRight
  <2> HIDE DEF p
  <2>3. p.callbacks = o.callbacks /\ p.frames = o.frames /\ p.freeze = o.freeze /\ p.stopped = o.stopped
        /\ p.current = o.current /\ p.cleaning = o.cleaning
    BY <1>1, <2>2 DEF ObjData
  <2>4. Generation(p) = Generation(o)
    BY <2>3 DEF Generation, Top
  <2>5. Generations(p)
    <3> SUFFICES ASSUME NEW c \in Listed(p) PROVE p.cb[c].generation <= Generation(p)
      BY <1>3, <2>3 DEF Generations
    <3>1. o.cb[c].mem = "live" /\ c \in Cbs
      BY <2>2 DEF ListWhole, Live
    <3>2. o.cb[c].generation \in Nat
      BY <1>1, <3>1, ObjTyped
    <3> QED BY <1>1, <2>2, <2>4, <3>1, <3>2
  <2>6. Deletions(p)
    BY <1>3, <2>3 DEF Deletions
  <2>7. ListGood(p)
    BY <2>2, <2>5, <2>6 DEF ListGood, ListWhole
  <2>8. \A c \in Cbs : \/ p.cb[c].generation = o.cb[c].generation
                       \/ o.cb[c].generation > Generation(o) /\ p.cb[c].generation = Generation(o)
    BY <2>2
  <2> QED BY <2>1, <2>2, <2>3, <2>7, <2>8 DEF ClearedAs
<1>4. CASE o.cleaning /\ o.frames = <<>>
  <2> DEFINE a == [o EXCEPT !.cleaning = FALSE]
             q == Removed(a, Deleted(o))
             p == Clamped(q)
  <2>1. Cleared(o) = p
    BY <1>4 DEF Cleared
  <2>2. a \in ObjData /\ SameList(o, a) /\ Deleted(a) = Deleted(o) /\ a.cb = o.cb
        /\ a.callbacks = o.callbacks /\ a.frames = o.frames /\ a.freeze = o.freeze
        /\ a.stopped = o.stopped /\ a.current = o.current /\ a.cleaning = FALSE
    BY <1>1 DEF ObjData, SameList, Deleted, Listed
  <2> HIDE DEF a
  <2>3. ListWhole(a) /\ Listed(a) = Listed(o)
    BY <2>2, ListKept
  <2>4. Deleted(o) \in SUBSET Listed(a)
    BY <2>3 DEF Deleted
  <2>5. /\ ListWhole(q) /\ Listed(q) = Listed(a) \ Deleted(o)
        /\ q = [a EXCEPT !.callbacks = q.callbacks, !.cb = q.cb, !.adds = q.adds, !.dels = q.dels]
        /\ \A c \in Cbs \ Deleted(o) : q.cb[c] = a.cb[c]
    BY <2>3, <2>4, RemovedRight
  <2> HIDE DEF q
  <2>6. q.frames = a.frames /\ q.freeze = a.freeze /\ q.stopped = a.stopped
        /\ q.current = a.current /\ q.cleaning = a.cleaning
    BY <2>2, <2>5 DEF ObjData
  <2>7. /\ ListWhole(p) /\ p = [q EXCEPT !.cb = p.cb] /\ Listed(p) = Listed(q)
        /\ \A c \in Cbs :
             /\ p.cb[c].deleted = q.cb[c].deleted
             /\ p.cb[c].generation = IF q.cb[c].mem = "live" /\ q.cb[c].generation > Generation(q)
                                     THEN Generation(q) ELSE q.cb[c].generation
    BY <2>5, ClampedRight
  <2> HIDE DEF p
  <2>8. p.frames = q.frames /\ p.freeze = q.freeze /\ p.stopped = q.stopped
        /\ p.current = q.current /\ p.cleaning = q.cleaning
    BY <2>5, <2>7 DEF ObjData, ListWhole
  <2>9. p.frames = <<>> /\ q.frames = <<>> /\ Generation(q) = 0 /\ Generation(p) = 0
    BY <1>4, <2>2, <2>6, <2>8 DEF Generation
  <2>10. Generations(p)
    <3> SUFFICES ASSUME NEW c \in Listed(p) PROVE p.cb[c].generation = 0
      BY <2>9 DEF Generations
    <3>1. q.cb[c].mem = "live" /\ c \in Cbs
      BY <2>5, <2>7 DEF ListWhole, Live
    <3>2. q.cb[c].generation \in Nat
      BY <2>5, <3>1, ObjTyped DEF ListWhole
    <3> QED BY <2>7, <2>9, <3>1, <3>2
  <2>11. Deletions(p)
    <3> SUFFICES ASSUME NEW c \in Listed(p) PROVE ~p.cb[c].deleted
      BY DEF Deletions
    <3>1. c \in Listed(o) /\ c \notin Deleted(o) /\ c \in Cbs
      BY <1>1, <2>3, <2>5, <2>7
    <3>2. ~o.cb[c].deleted
      BY <3>1 DEF Deleted
    <3> QED BY <2>2, <2>5, <2>7, <3>1, <3>2
  <2>12. ListGood(p)
    BY <2>7, <2>10, <2>11 DEF ListGood, ListWhole
  <2> QED BY <1>4, <2>1, <2>2, <2>6, <2>8, <2>12 DEF ClearedAs
<1> QED BY <1>2, <1>3, <1>4

-----------------------------------------------------------------------------
(* What keeps an emission as it is.                                        *)

(* The callbacks listed in o are listed in p, and emissions up to the      *)
(* generation G see them as before; those that are new they do not see.    *)
Agree(o, p, G) ==
  /\ \A c \in Listed(o) :
       /\ c \in Listed(p) /\ p.cb[c].items = o.cb[c].items /\ p.cb[c].priority = o.cb[c].priority
       /\ o.cb[c].deleted => p.cb[c].deleted
       /\ \A n \in 1 .. G : p.cb[c].generation < n <=> o.cb[c].generation < n
  /\ \A c \in Listed(p) \ Listed(o) : p.cb[c].generation >= G

SameFrame(f, g) ==
  /\ g.event = f.event /\ g.cb = f.cb /\ g.item = f.item /\ g.due = f.due
  /\ g.generation = f.generation
  /\ f.event \notin Restart => g.called = f.called

LEMMA AgreeSelf ==
  ASSUME NEW o \in ObjData, NEW p \in ObjData, NEW G, p.callbacks = o.callbacks, p.cb = o.cb
  PROVE  Agree(o, p, G) /\ Listed(p) = Listed(o)
<1>1. Listed(p) = Listed(o)
  BY DEF Listed
<1> QED BY <1>1 DEF Agree

LEMMA AgreeAbove ==
  ASSUME NEW o, NEW p, NEW G, Agree(o, p, G), NEW c \in Listed(o), NEW d \in Listed(o)
  PROVE  /\ Above(p, c, d) <=> Above(o, c, d)
         /\ \A e : ItemsFor(p, c, e) = ItemsFor(o, c, e) /\ (Listens(p, c, e) <=> Listens(o, c, e))
<1>1. \A e : ItemsFor(p, c, e) = ItemsFor(o, c, e)
  BY DEF ItemsFor, Agree
<1> QED BY <1>1 DEF Above, Agree, Listens

LEMMA DueKept ==
  ASSUME NEW o \in ObjData, NEW p \in ObjData, NEW G \in Nat, Agree(o, p, G),
         NEW f, NEW g, f.generation \in 1 .. G, DueRight(o, f),
         g.due = f.due, g.event = f.event, g.generation = f.generation
  PROVE  DueRight(p, g)
<1>1. g.due \subseteq Listed(p) /\ f.due \subseteq Listed(o)
  BY DEF DueRight, Agree
<1>2. ASSUME NEW c \in g.due PROVE Listens(p, c, g.event) /\ p.cb[c].generation < g.generation
  <2>1. c \in Listed(o) /\ Listens(o, c, f.event) /\ o.cb[c].generation < f.generation
    BY <1>1 DEF DueRight
  <2>2. Listens(p, c, f.event)
    BY <2>1, AgreeAbove
  <2> QED BY <2>1, <2>2 DEF Agree
<1>3. ASSUME NEW c \in Listed(p), Known(p, g, c) PROVE c \in g.due
  <2>1. c \in Listed(o)
    <3> SUFFICES ASSUME c \notin Listed(o) PROVE FALSE
      OBVIOUS
    <3>1. p.cb[c].generation >= G /\ p.cb[c].generation < f.generation
      BY <1>3 DEF Agree, Known
    <3>2. p.cb[c].generation \in Nat
      BY ObjTyped
    <3> QED BY <3>1, <3>2
  <2>2. Known(o, f, c)
    <3>1. Listens(p, c, f.event) /\ ~p.cb[c].deleted /\ p.cb[c].generation < f.generation
      BY <1>3 DEF Known
    <3>2. Listens(o, c, f.event)
      BY <2>1, <3>1, AgreeAbove
    <3> QED BY <2>1, <3>1, <3>2 DEF Known, Agree
  <2> QED BY <2>1, <2>2 DEF DueRight
<1> QED BY <1>1, <1>2, <1>3 DEF DueRight

LEMMA CalledKept ==
  ASSUME NEW o \in ObjData, NEW p, NEW G, Agree(o, p, G), NEW s \in Seq(Cbs), CalledDown(o, s)
  PROVE  CalledDown(p, s)
<1>1. \A i \in DOMAIN s : s[i] \in Listed(o)
  BY DEF CalledDown, ToSet
<1>2. ToSet(s) \subseteq Listed(p)
  BY DEF CalledDown, Agree
<1>3. \A i, j \in DOMAIN s : Above(p, s[j], s[i]) <=> Above(o, s[j], s[i])
  BY <1>1, AgreeAbove
<1> QED BY <1>2, <1>3 DEF CalledDown

LEMMA FrameKept ==
  ASSUME NEW o \in ObjData, NEW p \in ObjData, NEW G \in Nat, Agree(o, p, G),
         NEW f \in FrameData, NEW g \in FrameData, f.generation \in 1 .. G, SameFrame(f, g),
         FrameGood(o, f),
         \E q \in DOMAIN p.callbacks : StandsAt(p, g, q),
         "editInArray" \notin Liberties /\ Between(o, f) =>
           ~p.cb[f.cb].deleted /\ p.callbacks[g.idx] = f.cb,
         Frozen(p, g.event) => g.excused
  PROVE  FrameGood(p, g)
<1>1. f.cb \in Listed(o) /\ f.cb \in f.due
  BY DEF FrameGood, DueRight
<1>2. \A e : ItemsFor(p, f.cb, e) = ItemsFor(o, f.cb, e)
  BY <1>1, AgreeAbove
<1>3. g.cb \in g.due /\ g.item \in ItemsFor(p, g.cb, g.event)
  BY <1>2 DEF FrameGood, SameFrame
<1>4. DueRight(p, g)
  BY DueKept DEF FrameGood, SameFrame
<1>5. g.event \notin Restart => g.called # <<>> /\ Last(g.called) = g.cb /\ CalledDown(p, g.called)
  <2>1. f.called \in Seq(Cbs)
    BY DEF FrameData
  <2> QED BY <2>1, CalledKept DEF FrameGood, SameFrame
<1>6. Between(p, g) => Between(o, f)
  BY <1>2 DEF Between, SameFrame
<1>7. "editInArray" \notin Liberties /\ Between(p, g) => ~p.cb[g.cb].deleted /\ p.callbacks[g.idx] = g.cb
  BY <1>6 DEF SameFrame
<1> QED BY <1>3, <1>4, <1>5, <1>7 DEF FrameGood

(* The same where the list has stayed.                                     *)
LEMMA FrameSame ==
  ASSUME NEW o \in ObjData, NEW p \in ObjData, NEW G \in Nat, Agree(o, p, G),
         NEW f \in FrameData, NEW g \in FrameData, f.generation \in 1 .. G, SameFrame(f, g),
         FrameGood(o, f), p.callbacks = o.callbacks, g.idx = f.idx, g.inserted = f.inserted,
         "editInArray" \notin Liberties /\ Between(o, f) => ~p.cb[f.cb].deleted,
         Frozen(p, g.event) => g.excused
  PROVE  FrameGood(p, g)
<1>1. PICK q \in DOMAIN o.callbacks : StandsAt(o, f, q)
  BY DEF FrameGood
<1>2. StandsAt(p, g, q)
  <2>1. ASSUME f.idx = 1, NEW k \in 1 .. q - 1 PROVE p.cb[p.callbacks[k]].generation >= g.generation
    <3>1. o.cb[o.callbacks[k]].generation >= f.generation
      BY <1>1, <2>1 DEF StandsAt
    <3>2. k \in DOMAIN o.callbacks
      BY ObjTyped
    <3>3. o.callbacks[k] \in Listed(o) /\ o.callbacks[k] \in Cbs
      BY <3>2, ObjTyped DEF Listed, ToSet
    <3>4. p.cb[o.callbacks[k]].generation < f.generation <=> o.cb[o.callbacks[k]].generation < f.generation
      BY <3>3 DEF Agree
    <3>5. p.cb[o.callbacks[k]].generation \in Nat /\ o.cb[o.callbacks[k]].generation \in Nat
      BY <3>3, ObjTyped
    <3> QED BY <3>1, <3>4, <3>5 DEF SameFrame
  <2> QED BY <1>1, <2>1 DEF StandsAt, SameFrame
<1>3. "editInArray" \notin Liberties /\ Between(o, f) => p.callbacks[g.idx] = f.cb
  BY DEF FrameGood
<1> QED BY <1>1, <1>2, <1>3, FrameKept

LEMMA ReachedKept ==
  ASSUME NEW o, NEW p, NEW G, Agree(o, p, G),
         NEW f, NEW g, SameFrame(f, g), f.event \notin Restart,
         f.due \subseteq Listed(o), f.cb \in Listed(o), Reached(o, f)
  PROVE  Reached(p, g)
<1> SUFFICES ASSUME NEW c \in g.due, ~p.cb[c].deleted
             PROVE  Times(c, g.called) =
                      IF c = g.cb THEN Cardinality({k \in ItemsFor(p, c, g.event) : k <= g.item})
                      ELSE IF Above(p, g.cb, c) THEN Cardinality(ItemsFor(p, c, g.event)) ELSE 0
  BY DEF Reached
<1>1. c \in f.due /\ c \in Listed(o) /\ ~o.cb[c].deleted
  BY DEF SameFrame, Agree
<1>2. ItemsFor(p, c, g.event) = ItemsFor(o, c, f.event) /\ (Above(p, g.cb, c) <=> Above(o, f.cb, c))
  BY <1>1, AgreeAbove DEF SameFrame
<1>3. Times(c, f.called) =
        IF c = f.cb THEN Cardinality({k \in ItemsFor(o, c, f.event) : k <= f.item})
        ELSE IF Above(o, f.cb, c) THEN Cardinality(ItemsFor(o, c, f.event)) ELSE 0
  BY <1>1 DEF Reached
<1>4. g.called = f.called /\ g.cb = f.cb /\ g.item = f.item
  BY DEF SameFrame
<1> QED BY <1>2, <1>3, <1>4

LEMMA TogetherKept ==
  ASSUME NEW o, NEW p, NEW G, Agree(o, p, G),
         NEW f, NEW g, NEW h, NEW k, g.event = f.event, g.due = f.due, ToSet(f.called) \subseteq ToSet(g.called),
         k.cb = h.cb, k.idx = h.idx, p.current[f.event] = o.current[f.event],
         f.due \subseteq Listed(o), h.cb \in Listed(o), ReachedTogether(o, f, h)
  PROVE  ReachedTogether(p, g, k)
<1>1. \A c \in f.due : ~p.cb[c].deleted => ~o.cb[c].deleted
  BY DEF Agree
<1>2. \A c \in f.due : Above(p, h.cb, c) <=> Above(o, h.cb, c)
  BY AgreeAbove
<1> QED BY <1>1, <1>2 DEF ReachedTogether

-----------------------------------------------------------------------------
(* While an emission walks: all is as it must be, but for the emission     *)
(* itself, which has called nothing or has called what it stands at.       *)
Under(o) ==
  /\ ListGood(o) /\ o.frames # <<>>
  /\ \A i \in DOMAIN o.frames : o.frames[i].generation = i
  /\ \A i \in DOMAIN o.frames : i < Len(o.frames) => FrameGood(o, o.frames[i])
  /\ StopsRight(o) /\ OwnersRight(o)

WalksUnder(o) ==
  \A i \in DOMAIN o.frames :
    LET f == o.frames[i]
    IN /\ f.event \in Restart => IsInjective(f.called)
       /\ ~f.excused /\ f.event \notin Restart /\ i < Len(o.frames) => Reached(o, f)
       /\ ~f.excused /\ f.event \in Restart /\ f.owner /\ f.event # Top(o).event =>
             \A k \in DOMAIN o.frames : LastOf(o, k, f.event) => ReachedTogether(o, f, o.frames[k])

(* The last emission, or the one that it stands for, has to reach them all.*)
Answers(o, i) ==
  LET f == o.frames[i]
  IN ~f.excused /\ Same(o, Len(o.frames), i) /\ (f.event \in Restart => f.owner)

Heard(o, f) ==
  \A c \in f.due : ~o.cb[c].deleted =>
    IF f.event \in Restart THEN c \in ToSet(f.called)
    ELSE Times(c, f.called) = Cardinality(ItemsFor(o, c, f.event))

Leaving(o) ==
  /\ Under(o)
  /\ NoneSkipped => /\ WalksUnder(o)
                    /\ \A i \in DOMAIN o.frames : Answers(o, i) => Heard(o, o.frames[i])

LEMMA LeaveIs ==
  ASSUME NEW o, Under(o)
  PROVE  LET p == Leave(o)
             m == Len(o.frames)
             t == o.frames[m]
         IN /\ ListGood(p) /\ m \in Nat /\ m >= 1 /\ t = Top(o)
            /\ Len(p.frames) = m - 1 /\ \A i \in 1 .. m - 1 : p.frames[i] = o.frames[i]
            /\ p.stopped = t.before /\ p.freeze = o.freeze
            /\ p.current = [r \in Restart |-> IF r # t.event THEN o.current[r]
                                              ELSE IF t.owner THEN Absent ELSE 0]
            /\ m > 1 => /\ p.callbacks = o.callbacks /\ Agree(o, p, m - 1)
                        /\ \A c \in Cbs : p.cb[c].deleted = o.cb[c].deleted
<1> DEFINE m == Len(o.frames)
           t == o.frames[m]
           w == [r \in Restart |-> IF r # t.event THEN o.current[r] ELSE IF t.owner THEN Absent ELSE 0]
           s == Front(o.frames)
           a == [o EXCEPT !.current = w, !.frames = s]
           q == Cleared(a)
           p == [q EXCEPT !.stopped = t.before]
<1>1. o \in ObjData /\ ListGood(o) /\ o.frames \in Seq(FrameData) /\ o.frames # <<>>
      /\ o.current \in [Restart -> Nat \cup {Absent}]
  BY DEF Under, ListGood, ObjData
<1>2. m \in Nat /\ m >= 1 /\ s \in Seq(FrameData) /\ Len(s) = m - 1
      /\ \A i \in 1 .. m - 1 : s[i] = o.frames[i]
  BY <1>1, FrontRight, SMTT(20)
<1>3. t = Top(o) /\ t \in FrameData
  BY <1>1, GenerationRight
<1>4. Leave(o) = p
  BY <1>3 DEF Leave
<1>5. w \in [Restart -> Nat \cup {Absent}] /\ t.before \in BOOLEAN
  BY <1>1, <1>3 DEF FrameData
<1> HIDE DEF w, s
<1>6. a \in ObjData /\ a.frames = s /\ a.current = w /\ a.callbacks = o.callbacks /\ a.cb = o.cb
      /\ a.freeze = o.freeze /\ a.cleaning = o.cleaning /\ a.adds = o.adds /\ a.dels = o.dels
  BY <1>1, <1>2, <1>5 DEF ObjData
<1> HIDE DEF a
<1>7. ListWhole(a) /\ Listed(a) = Listed(o)
  <2>1. ListWhole(o) /\ SameList(o, a)
    BY <1>1, <1>6 DEF ListGood, ListWhole, SameList
  <2> QED BY <1>6, <2>1, ListKept
<1>8. \A c \in Listed(a) : /\ ~a.cleaning => a.cb[c].generation = 0
                           /\ a.cb[c].deleted => a.cleaning
  BY <1>1, <1>6, <1>7 DEF ListGood, Generations, Deletions
<1>9. ClearedAs(a, q)
  BY <1>7, <1>8, ClearedRight
<1> HIDE DEF q, t
<1>10. ListGood(q) /\ q \in ObjData /\ q.frames = s /\ q.current = w /\ q.freeze = o.freeze
  BY <1>6, <1>9 DEF ClearedAs, ListGood
<1>11. p \in ObjData /\ p.stopped = t.before /\ p.frames = s /\ p.current = w /\ p.freeze = o.freeze
       /\ p.callbacks = q.callbacks /\ p.cb = q.cb /\ p.cleaning = q.cleaning /\ p.adds = q.adds
       /\ p.dels = q.dels
  BY <1>5, <1>10 DEF ObjData
<1> HIDE DEF p
<1>12. ListGood(p) /\ Listed(p) = Listed(q)
  <2>1. SameList(q, p) /\ ListWhole(q)
    BY <1>10, <1>11 DEF SameList, ListGood, ListWhole
  <2>2. ListWhole(p) /\ Listed(p) = Listed(q)
    BY <1>11, <2>1, ListKept
  <2>3. Generation(p) = Generation(q)
    BY <1>10, <1>11 DEF Generation, Top
  <2>4. Generations(p) /\ Deletions(p)
    BY <1>10, <1>11, <2>2, <2>3 DEF Generations, Deletions, ListGood
  <2> QED BY <2>2, <2>4 DEF ListGood, ListWhole
<1>13. ASSUME m > 1
       PROVE  /\ p.callbacks = o.callbacks /\ Agree(o, p, m - 1)
              /\ \A c \in Cbs : p.cb[c].deleted = o.cb[c].deleted
  <2>1. s # <<>> /\ Len(s) = m - 1 /\ m - 1 \in 1 .. m - 1
    BY <1>2, <1>13
  <2>2. Generation(a) = m - 1
    <3>1. Generation(a) = s[m - 1].generation
      <4>1. a.frames # <<>> /\ Len(a.frames) = m - 1
        BY <1>6, <2>1
      <4>2. Generation(a) = a.frames[Len(a.frames)].generation
        BY <1>6, <4>1, GenerationRight
      <4> QED BY <1>6, <4>1, <4>2
    <3>2. s[m - 1] = o.frames[m - 1]
      BY <1>2, <2>1
    <3>3. o.frames[m - 1].generation = m - 1
      <4>1. m - 1 \in DOMAIN o.frames
        BY <1>1, <1>2, <2>1
      <4> DEFINE k == m - 1
      <4> HIDE DEF k
      <4>2. k \in DOMAIN o.frames
        BY <4>1 DEF k
      <4>3. o.frames[k].generation = k
        BY <4>2 DEF Under
      <4> QED BY <4>3 DEF k
    <3> QED BY <3>1, <3>2, <3>3
  <2>3. /\ q.callbacks = o.callbacks /\ Listed(q) = Listed(o)
        /\ \A c \in Cbs :
             /\ q.cb[c].items = o.cb[c].items /\ q.cb[c].priority = o.cb[c].priority
             /\ q.cb[c].deleted = o.cb[c].deleted
             /\ \/ q.cb[c].generation = o.cb[c].generation
                \/ o.cb[c].generation > m - 1 /\ q.cb[c].generation = m - 1
    BY <1>6, <1>7, <1>9, <2>1, <2>2 DEF ClearedAs
  <2>4. ASSUME NEW c \in Listed(o), NEW n \in 1 .. m - 1
        PROVE  p.cb[c].generation < n <=> o.cb[c].generation < n
    <3>1. c \in Cbs /\ o.cb[c].generation \in Nat
      BY <1>1, ObjTyped
    <3>2. \/ p.cb[c].generation = o.cb[c].generation
          \/ o.cb[c].generation > m - 1 /\ p.cb[c].generation = m - 1
      BY <1>11, <2>3, <3>1
    <3> QED BY <1>2, <3>1, <3>2
  <2>5. Listed(o) \subseteq Cbs
    BY <1>1, ObjTyped
  <2>6. Agree(o, p, m - 1)
    BY <1>11, <1>12, <2>3, <2>4, <2>5 DEF Agree
  <2> QED BY <1>11, <2>3, <2>6
<1> QED BY <1>2, <1>3, <1>4, <1>11, <1>12, <1>13 DEF t, w

(* Leave.                                                                  *)
LEMMA LeaveRight ==
  ASSUME NEW o, Leaving(o)
  PROVE  Right(Leave(o))
<1> DEFINE p == Leave(o)
           m == Len(o.frames)
           n == m - 1
           t == o.frames[m]
<1>1. Under(o) /\ o \in ObjData
  BY DEF Leaving, Under, ListGood
<1>2. /\ ListGood(p) /\ m \in Nat /\ m >= 1 /\ t = Top(o)
      /\ Len(p.frames) = n /\ \A i \in 1 .. n : p.frames[i] = o.frames[i]
      /\ p.stopped = t.before /\ p.freeze = o.freeze
      /\ p.current = [r \in Restart |-> IF r # t.event THEN o.current[r]
                                        ELSE IF t.owner THEN Absent ELSE 0]
      /\ m > 1 => /\ p.callbacks = o.callbacks /\ Agree(o, p, n)
                  /\ \A c \in Cbs : p.cb[c].deleted = o.cb[c].deleted
  BY <1>1, LeaveIs
<1> HIDE DEF p
<1>3. p \in ObjData /\ DOMAIN p.frames = 1 .. n /\ DOMAIN o.frames = 1 .. m /\ n \in Nat
      /\ 1 .. n \subseteq 1 .. m /\ m \in 1 .. m /\ n + 1 = m
  <2>1. p \in ObjData
    BY <1>2 DEF ListGood
  <2> QED BY <1>1, <1>2, <2>1, FrameTyped
<1> HIDE DEF n, t
<1>4. ASSUME NEW i \in 1 .. n
      PROVE  /\ p.frames[i] = o.frames[i] /\ o.frames[i] \in FrameData /\ o.frames[i].generation = i
             /\ FrameGood(o, o.frames[i]) /\ i < m /\ i \in 1 .. m
             /\ Agree(o, p, n) /\ p.callbacks = o.callbacks
             /\ \A c \in Cbs : p.cb[c].deleted = o.cb[c].deleted
  <2>1. i < m /\ m > 1 /\ i \in DOMAIN o.frames
    BY <1>2, <1>3
  <2> QED BY <1>1, <1>2, <1>3, <2>1, FrameTyped DEF Under
<1>5. ASSUME NEW i \in 1 .. n PROVE FrameGood(p, p.frames[i])
  <2> DEFINE f == o.frames[i]
  <2>1. f.cb \in Cbs
    BY <1>1, <1>4, ObjTyped DEF FrameGood, DueRight
  <2>2. "editInArray" \notin Liberties /\ Between(o, f) => ~p.cb[f.cb].deleted
    BY <1>4, <2>1 DEF FrameGood
  <2>3. Frozen(p, f.event) => f.excused
    BY <1>2, <1>4 DEF FrameGood, Frozen
  <2>4. SameFrame(f, f) /\ f.generation \in 1 .. n /\ f \in FrameData /\ FrameGood(o, f)
    BY <1>4 DEF SameFrame
  <2> HIDE DEF f
  <2>5. FrameGood(p, f)
    BY <1>1, <1>3, <1>4, <2>2, <2>3, <2>4, FrameSame
  <2> QED BY <1>4, <2>5 DEF f
<1>6. StopsRight(p)
  <2>1. ASSUME NEW i \in 1 .. n PROVE StopSeen(p, i) = StopSeen(o, i)
    <3>1. i < m
      BY <1>4
    <3>2. CASE i = n
      <4>1. StopSeen(p, i) = p.stopped
        BY <1>2, <3>2 DEF StopSeen
      <4>2. StopSeen(o, i) = o.frames[i + 1].before
        BY <1>2, <3>1 DEF StopSeen
      <4> QED BY <1>2, <1>3, <3>2, <4>1, <4>2 DEF t
    <3>3. CASE i # n
      <4>1. i + 1 \in 1 .. n
        BY <1>3, <3>3
      <4>2. p.frames[i + 1] = o.frames[i + 1]
        BY <1>2, <4>1
      <4> QED BY <1>2, <3>1, <3>3, <4>2 DEF StopSeen
    <3> QED BY <3>2, <3>3
  <2>2. \A i, j \in 1 .. n : Same(p, i, j) <=> Same(o, i, j)
    BY <1>4 DEF Same
  <2> SUFFICES ASSUME NEW i \in 1 .. n, NEW j \in 1 .. n, StopSeen(p, i), j <= i, Same(p, i, j)
               PROVE  p.frames[j].excused
    BY <1>3 DEF StopsRight
  <2>3. StopSeen(o, i) /\ Same(o, i, j) /\ i \in DOMAIN o.frames /\ j \in DOMAIN o.frames
    BY <1>3, <2>1, <2>2
  <2> QED BY <1>1, <1>4, <2>3 DEF Under, StopsRight
<1>7. OwnersRight(p)
  <2>1. ASSUME NEW i \in 1 .. n, p.frames[i].event \in Restart
        PROVE  p.frames[i].owner <=> \A j \in 1 .. i - 1 : p.frames[j].event # p.frames[i].event
    <3>1. \A j \in 1 .. i - 1 : p.frames[j] = o.frames[j]
      BY <1>2, <1>3
    <3>2. o.frames[i].owner <=> \A j \in 1 .. i - 1 : o.frames[j].event # o.frames[i].event
      BY <1>1, <1>3, <1>4, <2>1 DEF Under, OwnersRight
    <3> QED BY <1>4, <3>1, <3>2
  <2>2. ASSUME NEW e \in Restart
        PROVE  p.current[e] = Absent <=> \A i \in 1 .. n : p.frames[i].event # e
    <3>1. CASE e # t.event
      <4>1. o.current[e] = Absent <=> \A i \in 1 .. m : o.frames[i].event # e
        BY <1>1, <1>3 DEF Under, OwnersRight
      <4>2. (\A i \in 1 .. m : o.frames[i].event # e) <=> \A i \in 1 .. n : o.frames[i].event # e
        <5>1. \A i \in 1 .. m : i \in 1 .. n \/ i = m
          BY <1>3
        <5> QED BY <1>3, <3>1, <5>1 DEF t
      <4> QED BY <1>2, <3>1, <4>1, <4>2
    <3>2. CASE e = t.event
      <4>1. t.owner <=> \A j \in 1 .. m - 1 : o.frames[j].event # e
        BY <1>1, <1>3, <3>2 DEF Under, OwnersRight, t
      <4>2. 1 .. m - 1 = 1 .. n
        BY DEF n
      <4>3. p.current[e] = IF t.owner THEN Absent ELSE 0
        BY <1>2, <3>2
      <4> QED BY <1>2, <4>1, <4>2, <4>3, SMTT(20) DEF Absent
    <3> QED BY <3>1, <3>2
  <2>3. ASSUME NEW e \in Restart PROVE p.current[e] <= Len(p.callbacks)
    <3>1. o.current[e] <= Len(o.callbacks) /\ Len(p.callbacks) \in Nat
      BY <1>1, <1>3, ObjTyped DEF Under, OwnersRight
    <3>2. CASE m > 1
      <4>1. p.current[e] = o.current[e] \/ p.current[e] = Absent \/ p.current[e] = 0
        BY <1>2
      <4> QED BY <1>2, <3>1, <3>2, <4>1 DEF Absent
    <3>3. CASE ~(m > 1)
      <4>1. n = 0 /\ 1 .. n = {}
        BY <1>2, <1>3, <3>3
      <4>2. p.current[e] = Absent
        BY <2>2, <4>1
      <4> QED BY <3>1, <4>2 DEF Absent
    <3> QED BY <3>2, <3>3
  <2> QED BY <1>3, <2>1, <2>2, <2>3 DEF OwnersRight
<1>8. ASSUME NoneSkipped PROVE WalksRight(p)
  <2>1. WalksUnder(o) /\ \A i \in DOMAIN o.frames : Answers(o, i) => Heard(o, o.frames[i])
    BY <1>8 DEF Leaving
  <2> SUFFICES ASSUME NEW i \in 1 .. n
               PROVE  LET f == o.frames[i]
                      IN /\ f.event \in Restart => IsInjective(f.called)
                         /\ ~f.excused /\ f.event \notin Restart => Reached(p, f)
                         /\ ~f.excused /\ f.event \in Restart /\ f.owner =>
                              \A k \in 1 .. n : LastOf(p, k, f.event) => ReachedTogether(p, f, o.frames[k])
    BY <1>2, <1>3 DEF WalksRight
  <2> DEFINE f == o.frames[i]
  <2>2. i \in DOMAIN o.frames /\ i < m
    BY <1>3, <1>4
  <2>3. f.event \in Restart => IsInjective(f.called)
    BY <2>1, <2>2 DEF WalksUnder
  <2>4. f.due \subseteq Listed(o) /\ f.cb \in Listed(o) /\ Listed(o) \subseteq Cbs
    BY <1>1, <1>4, ObjTyped DEF FrameGood, DueRight
  <2>5. ASSUME ~f.excused, f.event \notin Restart PROVE Reached(p, f)
    <3>1. Reached(o, f) /\ SameFrame(f, f) /\ Agree(o, p, n)
      BY <1>4, <2>1, <2>2, <2>5 DEF WalksUnder, SameFrame
    <3> QED BY <2>4, <2>5, <3>1, ReachedKept
  <2>6. ASSUME ~f.excused, f.event \in Restart, f.owner, NEW k \in 1 .. n, LastOf(p, k, f.event)
        PROVE  ReachedTogether(p, f, o.frames[k])
    <3> DEFINE h == o.frames[k]
    <3>1. k \in DOMAIN o.frames /\ FrameGood(o, h) /\ h.event = f.event /\ Agree(o, p, n)
      BY <1>3, <1>4, <2>6 DEF LastOf
    <3>2. CASE f.event # t.event
      <4>1. LastOf(o, k, f.event)
        <5>1. ASSUME NEW j \in 1 .. m, o.frames[j].event = f.event PROVE j <= k
          <6>1. j # m
            BY <3>2, <5>1 DEF t
          <6>2. j \in 1 .. n
            BY <1>3, <6>1
          <6> QED BY <1>3, <1>4, <2>6, <5>1, <6>2 DEF LastOf
        <5> QED BY <1>3, <3>1, <5>1 DEF LastOf
      <4>2. ReachedTogether(o, f, h)
        BY <1>2, <2>1, <2>2, <2>6, <3>1, <3>2, <4>1 DEF WalksUnder
      <4>3. p.current[f.event] = o.current[f.event]
        BY <1>2, <2>6, <3>2
      <4>4. h.cb \in Listed(o)
        BY <3>1 DEF FrameGood, DueRight
      <4> HIDE DEF f, h
      <4>5. ReachedTogether(p, f, h)
        BY <2>4, <3>1, <4>2, <4>3, <4>4, TogetherKept
      <4> QED BY <4>5 DEF f, h
    <3>3. CASE f.event = t.event
      <4>1. ~t.owner
        <5>1. t.owner <=> \A j \in 1 .. m - 1 : o.frames[j].event # t.event
          BY <1>1, <1>3, <2>6, <3>3 DEF Under, OwnersRight, t
        <5>2. i \in 1 .. m - 1
          BY DEF n
        <5> QED BY <3>3, <5>1, <5>2
      <4>2. p.current[f.event] = 0
        BY <1>2, <2>6, <3>3, <4>1
      <4>3. Heard(o, f)
        <5>1. Answers(o, i)
          BY <2>6, <3>3 DEF Answers, Same, t
        <5> QED BY <2>1, <2>2, <5>1
      <4>4. \A c \in f.due : ~p.cb[c].deleted => c \in ToSet(f.called)
        BY <1>4, <2>4, <2>6, <4>3 DEF Heard
      <4> QED BY <4>2, <4>4 DEF ReachedTogether
    <3> QED BY <3>2, <3>3
  <2> QED BY <2>3, <2>5, <2>6
<1>9. \A i \in DOMAIN p.frames : p.frames[i].generation = i /\ FrameGood(p, p.frames[i])
  BY <1>3, <1>4, <1>5
<1> QED BY <1>2, <1>6, <1>7, <1>8, <1>9 DEF Right, FramesGood, p

-----------------------------------------------------------------------------
(* How often a callback was called.                                        *)
LEMMA FinitePart == ASSUME NEW n \in Nat, NEW I \in SUBSET (1 .. n) PROVE IsFiniteSet(I)
<1>1. IsFiniteSet(1 .. n)
  BY FS_Interval
<1> QED BY <1>1, FS_Subset

LEMMA TimesRight ==
  ASSUME NEW S, NEW s \in Seq(S), NEW c
  PROVE  /\ Times(c, s) \in Nat
         /\ c \notin ToSet(s) => Times(c, s) = 0
         /\ c \in ToSet(s) /\ IsInjective(s) => Times(c, s) = 1
<1> DEFINE I == {i \in DOMAIN s : s[i] = c}
<1>1. Len(s) \in Nat /\ DOMAIN s = 1 .. Len(s)
  OBVIOUS
<1>2. IsFiniteSet(I)
  BY <1>1, FinitePart
<1>3. Cardinality(I) \in Nat
  BY <1>2, FS_CardinalityType
<1>4. c \notin ToSet(s) => I = {}
  BY DEF ToSet
<1>5. ASSUME c \in ToSet(s), IsInjective(s) PROVE Cardinality(I) = 1
  <2>1. PICK i \in DOMAIN s : s[i] = c
    BY <1>5 DEF ToSet
  <2>2. I = {i}
    BY <1>5, <2>1 DEF IsInjective
  <2> QED BY <2>2, FS_Singleton
<1> QED BY <1>3, <1>4, <1>5, FS_EmptySet DEF Times

LEMMA TimesAppend ==
  ASSUME NEW S, NEW s \in Seq(S), NEW d \in S, NEW c
  PROVE  Times(c, Append(s, d)) = Times(c, s) + (IF c = d THEN 1 ELSE 0)
<1> DEFINE r == Append(s, d)
           n == Len(s)
           I == {i \in 1 .. n : s[i] = c}
           J == {i \in 1 .. n + 1 : r[i] = c}
<1>1. n \in Nat /\ DOMAIN s = 1 .. n /\ DOMAIN r = 1 .. n + 1 /\ r[n + 1] = d
      /\ \A i \in 1 .. n : r[i] = s[i]
  OBVIOUS
<1> HIDE DEF r, n
<1>2. IsFiniteSet(I) /\ Cardinality(I) \in Nat
  <2>1. IsFiniteSet(I)
    BY <1>1, FinitePart
  <2> QED BY <2>1, FS_CardinalityType
<1>3. n + 1 \notin I
  BY <1>1
<1>4. CASE c = d
  <2>1. J = I \cup {n + 1}
    <3>1. \A i \in 1 .. n + 1 : i \in 1 .. n \/ i = n + 1
      BY <1>1
    <3>2. n + 1 \in 1 .. n + 1 /\ 1 .. n \subseteq 1 .. n + 1
      BY <1>1
    <3> QED BY <1>1, <1>4, <3>1, <3>2
  <2> HIDE DEF I, J
  <2>2. Cardinality(J) = Cardinality(I) + 1
    BY <1>2, <1>3, <2>1, FS_AddElement
  <2>3. Times(c, r) = Cardinality(J) /\ Times(c, s) = Cardinality(I)
    BY <1>1 DEF Times, I, J
  <2> QED BY <1>4, <2>2, <2>3 DEF r
<1>5. CASE c # d
  <2>1. J = I
    <3>1. \A i \in 1 .. n + 1 : i \in 1 .. n \/ i = n + 1
      BY <1>1
    <3>2. 1 .. n \subseteq 1 .. n + 1
      BY <1>1
    <3> QED BY <1>1, <1>5, <3>1, <3>2
  <2> HIDE DEF I, J
  <2>3. Times(c, r) = Cardinality(J) /\ Times(c, s) = Cardinality(I)
    BY <1>1 DEF Times, I, J
  <2> QED BY <1>2, <1>5, <2>1, <2>3 DEF r
<1> QED BY <1>4, <1>5

(* The items up to the first, or the next one.                             *)
LEMMA UptoFirst ==
  ASSUME NEW n \in Nat, NEW I \in SUBSET (1 .. n), I # {}
  PROVE  Min(I) \in I /\ Cardinality({k \in I : k <= Min(I)}) = 1
<1>1. I \in SUBSET Nat
  OBVIOUS
<1>2. Min(I) \in I /\ \A y \in I : Min(I) <= y
  BY <1>1, MinRight
<1> DEFINE x == Min(I)
<1> HIDE DEF x
<1>3. {k \in I : k <= x} = {x}
  <2>1. x \in I /\ \A y \in I : x <= y /\ y \in Nat
    BY <1>1, <1>2 DEF x
  <2>2. \A y \in I : y <= x => y = x
    BY <2>1
  <2> QED BY <2>1, <2>2
<1> QED BY <1>2, <1>3, FS_Singleton DEF x

LEMMA UptoNext ==
  ASSUME NEW n \in Nat, NEW I \in SUBSET (1 .. n), NEW a \in Nat, {k \in I : k > a} # {}
  PROVE  LET b == Min({k \in I : k > a})
         IN /\ b \in I /\ b > a
            /\ Cardinality({k \in I : k <= b}) = Cardinality({k \in I : k <= a}) + 1
            /\ Cardinality({k \in I : k <= a}) \in Nat
<1> DEFINE J == {k \in I : k > a}
           b == Min(J)
           U == {k \in I : k <= a}
           V == {k \in I : k <= b}
<1>1. J \in SUBSET Nat /\ \A x \in I : x \in Nat
  <2>1. \A x \in I : x \in 1 .. n
    OBVIOUS
  <2>2. \A x \in I : x \in Nat
    BY <2>1
  <2> QED BY <2>2
<1>2. b \in J /\ \A y \in J : b <= y
  <2> HIDE DEF J
  <2> QED BY <1>1, MinRight DEF J
<1>3. b \in I /\ b > a /\ \A y \in I : y > a => b <= y
  BY <1>2
<1> HIDE DEF b
<1>4. V = U \cup {b} /\ b \notin U
  <2>1. b \in Nat
    BY <1>1, <1>3
  <2>2. \A x \in I : x <= b <=> x <= a \/ x = b
    BY <1>1, <1>3, <2>1
  <2>3. ~(b <= a)
    BY <1>3, <2>1
  <2> QED BY <1>3, <2>2, <2>3
<1>5. IsFiniteSet(U)
  <2>1. U \in SUBSET (1 .. n)
    OBVIOUS
  <2> HIDE DEF U
  <2> QED BY <2>1, FinitePart
<1>6. Cardinality(V) = Cardinality(U) + 1 /\ Cardinality(U) \in Nat
  <2> HIDE DEF U, V
  <2> QED BY <1>4, <1>5, FS_AddElement, FS_CardinalityType
<1> QED BY <1>3, <1>6 DEF b

-----------------------------------------------------------------------------
(* What keeps the list good.                                               *)
LEMMA GoodKept ==
  ASSUME NEW o, ListGood(o), NEW p \in ObjData,
         p.callbacks = o.callbacks, p.cb = o.cb, p.adds = o.adds, p.dels = o.dels,
         p.cleaning = o.cleaning, Generation(o) <= Generation(p), o.frames # <<>> => p.frames # <<>>
  PROVE  ListGood(p) /\ Listed(p) = Listed(o)
<1>1. ListWhole(o) /\ SameList(o, p) /\ o \in ObjData
  BY DEF ListGood, ListWhole, SameList
<1>2. ListWhole(p) /\ Listed(p) = Listed(o)
  BY <1>1, ListKept
<1>3. \A c \in Listed(p) : p.cb[c].generation <= Generation(p)
  <2> TAKE c \in Listed(p)
  <2>1. o.cb[c].generation <= Generation(o) /\ c \in Cbs
    BY <1>1, <1>2, ObjTyped DEF ListGood, Generations
  <2>2. o.cb[c].generation \in Nat /\ Generation(o) \in Nat /\ Generation(p) \in Nat
    BY <1>1, <2>1, ObjTyped, GenerationRight
  <2> QED BY <2>1, <2>2
<1>4. Generations(p) /\ Deletions(p)
  BY <1>2, <1>3 DEF Generations, Deletions, ListGood
<1> QED BY <1>2, <1>4 DEF ListGood, ListWhole

(* A sequence of frames with another last one.                             *)
LEMMA WithTopRight ==
  ASSUME NEW o \in ObjData, o.frames # <<>>, NEW f \in FrameData
  PROVE  LET p == WithTop(o, f)
             m == Len(o.frames)
         IN /\ p \in ObjData /\ Len(p.frames) = m /\ m \in Nat /\ m >= 1
            /\ p.frames[m] = f /\ Top(p) = f /\ \A i \in 1 .. m - 1 : p.frames[i] = o.frames[i]
            /\ p.callbacks = o.callbacks /\ p.cb = o.cb /\ p.freeze = o.freeze
            /\ p.stopped = o.stopped /\ p.cleaning = o.cleaning /\ p.adds = o.adds
            /\ p.dels = o.dels /\ p.current = o.current
<1> DEFINE s == Append(Front(o.frames), f)
           m == Len(o.frames)
           p == [o EXCEPT !.frames = s]
<1>1. o.frames \in Seq(FrameData)
  BY DEF ObjData
<1>2. /\ s \in Seq(FrameData) /\ Len(s) = m /\ m >= 1 /\ s[m] = f
      /\ \A i \in 1 .. m - 1 : s[i] = o.frames[i]
  BY <1>1, PutLast
<1>3. WithTop(o, f) = p
  BY DEF WithTop
<1> HIDE DEF s
<1>4. /\ p \in ObjData /\ p.frames = s
      /\ p.callbacks = o.callbacks /\ p.cb = o.cb /\ p.freeze = o.freeze
      /\ p.stopped = o.stopped /\ p.cleaning = o.cleaning /\ p.adds = o.adds
      /\ p.dels = o.dels /\ p.current = o.current
  BY <1>2 DEF ObjData
<1> HIDE DEF p
<1>5. Top(p) = f
  <2>1. p.frames # <<>>
    BY <1>1, <1>2, <1>4
  <2> QED BY <1>2, <1>4, <2>1, GenerationRight
<1> QED BY <1>1, <1>2, <1>3, <1>4, <1>5

LEMMA NotedRight ==
  ASSUME NEW f \in FrameData, NEW c \in Cbs
  PROVE  LET g == Noted(f, c)
         IN /\ g \in FrameData
            /\ g.event = f.event /\ g.idx = f.idx /\ g.inserted = f.inserted
            /\ g.generation = f.generation /\ g.before = f.before /\ g.owner = f.owner
            /\ g.cb = f.cb /\ g.item = f.item /\ g.due = f.due /\ g.excused = f.excused
            /\ g.called = IF f.event \in Restart /\ c \in ToSet(f.called) THEN f.called
                          ELSE Append(f.called, c)
<1> DEFINE s == Append(f.called, c)
<1>1. f.called \in Seq(Cbs) /\ s \in Seq(Cbs)
  BY DEF FrameData
<1>2. Noted(f, c) = IF f.event \in Restart /\ c \in ToSet(f.called) THEN f ELSE [f EXCEPT !.called = s]
  BY DEF Noted
<1> HIDE DEF s
<1> QED BY <1>1, <1>2 DEF FrameData, s

-----------------------------------------------------------------------------
(* The walk.                                                               *)

(* The callbacks of the list above position n.                             *)
Past(o, n) == {o.callbacks[q] : q \in n + 1 .. Len(o.callbacks)}

HalfWay(o, f, n) ==
  \A c \in f.due : ~o.cb[c].deleted =>
    IF f.event \in Restart THEN c \in Past(o, n) => c \in ToSet(f.called)
    ELSE Times(c, f.called) = IF c \in Past(o, n) THEN Cardinality(ItemsFor(o, c, f.event)) ELSE 0

(* The last emission has called what is above n, and calls what is below.  *)
TopWalks(o, f, n) ==
  /\ DueRight(o, f) /\ f.inserted = 0
  /\ Frozen(o, f.event) => f.excused
  /\ f.event \notin Restart => CalledDown(o, f.called) /\ ToSet(f.called) \subseteq Past(o, n)

Walking(o, n) ==
  /\ Under(o) /\ n \in 0 .. Len(o.callbacks) /\ TopWalks(o, Top(o), n)
  /\ NoneSkipped => /\ WalksUnder(o)
                    /\ \A i \in DOMAIN o.frames : Answers(o, i) => HalfWay(o, o.frames[i], n)

(* CallAt changes the emissions like this.                                 *)
CalledAs(o, p, i, e, j, c, k) ==
  LET f == o.frames[i]
      g == p.frames[i]
      m == Len(o.frames)
  IN /\ f \in FrameData /\ g \in FrameData
     /\ g.event = f.event /\ g.due = f.due /\ g.generation = f.generation /\ g.before = f.before
     /\ g.owner = f.owner /\ g.excused = f.excused /\ g.inserted = f.inserted
     /\ IF i = m THEN g.idx = j /\ g.cb = c /\ g.item = k
        ELSE g.idx = f.idx /\ g.cb = f.cb /\ g.item = f.item
     /\ g.called = IF f.event = e /\ (i = m \/ e \in Restart) /\ ~(e \in Restart /\ c \in ToSet(f.called))
                   THEN Append(f.called, c) ELSE f.called

LEMMA CallIs ==
  ASSUME NEW o \in ObjData, o.frames # <<>>, NEW j \in 1 .. Len(o.callbacks), NEW k \in Nat
  PROVE  LET p == CallAt(o, j, k)
             e == Top(o).event
             m == Len(o.frames)
         IN /\ p \in ObjData /\ Len(p.frames) = m /\ m \in Nat /\ m >= 1 /\ Top(o) = o.frames[m]
            /\ \A i \in 1 .. m : CalledAs(o, p, i, e, j, o.callbacks[j], k)
            /\ p.current = [r \in Restart |-> IF r = e THEN j - 1 ELSE o.current[r]]
            /\ p.callbacks = o.callbacks /\ p.cb = o.cb /\ p.freeze = o.freeze
            /\ p.stopped = o.stopped /\ p.cleaning = o.cleaning /\ p.adds = o.adds
            /\ p.dels = o.dels
<1> DEFINE c == o.callbacks[j]
           e == Top(o).event
           m == Len(o.frames)
           s == [i \in DOMAIN o.frames |->
                   IF o.frames[i].event = e /\ (i = m \/ e \in Restart)
                   THEN Noted(o.frames[i], c) ELSE o.frames[i]]
           w == [r \in Restart |-> IF r = e THEN j - 1 ELSE o.current[r]]
           a == [o EXCEPT !.frames = s, !.current = w]
           f == [Top(a) EXCEPT !.idx = j, !.cb = c, !.item = k]
           p == WithTop(a, f)
<1>1. CallAt(o, j, k) = p
  BY DEF CallAt
<1>2. o.frames \in Seq(FrameData) /\ o.current \in [Restart -> Nat \cup {Absent}]
      /\ DOMAIN o.frames = 1 .. m /\ m \in Nat /\ m >= 1 /\ Top(o) = o.frames[m]
      /\ \A i \in 1 .. m : o.frames[i] \in FrameData
  <2>1. o.frames \in Seq(FrameData) /\ o.current \in [Restart -> Nat \cup {Absent}]
    BY DEF ObjData
  <2>2. Len(o.frames) >= 1
    BY <2>1, FrontRight
  <2> QED BY <2>1, <2>2, FrameTyped, GenerationRight
<1>3. c \in Cbs /\ j \in Nat /\ j - 1 \in Nat
  BY ObjTyped
<1> HIDE DEF c, e, m
<1>4. ASSUME NEW i \in 1 .. m
      PROVE  s[i] = IF o.frames[i].event = e /\ (i = m \/ e \in Restart)
                    THEN Noted(o.frames[i], c) ELSE o.frames[i]
  BY <1>2
<1>5. \A i \in 1 .. m : Noted(o.frames[i], c) \in FrameData
  BY <1>2, <1>3, NotedRight
<1>6. s \in Seq(FrameData) /\ Len(s) = m
  <2>1. s = [i \in DOMAIN o.frames |-> s[i]]
    OBVIOUS
  <2>2. \A i \in 1 .. m : s[i] \in FrameData
    BY <1>2, <1>4, <1>5
  <2> HIDE DEF s
  <2> QED BY <1>2, <2>1, <2>2, SameLength DEF m
<1>7. w \in [Restart -> Nat \cup {Absent}]
  BY <1>2, <1>3
<1> HIDE DEF s, w
<1>8. a \in ObjData /\ a.frames = s /\ a.current = w /\ a.callbacks = o.callbacks /\ a.cb = o.cb
      /\ a.freeze = o.freeze /\ a.stopped = o.stopped /\ a.cleaning = o.cleaning /\ a.adds = o.adds
      /\ a.dels = o.dels
  BY <1>6, <1>7 DEF ObjData
<1> HIDE DEF a
<1>9. a.frames # <<>> /\ Top(a) \in FrameData /\ Top(a) = s[m] /\ Len(a.frames) = m
  <2>1. Len(a.frames) = m /\ a.frames # <<>>
    BY <1>2, <1>6, <1>8
  <2> QED BY <1>8, <2>1, GenerationRight
<1>10. /\ f \in FrameData /\ f.idx = j /\ f.cb = c /\ f.item = k
       /\ f.event = s[m].event /\ f.due = s[m].due /\ f.generation = s[m].generation
       /\ f.before = s[m].before /\ f.owner = s[m].owner /\ f.excused = s[m].excused
       /\ f.inserted = s[m].inserted /\ f.called = s[m].called
  BY <1>3, <1>9 DEF FrameData
<1> HIDE DEF f
<1>11. /\ p \in ObjData /\ Len(p.frames) = m /\ p.frames[m] = f
       /\ \A i \in 1 .. m - 1 : p.frames[i] = s[i]
       /\ p.callbacks = o.callbacks /\ p.cb = o.cb /\ p.freeze = o.freeze
       /\ p.stopped = o.stopped /\ p.cleaning = o.cleaning /\ p.adds = o.adds
       /\ p.dels = o.dels /\ p.current = w
  BY <1>8, <1>9, <1>10, WithTopRight
<1> HIDE DEF p
<1>12. ASSUME NEW i \in 1 .. m PROVE CalledAs(o, p, i, e, j, c, k)
  <2>1. /\ o.frames[i] \in FrameData /\ s[i] \in FrameData
        /\ s[i].event = o.frames[i].event /\ s[i].idx = o.frames[i].idx
        /\ s[i].inserted = o.frames[i].inserted /\ s[i].generation = o.frames[i].generation
        /\ s[i].before = o.frames[i].before /\ s[i].owner = o.frames[i].owner
        /\ s[i].cb = o.frames[i].cb /\ s[i].item = o.frames[i].item
        /\ s[i].due = o.frames[i].due /\ s[i].excused = o.frames[i].excused
        /\ s[i].called =
             IF o.frames[i].event = e /\ (i = m \/ e \in Restart)
                /\ ~(e \in Restart /\ c \in ToSet(o.frames[i].called))
             THEN Append(o.frames[i].called, c) ELSE o.frames[i].called
    BY <1>2, <1>3, <1>4, NotedRight
  <2>2. CASE i = m
    BY <1>10, <1>11, <2>1, <2>2 DEF CalledAs, m
  <2>3. CASE i # m
    <3>1. i \in 1 .. m - 1
      BY <1>2, <2>3
    <3> QED BY <1>11, <2>1, <2>3, <3>1 DEF CalledAs, m
  <2> QED BY <2>2, <2>3
<1> QED BY <1>1, <1>2, <1>11, <1>12 DEF c, e, m, w

LEMMA CalledDownAppend ==
  ASSUME NEW o, NEW s \in Seq(Cbs), CalledDown(o, s), NEW c \in Cbs, c \in Listed(o),
         \A d \in ToSet(s) : d = c \/ Above(o, c, d)
  PROVE  CalledDown(o, Append(s, c)) /\ Append(s, c) # <<>> /\ Last(Append(s, c)) = c
<1> DEFINE r == Append(s, c)
           n == Len(s)
<1>1. n \in Nat /\ DOMAIN s = 1 .. n /\ r \in Seq(Cbs) /\ DOMAIN r = 1 .. n + 1 /\ Len(r) = n + 1
      /\ r[n + 1] = c /\ \A i \in 1 .. n : r[i] = s[i]
  OBVIOUS
<1> HIDE DEF r, n
<1>2. \A i \in 1 .. n + 1 : i = n + 1 \/ (i \in 1 .. n /\ r[i] = s[i] /\ s[i] \in ToSet(s))
  BY <1>1 DEF ToSet
<1>3. ToSet(r) \subseteq Listed(o)
  <2>1. \A i \in 1 .. n + 1 : r[i] \in Listed(o)
    BY <1>1, <1>2 DEF CalledDown
  <2> QED BY <1>1, <2>1 DEF ToSet
<1>4. ASSUME NEW i \in 1 .. n + 1, NEW j \in 1 .. n + 1, i < j
      PROVE  r[i] = r[j] \/ Above(o, r[j], r[i])
  <2>1. i \in 1 .. n /\ r[i] = s[i] /\ s[i] \in ToSet(s)
    BY <1>1, <1>2, <1>4
  <2>2. CASE j = n + 1
    BY <1>1, <2>1, <2>2
  <2>3. CASE j # n + 1
    BY <1>1, <1>2, <1>4, <2>1, <2>3 DEF CalledDown
  <2> QED BY <2>2, <2>3
<1>5. r # <<>> /\ Last(r) = c
  <2>1. r # <<>>
    BY <1>1
  <2> QED BY <1>1, <2>1, FrontRight
<1> QED BY <1>1, <1>3, <1>4, <1>5 DEF CalledDown, r

LEMMA InjectiveAppend ==
  ASSUME NEW S, NEW s \in Seq(S), IsInjective(s), NEW c \in S, c \notin ToSet(s)
  PROVE  IsInjective(Append(s, c))
<1> DEFINE r == Append(s, c)
           n == Len(s)
<1>1. n \in Nat /\ DOMAIN s = 1 .. n /\ DOMAIN r = 1 .. n + 1
      /\ r[n + 1] = c /\ \A i \in 1 .. n : r[i] = s[i]
  OBVIOUS
<1> HIDE DEF r, n
<1>2. \A i \in 1 .. n + 1 : i = n + 1 \/ (i \in 1 .. n /\ r[i] = s[i] /\ s[i] \in ToSet(s))
  BY <1>1 DEF ToSet
<1>3. ASSUME NEW i \in 1 .. n + 1, NEW j \in 1 .. n + 1, r[i] = r[j] PROVE i = j
  <2>1. CASE i = n + 1 /\ j = n + 1
    BY <2>1
  <2>2. CASE i = n + 1 /\ j # n + 1
    BY <1>1, <1>2, <1>3, <2>2
  <2>3. CASE i # n + 1 /\ j = n + 1
    BY <1>1, <1>2, <1>3, <2>3
  <2>4. CASE i # n + 1 /\ j # n + 1
    BY <1>1, <1>2, <1>3, <2>4 DEF IsInjective
  <2> QED BY <2>1, <2>2, <2>3, <2>4
<1> QED BY <1>1, <1>3 DEF IsInjective, r

(* Whom the emission still has to call is a candidate.                     *)
LEMMA StillToCall ==
  ASSUME NEW o, NEW n, Walking(o, n), NEW i \in DOMAIN o.frames, Answers(o, i),
         NEW c \in o.frames[i].due, ~o.cb[c].deleted
  PROVE  /\ c \in Listed(o) /\ o.frames[i].event = Top(o).event
         /\ \A q \in 1 .. n : o.callbacks[q] = c => q \in Candidates(o, Top(o), n)
         /\ \E q \in 1 .. Len(o.callbacks) : o.callbacks[q] = c
<1> DEFINE f == o.frames[i]
           m == Len(o.frames)
           t == o.frames[m]
<1>1. Under(o) /\ o \in ObjData /\ ListGood(o) /\ o.frames # <<>>
  BY DEF Walking, Under, ListGood
<1>2. m \in Nat /\ m >= 1 /\ i \in 1 .. m /\ DOMAIN o.frames = 1 .. m /\ t = Top(o) /\ m \in 1 .. m
  <2>1. m \in Nat /\ DOMAIN o.frames = 1 .. m /\ t = Top(o) /\ m # 0
    BY <1>1, FrameTyped, GenerationRight
  <2> QED BY <2>1
<1>3. DueRight(o, f) /\ (Frozen(o, f.event) => f.excused)
  <2>1. CASE i = m
    BY <1>2, <2>1 DEF Walking, TopWalks
  <2>2. CASE i # m
    <3>1. i < m
      BY <1>2, <2>2
    <3> QED BY <1>1, <1>2, <3>1 DEF Under, FrameGood
  <2> QED BY <2>1, <2>2
<1>4. f.event = t.event /\ ~f.excused
  BY DEF Answers, Same
<1>5. c \in Listed(o) /\ c \in Cbs /\ Listens(o, c, f.event) /\ o.cb[c].generation < f.generation
  BY <1>1, <1>3, ObjTyped DEF DueRight
<1>6. o.cb[c].generation < t.generation
  <2>1. f.generation = i /\ t.generation = m /\ o.cb[c].generation \in Nat
    BY <1>1, <1>2, <1>5, ObjTyped DEF Under
  <2> QED BY <1>2, <1>5, <2>1
<1> HIDE DEF f, m, t
<1>7. ASSUME NEW q \in 1 .. n, o.callbacks[q] = c PROVE q \in Candidates(o, Top(o), n)
  <2>1. ItemsFor(o, c, t.event) # {} /\ ~Frozen(o, t.event)
    BY <1>3, <1>4, <1>5 DEF Listens
  <2> QED BY <1>2, <1>6, <1>7, <2>1 DEF Candidates
<1>8. \E q \in 1 .. Len(o.callbacks) : o.callbacks[q] = c
  BY <1>1, <1>5, PlacesRight DEF ListGood
<1> QED BY <1>2, <1>4, <1>5, <1>7, <1>8 DEF f

(* Position j is the next to call for the walk at n.                       *)
ComesNext(o, n, j) ==
  j \in Candidates(o, Top(o), n) /\ \A y \in Candidates(o, Top(o), n) : y <= j

LEMMA NextToCall ==
  ASSUME NEW o, NEW n, Walking(o, n), NEW j, ComesNext(o, n, j)
  PROVE  LET c == o.callbacks[j]
             t == Top(o)
             I == ItemsFor(o, c, t.event)
         IN /\ j \in 1 .. n /\ n \in Nat /\ j \in 1 .. Len(o.callbacks)
            /\ c \in Listed(o) /\ c \in Cbs /\ c \in t.due /\ ~o.cb[c].deleted
            /\ Min(I) \in I /\ Min(I) \in Nat
            /\ Cardinality({k \in I : k <= Min(I)}) = 1
<1> DEFINE c == o.callbacks[j]
           t == Top(o)
           I == ItemsFor(o, c, t.event)
<1>1. o \in ObjData /\ n \in 0 .. Len(o.callbacks) /\ Len(o.callbacks) \in Nat /\ DueRight(o, t)
  BY ObjTyped DEF Walking, Under, ListGood, TopWalks
<1>2. j \in 1 .. n /\ ~o.cb[c].deleted /\ o.cb[c].generation < t.generation /\ I # {}
  BY DEF ComesNext, Candidates
<1>3. j \in 1 .. Len(o.callbacks) /\ n \in Nat
  BY <1>1, <1>2
<1>4. c \in Listed(o) /\ c \in Cbs
  BY <1>1, <1>3, ObjTyped DEF Listed, ToSet
<1>5. c \in t.due
  BY <1>1, <1>2, <1>4 DEF DueRight, Known, Listens
<1>6. I \in SUBSET (1 .. Len(o.cb[c].items)) /\ Len(o.cb[c].items) \in Nat
  BY <1>1, <1>4, ObjTyped
<1>7. Min(I) \in I /\ Cardinality({k \in I : k <= Min(I)}) = 1
  <2> HIDE DEF I
  <2> QED BY <1>2, <1>6, UptoFirst
<1>8. Min(I) \in Nat
  <2> HIDE DEF I
  <2>1. Min(I) \in 1 .. Len(o.cb[c].items)
    BY <1>6, <1>7
  <2> QED BY <2>1
<1> QED BY <1>2, <1>3, <1>4, <1>5, <1>7, <1>8

LEMMA CallGood ==
  ASSUME NEW o, NEW n, Walking(o, n), NEW j, ComesNext(o, n, j)
  PROVE  LET p == CallAt(o, j, Min(ItemsFor(o, o.callbacks[j], Top(o).event)))
         IN ListGood(p) /\ FramesGood(p)
<1> DEFINE c == o.callbacks[j]
           e == Top(o).event
           k == Min(ItemsFor(o, c, e))
           p == CallAt(o, j, k)
           m == Len(o.frames)
           t == o.frames[m]
<1>1. Under(o) /\ o \in ObjData /\ ListGood(o) /\ o.frames # <<>> /\ Sorted(o)
      /\ n \in 0 .. Len(o.callbacks) /\ Len(o.callbacks) \in Nat
  BY ObjTyped DEF Walking, Under, ListGood
<1>2. /\ j \in 1 .. n /\ n \in Nat /\ j \in 1 .. Len(o.callbacks)
      /\ c \in Listed(o) /\ c \in Cbs /\ c \in Top(o).due /\ ~o.cb[c].deleted
      /\ k \in ItemsFor(o, c, e) /\ k \in Nat
  BY NextToCall
<1> HIDE DEF c, k
<1>3. /\ p \in ObjData /\ Len(p.frames) = m /\ m \in Nat /\ m >= 1 /\ Top(o) = t
      /\ \A i \in 1 .. m : CalledAs(o, p, i, e, j, c, k)
      /\ p.current = [r \in Restart |-> IF r = e THEN j - 1 ELSE o.current[r]]
      /\ p.callbacks = o.callbacks /\ p.cb = o.cb /\ p.freeze = o.freeze
      /\ p.stopped = o.stopped /\ p.cleaning = o.cleaning /\ p.adds = o.adds
      /\ p.dels = o.dels
  BY <1>1, <1>2, CallIs DEF c
<1> HIDE DEF p
<1>4. DOMAIN o.frames = 1 .. m /\ DOMAIN p.frames = 1 .. m /\ m \in 1 .. m
  BY <1>1, <1>3, FrameTyped
<1>5. TopWalks(o, t, n) /\ e = t.event
  BY <1>3 DEF Walking
<1> HIDE DEF e, m, t
<1>6. Agree(o, p, m) /\ Listed(p) = Listed(o)
  BY <1>1, <1>3, AgreeSelf
<1>7. ASSUME NEW i \in 1 .. m
      PROVE  /\ o.frames[i] \in FrameData /\ p.frames[i] \in FrameData
             /\ o.frames[i].generation = i /\ p.frames[i].generation = i
             /\ p.frames[i].event = o.frames[i].event /\ p.frames[i].due = o.frames[i].due
             /\ p.frames[i].before = o.frames[i].before /\ p.frames[i].owner = o.frames[i].owner
             /\ p.frames[i].excused = o.frames[i].excused
             /\ p.frames[i].inserted = o.frames[i].inserted
  BY <1>1, <1>3, <1>4, <1>7 DEF CalledAs, Under
<1>8. p.frames[m].idx = j /\ p.frames[m].cb = c /\ p.frames[m].item = k
  BY <1>3, <1>4 DEF CalledAs, m
<1>9. ListGood(p)
  <2>1. Generation(o) = m /\ Generation(p) = m /\ p.frames # <<>>
    <3>1. p.frames # <<>>
      BY <1>3, <1>4, FrameTyped
    <3> QED BY <1>1, <1>3, <1>4, <1>7, <3>1, GenerationRight DEF t, m
  <2>2. Generation(o) <= Generation(p)
    BY <1>3, <2>1
  <2> QED BY <1>1, <1>3, <2>1, <2>2, GoodKept
<1>10. ASSUME NEW i \in 1 .. m, i # m PROVE FrameGood(p, p.frames[i])
  <2> DEFINE f == o.frames[i]
             g == p.frames[i]
  <2>1. FrameGood(o, f)
    <3>1. i < Len(o.frames)
      BY <1>3, <1>10 DEF m
    <3> QED BY <1>1, <1>4, <3>1 DEF Under
  <2>2. g.idx = f.idx /\ g.cb = f.cb /\ g.item = f.item /\ (f.event \notin Restart => g.called = f.called)
    BY <1>3, <1>10 DEF CalledAs, m
  <2>3. SameFrame(f, g) /\ f.generation \in 1 .. m /\ f \in FrameData /\ g \in FrameData
        /\ g.inserted = f.inserted
    BY <1>7, <2>2 DEF SameFrame
  <2>4. "editInArray" \notin Liberties /\ Between(o, f) => ~p.cb[f.cb].deleted
    BY <1>3, <2>1 DEF FrameGood
  <2>5. Frozen(p, g.event) => g.excused
    BY <1>3, <1>7, <2>1 DEF FrameGood, Frozen
  <2> HIDE DEF f, g
  <2>6. FrameGood(p, g)
    BY <1>1, <1>3, <1>6, <2>1, <2>2, <2>3, <2>4, <2>5, FrameSame
  <2> QED BY <2>6 DEF g
<1>11. FrameGood(p, p.frames[m])
  <2> DEFINE g == p.frames[m]
  <2>1. g.event = e /\ g.due = t.due /\ g.generation = t.generation /\ g.inserted = 0
        /\ g.excused = t.excused /\ t.generation \in 1 .. m
    BY <1>4, <1>5, <1>7 DEF t, TopWalks
  <2>2. g.cb \in g.due /\ g.item \in ItemsFor(p, g.cb, g.event)
    <3>1. ItemsFor(p, c, e) = ItemsFor(o, c, e)
      BY <1>3 DEF ItemsFor
    <3> QED BY <1>2, <1>3, <1>8, <2>1, <3>1
  <2>3. \E q \in DOMAIN p.callbacks : StandsAt(p, g, q)
    <3>1. j \in DOMAIN p.callbacks
      BY <1>1, <1>2, <1>3, ObjTyped
    <3>2. StandsAt(p, g, j)
      <4>1. p.callbacks[j] = c /\ g.cb = c /\ g.idx = j /\ g.idx + g.inserted = j /\ j >= 1 /\ j <= j
        BY <1>2, <1>3, <1>8, <2>1 DEF c
      <4>2. g.idx = 1 => 1 .. j - 1 = {}
        BY <4>1
      <4> QED BY <4>1, <4>2 DEF StandsAt
    <3> QED BY <3>1, <3>2
  <2>4. DueRight(p, g)
    <3>1. DueRight(o, t) /\ g.event = t.event
      BY <1>5, <2>1 DEF TopWalks
    <3> HIDE DEF g
    <3> QED BY <1>1, <1>3, <1>6, <2>1, <3>1, DueKept
  <2>5. g.event \notin Restart => g.called # <<>> /\ Last(g.called) = g.cb /\ CalledDown(p, g.called)
    <3> SUFFICES ASSUME e \notin Restart
                 PROVE  g.called # <<>> /\ Last(g.called) = g.cb /\ CalledDown(p, g.called)
      BY <2>1
    <3>1. g.called = Append(t.called, c)
      BY <1>3, <1>4, <1>5 DEF CalledAs, m, t
    <3>2. t.called \in Seq(Cbs)
      BY <1>4, <1>7 DEF FrameData, t
    <3>3. CalledDown(o, t.called) /\ ToSet(t.called) \subseteq Past(o, n)
      BY <1>5 DEF TopWalks
    <3>4. \A d \in ToSet(t.called) : Above(o, c, d)
      <4> TAKE d \in ToSet(t.called)
      <4>1. PICK q \in n + 1 .. Len(o.callbacks) : d = o.callbacks[q]
        BY <3>3 DEF Past
      <4>2. q \in 1 .. Len(o.callbacks) /\ j < q
        BY <1>1, <1>2
      <4> QED BY <1>1, <1>2, <4>1, <4>2, PlacesRight DEF c
    <3>5. CalledDown(o, g.called) /\ g.called # <<>> /\ Last(g.called) = c
      BY <1>2, <3>1, <3>2, <3>3, <3>4, CalledDownAppend
    <3>6. g.called \in Seq(Cbs)
      BY <1>2, <3>1, <3>2
    <3> HIDE DEF g
    <3>7. CalledDown(p, g.called)
      BY <1>1, <1>6, <3>5, <3>6, CalledKept
    <3> QED BY <1>8, <3>5, <3>7 DEF g
  <2>6. ~p.cb[g.cb].deleted /\ p.callbacks[g.idx] = g.cb
    BY <1>2, <1>3, <1>8 DEF c
  <2>7. Frozen(p, g.event) => g.excused
    BY <1>3, <1>5, <2>1 DEF TopWalks, Frozen
  <2> HIDE DEF g
  <2>8. FrameGood(p, g)
    BY <2>2, <2>3, <2>4, <2>5, <2>6, <2>7 DEF FrameGood
  <2> QED BY <2>8 DEF g
<1>12. StopsRight(p)
  <2>1. ASSUME NEW i \in 1 .. m PROVE StopSeen(p, i) = StopSeen(o, i)
    <3>1. i # m => i + 1 \in 1 .. m
      BY <1>3
    <3>2. i # m => p.frames[i + 1].before = o.frames[i + 1].before
      BY <1>7, <3>1
    <3> QED BY <1>3, <3>2 DEF StopSeen, m
  <2>2. \A i, j1 \in 1 .. m : Same(p, i, j1) <=> Same(o, i, j1)
    BY <1>7 DEF Same
  <2> QED BY <1>1, <1>4, <1>7, <2>1, <2>2 DEF StopsRight, Under
<1>13. OwnersRight(p)
  <2>1. ASSUME NEW i \in 1 .. m, p.frames[i].event \in Restart
        PROVE  p.frames[i].owner <=> \A q \in 1 .. i - 1 : p.frames[q].event # p.frames[i].event
    <3>1. \A q \in 1 .. i - 1 : p.frames[q].event = o.frames[q].event
      <4> TAKE q \in 1 .. i - 1
      <4>1. q \in 1 .. m
        BY <1>3
      <4> QED BY <1>7, <4>1
    <3>2. o.frames[i].owner <=> \A q \in 1 .. i - 1 : o.frames[q].event # o.frames[i].event
      BY <1>1, <1>4, <1>7, <2>1 DEF Under, OwnersRight
    <3> QED BY <1>7, <3>1, <3>2
  <2>2. ASSUME NEW r \in Restart
        PROVE  p.current[r] = Absent <=> \A i \in 1 .. m : p.frames[i].event # r
    <3>1. o.current[r] = Absent <=> \A i \in 1 .. m : o.frames[i].event # r
      BY <1>1, <1>4 DEF Under, OwnersRight
    <3>2. CASE r # e
      BY <1>3, <1>7, <3>1, <3>2
    <3>3. CASE r = e
      <4>1. p.current[r] = j - 1 /\ j - 1 # -1
        BY <1>2, <1>3, <3>3
      <4>2. p.frames[m].event = r
        BY <1>4, <1>5, <1>7, <3>3 DEF t
      <4> QED BY <1>4, <4>1, <4>2 DEF Absent
    <3> QED BY <3>2, <3>3
  <2>3. ASSUME NEW r \in Restart PROVE p.current[r] <= Len(p.callbacks)
    <3>1. o.current[r] <= Len(o.callbacks)
      BY <1>1 DEF Under, OwnersRight
    <3>2. j - 1 <= Len(o.callbacks)
      BY <1>1, <1>2
    <3> QED BY <1>3, <3>1, <3>2
  <2> QED BY <1>4, <2>1, <2>2, <2>3 DEF OwnersRight
<1>14. \A i \in DOMAIN p.frames : p.frames[i].generation = i /\ FrameGood(p, p.frames[i])
  BY <1>4, <1>7, <1>10, <1>11
<1>15. ListGood(p) /\ FramesGood(p)
  BY <1>9, <1>12, <1>13, <1>14 DEF FramesGood
<1> QED BY <1>15 DEF p, k, c, e

LEMMA CallWalks ==
  ASSUME NEW o, NEW n, Walking(o, n), NEW j, ComesNext(o, n, j), NoneSkipped
  PROVE  WalksRight(CallAt(o, j, Min(ItemsFor(o, o.callbacks[j], Top(o).event))))
<1> DEFINE c == o.callbacks[j]
           e == Top(o).event
           k == Min(ItemsFor(o, c, e))
           p == CallAt(o, j, k)
           m == Len(o.frames)
           t == o.frames[m]
<1>1. Under(o) /\ o \in ObjData /\ ListGood(o) /\ o.frames # <<>> /\ Sorted(o)
      /\ n \in 0 .. Len(o.callbacks) /\ Len(o.callbacks) \in Nat
      /\ WalksUnder(o) /\ \A i \in DOMAIN o.frames : Answers(o, i) => HalfWay(o, o.frames[i], n)
  BY ObjTyped DEF Walking, Under, ListGood
<1>2. /\ j \in 1 .. n /\ n \in Nat /\ j \in 1 .. Len(o.callbacks)
      /\ c \in Listed(o) /\ c \in Cbs /\ c \in Top(o).due /\ ~o.cb[c].deleted
      /\ k \in ItemsFor(o, c, e) /\ k \in Nat
      /\ Cardinality({x \in ItemsFor(o, c, e) : x <= k}) = 1
  BY NextToCall
<1> HIDE DEF c, k
<1>3. /\ p \in ObjData /\ Len(p.frames) = m /\ m \in Nat /\ m >= 1 /\ Top(o) = t
      /\ \A i \in 1 .. m : CalledAs(o, p, i, e, j, c, k)
      /\ p.current = [r \in Restart |-> IF r = e THEN j - 1 ELSE o.current[r]]
      /\ p.callbacks = o.callbacks /\ p.cb = o.cb
  BY <1>1, <1>2, CallIs DEF c
<1> HIDE DEF p
<1>4. DOMAIN o.frames = 1 .. m /\ DOMAIN p.frames = 1 .. m /\ m \in 1 .. m
  BY <1>1, <1>3, FrameTyped
<1>5. e = t.event
  BY <1>3
<1> HIDE DEF e, m, t
<1>6. Agree(o, p, m) /\ Listed(p) = Listed(o)
  BY <1>1, <1>3, AgreeSelf
<1>7. ASSUME NEW i \in 1 .. m
      PROVE  /\ o.frames[i] \in FrameData /\ p.frames[i] \in FrameData
             /\ o.frames[i].generation = i /\ p.frames[i].generation = i
             /\ p.frames[i].event = o.frames[i].event /\ p.frames[i].due = o.frames[i].due
             /\ p.frames[i].owner = o.frames[i].owner /\ p.frames[i].excused = o.frames[i].excused
             /\ o.frames[i].called \in Seq(Cbs)
             /\ p.frames[i].called =
                  IF o.frames[i].event = e /\ (i = m \/ e \in Restart)
                     /\ ~(e \in Restart /\ c \in ToSet(o.frames[i].called))
                  THEN Append(o.frames[i].called, c) ELSE o.frames[i].called
  <2>1. CalledAs(o, p, i, e, j, c, k) /\ o.frames[i].generation = i
    BY <1>1, <1>3, <1>4 DEF Under
  <2> QED BY <2>1 DEF CalledAs, FrameData, m
<1>8. p.frames[m].idx = j /\ p.frames[m].cb = c /\ p.frames[m].item = k
  BY <1>3, <1>4 DEF CalledAs, m
<1>9. ASSUME NEW i \in 1 .. m, i # m
      PROVE  /\ p.frames[i].idx = o.frames[i].idx /\ p.frames[i].cb = o.frames[i].cb
             /\ p.frames[i].item = o.frames[i].item /\ FrameGood(o, o.frames[i])
             /\ o.frames[i].cb \in Listed(o) /\ o.frames[i].due \subseteq Listed(o)
  <2>1. FrameGood(o, o.frames[i])
    <3>1. i < Len(o.frames)
      BY <1>3, <1>9 DEF m
    <3> QED BY <1>1, <1>4, <3>1 DEF Under
  <2> QED BY <1>3, <1>9, <2>1 DEF CalledAs, m, FrameGood, DueRight
(* Callbacks between the position and n are not due any more.              *)
<1>10. ASSUME NEW i \in 1 .. m, Answers(o, i), NEW d \in o.frames[i].due, ~o.cb[d].deleted
       PROVE  /\ d \in Listed(o) /\ d \in Cbs
              /\ d \in Past(o, n) <=> Above(o, c, d)
              /\ d = c \/ Above(o, c, d) \/ Above(o, d, c)
              /\ j = 1 => d = c \/ Above(o, c, d)
              /\ ~(d = c /\ Above(o, c, d))
  <2>1. /\ d \in Listed(o) /\ \A q \in 1 .. n : o.callbacks[q] = d => q \in Candidates(o, Top(o), n)
        /\ \E q \in 1 .. Len(o.callbacks) : o.callbacks[q] = d
    BY <1>4, <1>10, StillToCall
  <2>2. PICK q \in 1 .. Len(o.callbacks) : o.callbacks[q] = d
    BY <2>1
  <2>3. q <= j \/ q > n
    <3>1. q \in 1 .. n => q <= j
      BY <2>1, <2>2 DEF ComesNext
    <3> QED BY <1>1, <3>1
  <2>4. d \in Past(o, n) <=> q > n
    <3>1. q > n => q \in n + 1 .. Len(o.callbacks)
      BY <1>1
    <3>2. ASSUME NEW x \in n + 1 .. Len(o.callbacks), o.callbacks[x] = d PROVE x = q
      <4>1. x \in 1 .. Len(o.callbacks)
        BY <1>1
      <4> QED BY <1>1, <2>2, <3>2, <4>1, PlacesRight
    <3>3. q \in n + 1 .. Len(o.callbacks) => q > n
      BY <1>1
    <3> QED BY <2>2, <3>1, <3>2, <3>3 DEF Past
  <2>5. Above(o, c, d) <=> j < q
    BY <1>1, <1>2, <2>2, PlacesRight DEF c
  <2>6. d = c <=> q = j
    BY <1>1, <1>2, <2>2, PlacesRight DEF c
  <2>7. Above(o, d, c) <=> q < j
    BY <1>1, <1>2, <2>2, PlacesRight DEF c
  <2>8. j \in Int /\ q \in Int /\ n \in Int /\ j <= n /\ 1 <= q
    BY <1>1, <1>2
  <2>9. d \in Cbs
    BY <1>1, <2>1, ObjTyped
  <2>10. j < q <=> q > n
    BY <2>3, <2>8
  <2>11. j = 1 => q = j \/ j < q
    BY <2>8
  <2>12. q = j \/ j < q \/ q < j
    BY <2>8
  <2>13. ~(q = j /\ j < q)
    BY <2>8
  <2> QED BY <2>1, <2>4, <2>5, <2>6, <2>7, <2>9, <2>10, <2>11, <2>12, <2>13
<1> SUFFICES ASSUME NEW i \in 1 .. m
             PROVE  LET g == p.frames[i]
                    IN /\ g.event \in Restart => IsInjective(g.called)
                       /\ ~g.excused /\ g.event \notin Restart => Reached(p, g)
                       /\ ~g.excused /\ g.event \in Restart /\ g.owner =>
                            \A x \in 1 .. m : LastOf(p, x, g.event) => ReachedTogether(p, g, p.frames[x])
  BY <1>4 DEF WalksRight, p, k, c, e
<1> DEFINE f == o.frames[i]
           g == p.frames[i]
<1>11. ASSUME f.event \in Restart PROVE IsInjective(g.called)
  <2>1. IsInjective(f.called) /\ f.called \in Seq(Cbs)
    BY <1>1, <1>4, <1>7, <1>11 DEF WalksUnder
  <2>2. g.called = f.called \/ (g.called = Append(f.called, c) /\ c \notin ToSet(f.called))
    BY <1>7, <1>11
  <2> HIDE DEF f, g
  <2> QED BY <1>2, <2>1, <2>2, InjectiveAppend
<1>12. ASSUME ~f.excused, f.event \notin Restart PROVE Reached(p, g)
  <2>1. CASE i # m
    <3>1. Reached(o, f)
      <4>1. i < Len(o.frames)
        BY <1>3, <2>1 DEF m
      <4> QED BY <1>1, <1>4, <1>12, <4>1 DEF WalksUnder
    <3>2. SameFrame(f, g)
      BY <1>7, <1>9, <1>12, <2>1 DEF SameFrame
    <3>3. f.due \subseteq Listed(o) /\ f.cb \in Listed(o)
      BY <1>9, <2>1
    <3> HIDE DEF f, g
    <3> QED BY <1>6, <1>12, <3>1, <3>2, <3>3, ReachedKept
  <2>2. CASE i = m
    <3>1. f = t /\ f.event = e /\ Answers(o, i)
      BY <1>5, <1>12, <2>2 DEF t, Answers, Same, m
    <3>2. HalfWay(o, f, n)
      BY <1>1, <1>4, <3>1
    <3>3. g.called = Append(f.called, c) /\ f.called \in Seq(Cbs) /\ g.event = e /\ g.due = f.due
          /\ g.cb = c /\ g.item = k
      BY <1>7, <1>8, <1>12, <2>2, <3>1
    <3> SUFFICES ASSUME NEW d \in f.due, ~o.cb[d].deleted
                 PROVE  Times(d, g.called) =
                          IF d = c THEN Cardinality({x \in ItemsFor(o, d, e) : x <= k})
                          ELSE IF Above(o, c, d) THEN Cardinality(ItemsFor(o, d, e)) ELSE 0
      <4>1. \A d : ItemsFor(p, d, e) = ItemsFor(o, d, e) /\ (Above(p, c, d) <=> Above(o, c, d))
        BY <1>3 DEF ItemsFor, Above
      <4> QED BY <1>3, <3>3, <4>1 DEF Reached
    <3>4. Times(d, f.called) = IF d \in Past(o, n) THEN Cardinality(ItemsFor(o, d, e)) ELSE 0
      BY <1>12, <3>1, <3>2 DEF HalfWay
    <3>5. (d \in Past(o, n) <=> Above(o, c, d)) /\ ~(d = c /\ Above(o, c, d))
      BY <1>10, <3>1
    <3>6. Times(d, g.called) = Times(d, f.called) + (IF d = c THEN 1 ELSE 0) /\ Times(d, f.called) \in Nat
      <4> HIDE DEF f, g
      <4> QED BY <1>2, <3>3, TimesAppend, TimesRight
    <3>7. CASE d = c
      <4>1. Times(d, f.called) = 0
        BY <3>4, <3>5, <3>7
      <4>2. Times(d, g.called) = 1
        BY <3>6, <3>7, <4>1
      <4> QED BY <1>2, <3>7, <4>2
    <3>8. CASE d # c
      <4>1. Times(d, g.called) = Times(d, f.called)
        BY <3>6, <3>8
      <4> QED BY <3>4, <3>5, <3>8, <4>1
    <3> QED BY <3>7, <3>8
  <2> QED BY <2>1, <2>2
<1>13. ASSUME ~f.excused, f.event \in Restart, f.owner, NEW x \in 1 .. m, LastOf(p, x, f.event)
       PROVE  ReachedTogether(p, g, p.frames[x])
  <2>1. CASE f.event # e
    <3> DEFINE h == o.frames[x]
               y == p.frames[x]
    <3>1. x # m
      <4>1. y.event = f.event /\ h.event = y.event
        BY <1>7, <1>13 DEF LastOf
      <4> QED BY <1>5, <2>1, <4>1 DEF t
    <3>2. LastOf(o, x, f.event)
      BY <1>4, <1>7, <1>13 DEF LastOf
    <3>3. ReachedTogether(o, f, h)
      <4>1. f.event # Top(o).event
        BY <2>1 DEF e
      <4> QED BY <1>1, <1>4, <1>13, <3>2, <4>1 DEF WalksUnder
    <3>4. p.current[f.event] = o.current[f.event]
      BY <1>3, <1>13, <2>1
    <3>5. i # m
      BY <1>5, <2>1 DEF t
    <3>6. f.due \subseteq Listed(o) /\ h.cb \in Listed(o) /\ y.cb = h.cb /\ y.idx = h.idx
          /\ g.event = f.event /\ g.due = f.due /\ ToSet(f.called) \subseteq ToSet(g.called)
      BY <1>7, <1>9, <2>1, <3>1, <3>5
    <3> HIDE DEF f, g, h, y
    <3>7. ReachedTogether(p, g, y)
      BY <1>6, <3>3, <3>4, <3>6, TogetherKept
    <3> QED BY <3>7 DEF y
  <2>2. CASE f.event = e
    <3>1. x = m
      <4>1. p.frames[m].event = e
        BY <1>4, <1>5, <1>7 DEF t
      <4>2. m <= x
        BY <1>4, <1>13, <2>2, <4>1 DEF LastOf
      <4> QED BY <1>3, <4>2
    <3>2. Answers(o, i) /\ HalfWay(o, f, n)
      <4>1. Answers(o, i)
        BY <1>5, <1>13, <2>2 DEF Answers, Same, t, m
      <4> QED BY <1>1, <1>4, <4>1
    <3>3. p.current[e] = j - 1 /\ p.frames[x].idx = j /\ p.frames[x].cb = c
          /\ g.event = e /\ g.due = f.due
      BY <1>3, <1>7, <1>8, <1>13, <2>2, <3>1
    <3>4. c \in ToSet(g.called) /\ ToSet(f.called) \subseteq ToSet(g.called)
      <4>1. g.called = IF c \notin ToSet(f.called) THEN Append(f.called, c) ELSE f.called
        BY <1>7, <1>13, <2>2
      <4>2. f.called \in Seq(Cbs)
        BY <1>7
      <4> HIDE DEF f, g
      <4>3. LET r == Append(f.called, c) IN c \in ToSet(r) /\ ToSet(f.called) \subseteq ToSet(r)
        <5> DEFINE s == f.called
                   r == Append(s, c)
        <5>1. Len(s) \in Nat /\ DOMAIN s = 1 .. Len(s) /\ DOMAIN r = 1 .. Len(s) + 1
              /\ r[Len(s) + 1] = c /\ \A q \in 1 .. Len(s) : r[q] = s[q]
          BY <4>2
        <5> HIDE DEF r, s
        <5>2. Len(s) + 1 \in 1 .. Len(s) + 1 /\ \A q \in 1 .. Len(s) : q \in 1 .. Len(s) + 1
          BY <5>1
        <5>3. c \in ToSet(r) /\ ToSet(s) \subseteq ToSet(r)
          BY <5>1, <5>2 DEF ToSet
        <5> QED BY <5>3 DEF r, s
      <4> QED BY <4>1, <4>3
    <3>5. ASSUME NEW d \in f.due, ~o.cb[d].deleted, j - 1 = 0 \/ d = c \/ Above(o, c, d)
          PROVE  d \in ToSet(g.called)
      <4>1. d = c \/ Above(o, c, d)
        <5>1. j - 1 = 0 => j = 1
          BY <1>2
        <5> QED BY <1>10, <3>2, <3>5, <5>1
      <4>2. Above(o, c, d) => d \in ToSet(f.called)
        <5>1. Above(o, c, d) => d \in Past(o, n)
          BY <1>10, <3>2, <3>5
        <5> QED BY <1>13, <3>2, <3>5, <5>1 DEF HalfWay
      <4> QED BY <3>4, <4>1, <4>2
    <3>6. \A d : Above(p, c, d) <=> Above(o, c, d)
      BY <1>3 DEF Above
    <3> HIDE DEF f, g
    <3> QED BY <1>3, <3>3, <3>5, <3>6 DEF ReachedTogether
  <2> QED BY <2>1, <2>2
<1>14. f.event = g.event /\ f.excused = g.excused /\ f.owner = g.owner
  BY <1>7
<1> HIDE DEF f, g
<1>15. /\ g.event \in Restart => IsInjective(g.called)
       /\ ~g.excused /\ g.event \notin Restart => Reached(p, g)
       /\ ~g.excused /\ g.event \in Restart /\ g.owner =>
            \A x \in 1 .. m : LastOf(p, x, g.event) => ReachedTogether(p, g, p.frames[x])
  BY <1>11, <1>12, <1>13, <1>14
<1> QED BY <1>15 DEF g

(* Whom nobody above n has called when there is no candidate left, or when *)
(* the walk goes on.                                                       *)
LEMMA WalkLeaves ==
  ASSUME NEW o, NEW n, Walking(o, n), Candidates(o, Top(o), n) = {}
  PROVE  Leaving(o)
<1> SUFFICES ASSUME NoneSkipped, NEW i \in DOMAIN o.frames, Answers(o, i),
                    NEW c \in o.frames[i].due, ~o.cb[c].deleted
             PROVE  IF o.frames[i].event \in Restart THEN c \in ToSet(o.frames[i].called)
                    ELSE Times(c, o.frames[i].called) = Cardinality(ItemsFor(o, c, o.frames[i].event))
  BY DEF Walking, Leaving, Heard
<1>1. /\ \A q \in 1 .. n : o.callbacks[q] = c => q \in Candidates(o, Top(o), n)
      /\ \E q \in 1 .. Len(o.callbacks) : o.callbacks[q] = c
  BY StillToCall
<1>2. PICK q \in 1 .. Len(o.callbacks) : o.callbacks[q] = c
  BY <1>1
<1>3. q \notin 1 .. n
  BY <1>1, <1>2
<1>4. n \in 0 .. Len(o.callbacks) /\ Len(o.callbacks) \in Nat
  BY ObjTyped DEF Walking, Under, ListGood
<1>5. q \in n + 1 .. Len(o.callbacks)
  BY <1>3, <1>4
<1>6. c \in Past(o, n)
  BY <1>2, <1>5 DEF Past
<1>7. HalfWay(o, o.frames[i], n)
  BY DEF Walking
<1> QED BY <1>6, <1>7 DEF HalfWay

(* Walk.                                                                   *)
LEMMA WalkRight ==
  ASSUME NEW o, NEW n, Walking(o, n)
  PROVE  Right(Walk(o, n))
<1> DEFINE js == Candidates(o, Top(o), n)
           j == Max(js)
<1>1. CASE js = {}
  <2>1. Walk(o, n) = Leave(o)
    BY <1>1 DEF Walk
  <2> QED BY <1>1, <2>1, WalkLeaves, LeaveRight
<1>2. CASE js # {}
  <2>1. Walk(o, n) = CallAt(o, j, Min(ItemsFor(o, o.callbacks[j], Top(o).event)))
    BY <1>2 DEF Walk
  <2>2. n \in Nat /\ js \in SUBSET (1 .. n)
    <3>1. n \in 0 .. Len(o.callbacks) /\ Len(o.callbacks) \in Nat
      BY ObjTyped DEF Walking, Under, ListGood
    <3> QED BY <3>1 DEF Candidates
  <2>3. j \in js /\ \A y \in js : y <= j
    <3> HIDE DEF js
    <3> QED BY <1>2, <2>2, MaxRight
  <2>4. ComesNext(o, n, j)
    BY <2>3 DEF ComesNext
  <2> HIDE DEF j
  <2> QED BY <2>1, <2>4, CallGood, CallWalks DEF Right
<1> QED BY <1>1, <1>2

-----------------------------------------------------------------------------
(* An emission begins.                                                     *)

Start(o, e) == IF e \in Restart /\ o.current[e] > 0 THEN o.current[e] ELSE Len(o.callbacks)
Owner(o, e) == e \in Restart /\ o.current[e] = Absent
Entered(o, e) ==
  [o EXCEPT !.frames = Append(@, Frame(o, e, Owner(o, e))),
            !.stopped = FALSE,
            !.current = [r \in Restart |-> IF r = e THEN Start(o, e) ELSE @[r]]]

LEMMA EnterIs ==
  ASSUME NEW o, NEW e
  PROVE  Enter(o, e) = IF Unheard(o, e) THEN o ELSE Walk(Entered(o, e), Start(o, e))
BY DEF Enter, Entered, Owner, Start

LEMMA EnteredIs ==
  ASSUME NEW o, Right(o), NEW e \in AllEvents
  PROVE  LET p == Entered(o, e)
             m == Len(o.frames)
             t == p.frames[m + 1]
         IN /\ o \in ObjData /\ p \in ObjData /\ m \in Nat /\ Len(p.frames) = m + 1 /\ Top(p) = t
            /\ Generation(o) = m
            /\ \A i \in 1 .. m : p.frames[i] = o.frames[i]
            /\ Start(o, e) \in 0 .. Len(o.callbacks)
            /\ p.current = [r \in Restart |-> IF r = e THEN Start(o, e) ELSE o.current[r]]
            /\ p.stopped = FALSE
            /\ p.callbacks = o.callbacks /\ p.cb = o.cb /\ p.freeze = o.freeze
            /\ p.cleaning = o.cleaning /\ p.adds = o.adds /\ p.dels = o.dels
            /\ t.event = e /\ t.inserted = 0 /\ t.generation = m + 1 /\ t.before = o.stopped
            /\ t.owner = Owner(o, e) /\ t.called = <<>>
            /\ t.due = {c \in Listed(o) : ~o.cb[c].deleted /\ Listens(o, c, e)}
            /\ t.excused = (o.freeze > 0 /\ e \notin Unfreezable)
<1> DEFINE m == Len(o.frames)
           t == Frame(o, e, Owner(o, e))
           s == Append(o.frames, t)
           n == Start(o, e)
           w == [r \in Restart |-> IF r = e THEN n ELSE o.current[r]]
           p == [o EXCEPT !.frames = s, !.stopped = FALSE, !.current = w]
           due == {c \in Listed(o) : ~o.cb[c].deleted /\ Listens(o, c, e)}
           ex == (o.freeze > 0 /\ e \notin Unfreezable)
           ow == Owner(o, e)
<1>1. /\ o \in ObjData /\ o.frames \in Seq(FrameData) /\ m \in Nat /\ o.stopped \in BOOLEAN
      /\ o.current \in [Restart -> Nat \cup {Absent}] /\ Len(o.callbacks) \in Nat
      /\ Listed(o) \subseteq Cbs /\ DOMAIN o.frames = 1 .. m
  BY ObjTyped, FrameTyped DEF Right, ListGood, ObjData
<1>2. Generation(o) = m
  <2>1. CASE o.frames = <<>>
    BY <1>1, <2>1, GenerationRight
  <2>2. CASE o.frames # <<>>
    <3>1. m \in 1 .. m
      BY <1>1, <2>2, FrameTyped
    <3>2. o.frames[m].generation = m
      BY <1>1, <3>1 DEF Right, FramesGood
    <3> QED BY <1>1, <2>2, <3>2, GenerationRight
  <2> QED BY <2>1, <2>2
<1>3. t.due = due
  <2>1. \A c \in Listed(o) : e \in ToSet(o.cb[c].items) <=> Listens(o, c, e)
    <3> TAKE c \in Listed(o)
    <3> QED BY DEF Listens, ItemsFor, ToSet
  <2>2. t.due = {c \in Listed(o) : ~o.cb[c].deleted /\ e \in ToSet(o.cb[c].items)}
    BY DEF Frame, Listed
  <2> QED BY <2>1, <2>2
<1>4. due \in SUBSET Cbs /\ ex \in BOOLEAN /\ ow \in BOOLEAN
  BY <1>1 DEF Owner
<1>5. /\ t.event = e /\ t.idx = 0 /\ t.inserted = 0 /\ t.generation = m + 1 /\ t.before = o.stopped
      /\ t.owner = ow /\ t.cb = 0 /\ t.item = 0 /\ t.called = <<>> /\ t.excused = ex
  <2>1. (IF o.frames = <<>> THEN 1 ELSE Last(o.frames).generation + 1) = m + 1
    BY <1>1, <1>2 DEF Generation, Top
  <2>2. t.generation = IF o.frames = <<>> THEN 1 ELSE Last(o.frames).generation + 1
    BY DEF Frame, Top
  <2>3. /\ t.event = e /\ t.idx = 0 /\ t.inserted = 0 /\ t.before = o.stopped
        /\ t.owner = ow /\ t.cb = 0 /\ t.item = 0 /\ t.called = <<>> /\ t.excused = ex
    BY DEF Frame
  <2> HIDE DEF t
  <2> QED BY <2>1, <2>2, <2>3
<1>6. t = [event |-> t.event, idx |-> t.idx, inserted |-> t.inserted, generation |-> t.generation,
           before |-> t.before, owner |-> t.owner, cb |-> t.cb, item |-> t.item, due |-> t.due,
           called |-> t.called, excused |-> t.excused]
  BY DEF Frame
<1> HIDE DEF t, due, ex, ow
<1>7. t \in FrameData
  <2>1. <<>> \in Seq(Cbs) /\ m + 1 \in Nat
    BY <1>1
  <2>2. /\ t.event \in AllEvents /\ t.idx \in Nat /\ t.inserted \in Nat /\ t.generation \in Nat
        /\ t.before \in BOOLEAN /\ t.owner \in BOOLEAN /\ t.cb \in Cbs \cup {0} /\ t.item \in Nat
        /\ t.called \in Seq(Cbs) /\ t.excused \in BOOLEAN
    BY <1>1, <1>4, <1>5, <2>1
  <2>3. t.due \in SUBSET Cbs
    BY <1>3, <1>4
  <2> QED BY <1>6, <2>2, <2>3 DEF FrameData
<1>8. s \in Seq(FrameData) /\ Len(s) = m + 1 /\ s[m + 1] = t /\ \A i \in 1 .. m : s[i] = o.frames[i]
  BY <1>1, <1>7
<1>9. n \in 0 .. Len(o.callbacks)
  <2>1. e \in Restart /\ o.current[e] > 0 => o.current[e] \in 0 .. Len(o.callbacks)
    <3>1. e \in Restart => o.current[e] <= Len(o.callbacks) /\ o.current[e] \in Nat \cup {Absent}
      BY <1>1 DEF Right, FramesGood, OwnersRight
    <3> QED BY <1>1, <3>1 DEF Absent
  <2> QED BY <1>1, <2>1 DEF Start
<1>10. w \in [Restart -> Nat \cup {Absent}]
  BY <1>1, <1>9
<1>11. Entered(o, e) = p
  BY DEF Entered, t
<1> HIDE DEF s, w, n
<1>12. /\ p \in ObjData /\ p.frames = s /\ p.current = w /\ p.stopped = FALSE
       /\ p.callbacks = o.callbacks /\ p.cb = o.cb /\ p.freeze = o.freeze
       /\ p.cleaning = o.cleaning /\ p.adds = o.adds /\ p.dels = o.dels
  BY <1>1, <1>8, <1>10 DEF ObjData
<1> HIDE DEF p
<1>13. Top(p) = t
  <2>1. Len(p.frames) = m + 1 /\ p.frames # <<>>
    BY <1>1, <1>8, <1>12
  <2> QED BY <1>8, <1>12, <2>1, GenerationRight
<1> QED BY <1>1, <1>2, <1>3, <1>5, <1>8, <1>9, <1>11, <1>12, <1>13 DEF due, ex, ow, n, w

LEMMA EnteredUnder ==
  ASSUME NEW o, Right(o), NEW e \in AllEvents
  PROVE  /\ Under(Entered(o, e)) /\ TopWalks(Entered(o, e), Top(Entered(o, e)), Start(o, e))
         /\ Start(o, e) \in 0 .. Len(Entered(o, e).callbacks)
<1> DEFINE p == Entered(o, e)
           m == Len(o.frames)
           t == p.frames[m + 1]
           n == Start(o, e)
<1>1. /\ o \in ObjData /\ p \in ObjData /\ m \in Nat /\ Len(p.frames) = m + 1 /\ Top(p) = t
      /\ Generation(o) = m
      /\ \A i \in 1 .. m : p.frames[i] = o.frames[i]
      /\ n \in 0 .. Len(o.callbacks)
      /\ p.current = [r \in Restart |-> IF r = e THEN n ELSE o.current[r]]
      /\ p.stopped = FALSE
      /\ p.callbacks = o.callbacks /\ p.cb = o.cb /\ p.freeze = o.freeze
      /\ p.cleaning = o.cleaning /\ p.adds = o.adds /\ p.dels = o.dels
      /\ t.event = e /\ t.inserted = 0 /\ t.generation = m + 1 /\ t.before = o.stopped
      /\ t.owner = Owner(o, e) /\ t.called = <<>>
      /\ t.due = {c \in Listed(o) : ~o.cb[c].deleted /\ Listens(o, c, e)}
      /\ t.excused = (o.freeze > 0 /\ e \notin Unfreezable)
  BY EnteredIs
<1>2. ListGood(o) /\ FramesGood(o) /\ OwnersRight(o) /\ StopsRight(o)
  BY DEF Right, FramesGood
<1> HIDE DEF p, n, t
<1>3. /\ DOMAIN o.frames = 1 .. m /\ DOMAIN p.frames = 1 .. m + 1 /\ m + 1 \in 1 .. m + 1
      /\ p.frames # <<>> /\ 1 .. m \subseteq 1 .. m + 1
      /\ \A i \in 1 .. m + 1 : i \in 1 .. m \/ i = m + 1
      /\ m + 1 \notin 1 .. m
  <2>1. DOMAIN o.frames = 1 .. m /\ DOMAIN p.frames = 1 .. m + 1 /\ p.frames # <<>>
    BY <1>1, FrameTyped
  <2> QED BY <1>1, <2>1
<1>4. t = p.frames[m + 1]
  BY DEF t
<1>5. Agree(o, p, m) /\ Listed(p) = Listed(o)
  BY <1>1, AgreeSelf
<1>6. ListGood(p)
  <2>1. Generation(p) = m + 1
    BY <1>1, <1>3, GenerationRight
  <2>2. Generation(o) <= Generation(p)
    BY <1>1, <2>1
  <2> QED BY <1>1, <1>2, <1>3, <2>2, GoodKept
<1>7. ASSUME NEW i \in 1 .. m
      PROVE  p.frames[i].generation = i /\ FrameGood(p, p.frames[i])
  <2> DEFINE f == o.frames[i]
  <2>1. FrameGood(o, f) /\ f.generation = i /\ f \in FrameData
    BY <1>1, <1>2, <1>3, FrameTyped DEF FramesGood
  <2>2. SameFrame(f, f) /\ f.generation \in 1 .. m
    BY <2>1 DEF SameFrame
  <2>3. Frozen(p, f.event) => f.excused
    BY <1>1, <2>1 DEF FrameGood, Frozen
  <2>4. "editInArray" \notin Liberties /\ Between(o, f) => ~p.cb[f.cb].deleted
    BY <1>1, <2>1 DEF FrameGood
  <2> HIDE DEF f
  <2>5. FrameGood(p, f)
    BY <1>1, <1>5, <2>1, <2>2, <2>3, <2>4, FrameSame
  <2> QED BY <1>1, <2>1, <2>5 DEF f
<1>8. ASSUME NEW i \in 1 .. m + 1 PROVE p.frames[i].generation = i
  BY <1>1, <1>3, <1>4, <1>7
<1>9. StopsRight(p)
  <2> SUFFICES ASSUME NEW i \in 1 .. m + 1, NEW j \in 1 .. m + 1, StopSeen(p, i), j <= i, Same(p, i, j)
               PROVE  p.frames[j].excused
    BY <1>3 DEF StopsRight
  <2>1. i # m + 1
    BY <1>1 DEF StopSeen
  <2>2. i \in 1 .. m /\ j \in 1 .. m
    BY <1>3, <2>1
  <2>3. StopSeen(o, i)
    <3>1. p.frames[i + 1].before
      BY <1>1, <2>1 DEF StopSeen
    <3>2. CASE i = m
      BY <1>1, <1>4, <3>1, <3>2 DEF StopSeen
    <3>3. CASE i # m
      <4>1. i + 1 \in 1 .. m
        BY <1>1, <2>2, <3>3
      <4> QED BY <1>1, <3>1, <3>3, <4>1 DEF StopSeen
    <3> QED BY <3>2, <3>3
  <2>4. Same(o, i, j)
    BY <1>1, <2>2 DEF Same
  <2> QED BY <1>1, <1>2, <1>3, <2>2, <2>3, <2>4 DEF StopsRight
<1>10. OwnersRight(p)
  <2>1. ASSUME NEW i \in 1 .. m + 1, p.frames[i].event \in Restart
        PROVE  p.frames[i].owner <=> \A j \in 1 .. i - 1 : p.frames[j].event # p.frames[i].event
    <3>1. \A j \in 1 .. i - 1 : p.frames[j] = o.frames[j] /\ j \in 1 .. m
      <4> TAKE j \in 1 .. i - 1
      <4>1. j \in 1 .. m
        BY <1>1
      <4> QED BY <1>1, <4>1
    <3>2. CASE i = m + 1
      <4>1. t.owner <=> o.current[e] = Absent
        BY <1>1, <1>4, <2>1, <3>2 DEF Owner
      <4>2. o.current[e] = Absent <=> \A j \in 1 .. m : o.frames[j].event # e
        BY <1>1, <1>2, <1>3, <1>4, <2>1, <3>2, SMTT(20) DEF OwnersRight
      <4>3. 1 .. i - 1 = 1 .. m
        BY <1>1, <3>2
      <4>4. p.frames[i] = t /\ t.event = e
        BY <1>1, <1>4, <3>2
      <4>5. (\A j \in 1 .. i - 1 : p.frames[j].event # e) <=> \A j \in 1 .. m : o.frames[j].event # e
        BY <3>1, <4>3
      <4> QED BY <4>1, <4>2, <4>4, <4>5
    <3>3. CASE i # m + 1
      <4>1. i \in 1 .. m /\ p.frames[i] = o.frames[i]
        BY <1>1, <1>3, <3>3
      <4>2. o.frames[i].owner <=> \A j \in 1 .. i - 1 : o.frames[j].event # o.frames[i].event
        BY <1>2, <1>3, <2>1, <4>1 DEF OwnersRight
      <4> QED BY <3>1, <4>1, <4>2
    <3> QED BY <3>2, <3>3
  <2>2. ASSUME NEW r \in Restart
        PROVE  /\ p.current[r] = Absent <=> \A i \in 1 .. m + 1 : p.frames[i].event # r
               /\ p.current[r] <= Len(p.callbacks)
    <3>1. /\ o.current[r] = Absent <=> \A i \in 1 .. m : o.frames[i].event # r
          /\ o.current[r] <= Len(o.callbacks)
      BY <1>2, <1>3 DEF OwnersRight
    <3>2. CASE r = e
      <4>1. p.current[r] = n /\ n # Absent /\ n <= Len(p.callbacks)
        BY <1>1, <3>2 DEF Absent
      <4> QED BY <1>1, <1>3, <1>4, <3>2, <4>1
    <3>3. CASE r # e
      <4>1. p.current[r] = o.current[r]
        BY <1>1, <3>3
      <4>2. (\A i \in 1 .. m + 1 : p.frames[i].event # r) <=> \A i \in 1 .. m : o.frames[i].event # r
        BY <1>1, <1>3, <1>4, <3>3, SMTT(20)
      <4> QED BY <1>1, <3>1, <4>1, <4>2
    <3> QED BY <3>2, <3>3
  <2> QED BY <1>3, <2>1, <2>2 DEF OwnersRight
<1>11. Under(p)
  <2>1. \A i \in DOMAIN p.frames : i < Len(p.frames) => FrameGood(p, p.frames[i])
    <3> TAKE i \in DOMAIN p.frames
    <3>1. i < m + 1 => i \in 1 .. m
      BY <1>1, <1>3
    <3> QED BY <1>1, <1>7, <3>1
  <2> QED BY <1>3, <1>6, <1>8, <1>9, <1>10, <2>1 DEF Under
<1>12. DueRight(p, t)
  <2>1. \A c \in Listed(o) : Listens(p, c, e) <=> Listens(o, c, e)
    BY <1>1 DEF Listens, ItemsFor
  <2>2. ASSUME NEW c \in Listed(o) PROVE p.cb[c].generation < t.generation
    <3>1. o.cb[c].generation <= m /\ o.cb[c].generation \in Nat
      BY <1>1, <1>2, ObjTyped DEF ListGood, Generations
    <3> QED BY <1>1, <3>1
  <2> QED BY <1>1, <1>5, <2>1, <2>2 DEF DueRight, Known
<1>13. TopWalks(p, t, n)
  <2>1. Frozen(p, t.event) => t.excused
    BY <1>1 DEF Frozen
  <2>2. CalledDown(p, t.called) /\ ToSet(t.called) \subseteq Past(p, n)
    <3>1. DOMAIN t.called = {} /\ ToSet(t.called) = {}
      BY <1>1 DEF ToSet
    <3> QED BY <3>1 DEF CalledDown
  <2> QED BY <1>1, <1>12, <2>1, <2>2 DEF TopWalks
<1> QED BY <1>1, <1>11, <1>13 DEF p, n

(* No emission of an event with restart has moved on since it called.      *)
NoneMoved(o, e) ==
  e \in Restart => \A i \in DOMAIN o.frames : o.frames[i].event = e => o.frames[i].inserted = 0

LEMMA EnteredWalks ==
  ASSUME NEW o, Right(o), NEW e \in AllEvents, NoneSkipped, NoneMoved(o, e)
  PROVE  LET p == Entered(o, e)
         IN WalksUnder(p) /\ \A i \in DOMAIN p.frames : Answers(p, i) => HalfWay(p, p.frames[i], Start(o, e))
<1> DEFINE p == Entered(o, e)
           m == Len(o.frames)
           t == p.frames[m + 1]
           n == Start(o, e)
<1>1. /\ o \in ObjData /\ p \in ObjData /\ m \in Nat /\ Len(p.frames) = m + 1 /\ Top(p) = t
      /\ Generation(o) = m
      /\ \A i \in 1 .. m : p.frames[i] = o.frames[i]
      /\ n \in 0 .. Len(o.callbacks)
      /\ p.current = [r \in Restart |-> IF r = e THEN n ELSE o.current[r]]
      /\ p.stopped = FALSE
      /\ p.callbacks = o.callbacks /\ p.cb = o.cb /\ p.freeze = o.freeze
      /\ p.cleaning = o.cleaning /\ p.adds = o.adds /\ p.dels = o.dels
      /\ t.event = e /\ t.inserted = 0 /\ t.generation = m + 1 /\ t.before = o.stopped
      /\ t.owner = Owner(o, e) /\ t.called = <<>>
      /\ t.due = {c \in Listed(o) : ~o.cb[c].deleted /\ Listens(o, c, e)}
      /\ t.excused = (o.freeze > 0 /\ e \notin Unfreezable)
  BY EnteredIs
<1>2. FramesGood(o) /\ OwnersRight(o) /\ WalksRight(o) /\ ListGood(o) /\ Sorted(o)
      /\ Len(o.callbacks) \in Nat
  BY ObjTyped DEF Right, FramesGood, ListGood
<1>3. n = IF e \in Restart /\ o.current[e] > 0 THEN o.current[e] ELSE Len(o.callbacks)
  BY DEF Start
<1> HIDE DEF p, n, t
<1>4. /\ DOMAIN o.frames = 1 .. m /\ DOMAIN p.frames = 1 .. m + 1 /\ t = p.frames[m + 1]
      /\ 1 .. m \subseteq 1 .. m + 1
      /\ \A i \in 1 .. m + 1 : i \in 1 .. m \/ i = m + 1
      /\ m + 1 \notin 1 .. m
  <2>1. DOMAIN o.frames = 1 .. m /\ DOMAIN p.frames = 1 .. m + 1
    BY <1>1, FrameTyped
  <2> QED BY <1>1, <2>1 DEF t
<1>5. Agree(o, p, m) /\ Listed(p) = Listed(o)
  BY <1>1, AgreeSelf
<1>6. ASSUME NEW i \in 1 .. m
      PROVE  /\ FrameGood(o, o.frames[i]) /\ o.frames[i].cb \in Listed(o)
             /\ o.frames[i].due \subseteq Listed(o)
  BY <1>2, <1>4 DEF FramesGood, FrameGood, DueRight
<1>7. WalksUnder(p)
  <2> SUFFICES ASSUME NEW i \in 1 .. m + 1
               PROVE  LET f == p.frames[i]
                      IN /\ f.event \in Restart => IsInjective(f.called)
                         /\ ~f.excused /\ f.event \notin Restart /\ i < m + 1 => Reached(p, f)
                         /\ ~f.excused /\ f.event \in Restart /\ f.owner /\ f.event # e =>
                              \A k \in 1 .. m + 1 : LastOf(p, k, f.event) => ReachedTogether(p, f, p.frames[k])
    BY <1>1, <1>4 DEF WalksUnder
  <2>1. CASE i = m + 1
    <3>1. p.frames[i] = t /\ t.called = <<>> /\ t.event = e
      BY <1>1, <1>4, <2>1
    <3>2. IsInjective(<<>>)
      BY DEF IsInjective
    <3>3. ~(i < m + 1)
      BY <1>1, <2>1
    <3> QED BY <3>1, <3>2, <3>3
  <2>2. CASE i # m + 1
    <3> DEFINE f == o.frames[i]
    <3>1. i \in 1 .. m /\ p.frames[i] = f /\ i \in DOMAIN o.frames
      BY <1>1, <1>4, <2>2
    <3>2. f.due \subseteq Listed(o) /\ f.cb \in Listed(o) /\ SameFrame(f, f)
      BY <1>6, <3>1 DEF SameFrame
    <3>3. f.event \in Restart => IsInjective(f.called)
      BY <1>2, <3>1 DEF WalksRight
    <3>4. ASSUME ~f.excused, f.event \notin Restart PROVE Reached(p, f)
      <4>1. Reached(o, f)
        BY <1>2, <3>1, <3>4 DEF WalksRight
      <4> HIDE DEF f
      <4> QED BY <1>5, <3>2, <3>4, <4>1, ReachedKept
    <3>5. ASSUME ~f.excused, f.event \in Restart, f.owner, f.event # e, NEW k \in 1 .. m + 1,
                 LastOf(p, k, f.event)
          PROVE  ReachedTogether(p, f, p.frames[k])
      <4> DEFINE h == o.frames[k]
      <4>1. k # m + 1
        BY <1>1, <1>4, <3>5 DEF LastOf
      <4>2. k \in 1 .. m /\ p.frames[k] = h
        BY <1>1, <1>4, <4>1
      <4>3. LastOf(o, k, f.event)
        BY <1>1, <1>4, <3>5, <4>2 DEF LastOf
      <4>4. ReachedTogether(o, f, h)
        BY <1>2, <1>4, <3>1, <3>5, <4>2, <4>3 DEF WalksRight
      <4>5. h.cb \in Listed(o) /\ p.current[f.event] = o.current[f.event]
        BY <1>1, <1>6, <3>5, <4>2
      <4> HIDE DEF f, h
      <4>6. ReachedTogether(p, f, h)
        BY <1>5, <3>2, <4>4, <4>5, TogetherKept
      <4> QED BY <4>2, <4>6
    <3> HIDE DEF f
    <3> QED BY <3>1, <3>3, <3>4, <3>5
  <2> QED BY <2>1, <2>2
<1>8. ASSUME NEW i \in 1 .. m + 1, Answers(p, i)
      PROVE  HalfWay(p, p.frames[i], n)
  <2>1. CASE i = m + 1
    <3>1. p.frames[i] = t /\ t.called = <<>> /\ t.event = e
      BY <1>1, <1>4, <2>1
    <3>2. n = Len(o.callbacks)
      <4> SUFFICES ASSUME e \in Restart PROVE ~(o.current[e] > 0)
        BY <1>3
      <4>1. t.owner
        BY <1>8, <3>1 DEF Answers
      <4>2. o.current[e] = Absent
        BY <1>1, <4>1 DEF Owner
      <4> QED BY <4>2 DEF Absent
    <3>3. Past(p, n) = {}
      <4>1. n + 1 .. Len(p.callbacks) = {}
        BY <1>1, <1>2, <3>2
      <4> QED BY <4>1 DEF Past
    <3>4. \A c : Times(c, <<>>) = 0
      <4>1. \A c : {x \in DOMAIN <<>> : <<>>[x] = c} = {}
        OBVIOUS
      <4> QED BY <4>1, FS_EmptySet DEF Times
    <3> QED BY <3>1, <3>3, <3>4 DEF HalfWay
  <2>2. CASE i # m + 1
    <3> DEFINE f == o.frames[i]
    <3>1. i \in 1 .. m /\ p.frames[i] = f /\ i \in DOMAIN o.frames
      BY <1>1, <1>4, <2>2
    <3>2. f.event = e /\ e \in Restart /\ ~f.excused /\ f.owner
      BY <1>1, <1>4, <1>8, <2>2, <3>1 DEF Answers, Same
    <3>3. o.current[e] # Absent /\ o.current[e] \in Nat
      <4>1. o.current[e] # Absent
        BY <1>2, <3>1, <3>2 DEF OwnersRight
      <4>2. o.current \in [Restart -> Nat \cup {Absent}]
        BY <1>1 DEF ObjData
      <4> QED BY <3>2, <4>1, <4>2
    <3>4. PICK k \in 1 .. m : LastOf(o, k, e)
      <4> DEFINE K == {x \in 1 .. m : o.frames[x].event = e}
      <4>1. K \in SUBSET (1 .. m) /\ i \in K
        BY <3>1, <3>2
      <4>2. \E x \in K : \A y \in K : y <= x
        <5> HIDE DEF K
        <5> QED BY <1>1, <4>1, Greatest
      <4> QED BY <1>4, <4>2 DEF LastOf
    <3> DEFINE h == o.frames[k]
    <3>5. ReachedTogether(o, f, h)
      BY <1>2, <1>4, <3>1, <3>2, <3>4 DEF WalksRight
    <3>6. ASSUME NEW c \in f.due, ~o.cb[c].deleted, c \in Past(p, n) PROVE c \in ToSet(f.called)
      <4>1. CASE o.current[e] = 0
        BY <3>2, <3>5, <3>6, <4>1 DEF ReachedTogether
      <4>2. CASE o.current[e] # 0
        <5>1. o.current[e] > 0 /\ n = o.current[e] /\ n = h.idx - 1
          BY <1>3, <3>2, <3>3, <3>5, <4>2 DEF ReachedTogether
        <5>2. h.inserted = 0 /\ h \in FrameData
          BY <1>1, <1>4, <3>2, <3>4, FrameTyped DEF NoneMoved, LastOf
        <5>3. PICK q \in DOMAIN o.callbacks : StandsAt(o, h, q)
          BY <1>6, <3>4 DEF FrameGood
        <5>4. h.idx \in Nat
          BY <5>2 DEF FrameData
        <5>5. n + 1 = q /\ o.callbacks[q] = h.cb /\ q \in 1 .. Len(o.callbacks)
          <6>1. "crowdIn" \notin Liberties
            BY DEF NoneSkipped
          <6>2. h.idx > 1
            BY <5>1, <5>4
          <6>3. h.idx + h.inserted = q
            BY <5>3, <6>1, <6>2 DEF StandsAt
          <6> QED BY <1>1, <5>1, <5>2, <5>3, <5>4, <6>3, ObjTyped, SMTT(20) DEF StandsAt
        <5>6. PICK x \in n + 1 .. Len(o.callbacks) : o.callbacks[x] = c
          BY <1>1, <3>6 DEF Past
        <5>7. x \in 1 .. Len(o.callbacks) /\ (x = q \/ q < x)
          BY <1>1, <1>2, <5>5, <5>6
        <5>8. c = h.cb \/ Above(o, h.cb, c)
          BY <1>1, <1>2, <5>5, <5>6, <5>7, PlacesRight
        <5> QED BY <3>2, <3>5, <3>6, <5>8 DEF ReachedTogether
      <4> QED BY <4>1, <4>2
    <3> HIDE DEF f, h
    <3>7. HalfWay(p, f, n)
      BY <1>1, <3>2, <3>6 DEF HalfWay
    <3> QED BY <3>1, <3>7
  <2> QED BY <2>1, <2>2
<1> QED BY <1>4, <1>7, <1>8 DEF p, n

(* Enter.                                                                  *)
LEMMA EnterWalks ==
  ASSUME NEW o, Right(o), NEW e \in AllEvents, NoneSkipped => NoneMoved(o, e)
  PROVE  Walking(Entered(o, e), Start(o, e))
<1> DEFINE p == Entered(o, e)
           n == Start(o, e)
<1>1. Under(p) /\ TopWalks(p, Top(p), n) /\ n \in 0 .. Len(p.callbacks)
  BY EnteredUnder
<1>2. NoneSkipped => WalksUnder(p) /\ \A i \in DOMAIN p.frames : Answers(p, i) => HalfWay(p, p.frames[i], n)
  BY EnteredWalks
<1> HIDE DEF p, n
<1>3. Walking(p, n)
  BY <1>1, <1>2 DEF Walking
<1> QED BY <1>3 DEF p, n

LEMMA EnterRight ==
  ASSUME NEW o, Right(o), NEW e \in AllEvents, NoneSkipped => NoneMoved(o, e)
  PROVE  Right(Enter(o, e))
<1>1. CASE Unheard(o, e)
  BY <1>1, EnterIs
<1>2. CASE ~Unheard(o, e)
  BY <1>2, EnterIs, EnterWalks, WalkRight
<1> QED BY <1>1, <1>2

-----------------------------------------------------------------------------
(* A callback returns.                                                     *)

LEMMA RightUnder ==
  ASSUME NEW o, Right(o), o.frames # <<>>
  PROVE  /\ Under(o) /\ (NoneSkipped => WalksUnder(o)) /\ o \in ObjData /\ Sorted(o)
         /\ Len(o.frames) \in Nat /\ Len(o.frames) >= 1 /\ DOMAIN o.frames = 1 .. Len(o.frames)
         /\ Top(o) = o.frames[Len(o.frames)] /\ Top(o) \in FrameData
         /\ FrameGood(o, Top(o)) /\ Top(o).generation = Len(o.frames)
         /\ Len(o.frames) \in 1 .. Len(o.frames)
<1>1. o \in ObjData /\ ListGood(o) /\ FramesGood(o) /\ Sorted(o)
  BY DEF Right, ListGood
<1>2. Len(o.frames) \in Nat /\ Len(o.frames) # 0 /\ DOMAIN o.frames = 1 .. Len(o.frames)
      /\ Top(o) = o.frames[Len(o.frames)] /\ Top(o) \in FrameData
  BY <1>1, FrameTyped, GenerationRight
<1>3. Len(o.frames) >= 1 /\ Len(o.frames) \in 1 .. Len(o.frames)
  BY <1>2
<1>4. Under(o)
  BY <1>1 DEF Under, FramesGood
<1>5. NoneSkipped => WalksUnder(o)
  BY DEF Right, WalksRight, WalksUnder
<1> QED BY <1>1, <1>2, <1>3, <1>4, <1>5 DEF FramesGood

(* The last emission has come along.                                       *)
LEMMA TopKept ==
  ASSUME NEW o, Right(o), o.frames # <<>>, NEW g \in FrameData,
         g.event = Top(o).event, g.generation = Top(o).generation, g.before = Top(o).before,
         g.owner = Top(o).owner, g.excused = Top(o).excused,
         g.event \in Restart /\ NoneSkipped => IsInjective(g.called)
  PROVE  LET p == WithTop(o, g)
             m == Len(o.frames)
         IN /\ Under(p) /\ (NoneSkipped => WalksUnder(p))
            /\ p \in ObjData /\ Len(p.frames) = m /\ Top(p) = g /\ p.frames[m] = g
            /\ \A i \in 1 .. m - 1 : p.frames[i] = o.frames[i]
            /\ DOMAIN p.frames = 1 .. m
            /\ p.callbacks = o.callbacks /\ p.cb = o.cb /\ p.freeze = o.freeze
            /\ p.stopped = o.stopped /\ p.current = o.current
            /\ Agree(o, p, m)
<1> DEFINE m == Len(o.frames)
           t == Top(o)
           p == WithTop(o, g)
<1>1. /\ Under(o) /\ (NoneSkipped => WalksUnder(o)) /\ o \in ObjData /\ m \in Nat /\ m >= 1
      /\ DOMAIN o.frames = 1 .. m /\ t = o.frames[m] /\ t \in FrameData /\ t.generation = m
      /\ m \in 1 .. m
  BY RightUnder
<1>2. /\ p \in ObjData /\ Len(p.frames) = m
      /\ p.frames[m] = g /\ Top(p) = g /\ \A i \in 1 .. m - 1 : p.frames[i] = o.frames[i]
      /\ p.callbacks = o.callbacks /\ p.cb = o.cb /\ p.freeze = o.freeze
      /\ p.stopped = o.stopped /\ p.cleaning = o.cleaning /\ p.adds = o.adds
      /\ p.dels = o.dels /\ p.current = o.current
  BY <1>1, WithTopRight
<1> HIDE DEF p, t
<1>3. DOMAIN p.frames = 1 .. m /\ p.frames # <<>> /\ \A i \in 1 .. m : i = m \/ i \in 1 .. m - 1
  BY <1>1, <1>2, FrameTyped
<1> HIDE DEF m
<1>4. ASSUME NEW i \in 1 .. m
      PROVE  /\ o.frames[i] \in FrameData /\ p.frames[i] \in FrameData
             /\ p.frames[i].event = o.frames[i].event /\ p.frames[i].generation = i
             /\ p.frames[i].before = o.frames[i].before /\ p.frames[i].owner = o.frames[i].owner
             /\ p.frames[i].excused = o.frames[i].excused
             /\ i # m => p.frames[i] = o.frames[i] /\ FrameGood(o, o.frames[i])
  <2>1. o.frames[i] \in FrameData /\ p.frames[i] \in FrameData /\ o.frames[i].generation = i
    BY <1>1, <1>2, FrameTyped DEF Under, m
  <2>2. i # m => FrameGood(o, o.frames[i])
    <3>1. i # m => i < Len(o.frames)
      BY <1>1 DEF m
    <3> QED BY <1>1, <3>1 DEF Under
  <2> QED BY <1>1, <1>2, <1>3, <2>1, <2>2 DEF t
<1>5. Agree(o, p, m) /\ Listed(p) = Listed(o)
  BY <1>1, <1>2, AgreeSelf
<1>6. ListGood(p)
  <2>1. Generation(o) = m /\ Generation(p) = m
    <3>1. Generation(o) = t.generation
      BY <1>1, GenerationRight DEF t
    <3>2. Generation(p) = g.generation
      BY <1>2, <1>3, GenerationRight
    <3> QED BY <1>1, <3>1, <3>2 DEF t
  <2>2. Generation(o) <= Generation(p)
    BY <1>1, <2>1
  <2> QED BY <1>1, <1>2, <1>3, <2>2, GoodKept DEF Under
<1>7. ASSUME NEW i \in 1 .. m, i # m PROVE FrameGood(p, p.frames[i])
  <2> DEFINE f == o.frames[i]
  <2>1. FrameGood(o, f) /\ f.generation = i /\ f \in FrameData /\ p.frames[i] = f
    BY <1>4, <1>7
  <2>2. SameFrame(f, f) /\ f.generation \in 1 .. m
    BY <2>1 DEF SameFrame
  <2>3. Frozen(p, f.event) => f.excused
    BY <1>2, <2>1 DEF FrameGood, Frozen
  <2>4. "editInArray" \notin Liberties /\ Between(o, f) => ~p.cb[f.cb].deleted
    BY <1>2, <2>1 DEF FrameGood
  <2> HIDE DEF f
  <2>5. FrameGood(p, f)
    BY <1>1, <1>2, <1>5, <2>1, <2>2, <2>3, <2>4, FrameSame
  <2> QED BY <2>1, <2>5
<1>8. StopsRight(p)
  <2>1. ASSUME NEW i \in 1 .. m PROVE StopSeen(p, i) = StopSeen(o, i)
    <3>1. i # m => i + 1 \in 1 .. m
      BY <1>1
    <3>2. i # m => p.frames[i + 1].before = o.frames[i + 1].before
      BY <1>4, <3>1
    <3> QED BY <1>2, <3>2 DEF StopSeen, m
  <2>2. \A i, j \in 1 .. m : Same(p, i, j) <=> Same(o, i, j)
    BY <1>4 DEF Same
  <2> QED BY <1>1, <1>3, <1>4, <2>1, <2>2 DEF StopsRight, Under
<1>9. OwnersRight(p)
  <2>1. ASSUME NEW i \in 1 .. m, p.frames[i].event \in Restart
        PROVE  p.frames[i].owner <=> \A q \in 1 .. i - 1 : p.frames[q].event # p.frames[i].event
    <3>1. \A q \in 1 .. i - 1 : p.frames[q].event = o.frames[q].event
      <4> TAKE q \in 1 .. i - 1
      <4>1. q \in 1 .. m
        BY <1>1
      <4> QED BY <1>4, <4>1
    <3>2. o.frames[i].owner <=> \A q \in 1 .. i - 1 : o.frames[q].event # o.frames[i].event
      BY <1>1, <1>4, <2>1 DEF Under, OwnersRight
    <3> QED BY <1>4, <3>1, <3>2
  <2>2. \A r \in Restart : (\A i \in 1 .. m : p.frames[i].event # r) <=> \A i \in 1 .. m : o.frames[i].event # r
    BY <1>4
  <2>3. \A i \in DOMAIN p.frames : p.frames[i].event \in Restart =>
          (p.frames[i].owner <=> \A j \in 1 .. i - 1 : p.frames[j].event # p.frames[i].event)
    BY <1>3, <2>1
  <2>4. ASSUME NEW r \in Restart
        PROVE  /\ p.current[r] = Absent <=> \A i \in DOMAIN p.frames : p.frames[i].event # r
               /\ p.current[r] <= Len(p.callbacks)
    <3>1. /\ o.current[r] = Absent <=> \A i \in 1 .. m : o.frames[i].event # r
          /\ o.current[r] <= Len(o.callbacks)
      BY <1>1 DEF Under, OwnersRight
    <3> QED BY <1>2, <1>3, <2>2, <3>1
  <2> QED BY <2>3, <2>4 DEF OwnersRight
<1>10. Under(p)
  <2>1. \A i \in DOMAIN p.frames : i < Len(p.frames) => FrameGood(p, p.frames[i])
    <3> TAKE i \in DOMAIN p.frames
    <3>1. i < Len(p.frames) => i # m
      BY <1>1, <1>2, <1>3
    <3> QED BY <1>3, <1>7, <3>1
  <2> QED BY <1>3, <1>4, <1>6, <1>8, <1>9, <2>1 DEF Under
<1>11. ASSUME NoneSkipped PROVE WalksUnder(p)
  <2> SUFFICES ASSUME NEW i \in 1 .. m
               PROVE  LET f == p.frames[i]
                      IN /\ f.event \in Restart => IsInjective(f.called)
                         /\ ~f.excused /\ f.event \notin Restart /\ i < m => Reached(p, f)
                         /\ ~f.excused /\ f.event \in Restart /\ f.owner /\ f.event # g.event =>
                              \A k \in 1 .. m : LastOf(p, k, f.event) => ReachedTogether(p, f, p.frames[k])
    BY <1>2, <1>3 DEF WalksUnder, m
  <2>1. CASE i = m
    <3>1. p.frames[i] = g /\ ~(i < m)
      BY <1>1, <1>2, <2>1
    <3> QED BY <1>11, <3>1
  <2>2. CASE i # m
    <3> DEFINE f == o.frames[i]
    <3>1. p.frames[i] = f /\ FrameGood(o, f) /\ i < m
      BY <1>1, <1>4, <2>2
    <3>2. f.due \subseteq Listed(o) /\ f.cb \in Listed(o) /\ SameFrame(f, f)
      BY <3>1 DEF SameFrame, FrameGood, DueRight
    <3>3. f.event \in Restart => IsInjective(f.called)
      BY <1>1, <1>11 DEF WalksUnder
    <3>4. ASSUME ~f.excused, f.event \notin Restart PROVE Reached(p, f)
      <4>1. Reached(o, f)
        <5>1. i < Len(o.frames)
          BY <3>1 DEF m
        <5> QED BY <1>1, <1>11, <3>4, <5>1 DEF WalksUnder
      <4> HIDE DEF f
      <4> QED BY <1>5, <3>2, <3>4, <4>1, ReachedKept
    <3>5. ASSUME ~f.excused, f.event \in Restart, f.owner, f.event # g.event, NEW k \in 1 .. m,
                 LastOf(p, k, f.event)
          PROVE  ReachedTogether(p, f, p.frames[k])
      <4> DEFINE h == o.frames[k]
      <4>1. k # m
        BY <1>2, <3>5 DEF LastOf
      <4>2. p.frames[k] = h /\ FrameGood(o, h)
        BY <1>4, <4>1
      <4>3. LastOf(o, k, f.event)
        BY <1>1, <1>3, <1>4, <3>5 DEF LastOf
      <4>4. ReachedTogether(o, f, h)
        BY <1>1, <1>11, <3>5, <4>3 DEF WalksUnder, t
      <4>5. h.cb \in Listed(o)
        BY <4>2 DEF FrameGood, DueRight
      <4> HIDE DEF f, h
      <4>6. ReachedTogether(p, f, h)
        BY <1>2, <1>5, <3>2, <4>4, <4>5, TogetherKept
      <4> QED BY <4>2, <4>6
    <3> HIDE DEF f
    <3> QED BY <3>1, <3>3, <3>4, <3>5
  <2> QED BY <2>1, <2>2
<1> QED BY <1>2, <1>3, <1>5, <1>10, <1>11 DEF p, m

LEMMA ResumeLeaves ==
  ASSUME NEW o, Right(o), o.frames # <<>>,
         o.stopped \/ (Top(o).event \in Restart /\ o.current[Top(o).event] = 0)
  PROVE  Leaving(o)
<1> DEFINE m == Len(o.frames)
           t == Top(o)
<1>1. /\ Under(o) /\ (NoneSkipped => WalksUnder(o)) /\ m \in Nat /\ m >= 1
      /\ DOMAIN o.frames = 1 .. m /\ t = o.frames[m] /\ m \in 1 .. m
  BY RightUnder
<1>2. ASSUME NoneSkipped, NEW i \in DOMAIN o.frames, Answers(o, i) PROVE Heard(o, o.frames[i])
  <2> DEFINE f == o.frames[i]
  <2>1. ~f.excused /\ Same(o, m, i) /\ (f.event \in Restart => f.owner) /\ i <= m
    BY <1>1, <1>2 DEF Answers
  <2>2. ~o.stopped
    <3>1. StopSeen(o, m) = o.stopped
      BY DEF StopSeen
    <3>2. StopSeen(o, m) /\ i <= m /\ Same(o, m, i) => f.excused
      BY <1>1 DEF Under, StopsRight
    <3> QED BY <2>1, <3>1, <3>2
  <2>3. t.event \in Restart /\ o.current[t.event] = 0 /\ f.event = t.event
    BY <1>1, <2>1, <2>2 DEF Same
  <2>4. LastOf(o, m, f.event)
    BY <1>1, <2>3 DEF LastOf
  <2>5. ReachedTogether(o, f, t)
    BY <1>1, <1>2, <2>1, <2>3, <2>4 DEF Right, WalksRight
  <2> HIDE DEF f, t
  <2>6. \A c \in f.due : ~o.cb[c].deleted => c \in ToSet(f.called)
    BY <2>3, <2>5 DEF ReachedTogether
  <2> QED BY <2>3, <2>6 DEF Heard, f
<1> QED BY <1>1, <1>2 DEF Leaving

(* What lies above where the walk goes on has been passed, and no more.    *)
LEMMA StoodPast ==
  ASSUME NEW o \in ObjData, Sorted(o), NEW f \in FrameData,
         NEW q \in DOMAIN o.callbacks, StandsAt(o, f, q)
  PROVE  LET n == f.idx + f.inserted - 1
         IN /\ n \in 0 .. Len(o.callbacks) /\ f.cb \in Listed(o)
            /\ \A c \in Listed(o) :
                 /\ c = f.cb \/ Above(o, f.cb, c) => c \in Past(o, n)
                 /\ "crowdIn" \notin Liberties /\ o.cb[c].generation < f.generation /\ c \in Past(o, n)
                      => c = f.cb \/ Above(o, f.cb, c)
<1> DEFINE n == f.idx + f.inserted - 1
<1>1. q \in 1 .. Len(o.callbacks) /\ Len(o.callbacks) \in Nat /\ DOMAIN o.callbacks = 1 .. Len(o.callbacks)
  BY ObjTyped
<1>2. f.idx \in Nat /\ f.inserted \in Nat /\ f.generation \in Nat
  BY DEF FrameData
<1>3. o.callbacks[q] = f.cb /\ f.idx >= 1 /\ n + 1 <= q
  BY <1>2 DEF StandsAt
<1>4. n \in 0 .. Len(o.callbacks) /\ f.cb \in Listed(o)
  <2>1. f.cb \in Listed(o)
    BY <1>1, <1>3, PlacesRight
  <2> QED BY <1>1, <1>2, <1>3, <2>1
<1>5. ASSUME NEW c \in Listed(o), c = f.cb \/ Above(o, f.cb, c) PROVE c \in Past(o, n)
  <2>1. PICK r \in 1 .. Len(o.callbacks) : o.callbacks[r] = c
    BY PlacesRight
  <2>2. r = q \/ q < r
    BY <1>1, <1>3, <1>5, <2>1, PlacesRight
  <2>3. r \in n + 1 .. Len(o.callbacks)
    BY <1>1, <1>3, <1>4, <2>2
  <2> QED BY <2>1, <2>3 DEF Past
<1>6. ASSUME "crowdIn" \notin Liberties, NEW c \in Listed(o), o.cb[c].generation < f.generation,
             c \in Past(o, n)
      PROVE  c = f.cb \/ Above(o, f.cb, c)
  <2>1. PICK r \in n + 1 .. Len(o.callbacks) : o.callbacks[r] = c
    BY <1>6 DEF Past
  <2>2. r \in 1 .. Len(o.callbacks)
    BY <1>1, <1>4
  <2>3. ~(r < q)
    <3> SUFFICES ASSUME r < q PROVE FALSE
      OBVIOUS
    <3>1. CASE f.idx > 1
      <4>1. n + 1 = q
        BY <1>2, <1>6, <3>1 DEF StandsAt
      <4> QED BY <1>1, <1>4, <4>1
    <3>2. CASE f.idx = 1
      <4>1. r \in 1 .. q - 1
        BY <1>1, <2>2
      <4>2. o.cb[c].generation >= f.generation
        BY <2>1, <3>2, <4>1 DEF StandsAt
      <4>3. o.cb[c].generation \in Nat
        BY <1>6, ObjTyped
      <4> QED BY <1>2, <1>6, <4>2, <4>3
    <3> QED BY <1>2, <1>3, <3>1, <3>2
  <2>4. r = q \/ q < r
    BY <1>1, <2>2, <2>3
  <2> QED BY <1>1, <1>3, <2>1, <2>2, <2>4, PlacesRight
<1> QED BY <1>4, <1>5, <1>6

(* The next item of the array that the last emission is at.                *)
NextItem(o) == [Noted(Top(o), Top(o).cb) EXCEPT !.item = Min(More(o))]

LEMMA NextItemIs ==
  ASSUME NEW o, Right(o), o.frames # <<>>, More(o) # {}
  PROVE  LET t == Top(o)
             g == NextItem(o)
             I == ItemsFor(o, t.cb, t.event)
         IN /\ g \in FrameData /\ t \in FrameData /\ t.cb \in Cbs
            /\ g.event = t.event /\ g.idx = t.idx /\ g.inserted = t.inserted
            /\ g.generation = t.generation /\ g.before = t.before /\ g.owner = t.owner
            /\ g.cb = t.cb /\ g.due = t.due /\ g.excused = t.excused
            /\ g.called = IF t.event \in Restart /\ t.cb \in ToSet(t.called) THEN t.called
                          ELSE Append(t.called, t.cb)
            /\ g.item \in I /\ g.item > t.item /\ ~Frozen(o, t.event)
            /\ Cardinality({k \in I : k <= g.item}) = Cardinality({k \in I : k <= t.item}) + 1
            /\ Cardinality({k \in I : k <= t.item}) \in Nat
<1> DEFINE t == Top(o)
           I == ItemsFor(o, t.cb, t.event)
           b == Min({k \in I : k > t.item})
           h == Noted(t, t.cb)
           g == [h EXCEPT !.item = b]
<1>1. o \in ObjData /\ t \in FrameData /\ FrameGood(o, t)
  BY RightUnder
<1>2. t.cb \in Cbs /\ t.item \in Nat
  <2>1. t.cb \in Listed(o)
    BY <1>1 DEF FrameGood, DueRight
  <2> QED BY <1>1, <2>1, ObjTyped DEF FrameData
<1>3. I \in SUBSET (1 .. Len(o.cb[t.cb].items)) /\ Len(o.cb[t.cb].items) \in Nat
  BY <1>1, <1>2, ObjTyped
<1>4. More(o) = {k \in I : k > t.item} /\ ~Frozen(o, t.event)
  <2>1. ~Frozen(o, t.event)
    BY DEF More
  <2> QED BY <2>1 DEF More
<1>5. NextItem(o) = g
  BY <1>4 DEF NextItem
<1>6. /\ h \in FrameData
      /\ h.event = t.event /\ h.idx = t.idx /\ h.inserted = t.inserted
      /\ h.generation = t.generation /\ h.before = t.before /\ h.owner = t.owner
      /\ h.cb = t.cb /\ h.item = t.item /\ h.due = t.due /\ h.excused = t.excused
      /\ h.called = IF t.event \in Restart /\ t.cb \in ToSet(t.called) THEN t.called
                    ELSE Append(t.called, t.cb)
  BY <1>1, <1>2, NotedRight
<1>7. {k \in I : k > t.item} # {}
  BY <1>4
<1>8. /\ b \in I /\ b > t.item
      /\ Cardinality({k \in I : k <= b}) = Cardinality({k \in I : k <= t.item}) + 1
      /\ Cardinality({k \in I : k <= t.item}) \in Nat
  <2> DEFINE a == t.item
             J == I
             n == Len(o.cb[t.cb].items)
  <2>1. a \in Nat /\ J \in SUBSET (1 .. n) /\ n \in Nat /\ {k \in J : k > a} # {}
    BY <1>2, <1>3, <1>7
  <2> HIDE DEF a, J, n
  <2>2. LET x == Min({k \in J : k > a})
        IN /\ x \in J /\ x > a
           /\ Cardinality({k \in J : k <= x}) = Cardinality({k \in J : k <= a}) + 1
           /\ Cardinality({k \in J : k <= a}) \in Nat
    BY <2>1, UptoNext
  <2> QED BY <2>2 DEF a, J
<1>9. b \in Nat
  <2>1. b \in 1 .. Len(o.cb[t.cb].items)
    BY <1>3, <1>8
  <2> QED BY <2>1
<1> HIDE DEF b, h, I, t
<1>10. /\ g \in FrameData /\ g.item = b
       /\ g.event = h.event /\ g.idx = h.idx /\ g.inserted = h.inserted
       /\ g.generation = h.generation /\ g.before = h.before /\ g.owner = h.owner
       /\ g.cb = h.cb /\ g.due = h.due /\ g.excused = h.excused /\ g.called = h.called
  BY <1>6, <1>9 DEF FrameData
<1> HIDE DEF g
<1>11. g.item \in I /\ g.item > t.item
       /\ Cardinality({k \in I : k <= g.item}) = Cardinality({k \in I : k <= t.item}) + 1
       /\ Cardinality({k \in I : k <= t.item}) \in Nat
  BY <1>8, <1>10
<1> QED BY <1>1, <1>2, <1>4, <1>5, <1>6, <1>10, <1>11 DEF t, I

LEMMA MoreGood ==
  ASSUME NEW o, Right(o), o.frames # <<>>, More(o) # {}
  PROVE  FrameGood(WithTop(o, NextItem(o)), NextItem(o))
         /\ (NextItem(o).event \in Restart /\ NoneSkipped => IsInjective(NextItem(o).called))
<1> DEFINE t == Top(o)
           g == NextItem(o)
           p == WithTop(o, g)
           m == Len(o.frames)
<1>1. /\ o \in ObjData /\ Sorted(o) /\ m \in Nat /\ m \in 1 .. m /\ o.frames # <<>>
      /\ FrameGood(o, t) /\ t.generation = m /\ t = o.frames[m] /\ DOMAIN o.frames = 1 .. m
  BY RightUnder
<1>2. /\ g \in FrameData /\ t \in FrameData /\ t.cb \in Cbs
      /\ g.event = t.event /\ g.idx = t.idx /\ g.inserted = t.inserted
      /\ g.generation = t.generation /\ g.before = t.before /\ g.owner = t.owner
      /\ g.cb = t.cb /\ g.due = t.due /\ g.excused = t.excused
      /\ g.called = IF t.event \in Restart /\ t.cb \in ToSet(t.called) THEN t.called
                    ELSE Append(t.called, t.cb)
      /\ g.item \in ItemsFor(o, t.cb, t.event) /\ g.item > t.item /\ ~Frozen(o, t.event)
  BY NextItemIs
<1> HIDE DEF g
<1>3. p \in ObjData /\ p.callbacks = o.callbacks /\ p.cb = o.cb /\ p.freeze = o.freeze
  BY <1>1, <1>2, WithTopRight
<1> HIDE DEF p, t
<1>4. Agree(o, p, m) /\ Listed(p) = Listed(o)
  BY <1>1, <1>3, AgreeSelf
<1>5. t.called \in Seq(Cbs) /\ t.item \in Nat /\ \A k \in ItemsFor(o, t.cb, t.event) : k \in Nat
  <2>1. t.called \in Seq(Cbs) /\ t.item \in Nat
    BY <1>2 DEF FrameData
  <2>2. ItemsFor(o, t.cb, t.event) \subseteq 1 .. Len(o.cb[t.cb].items) /\ Len(o.cb[t.cb].items) \in Nat
    BY <1>1, <1>2, ObjTyped
  <2>3. \A k \in ItemsFor(o, t.cb, t.event) : k \in 1 .. Len(o.cb[t.cb].items)
    BY <2>2
  <2> QED BY <2>1, <2>2, <2>3
<1>6. DueRight(p, g)
  <2>1. DueRight(o, t)
    BY <1>1 DEF FrameGood
  <2> QED BY <1>1, <1>2, <1>3, <1>4, <2>1, DueKept
<1>7. ItemsFor(p, g.cb, g.event) = ItemsFor(o, t.cb, t.event)
  BY <1>2, <1>3 DEF ItemsFor
<1>8. g.cb \in g.due /\ g.item \in ItemsFor(p, g.cb, g.event)
  BY <1>1, <1>2, <1>7 DEF FrameGood
<1>9. \E q \in DOMAIN p.callbacks : StandsAt(p, g, q)
  <2>1. PICK q \in DOMAIN o.callbacks : StandsAt(o, t, q)
    BY <1>1 DEF FrameGood
  <2>2. StandsAt(p, g, q)
    BY <1>2, <1>3, <2>1 DEF StandsAt
  <2> QED BY <1>3, <2>1, <2>2
<1>10. g.event \notin Restart => g.called # <<>> /\ Last(g.called) = g.cb /\ CalledDown(p, g.called)
  <2> SUFFICES ASSUME t.event \notin Restart
               PROVE  g.called # <<>> /\ Last(g.called) = t.cb /\ CalledDown(p, g.called)
    BY <1>2
  <2>1. g.called = Append(t.called, t.cb)
    BY <1>2
  <2>2. CalledDown(o, t.called) /\ t.called # <<>> /\ Last(t.called) = t.cb
    BY <1>1 DEF FrameGood
  <2>3. \A d \in ToSet(t.called) : d = t.cb \/ Above(o, t.cb, d)
    <3> TAKE d \in ToSet(t.called)
    <3> DEFINE s == t.called
    <3>1. s \in Seq(Cbs) /\ s # <<>> /\ Len(s) \in Nat /\ DOMAIN s = 1 .. Len(s) /\ Len(s) # 0
      BY <1>5, <2>2
    <3>2. s[Len(s)] = t.cb
      BY <2>2, <3>1, FrontRight
    <3>3. PICK i \in DOMAIN s : s[i] = d
      BY DEF ToSet
    <3>4. i = Len(s) \/ i < Len(s)
      BY <3>1
    <3>5. Len(s) \in DOMAIN s
      BY <3>1
    <3>6. i < Len(s) => s[i] = s[Len(s)] \/ Above(o, s[Len(s)], s[i])
      BY <2>2, <3>5 DEF CalledDown
    <3> QED BY <3>2, <3>3, <3>4, <3>6
  <2>4. t.cb \in Listed(o)
    BY <1>1 DEF FrameGood, DueRight
  <2>5. CalledDown(o, g.called) /\ g.called # <<>> /\ Last(g.called) = t.cb
    BY <1>2, <1>5, <2>1, <2>2, <2>3, <2>4, CalledDownAppend
  <2>6. g.called \in Seq(Cbs)
    BY <1>2 DEF FrameData
  <2>7. CalledDown(p, g.called)
    BY <1>1, <1>4, <2>5, <2>6, CalledKept
  <2> QED BY <2>5, <2>7
<1>11. "editInArray" \notin Liberties /\ Between(p, g) => ~p.cb[g.cb].deleted /\ p.callbacks[g.idx] = g.cb
  <2>1. Between(p, g) => Between(o, t)
    <3>1. \A k \in ItemsFor(o, t.cb, t.event) : k > g.item => k > t.item
      BY <1>2, <1>5
    <3> QED BY <1>7, <3>1 DEF Between
  <2> QED BY <1>1, <1>2, <1>3, <2>1 DEF FrameGood
<1>12. ~Frozen(p, g.event)
  BY <1>2, <1>3 DEF Frozen
<1>13. FrameGood(p, g)
  BY <1>6, <1>8, <1>9, <1>10, <1>11, <1>12 DEF FrameGood
<1>14. ASSUME g.event \in Restart, NoneSkipped PROVE IsInjective(g.called)
  <2>1. IsInjective(t.called)
    BY <1>1, <1>2, <1>14 DEF Right, WalksRight
  <2>2. t.cb \notin ToSet(t.called) => IsInjective(Append(t.called, t.cb))
    BY <1>2, <1>5, <2>1, InjectiveAppend
  <2> QED BY <1>2, <1>14, <2>1, <2>2
<1> QED BY <1>13, <1>14 DEF p, g

LEMMA MoreRight ==
  ASSUME NEW o, Right(o), o.frames # <<>>, More(o) # {}
  PROVE  Right(WithTop(o, NextItem(o)))
<1> DEFINE t == Top(o)
           g == NextItem(o)
           p == WithTop(o, g)
           m == Len(o.frames)
<1>1. /\ o \in ObjData /\ m \in Nat /\ m \in 1 .. m /\ o.frames # <<>>
      /\ FrameGood(o, t) /\ t.generation = m /\ t = o.frames[m] /\ DOMAIN o.frames = 1 .. m
  BY RightUnder
<1>2. LET I == ItemsFor(o, t.cb, t.event)
      IN /\ g \in FrameData /\ t \in FrameData /\ t.cb \in Cbs
         /\ g.event = t.event /\ g.idx = t.idx /\ g.inserted = t.inserted
         /\ g.generation = t.generation /\ g.before = t.before /\ g.owner = t.owner
         /\ g.cb = t.cb /\ g.due = t.due /\ g.excused = t.excused
         /\ g.called = IF t.event \in Restart /\ t.cb \in ToSet(t.called) THEN t.called
                       ELSE Append(t.called, t.cb)
         /\ g.item \in I /\ g.item > t.item /\ ~Frozen(o, t.event)
         /\ Cardinality({k \in I : k <= g.item}) = Cardinality({k \in I : k <= t.item}) + 1
         /\ Cardinality({k \in I : k <= t.item}) \in Nat
  BY NextItemIs
<1>3. FrameGood(p, g) /\ (g.event \in Restart /\ NoneSkipped => IsInjective(g.called))
  BY MoreGood
<1> HIDE DEF g
<1>4. /\ Under(p) /\ (NoneSkipped => WalksUnder(p))
      /\ p \in ObjData /\ Len(p.frames) = m /\ Top(p) = g /\ p.frames[m] = g
      /\ \A i \in 1 .. m - 1 : p.frames[i] = o.frames[i]
      /\ DOMAIN p.frames = 1 .. m
      /\ p.callbacks = o.callbacks /\ p.cb = o.cb /\ p.freeze = o.freeze
      /\ p.stopped = o.stopped /\ p.current = o.current
      /\ Agree(o, p, m)
  BY <1>1, <1>2, <1>3, TopKept
<1> HIDE DEF p, m
<1>5. ASSUME NEW i \in 1 .. m PROVE i = m \/ (i \in 1 .. m - 1 /\ p.frames[i] = o.frames[i] /\ i < Len(p.frames))
  BY <1>1, <1>4
<1>6. FramesGood(p)
  <2>1. \A i \in DOMAIN p.frames : p.frames[i].generation = i /\ FrameGood(p, p.frames[i])
    BY <1>3, <1>4, <1>5 DEF Under
  <2> QED BY <1>4, <2>1 DEF FramesGood, Under
<1>7. ASSUME NoneSkipped PROVE WalksRight(p)
  <2>1. WalksUnder(p) /\ WalksRight(o)
    BY <1>4, <1>7 DEF Right
  <2> SUFFICES ASSUME NEW i \in 1 .. m
               PROVE  LET f == p.frames[i]
                      IN /\ f.event \in Restart => IsInjective(f.called)
                         /\ ~f.excused /\ f.event \notin Restart => Reached(p, f)
                         /\ ~f.excused /\ f.event \in Restart /\ f.owner =>
                              \A k \in 1 .. m : LastOf(p, k, f.event) => ReachedTogether(p, f, p.frames[k])
    BY <1>4 DEF WalksRight
  <2> DEFINE f == p.frames[i]
  <2>2. f.event \in Restart => IsInjective(f.called)
    BY <1>4, <2>1 DEF WalksUnder
  <2>3. ASSUME ~f.excused, f.event \notin Restart PROVE Reached(p, f)
    <3>1. CASE i # m
      BY <1>4, <1>5, <2>1, <2>3, <3>1 DEF WalksUnder
    <3>2. CASE i = m
      <4> DEFINE I == ItemsFor(o, t.cb, t.event)
      <4>1. f = g /\ ~t.excused /\ t.event \notin Restart
        BY <1>2, <1>4, <2>3, <3>2
      <4>2. Reached(o, t)
        BY <1>1, <2>1, <4>1 DEF WalksRight
      <4>3. g.called = Append(t.called, t.cb) /\ t.called \in Seq(Cbs)
        BY <1>2, <4>1 DEF FrameData
      <4> SUFFICES ASSUME NEW c \in t.due, ~o.cb[c].deleted
                   PROVE  Times(c, g.called) =
                            IF c = g.cb THEN Cardinality({k \in ItemsFor(p, c, g.event) : k <= g.item})
                            ELSE IF Above(p, g.cb, c) THEN Cardinality(ItemsFor(p, c, g.event)) ELSE 0
        BY <1>2, <1>4, <4>1 DEF Reached
      <4>4. ItemsFor(p, c, g.event) = ItemsFor(o, c, t.event) /\ (Above(p, g.cb, c) <=> Above(o, t.cb, c))
        BY <1>2, <1>4 DEF ItemsFor, Above
      <4>5. Times(c, t.called) =
              IF c = t.cb THEN Cardinality({k \in ItemsFor(o, c, t.event) : k <= t.item})
              ELSE IF Above(o, t.cb, c) THEN Cardinality(ItemsFor(o, c, t.event)) ELSE 0
        BY <4>2 DEF Reached
      <4>6. Times(c, g.called) = Times(c, t.called) + (IF c = t.cb THEN 1 ELSE 0)
        BY <1>2, <4>3, TimesAppend
      <4>7. Times(c, t.called) \in Nat
        BY <4>3, TimesRight
      <4> HIDE DEF t, f
      <4>8. CASE c = t.cb
        <5>1. Times(c, t.called) = Cardinality({k \in I : k <= t.item})
          BY <4>5, <4>8
        <5>2. Times(c, g.called) = Cardinality({k \in I : k <= g.item})
          BY <1>2, <4>6, <4>8, <5>1
        <5>3. ItemsFor(p, c, g.event) = I
          BY <4>4, <4>8
        <5> QED BY <1>2, <4>8, <5>2, <5>3
      <4>9. CASE c # t.cb
        <5>1. Times(c, g.called) = Times(c, t.called)
          BY <4>6, <4>7, <4>9
        <5> QED BY <1>2, <4>4, <4>5, <4>9, <5>1
      <4> QED BY <4>8, <4>9
    <3> QED BY <3>1, <3>2
  <2>4. ASSUME ~f.excused, f.event \in Restart, f.owner, NEW k \in 1 .. m, LastOf(p, k, f.event)
        PROVE  ReachedTogether(p, f, p.frames[k])
    <3>1. CASE f.event # g.event
      BY <1>4, <2>1, <2>4, <3>1 DEF WalksUnder
    <3>2. CASE f.event = g.event
      <4> DEFINE h == o.frames[i]
      <4>1. k = m
        <5>1. p.frames[m].event = f.event /\ m \in DOMAIN p.frames
          BY <1>1, <1>4, <3>2
        <5>2. m <= k
          BY <2>4, <5>1 DEF LastOf
        <5> QED BY <1>1, <5>2 DEF m
      <4>2. /\ h.event = f.event /\ h.due = f.due /\ h.excused = f.excused /\ h.owner = f.owner
            /\ ToSet(h.called) \subseteq ToSet(f.called)
        <5>1. CASE i # m
          BY <1>5, <5>1
        <5>2. CASE i = m
          <6>1. h = t /\ f = g
            BY <1>1, <1>4, <5>2
          <6>2. ToSet(t.called) \subseteq ToSet(g.called)
            <7>1. t.called \in Seq(Cbs)
              BY <1>2 DEF FrameData
            <7>2. \A x \in DOMAIN t.called : /\ x \in DOMAIN Append(t.called, t.cb)
                                             /\ Append(t.called, t.cb)[x] = t.called[x]
              BY <1>2, <7>1
            <7>3. ToSet(t.called) \subseteq ToSet(Append(t.called, t.cb))
              BY <7>2 DEF ToSet
            <7> QED BY <1>2, <7>3
          <6> QED BY <1>2, <6>1, <6>2
        <5> QED BY <5>1, <5>2
      <4>3. LastOf(o, m, h.event)
        <5>1. t.event = h.event
          BY <1>2, <3>2, <4>2
        <5> QED BY <1>1, <5>1 DEF LastOf, m
      <4>4. ReachedTogether(o, h, t)
        BY <1>1, <2>1, <2>4, <4>2, <4>3 DEF WalksRight
      <4>5. h.due \subseteq Listed(o) /\ t.cb \in Listed(o)
        BY <1>1 DEF Right, FramesGood, FrameGood, DueRight
      <4> HIDE DEF h, f, t
      <4>6. ReachedTogether(p, f, g)
        BY <1>2, <1>4, <4>2, <4>4, <4>5, TogetherKept
      <4> QED BY <1>4, <4>1, <4>6
    <3> QED BY <3>1, <3>2
  <2> HIDE DEF f
  <2> QED BY <2>2, <2>3, <2>4 DEF f
<1> QED BY <1>4, <1>6, <1>7 DEF Right, Under, p, g

(* The last emission, ready to go on below.                                *)
Ready(o) == [Top(o) EXCEPT !.inserted = 0]

LEMMA ResumeWalks ==
  ASSUME NEW o, Right(o), o.frames # <<>>, More(o) = {},
         ~(Top(o).event \in Restart /\ o.current[Top(o).event] = 0)
  PROVE  Walking(WithTop(o, Ready(o)), Top(o).idx + Top(o).inserted - 1)
<1> DEFINE t == Top(o)
           g == Ready(o)
           p == WithTop(o, g)
           n == t.idx + t.inserted - 1
           m == Len(o.frames)
<1>1. /\ o \in ObjData /\ Sorted(o) /\ m \in Nat /\ m \in 1 .. m /\ o.frames # <<>> /\ t \in FrameData
      /\ FrameGood(o, t) /\ t.generation = m /\ t = o.frames[m] /\ DOMAIN o.frames = 1 .. m
      /\ Under(o)
  BY RightUnder
<1>2. /\ g \in FrameData
      /\ g.event = t.event /\ g.idx = t.idx /\ g.inserted = 0
      /\ g.generation = t.generation /\ g.before = t.before /\ g.owner = t.owner
      /\ g.cb = t.cb /\ g.item = t.item /\ g.due = t.due /\ g.excused = t.excused
      /\ g.called = t.called
  <2> HIDE DEF t
  <2> QED BY <1>1 DEF FrameData, Ready, t
<1>3. g.event \in Restart /\ NoneSkipped => IsInjective(g.called)
  BY <1>1, <1>2 DEF Right, WalksRight
<1> HIDE DEF g
<1>4. /\ Under(p) /\ (NoneSkipped => WalksUnder(p))
      /\ p \in ObjData /\ Len(p.frames) = m /\ Top(p) = g /\ p.frames[m] = g
      /\ \A i \in 1 .. m - 1 : p.frames[i] = o.frames[i]
      /\ DOMAIN p.frames = 1 .. m
      /\ p.callbacks = o.callbacks /\ p.cb = o.cb /\ p.freeze = o.freeze
      /\ p.stopped = o.stopped /\ p.current = o.current
      /\ Agree(o, p, m)
  BY <1>1, <1>2, <1>3, TopKept
<1> HIDE DEF p, m
<1>5. ASSUME NEW i \in 1 .. m
      PROVE  /\ p.frames[i].event = o.frames[i].event /\ p.frames[i].due = o.frames[i].due
             /\ p.frames[i].called = o.frames[i].called /\ p.frames[i].owner = o.frames[i].owner
             /\ p.frames[i].excused = o.frames[i].excused
  <2>1. i = m \/ i \in 1 .. m - 1
    BY <1>1
  <2> QED BY <1>1, <1>2, <1>4, <2>1
<1>6. PICK q \in DOMAIN o.callbacks : StandsAt(o, t, q)
  BY <1>1 DEF FrameGood
<1>7. /\ n \in 0 .. Len(o.callbacks) /\ t.cb \in Listed(o)
      /\ \A c \in Listed(o) :
           /\ c = t.cb \/ Above(o, t.cb, c) => c \in Past(o, n)
           /\ "crowdIn" \notin Liberties /\ o.cb[c].generation < t.generation /\ c \in Past(o, n)
                => c = t.cb \/ Above(o, t.cb, c)
  BY <1>1, <1>6, StoodPast
<1> HIDE DEF n
<1>8. Past(p, n) = Past(o, n)
  BY <1>4 DEF Past
<1>9. TopWalks(p, g, n)
  <2>1. DueRight(p, g)
    <3>1. DueRight(o, t)
      BY <1>1 DEF FrameGood
    <3> HIDE DEF t
    <3> QED BY <1>1, <1>2, <1>4, <3>1, DueKept
  <2>2. Frozen(p, g.event) => g.excused
    BY <1>1, <1>2, <1>4 DEF FrameGood, Frozen
  <2>3. ASSUME g.event \notin Restart PROVE CalledDown(p, g.called) /\ ToSet(g.called) \subseteq Past(p, n)
    <3> DEFINE s == t.called
    <3>1. s # <<>> /\ Last(s) = t.cb /\ CalledDown(o, s)
      BY <1>1, <1>2, <2>3 DEF FrameGood
    <3>2. s \in Seq(Cbs)
      BY <1>1 DEF FrameData
    <3> HIDE DEF s
    <3>3. CalledDown(p, s)
      BY <1>1, <1>4, <3>1, <3>2, CalledKept
    <3>4. Len(s) \in DOMAIN s /\ s[Len(s)] = t.cb /\ \A i \in DOMAIN s : i = Len(s) \/ i < Len(s)
      <4>1. Len(s) >= 1 /\ DOMAIN s = 1 .. Len(s) /\ Len(s) \in Nat /\ Last(s) = s[Len(s)]
        <5>1. s # <<>> /\ DOMAIN s = 1 .. Len(s) /\ Len(s) \in Nat /\ Len(s) >= 1
          BY <3>1, <3>2
        <5>2. Last(s) = s[Len(s)]
          BY <3>2, <5>1, FrontRight
        <5> QED BY <5>1, <5>2
      <4> QED BY <3>1, <4>1
    <3>5. \A i \in DOMAIN s : s[i] \in Past(o, n)
      <4> TAKE i \in DOMAIN s
      <4>1. s[i] \in Listed(o)
        BY <3>1 DEF CalledDown, ToSet
      <4>2. s[i] = t.cb \/ Above(o, t.cb, s[i])
        BY <3>1, <3>4 DEF CalledDown
      <4> QED BY <1>7, <4>1, <4>2
    <3> QED BY <1>2, <1>8, <3>3, <3>5 DEF ToSet, s
  <2> QED BY <1>2, <2>1, <2>2, <2>3 DEF TopWalks
<1>10. ASSUME NoneSkipped, NEW i \in 1 .. m, Answers(p, i) PROVE HalfWay(p, p.frames[i], n)
  <2> DEFINE f == o.frames[i]
  <2>1. /\ p.frames[i].event = f.event /\ p.frames[i].due = f.due
        /\ p.frames[i].called = f.called /\ p.frames[i].owner = f.owner
        /\ p.frames[i].excused = f.excused
    BY <1>5
  <2>2. "crowdIn" \notin Liberties
    BY <1>10 DEF NoneSkipped
  <2>3. ~f.excused /\ (i = m \/ f.event \in Restart) /\ f.event = t.event /\ (f.event \in Restart => f.owner)
    BY <1>1, <1>2, <1>4, <1>10, <2>1 DEF Answers, Same
  <2>4. ASSUME NEW c \in f.due
        PROVE  c \in Listed(o) /\ (c \in Past(o, n) <=> c = t.cb \/ Above(o, t.cb, c))
    <3>1. FrameGood(o, f) /\ f.generation = i
      BY <1>1 DEF Right, FramesGood
    <3>2. c \in Listed(o) /\ o.cb[c].generation < i
      BY <3>1 DEF FrameGood, DueRight
    <3>3. o.cb[c].generation < m
      <4>1. o.cb[c].generation \in Nat
        BY <1>1, <3>2, ObjTyped
      <4> QED BY <1>1, <3>2, <4>1
    <3> QED BY <1>1, <1>7, <2>2, <3>2, <3>3
  <2> SUFFICES ASSUME NEW c \in f.due, ~o.cb[c].deleted
               PROVE  IF f.event \in Restart THEN c \in Past(o, n) => c \in ToSet(f.called)
                      ELSE Times(c, f.called) =
                             IF c \in Past(o, n) THEN Cardinality(ItemsFor(o, c, f.event)) ELSE 0
    <3>1. \A c \in f.due : ItemsFor(p, c, f.event) = ItemsFor(o, c, f.event)
      BY <1>4 DEF ItemsFor
    <3> HIDE DEF f
    <3> QED BY <1>4, <1>8, <2>1, <3>1 DEF HalfWay
  <2>5. CASE f.event \in Restart
    <3>1. LastOf(o, m, f.event)
      BY <1>1, <2>3 DEF LastOf, m
    <3>2. ReachedTogether(o, f, t)
      BY <1>1, <1>10, <2>3, <2>5, <3>1 DEF Right, WalksRight
    <3> QED BY <2>4, <2>5, <3>2 DEF ReachedTogether
  <2>6. CASE f.event \notin Restart
    <3>1. i = m /\ f = t
      BY <1>1, <2>3, <2>6
    <3>2. Reached(o, t) /\ ~t.excused
      BY <1>1, <1>10, <2>3, <2>6, <3>1 DEF Right, WalksRight
    <3>3. Times(c, t.called) =
            IF c = t.cb THEN Cardinality({k \in ItemsFor(o, c, t.event) : k <= t.item})
            ELSE IF Above(o, t.cb, c) THEN Cardinality(ItemsFor(o, c, t.event)) ELSE 0
      BY <3>1, <3>2 DEF Reached
    <3>4. {k \in ItemsFor(o, t.cb, t.event) : k <= t.item} = ItemsFor(o, t.cb, t.event)
      <4>1. ~Frozen(o, t.event)
        BY <1>1, <3>2 DEF FrameGood
      <4>2. \A k \in ItemsFor(o, t.cb, t.event) : ~(k > t.item)
        BY <4>1 DEF More
      <4>3. t.item \in Nat /\ t.cb \in Cbs
        BY <1>1, <1>7, ObjTyped DEF FrameData
      <4>4. /\ ItemsFor(o, t.cb, t.event) \subseteq 1 .. Len(o.cb[t.cb].items)
            /\ Len(o.cb[t.cb].items) \in Nat
        BY <1>1, <4>3, ObjTyped
      <4>5. \A k \in ItemsFor(o, t.cb, t.event) : k \in 1 .. Len(o.cb[t.cb].items)
        BY <4>4
      <4>6. \A k \in ItemsFor(o, t.cb, t.event) : k <= t.item
        BY <4>2, <4>3, <4>4, <4>5
      <4> QED BY <4>6
    <3> HIDE DEF t
    <3>5. c \in Past(o, n) <=> c = t.cb \/ Above(o, t.cb, c)
      BY <2>4
    <3> QED BY <2>6, <3>1, <3>3, <3>4, <3>5
  <2> QED BY <2>5, <2>6
<1>11. n \in 0 .. Len(p.callbacks)
  BY <1>4, <1>7
<1>12. Walking(p, n)
  BY <1>4, <1>9, <1>10, <1>11 DEF Walking
<1> QED BY <1>12 DEF p, g, n

LEMMA ResumeRight ==
  ASSUME NEW o, Right(o), o.frames # <<>>
  PROVE  Right(Resume(o))
<1>1. CASE o.stopped \/ (Top(o).event \in Restart /\ o.current[Top(o).event] = 0)
  <2>1. Resume(o) = Leave(o)
    BY <1>1 DEF Resume
  <2>2. Leaving(o)
    BY <1>1, ResumeLeaves
  <2> QED BY <2>1, <2>2, LeaveRight
<1>2. CASE ~(o.stopped \/ (Top(o).event \in Restart /\ o.current[Top(o).event] = 0)) /\ More(o) # {}
  <2>1. Resume(o) = WithTop(o, NextItem(o))
    BY <1>2 DEF Resume, NextItem
  <2> QED BY <1>2, <2>1, MoreRight
<1>3. CASE ~(o.stopped \/ (Top(o).event \in Restart /\ o.current[Top(o).event] = 0)) /\ More(o) = {}
  <2> DEFINE p == WithTop(o, Ready(o))
             n == Top(o).idx + Top(o).inserted - 1
  <2>1. Resume(o) = Walk(p, n)
    BY <1>3 DEF Resume, Ready
  <2>2. Walking(p, n)
    BY <1>3, ResumeWalks
  <2> HIDE DEF p, n
  <2> QED BY <2>1, <2>2, WalkRight
<1> QED BY <1>1, <1>2, <1>3

-----------------------------------------------------------------------------
(* User code.                                                              *)

(* What user code does to the emission i before it emits anything itself.  *)
Suspended(o, p, i) ==
  LET f == o.frames[i]
      g == p.frames[i]
  IN /\ SameFrame(f, g) /\ g.called = f.called /\ g.idx = f.idx
     /\ g.owner = f.owner /\ g.before = f.before
     /\ f.excused => g.excused
     /\ \E q \in DOMAIN p.callbacks : StandsAt(p, g, q)
     /\ "editInArray" \notin Liberties /\ Between(o, f) =>
          ~p.cb[f.cb].deleted /\ p.callbacks[g.idx] = f.cb
     /\ Frozen(p, g.event) => g.excused

SameCalls(o, p) ==
  /\ Len(p.frames) = Len(o.frames)
  /\ \A i \in 1 .. Len(o.frames) : p.frames[i].cb = o.frames[i].cb /\ p.frames[i].item = o.frames[i].item

(* User code makes p of o and calls nothing by that.                       *)
Becomes(o, p) == Right(p) /\ SameCalls(o, p)

LEMMA UserRight ==
  ASSUME NEW o, Right(o), NEW p, ListGood(p), Len(p.frames) = Len(o.frames),
         Agree(o, p, Len(o.frames)), \A i \in 1 .. Len(o.frames) : Suspended(o, p, i),
         p.current = o.current, Len(o.callbacks) <= Len(p.callbacks),
         p.stopped => \A j \in 1 .. Len(o.frames) : Same(o, Len(o.frames), j) => p.frames[j].excused
  PROVE  Becomes(o, p)
<1> DEFINE m == Len(o.frames)
<1>1. /\ o \in ObjData /\ p \in ObjData /\ m \in Nat /\ FramesGood(o)
      /\ DOMAIN o.frames = 1 .. m /\ DOMAIN p.frames = 1 .. m
      /\ \A i \in 1 .. m : o.frames[i] \in FrameData /\ p.frames[i] \in FrameData
  BY FrameTyped DEF Right, ListGood
<1> HIDE DEF m
<1>2. ASSUME NEW i \in 1 .. m
      PROVE  /\ o.frames[i] \in FrameData /\ p.frames[i] \in FrameData
             /\ o.frames[i].generation = i /\ FrameGood(o, o.frames[i])
             /\ SameFrame(o.frames[i], p.frames[i]) /\ Suspended(o, p, i)
             /\ p.frames[i].event = o.frames[i].event /\ p.frames[i].generation = i
             /\ p.frames[i].called = o.frames[i].called
             /\ p.frames[i].owner = o.frames[i].owner /\ p.frames[i].before = o.frames[i].before
             /\ o.frames[i].excused => p.frames[i].excused
  BY <1>1 DEF Suspended, SameFrame, FramesGood, m
<1>3. ASSUME NEW i \in 1 .. m PROVE FrameGood(p, p.frames[i])
  <2> DEFINE f == o.frames[i]
             g == p.frames[i]
  <2>1. f \in FrameData /\ g \in FrameData /\ f.generation \in 1 .. m /\ SameFrame(f, g) /\ FrameGood(o, f)
    BY <1>2
  <2>2. /\ \E q \in DOMAIN p.callbacks : StandsAt(p, g, q)
        /\ "editInArray" \notin Liberties /\ Between(o, f) =>
             ~p.cb[f.cb].deleted /\ p.callbacks[g.idx] = f.cb
        /\ Frozen(p, g.event) => g.excused
    BY <1>2 DEF Suspended
  <2> HIDE DEF f, g
  <2>3. FrameGood(p, g)
    BY <1>1, <2>1, <2>2, FrameKept DEF m
  <2> QED BY <2>3 DEF g
<1>4. StopsRight(p)
  <2> SUFFICES ASSUME NEW i \in 1 .. m, NEW j \in 1 .. m, StopSeen(p, i), j <= i, Same(p, i, j)
               PROVE  p.frames[j].excused
    BY <1>1 DEF StopsRight
  <2>1. Same(o, i, j)
    BY <1>2 DEF Same
  <2>2. CASE i = m
    <3>1. p.stopped
      BY <2>2 DEF StopSeen, m
    <3> QED BY <2>1, <2>2, <3>1 DEF m
  <2>3. CASE i # m
    <3>1. i + 1 \in 1 .. m
      BY <1>1, <2>3
    <3>2. StopSeen(o, i)
      BY <1>2, <2>3, <3>1 DEF StopSeen, m
    <3>3. o.frames[j].excused
      BY <1>1, <2>1, <3>2 DEF FramesGood, StopsRight
    <3> QED BY <1>2, <3>3
  <2> QED BY <2>2, <2>3
<1>5. OwnersRight(p)
  <2>1. ASSUME NEW i \in 1 .. m, p.frames[i].event \in Restart
        PROVE  p.frames[i].owner <=> \A q \in 1 .. i - 1 : p.frames[q].event # p.frames[i].event
    <3>1. \A q \in 1 .. i - 1 : p.frames[q].event = o.frames[q].event
      <4> TAKE q \in 1 .. i - 1
      <4>1. q \in 1 .. m
        BY <1>1
      <4> QED BY <1>2, <4>1
    <3>2. o.frames[i].owner <=> \A q \in 1 .. i - 1 : o.frames[q].event # o.frames[i].event
      BY <1>1, <1>2, <2>1 DEF FramesGood, OwnersRight
    <3> QED BY <1>2, <3>1, <3>2
  <2>2. ASSUME NEW r \in Restart
        PROVE  /\ p.current[r] = Absent <=> \A i \in 1 .. m : p.frames[i].event # r
               /\ p.current[r] <= Len(p.callbacks)
    <3>1. /\ o.current[r] = Absent <=> \A i \in 1 .. m : o.frames[i].event # r
          /\ o.current[r] <= Len(o.callbacks)
      BY <1>1 DEF FramesGood, OwnersRight
    <3>2. o.current[r] <= Len(p.callbacks)
      <4>1. o.current[r] \in Nat \cup {Absent} /\ Len(o.callbacks) \in Nat /\ Len(p.callbacks) \in Nat
        BY <1>1, ObjTyped DEF ObjData
      <4> QED BY <3>1, <4>1 DEF Absent
    <3> QED BY <1>2, <3>1, <3>2
  <2> QED BY <1>1, <2>1, <2>2 DEF OwnersRight
<1>6. ASSUME NoneSkipped PROVE WalksRight(p)
  <2>1. WalksRight(o)
    BY <1>6 DEF Right
  <2> SUFFICES ASSUME NEW i \in 1 .. m
               PROVE  LET f == p.frames[i]
                      IN /\ f.event \in Restart => IsInjective(f.called)
                         /\ ~f.excused /\ f.event \notin Restart => Reached(p, f)
                         /\ ~f.excused /\ f.event \in Restart /\ f.owner =>
                              \A k \in 1 .. m : LastOf(p, k, f.event) => ReachedTogether(p, f, p.frames[k])
    BY <1>1 DEF WalksRight
  <2> DEFINE f == o.frames[i]
             g == p.frames[i]
  <2>2. f.event \in Restart => IsInjective(f.called)
    BY <1>1, <2>1 DEF WalksRight
  <2>3. /\ SameFrame(f, g) /\ g.event = f.event /\ g.due = f.due /\ g.called = f.called
        /\ g.owner = f.owner /\ (f.excused => g.excused)
    BY <1>2 DEF SameFrame
  <2>4. f.due \subseteq Listed(o) /\ f.cb \in Listed(o)
    BY <1>2 DEF FrameGood, DueRight
  <2>5. ASSUME ~g.excused, g.event \notin Restart PROVE Reached(p, g)
    <3>1. Reached(o, f)
      BY <1>1, <2>1, <2>3, <2>5 DEF WalksRight
    <3> HIDE DEF f, g
    <3> QED BY <2>3, <2>4, <2>5, <3>1, ReachedKept
  <2>6. ASSUME ~g.excused, g.event \in Restart, g.owner, NEW k \in 1 .. m, LastOf(p, k, g.event)
        PROVE  ReachedTogether(p, g, p.frames[k])
    <3> DEFINE h == o.frames[k]
               x == p.frames[k]
    <3>1. LastOf(o, k, f.event)
      BY <1>1, <1>2, <2>3, <2>6 DEF LastOf
    <3>2. ReachedTogether(o, f, h)
      BY <1>1, <2>1, <2>3, <2>6, <3>1 DEF WalksRight
    <3>3. x.cb = h.cb /\ x.idx = h.idx /\ h.cb \in Listed(o)
      BY <1>2 DEF Suspended, SameFrame, FrameGood, DueRight
    <3>4. p.current[f.event] = o.current[f.event]
      OBVIOUS
    <3> HIDE DEF f, g, h, x
    <3>5. ReachedTogether(p, g, x)
      BY <2>3, <2>4, <3>2, <3>3, <3>4, TogetherKept
    <3> QED BY <3>5 DEF x
  <2> HIDE DEF f
  <2>7. g.event \in Restart => IsInjective(g.called)
    BY <2>2, <2>3
  <2> HIDE DEF g
  <2> QED BY <2>5, <2>6, <2>7 DEF g
<1>7. FramesGood(p)
  BY <1>1, <1>2, <1>3, <1>4, <1>5 DEF FramesGood
<1>8. SameCalls(o, p)
  BY <1>2 DEF SameCalls, SameFrame, m
<1> QED BY <1>6, <1>7, <1>8 DEF Right, Becomes

(* Nothing is going on.                                                    *)
LEMMA IdleRight ==
  ASSUME NEW p, ListGood(p), p.frames = <<>>, \A r \in Restart : p.current[r] = Absent
  PROVE  Right(p)
<1>1. p \in ObjData /\ DOMAIN p.frames = {} /\ Len(p.callbacks) \in Nat
  BY ObjTyped DEF ListGood
<1>2. OwnersRight(p)
  BY <1>1 DEF OwnersRight, Absent
<1>3. FramesGood(p)
  BY <1>1, <1>2 DEF FramesGood, StopsRight
<1>4. WalksRight(p)
  BY <1>1 DEF WalksRight
<1> QED BY <1>3, <1>4 DEF Right

(* Emissions that user code itself has kept from some listener.            *)
Excused(o, S) ==
  [i \in DOMAIN o.frames |-> IF i \in S THEN [o.frames[i] EXCEPT !.excused = TRUE] ELSE o.frames[i]]

LEMMA ExcusedIs ==
  ASSUME NEW o \in ObjData, NEW S
  PROVE  /\ Excused(o, S) \in Seq(FrameData) /\ Len(Excused(o, S)) = Len(o.frames)
         /\ \A i \in 1 .. Len(o.frames) :
              LET f == o.frames[i]
                  g == Excused(o, S)[i]
              IN /\ f \in FrameData /\ g \in FrameData
                 /\ SameFrame(f, g) /\ g.called = f.called /\ g.idx = f.idx /\ g.inserted = f.inserted
                 /\ g.owner = f.owner /\ g.before = f.before
                 /\ (f.excused => g.excused) /\ (i \in S => g.excused)
<1> DEFINE m == Len(o.frames)
           s == Excused(o, S)
<1>1. m \in Nat /\ DOMAIN o.frames = 1 .. m /\ \A i \in 1 .. m : o.frames[i] \in FrameData
  BY FrameTyped
<1>2. s = [i \in 1 .. m |-> s[i]]
  BY <1>1 DEF Excused
<1>3. ASSUME NEW i \in 1 .. m
      PROVE  s[i] = IF i \in S THEN [o.frames[i] EXCEPT !.excused = TRUE] ELSE o.frames[i]
  BY <1>1 DEF Excused
<1> HIDE DEF s
<1>4. ASSUME NEW i \in 1 .. m
      PROVE  LET f == o.frames[i]
                 g == s[i]
             IN /\ f \in FrameData /\ g \in FrameData
                /\ SameFrame(f, g) /\ g.called = f.called /\ g.idx = f.idx /\ g.inserted = f.inserted
                /\ g.owner = f.owner /\ g.before = f.before
                /\ (f.excused => g.excused) /\ (i \in S => g.excused)
  <2>1. CASE i \in S
    <3>1. s[i] = [o.frames[i] EXCEPT !.excused = TRUE] /\ o.frames[i] \in FrameData
      BY <1>1, <1>3, <2>1
    <3> QED BY <3>1 DEF FrameData, SameFrame
  <2>2. CASE i \notin S
    BY <1>1, <1>3, <2>2 DEF SameFrame
  <2> QED BY <2>1, <2>2
<1> HIDE DEF m
<1>5. s \in Seq(FrameData) /\ Len(s) = m
  <2>1. \A i \in 1 .. m : s[i] \in FrameData
    BY <1>4
  <2> QED BY <1>1, <1>2, <2>1, SameLength DEF m
<1> QED BY <1>4, <1>5 DEF s, m

LEMMA ExcusedRight ==
  ASSUME NEW o, Right(o), NEW S, NEW p \in ObjData,
         p.callbacks = o.callbacks, p.cb = o.cb, p.adds = o.adds, p.dels = o.dels,
         p.cleaning = o.cleaning, p.current = o.current, p.frames = Excused(o, S),
         p.stopped => \A j \in 1 .. Len(o.frames) :
                        Same(o, Len(o.frames), j) => j \in S \/ o.frames[j].excused,
         \A j \in 1 .. Len(o.frames) :
            Frozen(p, o.frames[j].event) => j \in S \/ o.frames[j].excused
  PROVE  Becomes(o, p)
<1> DEFINE m == Len(o.frames)
<1>1. o \in ObjData /\ ListGood(o) /\ m \in Nat /\ DOMAIN o.frames = 1 .. m /\ DOMAIN p.frames = 1 .. m
      /\ Len(p.frames) = m
  <2>1. o \in ObjData /\ ListGood(o)
    BY DEF Right, ListGood
  <2> QED BY <2>1, FrameTyped, ExcusedIs
<1>2. ASSUME NEW i \in 1 .. m
      PROVE  LET f == o.frames[i]
                 g == p.frames[i]
             IN /\ f \in FrameData /\ g \in FrameData
                /\ SameFrame(f, g) /\ g.called = f.called /\ g.idx = f.idx /\ g.inserted = f.inserted
                /\ g.owner = f.owner /\ g.before = f.before
                /\ (f.excused => g.excused) /\ (i \in S => g.excused)
  BY <1>1, ExcusedIs
<1>3. Generation(p) = Generation(o) /\ Generation(o) \in Nat
      /\ (o.frames # <<>> => p.frames # <<>>)
  <2>1. (o.frames = <<>> <=> m = 0) /\ (p.frames = <<>> <=> m = 0)
    BY <1>1, FrameTyped
  <2>2. CASE m = 0
    BY <1>1, <2>1, <2>2, GenerationRight
  <2>3. CASE m # 0
    <3>1. m \in 1 .. m
      BY <1>1, <2>3
    <3>2. Generation(p) = p.frames[m].generation /\ Generation(o) = o.frames[m].generation
      BY <1>1, <2>1, <2>3, GenerationRight
    <3> QED BY <1>1, <1>2, <2>1, <2>3, <3>1, <3>2, GenerationRight DEF SameFrame
  <2> QED BY <2>2, <2>3
<1>4. ListGood(p)
  <2>1. Generation(o) <= Generation(p)
    BY <1>3
  <2> QED BY <1>1, <1>3, <2>1, GoodKept
<1>5. Agree(o, p, m) /\ Listed(p) = Listed(o)
  BY <1>1, AgreeSelf
<1>6. ASSUME NEW i \in 1 .. m PROVE Suspended(o, p, i)
  <2> DEFINE f == o.frames[i]
             g == p.frames[i]
  <2>1. FrameGood(o, f)
    BY <1>1 DEF Right, FramesGood
  <2>2. /\ SameFrame(f, g) /\ g.called = f.called /\ g.idx = f.idx /\ g.inserted = f.inserted
        /\ g.owner = f.owner /\ g.before = f.before
        /\ (f.excused => g.excused) /\ (i \in S => g.excused)
    BY <1>2
  <2>3. Frozen(p, g.event) => g.excused
    BY <1>1, <2>2 DEF SameFrame
  <2> HIDE DEF f, g
  <2>4. \E q \in DOMAIN p.callbacks : StandsAt(p, g, q)
    <3>1. PICK q \in DOMAIN o.callbacks : StandsAt(o, f, q)
      BY <2>1 DEF FrameGood
    <3>2. StandsAt(p, g, q)
      BY <2>2, <3>1 DEF StandsAt, SameFrame
    <3> QED BY <3>1, <3>2
  <2>5. "editInArray" \notin Liberties /\ Between(o, f) => ~p.cb[f.cb].deleted /\ p.callbacks[g.idx] = f.cb
    BY <2>1, <2>2 DEF FrameGood
  <2> QED BY <2>2, <2>3, <2>4, <2>5 DEF Suspended, f, g
<1>7. p.stopped => \A j \in 1 .. m : Same(o, m, j) => p.frames[j].excused
  BY <1>1, <1>2
<1>8. Len(o.callbacks) <= Len(p.callbacks)
  <2>1. Len(o.callbacks) \in Nat
    BY <1>1, ObjTyped
  <2> QED BY <2>1
<1> HIDE DEF m
<1> QED BY <1>1, <1>4, <1>5, <1>6, <1>7, <1>8, UserRight DEF m

LEMMA StopRight ==
  ASSUME NEW o, Right(o), o.frames # <<>>
  PROVE  LET e == Top(o).event
         IN Becomes(o, [o EXCEPT !.stopped = TRUE,
                            !.frames = Excused(o, {i \in DOMAIN o.frames :
                              i = Len(o.frames) \/ (e \in Restart /\ o.frames[i].event = e)})])
<1> DEFINE e == Top(o).event
           m == Len(o.frames)
           S == {i \in DOMAIN o.frames : i = m \/ (e \in Restart /\ o.frames[i].event = e)}
           s == Excused(o, S)
           p == [o EXCEPT !.stopped = TRUE, !.frames = s]
<1>1. o \in ObjData /\ m \in Nat /\ DOMAIN o.frames = 1 .. m /\ Top(o) = o.frames[m]
      /\ \A i \in 1 .. m : o.frames[i].generation = i /\ FrameGood(o, o.frames[i])
  BY RightUnder DEF Right, FramesGood
<1>2. s \in Seq(FrameData)
  BY <1>1, ExcusedIs
<1> HIDE DEF s
<1>3. /\ p \in ObjData /\ p.callbacks = o.callbacks /\ p.cb = o.cb /\ p.adds = o.adds
      /\ p.dels = o.dels /\ p.cleaning = o.cleaning /\ p.current = o.current /\ p.frames = s
      /\ p.freeze = o.freeze
  BY <1>1, <1>2 DEF ObjData
<1> HIDE DEF p
<1>4. \A j \in 1 .. m : Same(o, m, j) => j \in S
  BY <1>1 DEF Same
<1>5. \A j \in 1 .. m : Frozen(p, o.frames[j].event) => o.frames[j].excused
  BY <1>1, <1>3 DEF Frozen, FrameGood
<1> HIDE DEF S
<1>6. Becomes(o, p)
  BY <1>3, <1>4, <1>5, ExcusedRight DEF s
<1> QED BY <1>6 DEF p, s, S

LEMMA FreezeRight ==
  ASSUME NEW o, Right(o)
  PROVE  Becomes(o, [o EXCEPT !.freeze = o.freeze + 1,
                         !.frames = Excused(o, {i \in DOMAIN o.frames : o.frames[i].event \notin Unfreezable})])
<1> DEFINE m == Len(o.frames)
           S == {i \in DOMAIN o.frames : o.frames[i].event \notin Unfreezable}
           s == Excused(o, S)
           z == o.freeze + 1
           p == [o EXCEPT !.freeze = z, !.frames = s]
<1>1. o \in ObjData /\ m \in Nat /\ DOMAIN o.frames = 1 .. m
      /\ StopsRight(o) /\ z \in Nat
  <2>1. o \in ObjData
    BY DEF Right, ListGood
  <2>2. o.freeze \in Nat
    BY <2>1 DEF ObjData
  <2> QED BY <2>1, <2>2, FrameTyped DEF Right, FramesGood
<1>2. s \in Seq(FrameData)
  BY <1>1, ExcusedIs
<1> HIDE DEF s, z
<1>3. /\ p \in ObjData /\ p.callbacks = o.callbacks /\ p.cb = o.cb /\ p.adds = o.adds
      /\ p.dels = o.dels /\ p.cleaning = o.cleaning /\ p.current = o.current /\ p.frames = s
      /\ p.stopped = o.stopped
  BY <1>1, <1>2 DEF ObjData
<1> HIDE DEF p
<1>4. ASSUME p.stopped, NEW j \in 1 .. m, Same(o, m, j) PROVE o.frames[j].excused
  <2>1. StopSeen(o, m) /\ m \in 1 .. m /\ j <= m
    BY <1>1, <1>3, <1>4 DEF StopSeen
  <2> QED BY <1>1, <1>4, <2>1 DEF StopsRight
<1>5. \A j \in 1 .. m : Frozen(p, o.frames[j].event) => j \in S
  BY <1>1 DEF Frozen
<1> HIDE DEF S
<1>6. Becomes(o, p)
  BY <1>3, <1>4, <1>5, ExcusedRight DEF s
<1> QED BY <1>6 DEF p, s, S, z

LEMMA ThawRight ==
  ASSUME NEW o, Right(o), o.freeze > 0
  PROVE  Becomes(o, [o EXCEPT !.freeze = o.freeze - 1])
<1> DEFINE m == Len(o.frames)
           z == o.freeze - 1
           p == [o EXCEPT !.freeze = z]
<1>1. /\ o \in ObjData /\ m \in Nat /\ DOMAIN o.frames = 1 .. m /\ o.frames \in Seq(FrameData)
      /\ \A i \in 1 .. m : FrameGood(o, o.frames[i])
      /\ StopsRight(o) /\ z \in Nat
  <2>1. o \in ObjData
    BY DEF Right, ListGood
  <2>2. o.freeze \in Nat /\ o.frames \in Seq(FrameData)
    BY <2>1 DEF ObjData
  <2>3. z \in Nat
    BY <2>2
  <2> QED BY <2>1, <2>2, <2>3, FrameTyped DEF Right, FramesGood
<1> HIDE DEF z
<1>2. Excused(o, {}) = o.frames
  BY <1>1 DEF Excused
<1>3. /\ p \in ObjData /\ p.callbacks = o.callbacks /\ p.cb = o.cb /\ p.adds = o.adds
      /\ p.dels = o.dels /\ p.cleaning = o.cleaning /\ p.current = o.current
      /\ p.frames = Excused(o, {}) /\ p.stopped = o.stopped
  BY <1>1, <1>2 DEF ObjData
<1> HIDE DEF p
<1>4. ASSUME p.stopped, NEW j \in 1 .. m, Same(o, m, j) PROVE o.frames[j].excused
  <2>1. StopSeen(o, m) /\ m \in 1 .. m /\ j <= m
    BY <1>1, <1>3, <1>4 DEF StopSeen
  <2> QED BY <1>1, <1>4, <2>1 DEF StopsRight
<1>5. \A j \in 1 .. m : Frozen(p, o.frames[j].event) => o.frames[j].excused
  <2>1. \A j \in 1 .. m : Frozen(p, o.frames[j].event) => Frozen(o, o.frames[j].event)
    BY DEF Frozen
  <2> QED BY <1>1, <2>1 DEF FrameGood
<1>6. Becomes(o, p)
  BY <1>3, <1>4, <1>5, ExcusedRight
<1> QED BY <1>6 DEF p, z

Marked(o, c) == [o EXCEPT !.cb[c].deleted = TRUE]

LEMMA MarkedIs ==
  ASSUME NEW o \in ObjData, NEW c \in Cbs
  PROVE  LET p == Marked(o, c)
         IN /\ p \in ObjData /\ p.callbacks = o.callbacks /\ p.freeze = o.freeze
            /\ p.stopped = o.stopped /\ p.cleaning = o.cleaning /\ p.adds = o.adds
            /\ p.dels = o.dels /\ p.current = o.current /\ p.frames = o.frames
            /\ \A d \in Cbs : /\ d # c => p.cb[d] = o.cb[d]
                              /\ p.cb[d].mem = o.cb[d].mem /\ p.cb[d].items = o.cb[d].items
                              /\ p.cb[d].priority = o.cb[d].priority
                              /\ p.cb[d].generation = o.cb[d].generation
                              /\ o.cb[d].deleted => p.cb[d].deleted
<1> DEFINE b == [o.cb[c] EXCEPT !.deleted = TRUE]
           z == [o.cb EXCEPT ![c] = b]
           p == [o EXCEPT !.cb = z]
<1>1. o.cb \in [Cbs -> CbData] /\ o.cb[c] \in CbData
  BY DEF ObjData
<1>2. b \in CbData /\ b.mem = o.cb[c].mem /\ b.items = o.cb[c].items /\ b.priority = o.cb[c].priority
      /\ b.generation = o.cb[c].generation /\ b.deleted
  BY <1>1 DEF CbData
<1>3. Marked(o, c) = p
  BY DEF Marked
<1> HIDE DEF b
<1>4. z \in [Cbs -> CbData] /\ z[c] = b /\ \A d \in Cbs : d # c => z[d] = o.cb[d]
  BY <1>1, <1>2
<1> HIDE DEF z
<1>5. /\ p \in ObjData /\ p.callbacks = o.callbacks /\ p.freeze = o.freeze
      /\ p.stopped = o.stopped /\ p.cleaning = o.cleaning /\ p.adds = o.adds
      /\ p.dels = o.dels /\ p.current = o.current /\ p.frames = o.frames /\ p.cb = z
  BY <1>4 DEF ObjData
<1> HIDE DEF p
<1>6. ASSUME NEW d \in Cbs
      PROVE  /\ d # c => p.cb[d] = o.cb[d]
             /\ p.cb[d].mem = o.cb[d].mem /\ p.cb[d].items = o.cb[d].items
             /\ p.cb[d].priority = o.cb[d].priority
             /\ p.cb[d].generation = o.cb[d].generation
             /\ o.cb[d].deleted => p.cb[d].deleted
  <2>1. CASE d = c
    BY <1>2, <1>4, <1>5, <2>1
  <2>2. CASE d # c
    BY <1>4, <1>5, <2>2
  <2> QED BY <2>1, <2>2
<1> QED BY <1>3, <1>5, <1>6

(* A callback deleted while emissions walk the list.                       *)
LEMMA MarkedRight ==
  ASSUME NEW o, Right(o), o.frames # <<>>, NEW c \in Cbs,
         \A i \in 1 .. Len(o.frames) :
            o.frames[i].cb = c /\ Between(o, o.frames[i]) => "editInArray" \in Liberties
  PROVE  Becomes(o, [Marked(o, c) EXCEPT !.cleaning = TRUE])
<1> DEFINE m == Len(o.frames)
           q == Marked(o, c)
           p == [q EXCEPT !.cleaning = TRUE]
<1>1. /\ o \in ObjData /\ ListGood(o) /\ m \in Nat /\ DOMAIN o.frames = 1 .. m /\ FramesGood(o)
      /\ \A i \in 1 .. m : o.frames[i] \in FrameData
  <2>1. o \in ObjData
    BY DEF Right, ListGood
  <2> QED BY <2>1, FrameTyped DEF Right
<1>2. /\ q \in ObjData /\ q.callbacks = o.callbacks /\ q.freeze = o.freeze
      /\ q.stopped = o.stopped /\ q.cleaning = o.cleaning /\ q.adds = o.adds
      /\ q.dels = o.dels /\ q.current = o.current /\ q.frames = o.frames
      /\ \A d \in Cbs : /\ d # c => q.cb[d] = o.cb[d]
                        /\ q.cb[d].mem = o.cb[d].mem /\ q.cb[d].items = o.cb[d].items
                        /\ q.cb[d].priority = o.cb[d].priority
                        /\ q.cb[d].generation = o.cb[d].generation
                        /\ o.cb[d].deleted => q.cb[d].deleted
  BY <1>1, MarkedIs
<1> HIDE DEF q
<1>3. /\ p \in ObjData /\ p.callbacks = q.callbacks /\ p.freeze = q.freeze
      /\ p.stopped = q.stopped /\ p.cleaning = TRUE /\ p.adds = q.adds
      /\ p.dels = q.dels /\ p.current = q.current /\ p.frames = q.frames /\ p.cb = q.cb
  BY <1>2 DEF ObjData
<1> HIDE DEF p
<1>4. ListWhole(p) /\ Listed(p) = Listed(o) /\ Listed(o) \subseteq Cbs
  <2>1. ListWhole(o) /\ SameList(o, p)
    BY <1>1, <1>2, <1>3 DEF ListWhole, ListGood, SameList
  <2> QED BY <1>1, <1>3, <2>1, ListKept, ObjTyped
<1>5. Generation(p) = Generation(o)
  BY <1>2, <1>3 DEF Generation, Top
<1>6. ListGood(p)
  <2>1. Generations(p)
    <3>1. \A d \in Listed(p) : p.cb[d].generation <= Generation(p)
      BY <1>1, <1>2, <1>3, <1>4, <1>5 DEF ListGood, Generations
    <3> QED BY <1>3, <3>1 DEF Generations
  <2>2. Deletions(p)
    BY <1>2, <1>3 DEF Deletions
  <2> QED BY <1>4, <2>1, <2>2 DEF ListGood, ListWhole
<1>7. Agree(o, p, m)
  BY <1>2, <1>3, <1>4 DEF Agree
<1>8. ASSUME NEW i \in 1 .. m PROVE Suspended(o, p, i)
  <2> DEFINE f == o.frames[i]
  <2>1. FrameGood(o, f) /\ p.frames[i] = f /\ f \in FrameData
    BY <1>1, <1>2, <1>3 DEF FramesGood
  <2>2. f.cb \in Listed(o) /\ f.cb \in Cbs
    BY <1>4, <2>1 DEF FrameGood, DueRight
  <2>3. SameFrame(f, f)
    BY DEF SameFrame
  <2>4. \E k \in DOMAIN p.callbacks : StandsAt(p, f, k)
    <3>1. PICK k \in DOMAIN o.callbacks : StandsAt(o, f, k)
      BY <2>1 DEF FrameGood
    <3>2. \A y \in 1 .. k - 1 : p.cb[p.callbacks[y]].generation = o.cb[o.callbacks[y]].generation
      <4> TAKE y \in 1 .. k - 1
      <4>1. y \in 1 .. Len(o.callbacks) /\ k \in 1 .. Len(o.callbacks)
        BY <1>1, <3>1, ObjTyped
      <4>2. o.callbacks[y] \in Cbs
        BY <1>1, <4>1, ObjTyped
      <4> QED BY <1>2, <1>3, <4>2
    <3>3. StandsAt(p, f, k)
      BY <1>2, <1>3, <3>1, <3>2 DEF StandsAt
    <3> QED BY <1>2, <1>3, <3>1, <3>3
  <2>5. "editInArray" \notin Liberties /\ Between(o, f) => ~p.cb[f.cb].deleted /\ p.callbacks[f.idx] = f.cb
    <3> SUFFICES ASSUME "editInArray" \notin Liberties, Between(o, f)
                 PROVE  ~p.cb[f.cb].deleted /\ p.callbacks[f.idx] = f.cb
      OBVIOUS
    <3>1. f.cb # c
      OBVIOUS
    <3>2. ~o.cb[f.cb].deleted /\ o.callbacks[f.idx] = f.cb
      BY <2>1 DEF FrameGood
    <3> QED BY <1>2, <1>3, <2>2, <3>1, <3>2
  <2>6. Frozen(p, f.event) => f.excused
    BY <1>2, <1>3, <2>1 DEF FrameGood, Frozen
  <2> HIDE DEF f
  <2> QED BY <2>1, <2>3, <2>4, <2>5, <2>6 DEF Suspended, f
<1>9. ASSUME p.stopped, NEW j \in 1 .. m, Same(o, m, j) PROVE p.frames[j].excused
  <2>1. StopSeen(o, m) /\ m \in 1 .. m /\ j <= m
    BY <1>1, <1>2, <1>3, <1>9 DEF StopSeen
  <2> QED BY <1>1, <1>2, <1>3, <1>9, <2>1 DEF FramesGood, StopsRight
<1>10. Len(o.callbacks) <= Len(p.callbacks) /\ Len(p.frames) = m /\ p.current = o.current
  <2>1. Len(o.callbacks) \in Nat
    BY <1>1, ObjTyped
  <2> QED BY <1>2, <1>3, <2>1
<1> HIDE DEF m
<1>11. Becomes(o, p)
  BY <1>6, <1>7, <1>8, <1>9, <1>10, UserRight DEF m
<1> QED BY <1>11 DEF p, q

(* A callback deleted while nothing is going on.                           *)
LEMMA UnlistedRight ==
  ASSUME NEW o, Right(o), o.frames = <<>>, NEW c \in Cbs, o.cb[c].mem = "live"
  PROVE  Becomes(o, Removed(Marked(o, c), {c}))
<1> DEFINE q == Marked(o, c)
           p == Removed(q, {c})
<1>1. o \in ObjData /\ ListGood(o) /\ FramesGood(o) /\ c \in Listed(o)
  BY DEF Right, ListGood, Live
<1>2. /\ q \in ObjData /\ q.callbacks = o.callbacks /\ q.freeze = o.freeze
      /\ q.stopped = o.stopped /\ q.cleaning = o.cleaning /\ q.adds = o.adds
      /\ q.dels = o.dels /\ q.current = o.current /\ q.frames = o.frames
      /\ \A d \in Cbs : /\ d # c => q.cb[d] = o.cb[d]
                        /\ q.cb[d].mem = o.cb[d].mem /\ q.cb[d].items = o.cb[d].items
                        /\ q.cb[d].priority = o.cb[d].priority
                        /\ q.cb[d].generation = o.cb[d].generation
                        /\ o.cb[d].deleted => q.cb[d].deleted
  BY <1>1, MarkedIs
<1> HIDE DEF q
<1>3. ListWhole(q) /\ Listed(q) = Listed(o) /\ Listed(o) \subseteq Cbs
  <2>1. ListWhole(o) /\ SameList(o, q)
    BY <1>1, <1>2 DEF ListWhole, ListGood, SameList
  <2> QED BY <1>1, <1>2, <2>1, ListKept, ObjTyped
<1>4. /\ ListWhole(p) /\ Listed(p) = Listed(o) \ {c}
      /\ p = [q EXCEPT !.callbacks = p.callbacks, !.cb = p.cb, !.adds = p.adds, !.dels = p.dels]
      /\ \A d \in Cbs \ {c} : p.cb[d] = q.cb[d]
  <2> DEFINE S == {c}
  <2>1. S \in SUBSET Listed(q)
    BY <1>1, <1>3
  <2> HIDE DEF S
  <2>2. LET r == Removed(q, S)
        IN /\ ListWhole(r) /\ Listed(r) = Listed(q) \ S
           /\ r = [q EXCEPT !.callbacks = r.callbacks, !.cb = r.cb, !.adds = r.adds, !.dels = r.dels]
           /\ \A d \in Cbs \ S : r.cb[d] = q.cb[d]
    BY <1>3, <2>1, RemovedRight
  <2> QED BY <1>3, <2>2 DEF S
<1> HIDE DEF p
<1>5. p.frames = <<>> /\ p.current = o.current /\ p.cleaning = o.cleaning /\ p \in ObjData
  <2>1. p.frames = q.frames /\ p.current = q.current /\ p.cleaning = q.cleaning
    BY <1>2, <1>4 DEF ObjData
  <2> QED BY <1>2, <1>4, <2>1 DEF ListWhole
<1>6. \A d \in Listed(p) : p.cb[d] = o.cb[d] /\ d \in Listed(o)
  BY <1>2, <1>3, <1>4
<1>7. Generation(p) = 0 /\ Generation(o) = 0
  BY <1>5 DEF Generation
<1>8. Generations(p) /\ Deletions(p)
  BY <1>1, <1>5, <1>6, <1>7 DEF Generations, Deletions, ListGood
<1>9. \A r \in Restart : p.current[r] = Absent
  <2>1. DOMAIN o.frames = {}
    OBVIOUS
  <2> QED BY <1>1, <1>5, <2>1 DEF FramesGood, OwnersRight
<1>10. Right(p)
  BY <1>4, <1>5, <1>8, <1>9, IdleRight DEF ListGood, ListWhole
<1>11. SameCalls(o, p)
  BY <1>5 DEF SameCalls
<1> QED BY <1>10, <1>11 DEF Becomes, p, q

(* A callback added: the emissions that have passed its place move on.     *)
LEMMA AddedKept ==
  ASSUME NEW o, Right(o), NEW c \in Cbs, NEW kind \in Kinds,
         Unborn(o, c),
         \A i \in 1 .. Len(o.frames) :
           LET f == o.frames[i]
           IN /\ Between(o, f) => "editInArray" \in Liberties
              /\ f.idx > 1 /\ Place(o, kind.priority) \in f.idx .. f.idx + f.inserted - 1
                   => "crowdIn" \in Liberties
  PROVE  Becomes(o, Added(o, c, kind))
<1> DEFINE m == Len(o.frames)
           n == Len(o.callbacks)
           j == Place(o, kind.priority)
           p == Added(o, c, kind)
           l == o.callbacks
           r == p.callbacks
<1>1. /\ o \in ObjData /\ ListGood(o) /\ ListWhole(o) /\ m \in Nat /\ DOMAIN o.frames = 1 .. m
      /\ FramesGood(o) /\ \A i \in 1 .. m : o.frames[i] \in FrameData
      /\ n \in Nat /\ DOMAIN l = 1 .. n
  <2>1. o \in ObjData /\ ListWhole(o)
    BY DEF Right, ListGood, ListWhole
  <2> QED BY <2>1, FrameTyped, ObjTyped DEF Right
<1>2. /\ ListWhole(p) /\ Listed(p) = Listed(o) \cup {c} /\ c \notin Listed(o)
      /\ j \in 0 .. n /\ PutIn(l, r, j, c)
      /\ p.frames = Shifted(o, j)
      /\ p.cleaning = (o.cleaning \/ Generation(o) > 0)
      /\ p.freeze = o.freeze /\ p.stopped = o.stopped /\ p.current = o.current
      /\ \A d \in Cbs : d # c => p.cb[d] = o.cb[d]
      /\ p.cb[c].generation = Generation(o) /\ p.cb[c].deleted = FALSE
  <2>1. AddedAs(o, p, c, j)
    BY <1>1, AddedRight
  <2> HIDE DEF p, j
  <2> QED BY <2>1 DEF AddedAs
<1>3. \A i \in 1 .. m : /\ o.frames[i].idx > 1 /\ j \in o.frames[i].idx .. o.frames[i].idx + o.frames[i].inserted - 1
                             => "crowdIn" \in Liberties
                        /\ Between(o, o.frames[i]) => "editInArray" \in Liberties
  OBVIOUS
<1> HIDE DEF p, j
<1>4. /\ p \in ObjData /\ Len(p.frames) = m /\ DOMAIN p.frames = 1 .. m
      /\ \A i \in 1 .. m :
           p.frames[i] = [o.frames[i] EXCEPT !.inserted = IF j < o.frames[i].idx THEN @ + 1 ELSE @]
  <2>1. p \in ObjData
    BY <1>2 DEF ListWhole
  <2> QED BY <1>1, <1>2, <2>1, ShiftedRight, FrameTyped
<1>5. ASSUME NEW i \in 1 .. m
      PROVE  LET f == o.frames[i]
                 g == p.frames[i]
             IN /\ f \in FrameData /\ g \in FrameData
                /\ SameFrame(f, g) /\ g.called = f.called /\ g.idx = f.idx
                /\ g.owner = f.owner /\ g.before = f.before /\ g.excused = f.excused
                /\ g.inserted = IF j < f.idx THEN f.inserted + 1 ELSE f.inserted
                /\ f.idx \in Nat /\ f.inserted \in Nat /\ f.generation = i /\ FrameGood(o, f)
  <2>1. o.frames[i] \in FrameData /\ o.frames[i].generation = i /\ FrameGood(o, o.frames[i])
    BY <1>1 DEF FramesGood
  <2>2. p.frames[i] = [o.frames[i] EXCEPT !.inserted = IF j < o.frames[i].idx THEN @ + 1 ELSE @]
    BY <1>4
  <2>3. p.frames[i] \in FrameData
    BY <1>4, FrameTyped
  <2> QED BY <2>1, <2>2, <2>3 DEF FrameData, SameFrame
<1>6. Listed(o) \subseteq Cbs /\ \A d \in Listed(o) : p.cb[d] = o.cb[d] /\ d \in Listed(p)
  BY <1>1, <1>2, ObjTyped
<1>7. Generation(p) = Generation(o) /\ Generation(o) \in Nat /\ Generation(o) = m
      /\ (o.frames # <<>> => p.frames # <<>>)
  <2>1. (o.frames = <<>> <=> m = 0) /\ (p.frames = <<>> <=> m = 0)
    BY <1>1, <1>4, FrameTyped
  <2>2. CASE m = 0
    BY <1>1, <1>4, <2>1, <2>2, GenerationRight
  <2>3. CASE m # 0
    <3>1. m \in 1 .. m
      BY <1>1, <2>3
    <3>2. Generation(p) = p.frames[m].generation /\ Generation(o) = o.frames[m].generation
      BY <1>1, <1>4, <2>1, <2>3, GenerationRight
    <3> QED BY <1>1, <1>5, <2>1, <2>3, <3>1, <3>2, GenerationRight DEF SameFrame
  <2> QED BY <2>2, <2>3
<1>8. ListGood(p)
  <2>1. Generations(p)
    <3> SUFFICES ASSUME NEW d \in Listed(p)
                 PROVE  p.cb[d].generation <= Generation(p) /\ (~p.cleaning => p.cb[d].generation = 0)
      BY DEF Generations
    <3>1. CASE d = c
      <4>1. p.cb[d].generation = Generation(o)
        BY <1>2, <3>1
      <4>2. ~p.cleaning => ~(Generation(o) > 0)
        BY <1>2
      <4> QED BY <1>7, <4>1, <4>2
    <3>2. CASE d # c
      <4>1. d \in Listed(o) /\ p.cb[d] = o.cb[d]
        BY <1>2, <1>6, <3>2
      <4>2. o.cb[d].generation <= Generation(o) /\ (~o.cleaning => o.cb[d].generation = 0)
        BY <1>1, <4>1 DEF ListGood, Generations
      <4> QED BY <1>2, <1>7, <4>1, <4>2
    <3> QED BY <3>1, <3>2
  <2>2. Deletions(p)
    <3> SUFFICES ASSUME NEW d \in Listed(p), p.cb[d].deleted PROVE p.cleaning /\ p.frames # <<>>
      BY DEF Deletions
    <3>1. d \in Listed(o) /\ o.cb[d].deleted
      BY <1>2, <1>6
    <3> QED BY <1>1, <1>2, <1>7, <3>1 DEF ListGood, Deletions
  <2> QED BY <1>2, <2>1, <2>2 DEF ListGood, ListWhole
<1>9. Agree(o, p, m)
  <2>1. \A d \in Listed(p) \ Listed(o) : p.cb[d].generation >= m
    <3>1. \A d \in Listed(p) \ Listed(o) : d = c
      BY <1>2
    <3>2. p.cb[c].generation >= m
      BY <1>1, <1>2, <1>7
    <3> QED BY <3>1, <3>2
  <2> QED BY <1>6, <2>1 DEF Agree
<1>10. n + 1 \in Nat /\ DOMAIN r = 1 .. n + 1 /\ Len(r) = n + 1
       /\ \A k \in 1 .. n + 1 : r[k] = IF k < j + 1 THEN l[k] ELSE IF k = j + 1 THEN c ELSE l[k - 1]
  <2>1. Len(r) = n + 1 /\ DOMAIN r = 1 .. Len(r)
    BY <1>2, <1>4, ObjTyped DEF PutIn
  <2> QED BY <1>1, <1>2, <2>1 DEF PutIn
<1> HIDE DEF l, r, n, m
<1>11. ASSUME NEW i \in 1 .. m PROVE \E q \in DOMAIN r : r = p.callbacks /\ StandsAt(p, p.frames[i], q)
  <2> DEFINE f == o.frames[i]
             g == p.frames[i]
  <2>1. /\ f.idx \in Nat /\ f.inserted \in Nat /\ f.generation = i /\ FrameGood(o, f)
        /\ g.idx = f.idx /\ g.cb = f.cb /\ g.generation = i
        /\ g.inserted = IF j < f.idx THEN f.inserted + 1 ELSE f.inserted
    BY <1>5 DEF SameFrame
  <2>2. PICK q \in DOMAIN o.callbacks : StandsAt(o, f, q)
    BY <2>1 DEF FrameGood
  <2>3. f.idx > 1 /\ j \in f.idx .. f.idx + f.inserted - 1 => "crowdIn" \in Liberties
    BY <1>3
  <2> HIDE DEF f, g
  <2> DEFINE x == IF q <= j THEN q ELSE q + 1
  <2>4. q \in 1 .. n /\ n \in Nat /\ j \in 0 .. n /\ x \in 1 .. n + 1 /\ x \in DOMAIN r
    <3>1. q \in 1 .. n /\ n \in Nat /\ j \in 0 .. n
      BY <1>1, <1>2, <2>2 DEF l
    <3>2. x \in 1 .. n + 1
      BY <3>1
    <3> QED BY <1>10, <3>1, <3>2
  <2>5. r[x] = f.cb
    <3>1. l[q] = f.cb
      BY <2>2 DEF StandsAt, l
    <3>2. CASE q <= j
      <4>1. x = q /\ x < j + 1
        BY <2>4, <3>2
      <4> QED BY <1>10, <2>4, <3>1, <4>1
    <3>3. CASE ~(q <= j)
      <4>1. x = q + 1 /\ ~(x < j + 1) /\ x # j + 1 /\ x - 1 = q
        BY <2>4, <3>3
      <4> QED BY <1>10, <2>4, <3>1, <4>1
    <3> QED BY <3>2, <3>3
  <2>6. g.idx >= 1 /\ g.idx + g.inserted <= x
    <3>1. f.idx >= 1 /\ f.idx + f.inserted <= q
      BY <2>2 DEF StandsAt
    <3>2. CASE j < f.idx
      <4>1. ~(q <= j)
        BY <2>1, <2>4, <3>1, <3>2
      <4> QED BY <2>1, <2>4, <3>1, <3>2, <4>1
    <3>3. CASE ~(j < f.idx)
      BY <2>1, <2>4, <3>1, <3>3
    <3> QED BY <3>2, <3>3
  <2>7. ASSUME g.idx = 1, NEW k \in 1 .. x - 1 PROVE p.cb[r[k]].generation >= g.generation
    <3>1. \A y \in 1 .. q - 1 : o.cb[l[y]].generation >= f.generation /\ l[y] \in Listed(o)
      <4>1. \A y \in 1 .. q - 1 : y \in 1 .. n
        BY <2>4
      <4> QED BY <1>1, <2>1, <2>2, <2>7, <4>1 DEF StandsAt, Listed, ToSet, l
    <3>2. \A y \in 1 .. q - 1 : p.cb[l[y]].generation >= g.generation
      BY <1>6, <2>1, <3>1
    <3>3. CASE k < j + 1
      <4>1. k \in 1 .. q - 1 /\ k \in 1 .. n + 1
        BY <2>4, <3>3
      <4> QED BY <1>10, <3>2, <3>3, <4>1
    <3>4. CASE k = j + 1
      <4>1. r[k] = c
        <5>1. k \in 1 .. n + 1 /\ ~(k < j + 1)
          BY <2>4, <3>4
        <5> QED BY <1>10, <3>4, <5>1
      <4>2. p.cb[c].generation = m /\ i <= m
        BY <1>1, <1>2, <1>7 DEF m
      <4>3. m \in Nat
        BY <1>1 DEF m
      <4> QED BY <2>1, <4>1, <4>2, <4>3
    <3>5. CASE ~(k < j + 1) /\ k # j + 1
      <4>1. k \in 1 .. n + 1 /\ k - 1 \in 1 .. q - 1
        BY <2>4, <3>5
      <4> QED BY <1>10, <3>2, <3>5, <4>1
    <3> QED BY <3>3, <3>4, <3>5
  <2>8. ASSUME "crowdIn" \notin Liberties, g.idx > 1 PROVE g.idx + g.inserted = x
    <3>1. f.idx + f.inserted = q
      BY <2>1, <2>2, <2>8 DEF StandsAt
    <3>2. ~(j \in f.idx .. f.idx + f.inserted - 1)
      BY <2>1, <2>3, <2>8
    <3>3. CASE j < f.idx
      <4>1. ~(q <= j)
        BY <2>1, <2>4, <3>1, <3>3
      <4> QED BY <2>1, <2>4, <3>1, <3>3, <4>1
    <3>4. CASE ~(j < f.idx)
      <4>1. q <= j
        BY <2>1, <2>4, <3>1, <3>2, <3>4
      <4> QED BY <2>1, <2>4, <3>1, <3>4, <4>1
    <3> QED BY <3>3, <3>4
  <2> HIDE DEF x
  <2>9. StandsAt(p, g, x)
    BY <2>1, <2>5, <2>6, <2>7, <2>8 DEF StandsAt, r
  <2> QED BY <2>4, <2>9 DEF g, r
<1>12. ASSUME NEW i \in 1 .. m PROVE Suspended(o, p, i)
  <2>1. \E q \in DOMAIN p.callbacks : StandsAt(p, p.frames[i], q)
    BY <1>11 DEF r
  <2>2. "editInArray" \in Liberties \/ ~Between(o, o.frames[i])
    BY <1>3
  <2>3. Frozen(p, p.frames[i].event) => p.frames[i].excused
    <3>1. p.frames[i].event = o.frames[i].event /\ p.frames[i].excused = o.frames[i].excused
      BY <1>5 DEF SameFrame
    <3> QED BY <1>2, <1>5, <3>1 DEF FrameGood, Frozen
  <2> QED BY <1>5, <2>1, <2>2, <2>3 DEF Suspended
<1>13. ASSUME p.stopped, NEW x \in 1 .. m, Same(o, m, x) PROVE p.frames[x].excused
  <2>1. StopSeen(o, m) /\ m \in 1 .. m /\ x <= m
    BY <1>1, <1>2, <1>13 DEF StopSeen, m
  <2> QED BY <1>1, <1>5, <1>13, <2>1 DEF FramesGood, StopsRight, m
<1>14. Len(o.callbacks) <= Len(p.callbacks)
  BY <1>1, <1>10 DEF l, r, n
<1>15. Becomes(o, p)
  BY <1>2, <1>4, <1>8, <1>9, <1>12, <1>13, <1>14, UserRight DEF m
<1> QED BY <1>15 DEF p

-----------------------------------------------------------------------------
(* The theorems.                                                           *)

(* User code makes p of o, and emits e then.                               *)
Emits(o, n) ==
  \E p : \E e \in AllEvents : /\ Becomes(o, p) /\ (NoneSkipped => NoneMoved(p, e))
                             /\ n = Enter(p, e)

(* A step is the return of a callback, or user code, which may emit then.  *)
LEMMA NextIs ==
  ASSUME EventsInv, Next
  PROVE  \/ obj.frames # <<>> /\ obj' = Resume(obj)
         \/ Becomes(obj, obj')
         \/ Emits(obj, obj')
<1> USE DEF EventsInv
<1>1. obj \in ObjData /\ FramesGood(obj)
  BY DEF Right, ListGood
<1>3. \A i \in 1 .. Len(obj.frames) : obj.frames[i] \in Emissions
  BY <1>1, FrameTyped DEF Emissions, ToSet
<1>4. Add \in AllEvents /\ Del \in AllEvents /\ Add \notin Restart /\ Del \notin Restart
      /\ Events \subseteq AllEvents
  BY EventsAssumption DEF AllEvents
<1>5. ASSUME NEW c \in Cbs, NEW kind \in Kinds, CallbackAdd(c, kind) PROVE Emits(obj, obj')
  <2> DEFINE p == Added(obj, c, kind)
  <2>1. Unborn(obj, c)
    BY <1>5 DEF CallbackAdd, Unborn
  <2>2. \A i \in 1 .. Len(obj.frames) :
          LET f == obj.frames[i]
          IN /\ Between(obj, f) => "editInArray" \in Liberties
             /\ f.idx > 1 /\ Place(obj, kind.priority) \in f.idx .. f.idx + f.inserted - 1
                  => "crowdIn" \in Liberties
    BY <1>3, <1>5 DEF CallbackAdd, InArray, Between
  <2>3. Becomes(obj, p)
    BY <2>1, <2>2, AddedKept
  <2>4. obj' = Enter(p, Add)
    BY <1>5 DEF CallbackAdd, Added, Made
  <2> HIDE DEF p
  <2>5. NoneMoved(p, Add)
    BY <1>4 DEF NoneMoved
  <2> QED BY <1>4, <2>3, <2>4, <2>5 DEF Emits
<1>6. ASSUME NEW c \in Cbs, CallbackDel(c) PROVE Emits(obj, obj')
  <2>1. obj.cb[c].mem = "live"
    BY <1>6 DEF CallbackDel
  <2>2. \A i \in 1 .. Len(obj.frames) :
          obj.frames[i].cb = c /\ Between(obj, obj.frames[i]) => "editInArray" \in Liberties
    BY <1>3, <1>6 DEF CallbackDel, InArray, Between
  <2>3. CASE obj.frames = <<>>
    <3> DEFINE p == Removed(Marked(obj, c), {c})
    <3>1. Becomes(obj, p)
      BY <2>1, <2>3, UnlistedRight
    <3>2. obj' = Enter(p, Del)
      BY <1>6, <2>3 DEF CallbackDel, Marked
    <3> HIDE DEF p
    <3>3. NoneMoved(p, Del)
      BY <1>4 DEF NoneMoved
    <3> QED BY <1>4, <3>1, <3>2, <3>3 DEF Emits
  <2>4. CASE obj.frames # <<>>
    <3> DEFINE p == [Marked(obj, c) EXCEPT !.cleaning = TRUE]
    <3>1. Becomes(obj, p)
      BY <2>2, <2>4, MarkedRight
    <3>2. obj' = Enter(p, Del)
      BY <1>6, <2>4 DEF CallbackDel, Marked
    <3> HIDE DEF p
    <3>3. NoneMoved(p, Del)
      BY <1>4 DEF NoneMoved
    <3> QED BY <1>4, <3>1, <3>2, <3>3 DEF Emits
  <2> QED BY <2>3, <2>4
<1>7. ASSUME NEW e \in Events, CallbackCall(e) PROVE Emits(obj, obj')
  <2>1. NoneSkipped => NoneMoved(obj, e)
    <3> SUFFICES ASSUME NoneSkipped, e \in Restart, NEW i \in DOMAIN obj.frames, obj.frames[i].event = e
                 PROVE  obj.frames[i].inserted = 0
      BY DEF NoneMoved
    <3>1. i \in 1 .. Len(obj.frames) /\ obj.frames[i] \in FrameData
      BY <1>1, FrameTyped
    <3>2. obj.frames[i] \in Emissions /\ obj.frames[i].inserted \in Nat
      BY <1>3, <3>1 DEF FrameData
    <3>3. "addAndRestart" \notin Liberties
      BY DEF NoneSkipped
    <3>4. ~(obj.frames[i].inserted > 0)
      BY <1>7, <3>2, <3>3 DEF CallbackCall
    <3> QED BY <3>2, <3>4
  <2>2. e \in AllEvents
    BY <1>4
  <2>3. Becomes(obj, obj)
    BY DEF Becomes, SameCalls
  <2> QED BY <1>7, <2>1, <2>2, <2>3 DEF CallbackCall, Emits
<1>8. ASSUME CallbackStop PROVE Becomes(obj, obj')
  <2> DEFINE e == Top(obj).event
             S == {i \in DOMAIN obj.frames : i = Len(obj.frames) \/ (e \in Restart /\ obj.frames[i].event = e)}
  <2>1. obj.frames # <<>>
    BY <1>8 DEF CallbackStop
  <2>2. Excused(obj, S) = [i \in DOMAIN obj.frames |->
                             IF i = Len(obj.frames) \/ (e \in Restart /\ obj.frames[i].event = e)
                             THEN [obj.frames[i] EXCEPT !.excused = TRUE] ELSE obj.frames[i]]
    BY DEF Excused
  <2>3. obj' = [obj EXCEPT !.stopped = TRUE, !.frames = Excused(obj, S)]
    BY <1>8, <2>2 DEF CallbackStop
  <2>4. Becomes(obj, [obj EXCEPT !.stopped = TRUE, !.frames = Excused(obj, S)])
    BY <2>1, StopRight
  <2> QED BY <2>3, <2>4
<1>9. ASSUME Freeze PROVE Becomes(obj, obj')
  <2> DEFINE S == {i \in DOMAIN obj.frames : obj.frames[i].event \notin Unfreezable}
  <2>1. Excused(obj, S) = [i \in DOMAIN obj.frames |->
                             IF obj.frames[i].event \in Unfreezable THEN obj.frames[i]
                             ELSE [obj.frames[i] EXCEPT !.excused = TRUE]]
    BY DEF Excused
  <2>2. obj' = [obj EXCEPT !.freeze = obj.freeze + 1, !.frames = Excused(obj, S)]
    BY <1>9, <2>1 DEF Freeze
  <2>3. Becomes(obj, [obj EXCEPT !.freeze = obj.freeze + 1, !.frames = Excused(obj, S)])
    BY FreezeRight
  <2> QED BY <2>2, <2>3
<1>10. ASSUME Thaw PROVE Becomes(obj, obj')
  <2>1. obj.freeze > 0 /\ obj' = [obj EXCEPT !.freeze = obj.freeze - 1]
    BY <1>10 DEF Thaw
  <2>2. Becomes(obj, [obj EXCEPT !.freeze = obj.freeze - 1])
    BY <2>1, ThawRight
  <2> QED BY <2>1, <2>2
<1>11. ASSUME Return PROVE obj.frames # <<>> /\ obj' = Resume(obj)
  BY <1>11 DEF Return
<1> QED BY <1>5, <1>6, <1>7, <1>8, <1>9, <1>10, <1>11 DEF Next

LEMMA StepRight ==
  ASSUME EventsInv, [Next]_obj
  PROVE  EventsInv'
<1> SUFFICES Right(obj')
  BY DEF EventsInv
<1>1. CASE obj.frames # <<>> /\ obj' = Resume(obj)
  BY <1>1, ResumeRight DEF EventsInv
<1>2. CASE Becomes(obj, obj')
  BY <1>2 DEF Becomes
<1>3. CASE Emits(obj, obj')
  BY <1>3, EnterRight DEF Emits, Becomes
<1>4. CASE UNCHANGED obj
  BY <1>4 DEF EventsInv
<1> QED BY <1>1, <1>2, <1>3, <1>4, NextIs

LEMMA InitRight == Init => EventsInv
<1> SUFFICES ASSUME Init PROVE Right(obj)
  BY DEF EventsInv
<1>1. NewCb \in CbData
  BY DEF NewCb, CbData
<1>2. /\ obj.callbacks = <<>> /\ obj.cb = [c \in Cbs |-> NewCb] /\ obj.frames = <<>>
      /\ obj.adds = 0 /\ obj.dels = 0 /\ obj.cleaning = FALSE
      /\ obj.current = [e \in Restart |-> Absent]
  BY DEF Init
<1>3. obj \in ObjData
  BY <1>1 DEF Init, ObjData
<1>4. DOMAIN obj.callbacks = {} /\ Listed(obj) = {}
  BY <1>2 DEF Listed, ToSet
<1>5. \A c \in Cbs : obj.cb[c].mem = "unborn"
  BY <1>2 DEF NewCb
<1>6. Sorted(obj) /\ Listed(obj) = Live(obj) /\ BornInOrder(obj) /\ Generations(obj) /\ Deletions(obj)
  BY <1>4, <1>5 DEF Sorted, Live, BornInOrder, Generations, Deletions
<1>7. CountsRight(obj)
  <2>1. \A e : ItemsOf(obj, {}, e) = {}
    BY DEF ItemsOf
  <2> QED BY <1>2, <1>4, <2>1, FS_EmptySet DEF CountsRight
<1>8. ListGood(obj)
  BY <1>3, <1>6, <1>7 DEF ListGood
<1> QED BY <1>2, <1>8, IdleRight

(* The state of an object's events, under any nesting of emissions: the    *)
(* list in order, the emissions where they stand in it, what each of them  *)
(* has called.  It holds as long as any callbacks do anything.             *)
THEOREM EventsInvariant == Spec => []EventsInv
<1>1. Init => EventsInv
  BY InitRight
<1>2. EventsInv /\ [Next]_obj => EventsInv'
  BY StepRight
<1> QED BY <1>1, <1>2, PTL DEF Spec

-----------------------------------------------------------------------------
(* What a step calls.                                                      *)

(* What has just been called is due, is there, and is called with its own  *)
(* data.                                                                   *)
WellCalled(o) ==
  LET f == Top(o)
  IN f.cb \in f.due /\ ~o.cb[f.cb].deleted /\ o.callbacks[f.idx] = f.cb

LEMMA LeaveFrames ==
  ASSUME NEW o, Under(o)
  PROVE  LET p == Leave(o)
             m == Len(o.frames)
         IN m \in Nat /\ m >= 1 /\ Len(p.frames) = m - 1 /\ \A i \in 1 .. m - 1 : p.frames[i] = o.frames[i]
<1> DEFINE p == Leave(o)
           m == Len(o.frames)
           t == o.frames[m]
<1>1. /\ ListGood(p) /\ m \in Nat /\ m >= 1 /\ t = Top(o)
      /\ Len(p.frames) = m - 1 /\ \A i \in 1 .. m - 1 : p.frames[i] = o.frames[i]
      /\ p.stopped = t.before /\ p.freeze = o.freeze
      /\ p.current = [r \in Restart |-> IF r # t.event THEN o.current[r]
                                        ELSE IF t.owner THEN Absent ELSE 0]
      /\ m > 1 => /\ p.callbacks = o.callbacks /\ Agree(o, p, m - 1)
                  /\ \A c \in Cbs : p.cb[c].deleted = o.cb[c].deleted
  BY LeaveIs
<1> QED BY <1>1

LEMMA EnteredFrames ==
  ASSUME NEW o, Right(o), NEW e \in AllEvents
  PROVE  LET p == Entered(o, e)
             m == Len(o.frames)
         IN m \in Nat /\ Len(p.frames) = m + 1 /\ \A i \in 1 .. m : p.frames[i] = o.frames[i]
<1> DEFINE p == Entered(o, e)
           m == Len(o.frames)
           t == p.frames[m + 1]
<1>1. /\ o \in ObjData /\ p \in ObjData /\ m \in Nat /\ Len(p.frames) = m + 1 /\ Top(p) = t
      /\ Generation(o) = m
      /\ \A i \in 1 .. m : p.frames[i] = o.frames[i]
      /\ Start(o, e) \in 0 .. Len(o.callbacks)
      /\ p.current = [r \in Restart |-> IF r = e THEN Start(o, e) ELSE o.current[r]]
      /\ p.stopped = FALSE
      /\ p.callbacks = o.callbacks /\ p.cb = o.cb /\ p.freeze = o.freeze
      /\ p.cleaning = o.cleaning /\ p.adds = o.adds /\ p.dels = o.dels
      /\ t.event = e /\ t.inserted = 0 /\ t.generation = m + 1 /\ t.before = o.stopped
      /\ t.owner = Owner(o, e) /\ t.called = <<>>
      /\ t.due = {c \in Listed(o) : ~o.cb[c].deleted /\ Listens(o, c, e)}
      /\ t.excused = (o.freeze > 0 /\ e \notin Unfreezable)
  BY EnteredIs
<1> QED BY <1>1

(* A walk leaves its emission, or calls.                                   *)
LEMMA WalkCalls ==
  ASSUME NEW o, NEW n, Walking(o, n)
  PROVE  LET p == Walk(o, n)
             m == Len(o.frames)
         IN /\ m \in Nat /\ m >= 1
            /\ \/ /\ Leaving(o) /\ Len(p.frames) = m - 1
                  /\ \A i \in 1 .. m - 1 : p.frames[i] = o.frames[i]
               \/ Len(p.frames) = m /\ WellCalled(p)
<1> DEFINE js == Candidates(o, Top(o), n)
           j == Max(js)
           m == Len(o.frames)
<1>1. Under(o) /\ o \in ObjData /\ o.frames # <<>>
  BY DEF Walking, Under, ListGood
<1>2. CASE js = {}
  <2>1. Walk(o, n) = Leave(o)
    BY <1>2 DEF Walk
  <2>2. Leaving(o)
    BY <1>2, WalkLeaves
  <2> HIDE DEF js
  <2> QED BY <1>1, <2>1, <2>2, LeaveFrames
<1>3. CASE js # {}
  <2> DEFINE k == Min(ItemsFor(o, o.callbacks[j], Top(o).event))
             p == CallAt(o, j, k)
             c == o.callbacks[j]
  <2>1. Walk(o, n) = p
    BY <1>3 DEF Walk
  <2>2. n \in Nat /\ js \in SUBSET (1 .. n)
    <3>1. n \in 0 .. Len(o.callbacks) /\ Len(o.callbacks) \in Nat
      BY ObjTyped DEF Walking, Under, ListGood
    <3> QED BY <3>1 DEF Candidates
  <2>3. j \in js /\ \A y \in js : y <= j
    <3> HIDE DEF js
    <3> QED BY <1>3, <2>2, MaxRight
  <2>4. ComesNext(o, n, j)
    BY <2>3 DEF ComesNext
  <2> HIDE DEF j
  <2>5. /\ j \in 1 .. Len(o.callbacks) /\ c \in Top(o).due /\ ~o.cb[c].deleted /\ k \in Nat
    BY <2>4, NextToCall
  <2> HIDE DEF k
  <2>6. /\ p \in ObjData /\ Len(p.frames) = m /\ m \in Nat /\ m >= 1 /\ Top(o) = o.frames[m]
        /\ \A i \in 1 .. m : CalledAs(o, p, i, Top(o).event, j, c, k)
        /\ p.callbacks = o.callbacks /\ p.cb = o.cb
    BY <1>1, <2>5, CallIs
  <2> HIDE DEF p
  <2>7. p.frames # <<>> /\ Top(p) = p.frames[m] /\ m \in 1 .. m
    <3>1. p.frames # <<>>
      BY <2>6, FrameTyped
    <3> QED BY <2>6, <3>1, GenerationRight
  <2>8. Top(p).idx = j /\ Top(p).cb = c /\ Top(p).due = Top(o).due
    BY <2>6, <2>7 DEF CalledAs
  <2>9. WellCalled(p)
    BY <2>5, <2>6, <2>8 DEF WellCalled
  <2> QED BY <2>1, <2>6, <2>9
<1> QED BY <1>2, <1>3

(* A walk that begins adds an emission, or leaves those there are.         *)
LEMMA EnterCalls ==
  ASSUME NEW o, Right(o), NEW e \in AllEvents, NoneSkipped => NoneMoved(o, e)
  PROVE  LET p == Enter(o, e)
             m == Len(o.frames)
         IN \/ Len(p.frames) = m /\ \A i \in 1 .. m : p.frames[i] = o.frames[i]
            \/ Len(p.frames) = m + 1 /\ WellCalled(p)
<1> DEFINE q == Entered(o, e)
           n == Start(o, e)
           m == Len(o.frames)
<1>1. CASE Unheard(o, e)
  BY <1>1, EnterIs
<1>2. CASE ~Unheard(o, e)
  <2>1. Enter(o, e) = Walk(q, n)
    BY <1>2, EnterIs
  <2>2. m \in Nat /\ Len(q.frames) = m + 1 /\ \A i \in 1 .. m : q.frames[i] = o.frames[i]
    BY EnteredFrames
  <2>3. Walking(q, n)
    BY EnterWalks
  <2> HIDE DEF q, n, m
  <2>4. \/ /\ Len(Walk(q, n).frames) = (m + 1) - 1
           /\ \A i \in 1 .. (m + 1) - 1 : Walk(q, n).frames[i] = q.frames[i]
        \/ Len(Walk(q, n).frames) = m + 1 /\ WellCalled(Walk(q, n))
    BY <2>2, <2>3, WalkCalls
  <2>5. (m + 1) - 1 = m
    BY <2>2
  <2> QED BY <2>1, <2>2, <2>4, <2>5 DEF m
<1> QED BY <1>1, <1>2

(* A callback that returns: its emission goes, or calls again.             *)
LEMMA ResumeCalls ==
  ASSUME NEW o, Right(o), o.frames # <<>>, "editInArray" \notin Liberties
  PROVE  LET p == Resume(o)
         IN Len(p.frames) = Len(o.frames) - 1 \/ WellCalled(p)
<1> DEFINE m == Len(o.frames)
           t == Top(o)
<1>1. /\ o \in ObjData /\ Under(o) /\ m \in Nat /\ m >= 1 /\ t = o.frames[m] /\ FrameGood(o, t)
  BY RightUnder
<1>2. CASE o.stopped \/ (Top(o).event \in Restart /\ o.current[Top(o).event] = 0)
  <2>1. Resume(o) = Leave(o)
    BY <1>2 DEF Resume
  <2> QED BY <1>1, <2>1, LeaveFrames
<1>3. CASE ~(o.stopped \/ (Top(o).event \in Restart /\ o.current[Top(o).event] = 0)) /\ More(o) # {}
  <2> DEFINE g == NextItem(o)
             p == WithTop(o, g)
  <2>1. Resume(o) = p
    BY <1>3 DEF Resume, NextItem
  <2>2. g \in FrameData /\ g.cb = t.cb /\ g.due = t.due /\ g.idx = t.idx
    BY <1>3, NextItemIs
  <2>3. Between(o, t)
    BY <1>3 DEF Between, More
  <2>4. t.cb \in t.due /\ ~o.cb[t.cb].deleted /\ o.callbacks[t.idx] = t.cb
    BY <1>1, <2>3 DEF FrameGood
  <2> HIDE DEF g
  <2>5. Top(p) = g /\ p.callbacks = o.callbacks /\ p.cb = o.cb
    BY <1>1, <2>2, WithTopRight
  <2> HIDE DEF p
  <2>6. WellCalled(p)
    BY <2>2, <2>4, <2>5 DEF WellCalled
  <2> QED BY <2>1, <2>6
<1>4. CASE ~(o.stopped \/ (Top(o).event \in Restart /\ o.current[Top(o).event] = 0)) /\ More(o) = {}
  <2> DEFINE p == WithTop(o, Ready(o))
             n == Top(o).idx + Top(o).inserted - 1
  <2>1. Resume(o) = Walk(p, n)
    BY <1>4 DEF Resume, Ready
  <2>2. Walking(p, n)
    BY <1>4, ResumeWalks
  <2>3. Len(p.frames) = m
    <3>1. Ready(o) \in FrameData
      <4>1. t \in FrameData
        BY RightUnder
      <4> HIDE DEF t
      <4> QED BY <4>1 DEF FrameData, Ready, t
    <3> QED BY <1>1, <3>1, WithTopRight
  <2> HIDE DEF p, n
  <2> QED BY <2>1, <2>2, <2>3, WalkCalls
<1> QED BY <1>2, <1>3, <1>4

-----------------------------------------------------------------------------
(* The list of callbacks is sorted by priority and age and is what is      *)
(* alive; deleted callbacks stay in it only while an emission walks it;    *)
(* and the counters that save the emissions of EFL_EVENT_CALLBACK_ADD and  *)
(* EFL_EVENT_CALLBACK_DEL count their listeners: _eo_callbacks_sorted_     *)
(* insert, _eo_callback_remove and _eo_callbacks_clear keep it so.         *)
THEOREM ListStaysRight == Spec => []ListRight
<1>1. EventsInv => ListRight
  <2> SUFFICES ASSUME EventsInv PROVE ListRight
    OBVIOUS
  <2>1. ListGood(obj) /\ obj \in ObjData
    BY DEF EventsInv, Right, ListGood
  <2>2. \A i, j \in DOMAIN obj.callbacks : i < j => Above(obj, obj.callbacks[i], obj.callbacks[j])
    BY <2>1 DEF ListGood, Sorted
  <2>3. Listed(obj) = {c \in Cbs : obj.cb[c].mem = "live"}
    BY <2>1 DEF ListGood, Live
  <2>4. \A c \in Listed(obj) : /\ obj.cb[c].deleted => obj.cleaning /\ obj.frames # <<>>
                               /\ obj.cb[c].generation <= Generation(obj)
    BY <2>1 DEF ListGood, Generations, Deletions
  <2>5. /\ obj.adds = Cardinality(ItemsOf(obj, Listed(obj), Add))
        /\ obj.dels = Cardinality(ItemsOf(obj, Listed(obj), Del))
    BY <2>1 DEF ListGood, CountsRight
  <2> QED BY <2>2, <2>3, <2>4, <2>5 DEF ListRight, Above
<1> QED BY <1>1, EventsInvariant, PTL

(* Callbacks of the same priority are called in the reverse order of their *)
(* creation, the others by priority, whatever callbacks add and delete     *)
(* while the emission walks the list.                                      *)
THEOREM CallsInOrder == Spec => []CalledInOrder
<1>1. EventsInv => CalledInOrder
  <2> SUFFICES ASSUME EventsInv, NEW f \in Emissions, f.event \notin Restart,
                      NEW i \in DOMAIN f.called, NEW j \in DOMAIN f.called, i < j
               PROVE  \/ obj.cb[f.called[i]].priority < obj.cb[f.called[j]].priority
                      \/ /\ obj.cb[f.called[i]].priority = obj.cb[f.called[j]].priority
                         /\ f.called[i] >= f.called[j]
    BY DEF CalledInOrder
  <2>1. obj \in ObjData /\ FramesGood(obj)
    BY DEF EventsInv, Right, ListGood
  <2>2. FrameGood(obj, f)
    BY <2>1 DEF FramesGood, Emissions, ToSet
  <2> DEFINE b == f.called[i]
             c == f.called[j]
  <2>3. b \in Listed(obj) /\ c \in Listed(obj) /\ (b = c \/ Above(obj, c, b))
    BY <2>2 DEF FrameGood, CalledDown, ToSet
  <2>4. b \in Cbs /\ c \in Cbs /\ b \in Int /\ c \in Int
        /\ obj.cb[b].priority \in Int /\ obj.cb[c].priority \in Int
    BY <2>1, <2>3, ObjTyped
  <2> HIDE DEF b, c
  <2>5. \/ obj.cb[b].priority < obj.cb[c].priority
        \/ obj.cb[b].priority = obj.cb[c].priority /\ b >= c
    BY <2>3, <2>4 DEF Above
  <2> QED BY <2>5 DEF b, c
<1> QED BY <1>1, EventsInvariant, PTL

LEMMA StepCalls ==
  ASSUME EventsInv, Next, "editInArray" \notin Liberties, Calling
  PROVE  WellCalled(obj')
<1>1. obj \in ObjData /\ obj' \in ObjData
  <2>1. EventsInv'
    BY StepRight
  <2> QED BY <2>1 DEF EventsInv, Right, ListGood
<1> DEFINE m == Len(obj.frames)
           n == Len(obj'.frames)
<1>2. m \in Nat /\ n \in Nat /\ n >= m /\ n # 0 /\ Top(obj') = obj'.frames[n]
      /\ (m # 0 => Top(obj) = obj.frames[m])
  <2>1. m \in Nat /\ n \in Nat /\ (obj.frames = <<>> <=> m = 0) /\ (obj'.frames = <<>> <=> n = 0)
    BY <1>1, FrameTyped
  <2>2. obj'.frames # <<>> /\ n >= m
    BY DEF Calling
  <2> QED BY <1>1, <2>1, <2>2, GenerationRight
<1>3. ~(n = m /\ \A i \in 1 .. m : obj'.frames[i].cb = obj.frames[i].cb /\ obj'.frames[i].item = obj.frames[i].item)
  <2>1. n = m => m \in 1 .. m
    BY <1>2
  <2> QED BY <1>2, <2>1 DEF Calling
<1>4. CASE obj.frames # <<>> /\ obj' = Resume(obj)
  <2>1. n # m - 1
    BY <1>2
  <2> QED BY <1>4, <2>1, ResumeCalls DEF EventsInv
<1>5. CASE Becomes(obj, obj')
  BY <1>3, <1>5 DEF Becomes, SameCalls
<1>6. CASE Emits(obj, obj')
  <2>0. PICK p : \E e \in AllEvents : /\ Becomes(obj, p) /\ (NoneSkipped => NoneMoved(p, e))
                                      /\ obj' = Enter(p, e)
    BY <1>6 DEF Emits
  <2>1. PICK e \in AllEvents : /\ Becomes(obj, p) /\ (NoneSkipped => NoneMoved(p, e))
                               /\ obj' = Enter(p, e)
    BY <2>0
  <2>2. Right(p) /\ SameCalls(obj, p)
    BY <2>1 DEF Becomes
  <2>3. \/ n = Len(p.frames) /\ \A i \in 1 .. Len(p.frames) : obj'.frames[i] = p.frames[i]
        \/ n = Len(p.frames) + 1 /\ WellCalled(obj')
    BY <2>1, <2>2, EnterCalls
  <2> QED BY <1>3, <2>2, <2>3 DEF SameCalls
<1> QED BY <1>4, <1>5, <1>6, NextIs

(* Who is called was listening when the emission began, has not been       *)
(* deleted since, and is called with its own data, as the documentation of *)
(* efl_event_callback_priority_add and efl_event_callback_del has it; as   *)
(* long as nothing is added, and no array is deleted, between two calls of *)
(* the same array for one event: _event_callback_call holds the item of an *)
(* array across calls, but not the description.                            *)
THEOREM CallsInTime == "editInArray" \notin Liberties => (Spec => CalledInTime)
<1> SUFFICES ASSUME "editInArray" \notin Liberties PROVE Spec => CalledInTime
  OBVIOUS
<1>1. EventsInv /\ [Next]_obj =>
        [Calling => LET f == Top(obj')
                    IN f.cb \in f.due /\ ~obj'.cb[f.cb].deleted /\ obj'.callbacks[f.idx] = f.cb]_obj
  <2>1. EventsInv /\ Next /\ Calling => WellCalled(obj')
    BY StepCalls
  <2>2. EventsInv /\ Next /\ Calling =>
          LET f == Top(obj')
          IN f.cb \in f.due /\ ~obj'.cb[f.cb].deleted /\ obj'.callbacks[f.idx] = f.cb
    BY <2>1 DEF WellCalled
  <2> QED BY <2>2
<1> QED BY <1>1, EventsInvariant, PTL DEF Spec, CalledInTime

-----------------------------------------------------------------------------
(* Whom an emission reaches.                                               *)

(* The last emission has called who was listening and still is, in full.   *)
AllReached(o) ==
  LET f == Top(o)
  IN ~f.excused /\ (f.event \in Restart => f.owner) =>
       \A c \in f.due : ~o.cb[c].deleted =>
         Times(c, f.called) = IF f.event \in Restart THEN 1
                              ELSE Cardinality(ItemsFor(o, c, f.event))

LEMMA LeavingReached ==
  ASSUME NEW o, Leaving(o), NoneSkipped
  PROVE  AllReached(o)
<1> DEFINE m == Len(o.frames)
           f == Top(o)
<1>1. Under(o) /\ WalksUnder(o) /\ o \in ObjData /\ o.frames # <<>>
  BY DEF Leaving, Under, ListGood
<1>2. m \in Nat /\ m \in DOMAIN o.frames /\ f = o.frames[m] /\ f \in FrameData
  <2>1. m \in Nat /\ m # 0 /\ DOMAIN o.frames = 1 .. m
    BY <1>1, FrameTyped
  <2>2. f = o.frames[m] /\ f \in FrameData
    BY <1>1, GenerationRight
  <2> QED BY <2>1, <2>2
<1> SUFFICES ASSUME ~f.excused, f.event \in Restart => f.owner, NEW c \in f.due, ~o.cb[c].deleted
             PROVE  Times(c, f.called) = IF f.event \in Restart THEN 1
                                         ELSE Cardinality(ItemsFor(o, c, f.event))
  BY DEF AllReached
<1>3. Answers(o, m)
  BY <1>2 DEF Answers, Same
<1>4. Heard(o, f)
  BY <1>2, <1>3 DEF Leaving
<1>5. CASE f.event \in Restart
  <2>1. IsInjective(f.called)
    BY <1>1, <1>2, <1>5 DEF WalksUnder
  <2>2. f.called \in Seq(Cbs)
    BY <1>2 DEF FrameData
  <2>3. c \in ToSet(f.called)
    BY <1>4, <1>5 DEF Heard
  <2> HIDE DEF f
  <2> QED BY <1>5, <2>1, <2>2, <2>3, TimesRight
<1>6. CASE f.event \notin Restart
  BY <1>4, <1>6 DEF Heard
<1> QED BY <1>5, <1>6

(* A callback returns and its emission goes: it has reached them all.      *)
LEMMA ResumeReached ==
  ASSUME NEW o, Right(o), o.frames # <<>>, NoneSkipped, Len(Resume(o).frames) < Len(o.frames)
  PROVE  AllReached(o)
<1> DEFINE m == Len(o.frames)
           t == Top(o)
<1>1. o \in ObjData /\ m \in Nat /\ m >= 1 /\ t \in FrameData
  BY RightUnder
<1>2. CASE o.stopped \/ (Top(o).event \in Restart /\ o.current[Top(o).event] = 0)
  <2>1. Leaving(o)
    BY <1>2, ResumeLeaves
  <2> QED BY <2>1, LeavingReached
<1>3. CASE ~(o.stopped \/ (Top(o).event \in Restart /\ o.current[Top(o).event] = 0)) /\ More(o) # {}
  <2> DEFINE g == NextItem(o)
             p == WithTop(o, g)
  <2>1. Resume(o) = p
    BY <1>3 DEF Resume, NextItem
  <2>2. g \in FrameData
    BY <1>3, NextItemIs
  <2> HIDE DEF g
  <2>3. Len(p.frames) = m
    BY <1>1, <2>2, WithTopRight
  <2> QED BY <1>1, <2>1, <2>3
<1>4. CASE ~(o.stopped \/ (Top(o).event \in Restart /\ o.current[Top(o).event] = 0)) /\ More(o) = {}
  <2> DEFINE g == Ready(o)
             p == WithTop(o, g)
             n == Top(o).idx + Top(o).inserted - 1
  <2>1. Resume(o) = Walk(p, n)
    BY <1>4 DEF Resume, Ready
  <2>2. Walking(p, n)
    BY <1>4, ResumeWalks
  <2>3. /\ g \in FrameData /\ g.event = t.event /\ g.owner = t.owner
        /\ g.due = t.due /\ g.excused = t.excused /\ g.called = t.called
    <3> HIDE DEF t
    <3> QED BY <1>1 DEF FrameData, Ready, t
  <2> HIDE DEF g
  <2>4. Len(p.frames) = m /\ Top(p) = g /\ p.cb = o.cb
    BY <1>1, <2>3, WithTopRight
  <2> HIDE DEF p, n
  <2>5. \/ Leaving(p)
        \/ Len(Walk(p, n).frames) = Len(p.frames)
    BY <2>2, WalkCalls
  <2>6. Leaving(p)
    BY <1>1, <2>1, <2>4, <2>5
  <2>7. AllReached(p)
    BY <2>6, LeavingReached
  <2>8. \A c, e : ItemsFor(p, c, e) = ItemsFor(o, c, e)
    BY <2>4 DEF ItemsFor
  <2> HIDE DEF t
  <2> QED BY <2>3, <2>4, <2>7, <2>8 DEF AllReached, t
<1> QED BY <1>2, <1>3, <1>4

LEMMA StepReaches ==
  ASSUME EventsInv, Next, NoneSkipped, Len(obj'.frames) < Len(obj.frames)
  PROVE  AllReached(obj)
<1> DEFINE m == Len(obj.frames)
           n == Len(obj'.frames)
<1>1. m \in Nat
  <2>1. obj \in ObjData
    BY DEF EventsInv, Right, ListGood
  <2> QED BY <2>1, FrameTyped
<1>2. CASE obj.frames # <<>> /\ obj' = Resume(obj)
  BY <1>2, ResumeReached DEF EventsInv
<1>3. ~Becomes(obj, obj')
  <2>1. n # m
    BY <1>1
  <2> QED BY <2>1 DEF Becomes, SameCalls
<1>4. ~Emits(obj, obj')
  <2> SUFFICES ASSUME Emits(obj, obj') PROVE FALSE
    OBVIOUS
  <2>1. PICK p : \E e \in AllEvents : /\ Becomes(obj, p) /\ (NoneSkipped => NoneMoved(p, e))
                                      /\ obj' = Enter(p, e)
    BY DEF Emits
  <2>2. PICK e \in AllEvents : /\ Becomes(obj, p) /\ (NoneSkipped => NoneMoved(p, e))
                               /\ obj' = Enter(p, e)
    BY <2>1
  <2>3. Right(p) /\ Len(p.frames) = m
    BY <2>2 DEF Becomes, SameCalls
  <2>4. n = Len(p.frames) \/ n = Len(p.frames) + 1
    BY <2>2, <2>3, EnterCalls
  <2> QED BY <1>1, <2>3, <2>4
<1> QED BY <1>2, <1>3, <1>4, NextIs

(* An emission that ends has called everybody who was listening when it    *)
(* began and still is, and nobody twice, unless user code stopped it or    *)
(* froze the object: _event_callback_call, which takes up its walk after   *)
(* each callback where `inserted` says, and the lookups by which nested    *)
(* emissions of an event with restart take over.  It is so as long as no   *)
(* call adds so many callbacks before a position that one of them comes to *)
(* lie behind where the walk goes on, and no event with restart is emitted *)
(* again after an addition in the same callback (README, section 6).       *)
THEOREM NobodyIsSkipped == NoneSkipped => (Spec => NobodySkipped)
<1> SUFFICES ASSUME NoneSkipped PROVE Spec => NobodySkipped
  OBVIOUS
<1>1. EventsInv /\ [Next]_obj =>
        [Len(obj'.frames) < Len(obj.frames) =>
           LET f == Top(obj)
           IN ~f.excused /\ (f.event \in Restart => f.owner) =>
                \A c \in f.due : ~obj.cb[c].deleted =>
                  Times(c, f.called) = IF f.event \in Restart THEN 1
                                       ELSE Cardinality(ItemsFor(obj, c, f.event))]_obj
  <2>1. EventsInv /\ Next /\ Len(obj'.frames) < Len(obj.frames) => AllReached(obj)
    BY StepReaches
  <2> QED BY <2>1 DEF AllReached
<1> QED BY <1>1, EventsInvariant, PTL DEF Spec, NobodySkipped
=============================================================================
