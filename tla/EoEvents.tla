------------------------------ MODULE EoEvents ------------------------------
(***************************************************************************)
(* The events of an Eo object (src/src/lib/eo/eo_base_class.c): callbacks  *)
(* added and deleted, alone or as arrays, in a list sorted by priority,    *)
(* and emissions that walk the list while the callbacks they call add,     *)
(* delete, stop, freeze and emit again.                                    *)
(*                                                                         *)
(* Everything happens on one thread.  The stack of the C program is the    *)
(* list of event frames: each is suspended in a callback, and user code    *)
(* runs in the callback of the last one, or outside if there is none.      *)
(* A callback that returns and the walk that goes on to the next callback, *)
(* or ends, are one step.  The operators are functions of the object.      *)
(***************************************************************************)
EXTENDS Integers, Sequences, FiniteSets, SequencesExt, FiniteSetsExt

CONSTANTS
  Events,        (* event descriptions users emit                          *)
  Add, Del,      (* EFL_EVENT_CALLBACK_ADD and EFL_EVENT_CALLBACK_DEL      *)
  Restart, Hot,  (* events with `restart`, events with `unfreezable`       *)
  Kinds,         (* callbacks, or arrays of them: items and priority       *)
  MaxCbs,        (* bound: callback descriptions ever added                *)
  MaxDepth,      (* bound: emissions under which user code goes on         *)
  MaxFreeze,     (* bound: event_freeze_count                              *)
  Liberties      (* what callbacks are free to do                          *)

AllEvents   == Events \cup {Add, Del}
Unfreezable == Hot \cup {Add, Del}

ASSUME EventsAssumption == /\ Restart \subseteq Events /\ Hot \subseteq Events
                           /\ Add \notin Events /\ Del \notin Events /\ Add # Del
ASSUME KindsAssumption  == \A k \in Kinds : /\ k.items \in Seq(AllEvents) /\ k.items # <<>>
                                            /\ k.priority \in Int
ASSUME BoundsAssumption == {MaxCbs, MaxDepth, MaxFreeze} \subseteq Nat

(* crowdIn: during one call so many callbacks are added before a position *)
(* that one comes to lie between the position and where it has moved to.   *)
(* editInArray: callbacks are added, or an array is deleted, between two   *)
(* calls of the same array for one event.  addAndRestart: an event with    *)
(* `restart` is emitted again after an addition in the same callback.      *)
ASSUME LibertiesAssumption == Liberties \subseteq {"crowdIn", "editInArray", "addAndRestart"}

VARIABLE obj     (* Efl_Object_Data, as far as events go                   *)

Cbs    == 1 .. MaxCbs
Absent == -1

-----------------------------------------------------------------------------
NewCb == [mem |-> "unborn", items |-> <<>>, priority |-> 0, generation |-> 0,
          deleted |-> FALSE]

Init ==
  obj = [callbacks  |-> <<>>,                       (* the list            *)
         cb         |-> [c \in Cbs |-> NewCb],      (* the descriptions    *)
         freeze     |-> 0,                          (* event_freeze_count  *)
         stopped    |-> FALSE,                      (* callback_stopped    *)
         cleaning   |-> FALSE,                      (* need_cleaning       *)
         adds       |-> 0, dels |-> 0,              (* special counts      *)
         current    |-> [e \in Restart |-> Absent], (* lookups of restarts *)
         frames     |-> <<>>]                       (* event_frame         *)

(* An emission of event e, walking the list from its end.  `before` is     *)
(* callback_already_stopped, `owner` says that it registered the lookup,   *)
(* and cb and item say what is being called.  The rest is not in the code: *)
(* who was listening when it began, who was called since, and whether user *)
(* code itself kept the event from its listeners.                          *)
Frame(o, e, owner) ==
  [event      |-> e,
   idx        |-> 0, inserted |-> 0,
   generation |-> IF o.frames = <<>> THEN 1 ELSE Last(o.frames).generation + 1,
   before     |-> o.stopped,
   owner      |-> owner,
   cb         |-> 0, item |-> 0,
   due        |-> {c \in ToSet(o.callbacks) : ~o.cb[c].deleted /\ e \in ToSet(o.cb[c].items)},
   called     |-> <<>>,
   excused    |-> o.freeze > 0 /\ e \notin Unfreezable]

Top(o)           == Last(o.frames)
WithTop(o, f)    == [o EXCEPT !.frames = Append(Front(o.frames), f)]
Frozen(o, e)     == e \notin Unfreezable /\ o.freeze > 0
Generation(o)    == IF o.frames = <<>> THEN 0 ELSE Top(o).generation
Listed(o)        == ToSet(o.callbacks)
ItemsFor(o, c, e) == {k \in DOMAIN o.cb[c].items : o.cb[c].items[k] = e}

(* What the callbacks of S have for e.                                     *)
ItemsOf(o, S, e) == UNION {{c} \X ItemsFor(o, c, e) : c \in S}

(* _special_event_count_inc, _special_event_count_dec, for those of S.     *)
Counted(o, S, n) == [o EXCEPT !.adds = @ + n * Cardinality(ItemsOf(o, S, Add)),
                              !.dels = @ + n * Cardinality(ItemsOf(o, S, Del))]

(* The list l without the members of S.                                    *)
Without(l, S) ==
  LET stay    == {i \in DOMAIN l : l[i] \notin S}
      rank(i) == Cardinality({k \in stay : k <= i})
  IN [n \in 1 .. Cardinality(stay) |-> l[CHOOSE i \in stay : rank(i) = n]]

(* Mutant: what a removed callback listens to stays counted.               *)
RemovedCounted(o, S) ==
  [o EXCEPT !.callbacks = Without(@, S),
            !.cb = [c \in Cbs |-> IF c \in S THEN [@[c] EXCEPT !.mem = "freed"] ELSE @[c]]]

(* _eo_callback_remove, of each member of S.                               *)
Removed(o, S) ==
  [Counted(o, S, -1) EXCEPT
     !.callbacks = Without(@, S),
     !.cb = [c \in Cbs |-> IF c \in S THEN [@[c] EXCEPT !.mem = "freed"] ELSE @[c]]]

Deleted(o) == {c \in Listed(o) : o.cb[c].deleted}

(* Mutant: generations are clamped only when the last emission ends.       *)
ClearedLate(o) ==
  IF ~o.cleaning \/ o.frames # <<>> THEN o
  ELSE [Removed(o, Deleted(o)) EXCEPT
          !.cleaning = FALSE, !.cb = [c \in Cbs |-> [@[c] EXCEPT !.generation = 0]]]

(* No description is newer than the last emission.                         *)
Clamped(o) ==
  LET clamp == Generation(o)
  IN [o EXCEPT !.cb = [c \in Cbs |-> IF @[c].mem = "live" /\ @[c].generation > clamp
                                     THEN [@[c] EXCEPT !.generation = clamp] ELSE @[c]]]

(* _eo_callbacks_clear: deleted callbacks go when no emission is left; the *)
(* others may hear what is emitted from now on.                            *)
Cleared(o) ==
  IF ~o.cleaning THEN o
  ELSE IF o.frames # <<>> THEN Clamped(o)
  ELSE Clamped(Removed([o EXCEPT !.cleaning = FALSE], Deleted(o)))

-----------------------------------------------------------------------------
(* _event_callback_call.                                                   *)

(* Mutant: a callback that was deleted meanwhile is called as well.        *)
CandidatesDeleted(o, f, idx) ==
  {j \in 1 .. idx :
     LET c == o.callbacks[j]
     IN /\ o.cb[c].generation < f.generation
        /\ ItemsFor(o, c, f.event) # {} /\ ~Frozen(o, f.event)}

(* Callbacks of the list at idx or below that the emission f is to call:   *)
(* not deleted, not added since it began, listening and not frozen.        *)
Candidates(o, f, idx) ==
  {j \in 1 .. idx :
     LET c == o.callbacks[j]
     IN /\ ~o.cb[c].deleted
        /\ o.cb[c].generation < f.generation
        /\ ItemsFor(o, c, f.event) # {} /\ ~Frozen(o, f.event)}

(* The emission is over: its lookup says so, what is left to clean is      *)
(* cleaned, and the emission around it is stopped if it was before.        *)
Leave(o) ==
  LET f == Top(o)
      e == f.event
      p == [o EXCEPT !.current = [r \in Restart |-> IF r # e THEN @[r]
                                                    ELSE IF f.owner THEN Absent ELSE 0],
                     !.frames = Front(@)]
  IN [Cleared(p) EXCEPT !.stopped = f.before]

(* For an event with restart a callback counts once.                       *)
Noted(f, c) == IF f.event \in Restart /\ c \in ToSet(f.called) THEN f
               ELSE [f EXCEPT !.called = Append(@, c)]

(* Item k of the callback at position j is called: the emission and, for   *)
(* an event with restart, those around it that would have done so, take    *)
(* note of it.                                                             *)
CallAt(o, j, k) ==
  LET c == o.callbacks[j]
      e == Top(o).event
      p == [o EXCEPT !.frames = [i \in DOMAIN @ |->
                                   IF @[i].event = e /\ (i = Len(@) \/ e \in Restart)
                                   THEN Noted(@[i], c) ELSE @[i]],
                     !.current = [r \in Restart |-> IF r = e THEN j - 1 ELSE @[r]]]
  IN WithTop(p, [Top(p) EXCEPT !.idx = j, !.cb = c, !.item = k])

(* The walk goes on at idx.                                                *)
Walk(o, idx) ==
  LET js == Candidates(o, Top(o), idx)
      j  == Max(js)
  IN IF js = {} THEN Leave(o)
     ELSE CallAt(o, j, Min(ItemsFor(o, o.callbacks[j], Top(o).event)))

Unheard(o, e) == \/ o.callbacks = <<>>
                 \/ e = Add /\ o.adds = 0
                 \/ e = Del /\ o.dels = 0

(* An emission begins: an event with restart where the one around it was.  *)
Enter(o, e) ==
  LET whole == Len(o.callbacks)
      owner == e \in Restart /\ o.current[e] = Absent
      start == IF e \in Restart /\ o.current[e] > 0 THEN o.current[e] ELSE whole
      p     == [o EXCEPT !.frames = Append(@, Frame(o, e, owner)),
                         !.stopped = FALSE,
                         !.current = [r \in Restart |-> IF r = e THEN start ELSE @[r]]]
  IN IF Unheard(o, e) THEN o ELSE Walk(p, start)

(* A callback returned.  The other items of an array are called whatever   *)
(* became of the array, with the data of what is now at its position; the  *)
(* walk goes on below, past what was inserted there.                       *)
More(o) == LET f == Top(o)
           IN {k \in ItemsFor(o, f.cb, f.event) : k > f.item /\ ~Frozen(o, f.event)}

Resume(o) ==
  LET f == Top(o)
  IN IF o.stopped \/ (f.event \in Restart /\ o.current[f.event] = 0) THEN Leave(o)
     ELSE IF More(o) # {}
     THEN WithTop(o, [Noted(f, f.cb) EXCEPT !.item = Min(More(o))])
     ELSE Walk(WithTop(o, [f EXCEPT !.inserted = 0]), f.idx + f.inserted - 1)

-----------------------------------------------------------------------------
(* _eo_callback_search_sorted_near: the list goes from high to low         *)
(* numbers; positions are counted from 0 here.                             *)
Near(o, priority) ==
  LET at(i) == o.cb[o.callbacks[i + 1]].priority
      n     == Len(o.callbacks)
      search[p \in (0 .. n) \X (0 .. n)] ==
        LET m == p[1] + (p[2] - p[1]) \div 2
        IN IF at(m) > priority THEN (IF m + 1 <= p[2] THEN search[<<m + 1, p[2]>>] ELSE m)
           ELSE IF at(m) < priority /\ m > p[1] THEN search[<<p[1], m - 1>>]
           ELSE m
  IN IF n <= 1 THEN 0 ELSE search[<<0, n - 1>>]

(* Mutant: before the callbacks of the same priority.                      *)
PlaceFirst(o, p) ==
  LET n == Len(o.callbacks)
  IN Min({i \in 0 .. n : i = n \/ o.cb[o.callbacks[i + 1]].priority <= p})

(* _eo_callbacks_sorted_insert: after the callbacks of the same priority,  *)
(* and the emissions that have gone past the place move on.                *)
Place(o, p) ==
  LET n == Len(o.callbacks)
  IN Min({i \in Near(o, p) .. n : i = n \/ o.cb[o.callbacks[i + 1]].priority < p})

Shifted(o, j) ==
  [i \in DOMAIN o.frames |->
     IF j < o.frames[i].idx THEN [o.frames[i] EXCEPT !.inserted = @ + 1] ELSE o.frames[i]]

Inserted(o, c) ==
  LET j == Place(o, o.cb[c].priority)
  IN [o EXCEPT !.callbacks = InsertAt(@, j + 1, c), !.frames = Shifted(o, j)]

-----------------------------------------------------------------------------
(* What user code does, outside or in the callback of the last emission    *)
(* (under MaxDepth emissions it only returns or stops the last of them).   *)

InUser == Len(obj.frames) < MaxDepth

(* The emission f is between two calls of one array.                       *)
InArray(f) == \E k \in ItemsFor(obj, f.cb, f.event) : k > f.item
Emissions  == ToSet(obj.frames)

(* efl_event_callback_priority_add, efl_event_callback_array_priority_add. *)
CallbackAdd(c, kind) ==
  /\ InUser
  /\ obj.cb[c].mem = "unborn" /\ \A d \in Cbs : d < c => obj.cb[d].mem # "unborn"
  /\ \A f \in Emissions :
       /\ InArray(f) => "editInArray" \in Liberties
       /\ f.idx > 1 /\ Place(obj, kind.priority) \in f.idx .. f.idx + f.inserted - 1
            => "crowdIn" \in Liberties
  /\ LET g == Generation(obj)
         o == [obj EXCEPT !.cb[c] = [NewCb EXCEPT !.mem = "live", !.items = kind.items,
                                         !.priority = kind.priority, !.generation = g],
                          !.cleaning = @ \/ g > 0]
     IN obj' = Enter(Counted(Inserted(o, c), {c}, 1), Add)

(* efl_event_callback_del, efl_event_callback_array_del.                   *)
CallbackDel(c) ==
  /\ InUser
  /\ obj.cb[c].mem = "live" /\ ~obj.cb[c].deleted
  /\ \A f \in Emissions : f.cb = c /\ InArray(f) => "editInArray" \in Liberties
  /\ LET o == [obj EXCEPT !.cb[c].deleted = TRUE]
     IN obj' = Enter(IF obj.frames = <<>> THEN Removed(o, {c}) ELSE [o EXCEPT !.cleaning = TRUE], Del)

(* efl_event_callback_call.                                                *)
CallbackCall(e) ==
  /\ InUser
  /\ (\E f \in Emissions : f.event = e /\ e \in Restart /\ f.inserted > 0)
       => "addAndRestart" \in Liberties
  /\ obj' = Enter(obj, e)

(* efl_event_callback_stop.                                                *)
CallbackStop ==
  /\ obj.frames # <<>> /\ ~obj.stopped
  /\ LET e == Top(obj).event
     IN obj' = [obj EXCEPT !.stopped = TRUE,
                           !.frames = [i \in DOMAIN @ |->
                              IF i = Len(@) \/ (e \in Restart /\ @[i].event = e)
                              THEN [@[i] EXCEPT !.excused = TRUE] ELSE @[i]]]

(* efl_event_freeze, or efl_event_global_freeze.                           *)
Freeze ==
  /\ InUser /\ obj.freeze < MaxFreeze
  /\ obj' = [obj EXCEPT !.freeze = @ + 1,
                        !.frames = [i \in DOMAIN @ |->
                           IF @[i].event \in Unfreezable THEN @[i] ELSE [@[i] EXCEPT !.excused = TRUE]]]

(* efl_event_thaw.                                                         *)
Thaw == InUser /\ obj.freeze > 0 /\ obj' = [obj EXCEPT !.freeze = @ - 1]

(* The callback returns.                                                   *)
Return == obj.frames # <<>> /\ obj' = Resume(obj)

Next ==
  \/ \E c \in Cbs, k \in Kinds : CallbackAdd(c, k)
  \/ \E c \in Cbs : CallbackDel(c)
  \/ \E e \in Events : CallbackCall(e)
  \/ CallbackStop \/ Freeze \/ Thaw \/ Return

Spec == Init /\ [][Next]_obj

-----------------------------------------------------------------------------
(* The list is sorted by priority and age, without gaps: what is listed is *)
(* alive, deleted callbacks wait for a clean-up only while some emission   *)
(* walks the list, and no listener is newer than the last emission.  The   *)
(* two counters that save emissions are those of the listed listeners.     *)
ListRight ==
  LET l == obj.callbacks
      n(e) == Cardinality(ItemsOf(obj, Listed(obj), e))
  IN /\ \A i, j \in DOMAIN l : i < j =>
          LET p == obj.cb[l[i]].priority   q == obj.cb[l[j]].priority
          IN p > q \/ (p = q /\ l[i] < l[j])
     /\ Listed(obj) = {c \in Cbs : obj.cb[c].mem = "live"}
     /\ \A c \in Listed(obj) : /\ obj.cb[c].deleted => obj.cleaning /\ obj.frames # <<>>
                               /\ obj.cb[c].generation <= Generation(obj)
     /\ obj.adds = n(Add) /\ obj.dels = n(Del)

(* A step of the program that calls a callback.                            *)
Calling ==
  /\ obj'.frames # <<>> /\ Len(obj'.frames) >= Len(obj.frames)
  /\ Len(obj'.frames) = Len(obj.frames) =>
       \/ Top(obj').cb # Top(obj).cb
       \/ Top(obj').item # Top(obj).item

(* "A callback is only executed on events emitted after this call          *)
(* finished", "will never be emitted again after this call, even if a      *)
(* event emission is taking place" (Eo.h:254, 268): who is called was      *)
(* listening when the emission began and is not deleted, and is called     *)
(* with its own data, that of the description at its position.             *)
CalledInTime ==
  [][Calling => LET f == Top(obj')
                IN f.cb \in f.due /\ ~obj'.cb[f.cb].deleted /\ obj'.callbacks[f.idx] = f.cb]_obj

(* "Callbacks of the same priority are called in reverse order of          *)
(* creation" (Eo.h:252), the others by priority, whatever was added and    *)
(* deleted meanwhile.                                                      *)
CalledInOrder ==
  \A f \in Emissions : f.event \notin Restart =>
    \A i, j \in DOMAIN f.called : i < j =>
      LET b == f.called[i]   c == f.called[j]
      IN \/ obj.cb[b].priority < obj.cb[c].priority
         \/ obj.cb[b].priority = obj.cb[c].priority /\ b >= c

Times(c, s) == Cardinality({i \in DOMAIN s : s[i] = c})

(* An emission that ends has reached every callback that was listening     *)
(* when it began and still is, and each once, unless user code stopped it  *)
(* or froze the object.  The nested emissions of an event with restart     *)
(* take over from the one around them, and count for it.                   *)
NobodySkipped ==
  [][Len(obj'.frames) < Len(obj.frames) =>
       LET f == Top(obj)
       IN ~f.excused /\ (f.event \in Restart => f.owner) =>
            \A c \in f.due : ~obj.cb[c].deleted =>
              Times(c, f.called) = IF f.event \in Restart THEN 1
                                   ELSE Cardinality(ItemsFor(obj, c, f.event))]_obj
=============================================================================
