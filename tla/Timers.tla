------------------------------- MODULE Timers -------------------------------
(***************************************************************************)
(* The timers of a main loop (ecore_timer.c).  A loop keeps its running    *)
(* timers in a list ordered by expiry, the others in a second list, and    *)
(* once per iteration walks the first list and calls the timers that have  *)
(* expired.  A tick callback may add, delete, freeze, thaw, delay, reset   *)
(* or mute any timer, its own included, and may run the main loop again,   *)
(* which continues the walk from timer_current.                            *)
(*                                                                         *)
(* Times are whole units of a monotonic clock that starts at 1.  All of    *)
(* this runs in one thread; what interleaves are the callbacks.  They take *)
(* time: loop_time, which the loop computes its timeout from, is then      *)
(* behind the clock, and the loop sleeps longer by as much.                *)
(***************************************************************************)
EXTENDS Integers, Sequences, FiniteSets, SequencesExt

CONSTANTS
  NTimers,     \* bound: timers created
  None,        \* no timer
  Interval,    \* intervals and delays in use
  Precision,   \* precision
  Hang,        \* the 15 s after which a missed timer is not replayed
  MaxTime,     \* bound: the clock
  MaxBusy,     \* bound: how long user code runs between two updates of loop_time
  MaxOps,      \* bound: calls of user code, other than the creation of timers
  MaxDepth,    \* bound: main loops inside each other
  Liberties    \* uses of the API the checked properties do not all survive

ASSUME TimerAssumption ==
  /\ NTimers \in Nat /\ None \notin 1..NTimers
  /\ Interval \subseteq Nat /\ Precision \in Nat /\ Hang \in Nat
  /\ MaxTime \in Nat /\ MaxBusy \in Nat /\ MaxOps \in Nat /\ MaxDepth \in Nat \ {0}
  /\ Liberties \subseteq {"freezeTwice", "unmuteLate", "muteSelf"}

VARIABLES
  ld,      \* Efl_Loop_Data and the data of its timers
  run,     \* the main loops inside each other, innermost last
  now,     \* ecore_time_get()
  loop_time,
  wake,    \* when the timeout of the sleeping loop is over, or -1
  ops      \* calls made

vars == <<ld, run, now, loop_time, wake, ops>>

\* Timers are numbered in the order of their creation.
Timer == 1..NTimers
Tm(L, t) == L.tm[t]
Live(L, t) == L.tm[t].status = "alive"
Top == run[Len(run)]
SetTop(r) == [run EXCEPT ![Len(run)] = r]
-----------------------------------------------------------------------------
(* The lists. *)

\* EINA_INLIST_GET(t)->next
NextIn(L, t) ==
  LET After(s) == LET i == CHOOSE i \in DOMAIN s : s[i] = t
                  IN IF i < Len(s) THEN s[i + 1] ELSE None
  IN IF t \in Range(L.timers) THEN After(L.timers)
     ELSE IF t \in Range(L.suspended) THEN After(L.suspended)
     ELSE None

Unlinked(L, t) ==
  [L EXCEPT !.timers = RemoveFirst(@, t), !.suspended = RemoveFirst(@, t)]

\* _efl_loop_timer_util_loop_clear()
LoopClear(L, t) ==
  [Unlinked(L, t) EXCEPT !.current = IF @ = t THEN NextIn(L, t) ELSE @]

\* The timer goes behind the last one that expires before it.
Insert(L, t) ==
  LET earlier == {i \in DOMAIN L.timers : Tm(L, L.timers[i]).at < Tm(L, t).at}
      k == IF earlier = {} THEN 0 ELSE CHOOSE i \in earlier : \A j \in earlier : j <= i
  IN SubSeq(L.timers, 1, k) \o <<t>> \o SubSeq(L.timers, k + 1, Len(L.timers))

\* _efl_loop_timer_util_instanciate()
Instanciate(L, t) ==
  LET C == LoopClear(L, t)
      m == Tm(L, t)
  IN IF m.listening = 0 \/ m.frozen \/ m.at <= 0
       THEN [C EXCEPT !.suspended = <<t>> \o @]
       ELSE [C EXCEPT !.timers = Insert(C, t)]

\* Mutants of TimerSet: the timer may fire in this walk, or nobody is told
\* that it may fire in the next.
TimerSetAtOnce(L, t, at) ==
  Instanciate([L EXCEPT !.timers_added = TRUE,
                        !.tm[t].at = IF L.tm[t].frozen THEN @ ELSE at,
                        !.tm[t].pending = IF L.tm[t].frozen THEN @ ELSE 0], t)
TimerSetUntold(L, t, at) ==
  Instanciate([L EXCEPT !.tm[t].just_added = TRUE,
                        !.tm[t].at = IF L.tm[t].frozen THEN @ ELSE at,
                        !.tm[t].pending = IF L.tm[t].frozen THEN @ ELSE 0], t)

\* _efl_loop_timer_set()
TimerSet(L, t, at) ==
  Instanciate([L EXCEPT !.timers_added = TRUE,
                        !.tm[t].just_added = TRUE,
                        !.tm[t].at = IF L.tm[t].frozen THEN @ ELSE at,
                        !.tm[t].pending = IF L.tm[t].frozen THEN @ ELSE 0], t)

\* A mutant of UtilDelay: the timer stays where it is in the list.
UtilDelayInPlace(L, t, add) ==
  IF Tm(L, t).frozen THEN [L EXCEPT !.tm[t].pending = @ + add]
  ELSE [L EXCEPT !.tm[t].at = @ + add]

\* _efl_loop_timer_util_delay()
UtilDelay(L, t, add) ==
  IF Tm(L, t).frozen THEN [L EXCEPT !.tm[t].pending = @ + add]
  ELSE TimerSet(L, t, Tm(L, t).at + add)

\* _efl_loop_timer_reschedule(): the timer is taken off the list of running
\* timers whichever list it is in.
Reschedule(L, t, when) ==
  LET m == Tm(L, t)
      Off == IF L.timers = <<>> THEN L
             ELSE IF t \in Range(L.timers) THEN [L EXCEPT !.timers = RemoveFirst(@, t)]
             ELSE IF t \in Range(L.suspended) /\ Len(L.suspended) > 1
               THEN IF t = L.suspended[1]
                      THEN [L EXCEPT !.timers = Tail(L.suspended), !.suspended = <<t>>]
                      ELSE [L EXCEPT !.suspended = RemoveFirst(@, t)]
             ELSE L
  IN IF m.frozen \/ m.status # "alive" THEN L
     ELSE TimerSet(Off, t, IF m.at + m.in < when - Hang THEN when + m.in ELSE m.at + m.in)

\* _efl_loop_timer_enable_new()
EnableNew(L) ==
  IF ~L.timers_added THEN L
  ELSE [L EXCEPT !.timers_added = FALSE,
                 !.tm = [t \in Timer |-> IF t \in Range(L.timers)
                                           THEN [@[t] EXCEPT !.just_added = FALSE]
                                           ELSE @[t]]]

\* The destructor runs when the last reference is gone: no walk is calling it.
Called == {run[k].timer : k \in DOMAIN run} \ {None}
Blank(status) ==
  [status |-> status, at |-> 0, in |-> 0, pending |-> 0, frozen |-> FALSE, freezes |-> 0,
   just_added |-> FALSE, listening |-> 0, delete_me |-> FALSE]
\* A mutant of Destroy: timer_current stays where it is.
DestroyStale(L, t) == [Unlinked(L, t) EXCEPT !.tm[t] = Blank("freed")]
Destroy(L, t) == [LoopClear(L, t) EXCEPT !.tm[t] = Blank("freed")]

\* efl_del(): the list is left by efl_parent_set(), which does not move
\* timer_current; the object goes now or when its callback returns.
Del(L, t) ==
  LET I == [Unlinked(L, t) EXCEPT !.tm[t] = Blank("invalid")]
  IN IF t \in Called THEN I ELSE Destroy(I, t)

\* _efl_loop_timer_next_get(): how long to sleep, by loop_time.  The last
\* enabled timer within the precision of the first enabled one says it.
NextGet(L) ==
  LET ready == {i \in DOMAIN L.timers : ~Tm(L, L.timers[i]).just_added}
      At(i) == Tm(L, L.timers[i]).at
      first == CHOOSE i \in ready : \A j \in ready : i <= j
      near  == {i \in ready : /\ i >= first
                              /\ \A j \in first..i : j = first \/ At(j) < At(first) + Precision}
      last  == CHOOSE i \in near : \A j \in near : j <= i
  IN IF ready = {} THEN -1
     ELSE IF At(last) < loop_time THEN 0 ELSE At(last) - loop_time
-----------------------------------------------------------------------------
(* Calls of user code: from a tick callback, or from the rest of the loop. *)

UserCode == IF Top.phase = "calling" THEN Top.heard ELSE Top.phase # "asleep"

Change(L) == UserCode /\ ld' = L
Call(L) ==
  /\ ops < MaxOps /\ ops' = ops + 1
  /\ Change(L)
  /\ UNCHANGED <<run, now, loop_time, wake>>

\* ecore_timer_add(), ecore_timer_loop_add(), efl_add(): the constructor and
\* finalize.  An Efl timer may have no tick callback yet.
Add(t, in, listening) ==
  /\ Tm(ld, t).status = "none" /\ \A u \in 1..(t-1) : Tm(ld, u).status # "none"
  /\ Change(TimerSet([ld EXCEPT !.tm[t].status = "alive", !.tm[t].in = in,
                              !.tm[t].listening = listening], t, now + in))
  /\ UNCHANGED <<run, now, loop_time, wake, ops>>

\* efl_del(), and ecore_timer_del() outside the timer's callback
DelNow(t) == Live(ld, t) /\ Call(Del(ld, t))

\* ecore_timer_del() inside it
DelLater(t) ==
  /\ Live(ld, t) /\ t \in Called
  /\ Call([ld EXCEPT !.tm[t].delete_me = TRUE])

SetInterval(t, in) == Live(ld, t) /\ Call([ld EXCEPT !.tm[t].in = in])

Delay(t, add) == Live(ld, t) /\ Call(UtilDelay(ld, t, add))

\* ecore_timer_reset() and ecore_timer_loop_reset() differ in their now.
Reset(t, time) ==
  /\ Live(ld, t) /\ ld.current # t
  /\ LET m == Tm(ld, t)
     IN Call(UtilDelay(ld, t, m.in - (IF m.frozen THEN m.pending ELSE m.at - time)))

\* efl_event_freeze() of the object counts; the timer's own flag does not.
Freeze(t) ==
  /\ Live(ld, t)
  /\ ~Tm(ld, t).frozen \/ "freezeTwice" \in Liberties
  /\ LET L == [ld EXCEPT !.tm[t].freezes = @ + 1]
     IN Call(IF Tm(L, t).frozen THEN L
             ELSE Instanciate([L EXCEPT !.tm[t].pending = Tm(L, t).at - loop_time,
                                        !.tm[t].at = 0, !.tm[t].frozen = TRUE], t))

Thaw(t) ==
  /\ Live(ld, t) /\ Tm(ld, t).freezes > 0
  /\ LET L == [ld EXCEPT !.tm[t].freezes = @ - 1]
     IN Call(IF ~Tm(L, t).frozen THEN L
             ELSE TimerSet([L EXCEPT !.tm[t].frozen = FALSE,
                                     !.suspended = RemoveFirst(@, t)],
                           t, Tm(L, t).pending + now))

\* Removing the tick callback, and adding it back.
Mute(t) ==
  /\ Live(ld, t) /\ Tm(ld, t).listening = 1
  /\ t \in Called => "muteSelf" \in Liberties
  /\ Call(Instanciate([ld EXCEPT !.tm[t].listening = 0], t))

Unmute(t) ==
  /\ Live(ld, t) /\ Tm(ld, t).listening = 0
  /\ Tm(ld, t).just_added /\ ~ld.timers_added => "unmuteLate" \in Liberties
  /\ Call(Instanciate([ld EXCEPT !.tm[t].listening = 1], t))

\* efl_parent_set() to another object of the same loop
Reparent(t) ==
  /\ Live(ld, t)
  /\ Call(Instanciate(Unlinked(ld, t), t))

UserOp ==
  \E t \in Timer :
    \/ \E in \in Interval : Add(t, in, 1) \/ Add(t, in, 0)
    \/ \E in \in Interval : SetInterval(t, in) \/ Delay(t, in)
    \/ DelNow(t) \/ DelLater(t) \/ Reset(t, now) \/ Reset(t, loop_time)
    \/ Freeze(t) \/ Thaw(t) \/ Mute(t) \/ Unmute(t) \/ Reparent(t)
-----------------------------------------------------------------------------
(* The walk. *)

Frame(phase) == [phase |-> phase, timer |-> None, when |-> 0, heard |-> FALSE, done |-> {}]

\* The rest of _efl_loop_timer_expired_call() up to the next tick: timers
\* added since the last turn are passed over, the first that has not expired
\* ends the walk.  (Here and in Return, \E over one value names it; TLC would
\* compute a LET anew for each use when it looks whether the step is enabled.)
WalkOn(lists, when, done) == \E L \in {lists} :
  LET from == IF L.current = None THEN 0
              ELSE CHOOSE i \in DOMAIN L.timers : L.timers[i] = L.current
      stops == {i \in DOMAIN L.timers :
                  /\ i >= from
                  /\ Tm(L, L.timers[i]).at > when \/ ~Tm(L, L.timers[i]).just_added}
      i == CHOOSE k \in stops : \A j \in stops : k <= j
      t == L.timers[i]
  IN IF L.current = None \/ stops = {} \/ Tm(L, t).at > when
       THEN /\ ld' = [L EXCEPT !.current = None]
            /\ run' = SetTop([Frame("walked") EXCEPT !.when = when])
       ELSE /\ ld' = [L EXCEPT !.current = t]
            /\ run' = SetTop([phase |-> "calling", timer |-> t, when |-> when,
                              heard |-> Tm(L, t).freezes = 0, done |-> done])

\* The start: from the head of the list, or, inside the callback of the
\* timer the outer walk is at, from the timer after that one.
WalkStart ==
  /\ Top.phase = "turned"
  /\ UNCHANGED <<now, loop_time, wake, ops>>
  /\ IF ld.timers = <<>>
       THEN ld' = ld /\ run' = SetTop([Frame("walked") EXCEPT !.when = loop_time])
       ELSE WalkOn(IF ld.current = None THEN [ld EXCEPT !.current = ld.timers[1]]
                   ELSE Reschedule([ld EXCEPT !.current = NextIn(ld, @)], ld.current, loop_time),
                   loop_time, {})

\* The tick is over; a legacy callback may cancel its timer.
Return(cancel) ==
  /\ Top.phase = "calling"
  /\ cancel => Top.heard
  /\ UNCHANGED <<now, loop_time, wake, ops>>
  /\ LET t == Top.timer
         others == {run[k].timer : k \in 1..(Len(run) - 1)}
     IN \E D \in {IF (cancel \/ Tm(ld, t).delete_me) /\ Live(ld, t) THEN Del(ld, t) ELSE ld} :
        \E C \in {IF D.current = None THEN D ELSE [D EXCEPT !.current = NextIn(D, @)]} :
        \E R \in {Reschedule(C, t, Top.when)} :
          WalkOn(IF ~Live(R, t) /\ t \notin others THEN Destroy(R, t) ELSE R,
                 Top.when, Top.done \cup {t})

\* A callback runs the main loop, once or until it is told to quit.
Nest ==
  /\ Top.phase = "calling" /\ Top.heard
  /\ Len(run) < MaxDepth
  /\ run' = Append(run, Frame("turned"))
  /\ loop_time' = now
  /\ UNCHANGED <<ld, now, wake, ops>>

\* The end of an inner loop that does not sleep in its last iteration: it
\* has polled the descriptors, or user code made it quit.
Unnest ==
  /\ Top.phase = "walked" /\ Len(run) > 1
  /\ loop_time' \in {loop_time, now}
  /\ ld' = EnableNew(ld)
  /\ run' = SubSeq(run, 1, Len(run) - 1)
  /\ UNCHANGED <<now, wake, ops>>

\* The loop goes to sleep until the next timer.  select() counts the time
\* from now on, whatever the callbacks took since loop_time was updated.
Sleep ==
  /\ Top.phase = "walked"
  /\ ld' = EnableNew(ld)
  /\ wake' = IF NextGet(ld') = -1 THEN -1 ELSE now + NextGet(ld')
  /\ run' = SetTop(Frame("asleep"))
  /\ UNCHANGED <<now, loop_time, ops>>

\* After select() an iteration ends: another follows, or an inner loop does.
Turned ==
  \/ run' = SetTop(Frame("turned"))
  \/ Len(run) > 1 /\ run' = SubSeq(run, 1, Len(run) - 1)

\* A mutant of Woken: the time of the loop is not updated.
WokenStale ==
  /\ Turned
  /\ wake' = -1
  /\ UNCHANGED <<ld, now, loop_time, ops>>

Woken ==
  /\ Turned
  /\ loop_time' = now /\ wake' = -1
  /\ UNCHANGED <<ld, now, ops>>

\* The timeout is over, or there is an event before.
WakeUp == Top.phase = "asleep" /\ wake # -1 /\ wake <= now /\ Woken

WakeEvent == Top.phase = "asleep" /\ Woken

Pass ==
  /\ now < MaxTime
  /\ Top.phase = "asleep" \/ now - loop_time < MaxBusy
  /\ now' = now + 1
  /\ UNCHANGED <<ld, run, loop_time, wake, ops>>

Init ==
  /\ ld = [timers |-> <<>>, suspended |-> <<>>, current |-> None, timers_added |-> FALSE,
           tm |-> [t \in Timer |-> Blank("none")]]
  /\ run = <<Frame("turned")>>
  /\ now = 1 /\ loop_time = 1 /\ wake = -1 /\ ops = 0

LoopStep == WalkStart \/ Return(FALSE) \/ Return(TRUE) \/ Unnest \/ Sleep \/ WakeUp

Next == UserOp \/ LoopStep \/ Nest \/ WakeEvent \/ Pass

Spec == Init /\ [][Next]_vars

\* There is a step for the loop to take: ENABLED LoopStep, in terms of the
\* state (TLC would compute a whole walk to see that it can be made).
LoopRuns == Top.phase # "asleep" \/ (wake # -1 /\ wake <= now)

\* Callbacks return and the loop iterates, which is WF_vars(LoopStep); the
\* clock runs.
FairSpec == Spec /\ ([]<>~LoopRuns \/ []<><<LoopStep>>_vars) /\ WF_vars(Pass)
-----------------------------------------------------------------------------
Sorted(L) ==
  \A i, j \in DOMAIN L.timers : i < j => Tm(L, L.timers[i]).at <= Tm(L, L.timers[j]).at

\* Each live timer is in one of the lists, once, in the one where its state
\* belongs, and the running timers are in the order in which they expire,
\* whatever callbacks did to them in the middle of a walk.
ListsSane ==
  /\ IsInjective(ld.timers \o ld.suspended)
  /\ Range(ld.timers \o ld.suspended) = {t \in Timer : Live(ld, t)}
  /\ \A t \in Range(ld.timers) : ~Tm(ld, t).frozen /\ Tm(ld, t).listening > 0
  /\ \A t \in Range(ld.suspended) : Tm(ld, t).frozen \/ Tm(ld, t).listening = 0
  /\ Sorted(ld)

\* timer_current never points to a timer that is gone, and a timer that is
\* being called is not gone.
CurrentSafe ==
  \A t \in Called \cup ({ld.current} \ {None}) : Tm(ld, t).status # "freed"

\* A walk calls no timer twice, so that it ends however the callbacks
\* reschedule timers.
NoDoubleCall ==
  \A k \in DOMAIN run : run[k].timer \notin run[k].done

\* The loop sleeps past a timer by no more than the precision it was given
\* and the time user code took since loop_time was updated, which the code
\* adds to its sleep; one that had expired by then does not let it sleep.
NoOversleep ==
  Top.phase = "asleep" /\ ld.timers # <<>> =>
    LET at == Tm(ld, ld.timers[1]).at
    IN /\ wake # -1
       /\ \/ wake <= loop_time + MaxBusy
          \/ wake <= at + MaxBusy
          \/ wake < at + Precision + MaxBusy

\* A timer that has expired, by the precision and the time user code may
\* take, is called unless user code changes it first.
Due(t) == t \in Range(ld.timers) /\ Tm(ld, t).at + Precision + MaxBusy <= now + 1
DueTimersFire == \A t \in Timer : Due(t) ~> ~Due(t)

\* The precision is all that a wakeup is late by, whatever the callbacks took.
\* The code breaks this and the next two properties: no run states them.
PrecisionKept ==
  Top.phase = "asleep" /\ ld.timers # <<>> =>
    LET at == Tm(ld, ld.timers[1]).at IN wake <= now \/ wake <= at \/ wake < at + Precision

\* A timer whose turn it is gets its tick.
TickHeard == Top.phase = "calling" => Top.heard

\* The walk leaves no expired timer behind.
WalkComplete ==
  Top.phase = "walked" =>
    \A t \in Range(ld.timers) : Tm(ld, t).just_added \/ Tm(ld, t).at > Top.when
=============================================================================
