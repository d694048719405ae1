------------------------------ MODULE Promise ------------------------------
(***************************************************************************)
(* Promises and chains of futures (src/src/lib/eina/eina_promise.c) with    *)
(* the scheduler of the main loop (src/src/lib/ecore/ecore_events.c).       *)
(*                                                                         *)
(* A chain is a list of futures; its head waits for a promise or for an    *)
(* entry of the scheduler.  Everything happens on the main loop's thread,  *)
(* whose activations are a stack: the callback of a future and that of a   *)
(* cancelled promise are user code, which may use the whole interface and  *)
(* run the loop again.  A value is "plain" (a value or an error) or a      *)
(* promise, as made by eina_promise_as_value().                            *)
(*                                                                         *)
(* A promise may be the library's own: that of eina_promise_all() or of    *)
(* eina_promise_race() over futures, or the value eina_future_as_value()   *)
(* makes of a future (a proxy).  The library then hangs inner futures of   *)
(* its own on the given ones, and answers when their callbacks have come.  *)
(***************************************************************************)
EXTENDS Integers, Sequences, FiniteSets, SequencesExt

CONSTANTS
  MaxFutures,    (* bound: futures ever created                            *)
  MaxPromises,   (* bound: promises ever created                           *)
  MaxJoins,      (* bound: promises of the library ever created            *)
  MaxDepth,      (* bound: activations under which user code calls back    *)
  Liberties      (* what user code is free to do, see Cancel and LoopRun   *)

ASSUME BoundsAssumption == {MaxFutures, MaxPromises, MaxJoins, MaxDepth} \subseteq Nat
ASSUME LibertiesAssumption == 
  Liberties \subseteq {"cancelDetached", "cancelBusy", "cancelJoin", "failProxied", "raceTogether"}

Futures  == 1 .. MaxFutures
Promises == 1 .. MaxPromises
None     == 0

VARIABLES
  future,     (* Eina_Future                                               *)
  promise,    (* Eina_Promise                                              *)
  join,       (* per promise: the Base_Ctx of one of the library           *)
  entries,    (* future_entries of the loop's scheduler                    *)
  stack,      (* the activations                                           *)
  ghost       (* per future: its calls, and the future it was chained to   *)

vars == <<future, promise, join, entries, stack, ghost>>

-----------------------------------------------------------------------------
NewFuture  == [mem |-> "unborn", cb |-> "none", next |-> None, prev |-> None,
               promise |-> None, entry |-> FALSE]
NewPromise == [mem |-> "unborn", future |-> None, scheduler |-> FALSE, given |-> FALSE]

(* A proxy has no context: the promise is the data of its inner future.    *)
(* What a race calls dispatching is that one was processed.                *)
NewJoin    == [kind |-> "none", mem |-> "unborn", futures |-> <<>>, processed |-> 0]
JoinKinds  == {"none", "all", "race", "proxy"}

FrameKinds == {"user", "loop", "dispatch", "called", "cancel", "cancelCalled",
               "cancelFree", "dying", "clean", "answer"}

(* An activation, about future f or promise p, with what it has to do yet: *)
(* the loop's entries, the positions of a context to be cleaned.           *)
Frame(k, f)  == [kind |-> k, f |-> f, p |-> None, todo |-> <<>>]
User(f)      == Frame("user", f)
Dying(p)     == [Frame("dying", None) EXCEPT !.p = p]
Answer(p)    == [Frame("answer", None) EXCEPT !.p = p]
Clean(p)     == [Frame("clean", None) EXCEPT !.p = p,
                                             !.todo = [i \in DOMAIN join[p].futures |-> i]]

Init ==
  /\ future = [f \in Futures |-> NewFuture]
  /\ promise = [p \in Promises |-> NewPromise]
  /\ join = [p \in Promises |-> NewJoin]
  /\ entries = <<>>
  /\ stack = <<User(None)>>
  /\ ghost = [f \in Futures |-> [calls |-> 0, after |-> None]]

Top     == stack[Len(stack)]
Below   == Front(stack)
Under   == stack[Len(stack) - 1]
At(k)   == Top.kind = k
InUser  == At("user") /\ Len(stack) <= MaxDepth

Live(f)     == f \in Futures /\ future[f].mem = "live"
Usable(p)   == p \in Promises /\ promise[p].mem = "live"
Waiting(f)  == Live(f) /\ future[f].cb # "dispatched"
Given(f)    == Waiting(f) /\ future[f].cb # "inner"     (* in the user's hands *)
Theirs(p)   == Usable(p) /\ join[p].kind = "none"

(* Objects are created in the order of their numbers.                      *)
Fresh(objects, o) == /\ objects[o].mem = "unborn"
                     /\ \A x \in DOMAIN objects : x < o => objects[x].mem # "unborn"

-----------------------------------------------------------------------------
(* Helpers of eina_promise.c, as functions of the futures and promises.    *)

(* _eina_future_free: unlinked from its neighbours.                        *)
Freed(f) ==
  [g \in Futures |->
     IF g = f THEN [future[g] EXCEPT !.mem = "freed"]
     ELSE [future[g] EXCEPT !.prev = IF future[f].next = g THEN None ELSE @,
                            !.next = IF future[f].prev = g THEN None ELSE @]]

(* Mutant of Dispatched: the future is not marked as being called.         *)
DispatchedUnmarked(f) ==
  [g \in Futures |->
     [future[g] EXCEPT !.prev = IF future[f].next = g THEN None ELSE @,
                       !.next = IF future[f].prev = g THEN None ELSE @]]

(* _eina_future_cb_dispatch: cut from both neighbours' view, then called.  *)
Dispatched(f) ==
  [g \in Futures |->
     IF g = f THEN [future[g] EXCEPT !.cb = "dispatched"]
     ELSE [future[g] EXCEPT !.prev = IF future[f].next = g THEN None ELSE @,
                            !.next = IF future[f].prev = g THEN None ELSE @]]

CallBack(f, kind) ==
  /\ future' = Dispatched(f)
  /\ ghost' = [ghost EXCEPT ![f].calls = @ + 1]
  /\ stack' = Below \o <<Frame(kind, f), User(f)>>

(* _eina_promise_unlink in a set of futures, of a promise or of none.      *)
Unlinked(p) == [g \in Futures |->
                  IF p # None /\ promise[p].future = g
                  THEN [future[g] EXCEPT !.promise = None] ELSE future[g]]

(* The start of _eina_promise_cancel: unlinked, its callback about to run. *)
Condemned(p) == [promise EXCEPT ![p].future = None, ![p].mem = "dying"]

(* Its cancel callback: the user's, that of a context, or one that does    *)
(* nothing.  Then its memory goes.                                         *)
Doomed(p) ==
  IF p = None THEN <<>>
  ELSE CASE join[p].kind = "none"             -> <<Dying(p), User(None)>>
         [] join[p].kind \in {"all", "race"} -> <<Dying(p), Clean(p)>>
         [] join[p].kind = "proxy"            -> <<Dying(p)>>

(* _eina_promise_value_steal_and_link of promise q, for future f.          *)
Stolen(q, f, scheduler) ==
  [promise EXCEPT ![q].future = f, ![q].given = TRUE,
                  ![q].scheduler = @ \/ scheduler]

(* The first future of the chain of f, as far as f can see it.             *)
HeadOf(f) ==
  LET up[n \in 0 .. MaxFutures] ==
        IF n = 0 THEN f
        ELSE IF future[up[n - 1]].prev = None THEN up[n - 1] ELSE future[up[n - 1]].prev
  IN up[MaxFutures]

(* The promise of the library that inner future g belongs to, and where.   *)
Owner(g)    == CHOOSE p \in Promises : g \in ToSet(join[p].futures)
Position(g) == CHOOSE i \in DOMAIN join[Owner(g)].futures : join[Owner(g)].futures[i] = g

Inners(p)   == ToSet(join[p].futures) \ {None}
Inner(kind) == UNION {Inners(p) : p \in {q \in Promises : join[q].kind = kind}}

-----------------------------------------------------------------------------
(* What user code does.                                                    *)

PromiseNew(p) ==
  /\ InUser /\ Fresh(promise, p)
  /\ promise' = [promise EXCEPT ![p] = [NewPromise EXCEPT !.mem = "live", !.scheduler = TRUE]]
  /\ UNCHANGED <<future, join, entries, stack, ghost>>

(* eina_promise_continue_new, in the callback of a future.                 *)
ContinueNew(p) ==
  /\ InUser /\ Top.f # None
  /\ Fresh(promise, p)
  /\ promise' = [promise EXCEPT ![p] = [NewPromise EXCEPT !.mem = "live"]]
  /\ UNCHANGED <<future, join, entries, stack, ghost>>

(* A promise that is nobody's yet: it may get a future or become a value.  *)
Own(p) == Usable(p) /\ promise[p].future = None /\ ~promise[p].given

(* eina_future_new: a future without a callback.                           *)
FutureNew(p, f) ==
  /\ InUser /\ Own(p) /\ promise[p].scheduler /\ join[p].kind # "proxy"
  /\ Fresh(future, f)
  /\ future' = [future EXCEPT ![f] = [NewFuture EXCEPT !.mem = "live", !.promise = p]]
  /\ promise' = [promise EXCEPT ![p].future = f]
  /\ UNCHANGED <<join, entries, stack, ghost>>

Then(f, g) ==
  /\ InUser /\ Given(f) /\ future[f].next = None
  /\ Fresh(future, g)
  /\ future' = [future EXCEPT ![f].next = g,
                              ![g] = [NewFuture EXCEPT !.mem = "live", !.cb = "user",
                                                       !.prev = f]]
  /\ ghost' = [ghost EXCEPT ![g].after = f]
  /\ UNCHANGED <<promise, join, entries, stack>>

(* Some activation is in the middle of this chain and will go on with h.   *)
Busy(h) ==
  \E i \in DOMAIN stack :
    \/ stack[i].kind \in {"called", "cancelCalled", "cancelFree"} /\ future[stack[i].f].next = h
    \/ stack[i].kind = "cancel" /\ stack[i].f = h

(* The entry of h was taken over by an activation of the loop.             *)
Detached(h) == \E i \in DOMAIN stack : h \in ToSet(stack[i].todo)

(* A race cancels its losers when one is called.  Its other futures are    *)
(* at rest then, unless the loop took over the entries of two of them, or  *)
(* is run again in the middle of one (hs: the heads that go on).           *)
Contested(hs) ==
  \E p \in Promises :
    /\ join[p].kind = "race" /\ join[p].processed = 0
    /\ \E f, g \in Inners(p) : f # g /\ {HeadOf(f), HeadOf(g)} \subseteq hs

OnTheWay == ToSet(entries) \cup {h \in Futures : Detached(h)}
UnderWay == {h \in Futures : Detached(h) \/ Busy(h)}

(* The scheduler's list, with an entry for f at its end.                   *)
Scheduled(f) == Append(entries, f)

(* eina_promise_resolve and eina_promise_reject with a future to tell: the *)
(* future is scheduled, and the promise is gone.                           *)
Resolve(p) ==
  /\ InUser /\ Theirs(p) /\ promise[p].future # None
  /\ promise[p].scheduler
  /\ Contested(OnTheWay \cup {promise[p].future}) => "raceTogether" \in Liberties
  /\ LET f == promise[p].future
     IN /\ future' = [future EXCEPT ![f].promise = None, ![f].entry = TRUE]
        /\ entries' = Scheduled(f)
  /\ promise' = [promise EXCEPT ![p].mem = "freed", ![p].future = None]
  /\ UNCHANGED <<join, stack, ghost>>

(* No chain is made to wait for a promise of the library that waits for it.*)
NoCircle(q, f) == \A g \in Inners(q) : HeadOf(g) # f

(* Mutant of ResolveByPromise: the new promise is not linked.              *)
ResolveByPromiseUnlinked(p, q) ==
  /\ InUser /\ Theirs(p) /\ promise[p].future # None
  /\ Own(q) /\ q # p /\ NoCircle(q, promise[p].future)
  /\ LET f == promise[p].future
     IN /\ future' = [future EXCEPT ![f].promise = None]
        /\ promise' = [Stolen(q, None, promise[p].scheduler)
                          EXCEPT ![p].mem = "freed", ![p].future = None]
  /\ UNCHANGED <<join, entries, stack, ghost>>

(* The value is another promise: the future waits for that one now.        *)
ResolveByPromise(p, q) ==
  /\ InUser /\ Theirs(p) /\ promise[p].future # None
  /\ Own(q) /\ q # p /\ NoCircle(q, promise[p].future)
  /\ LET f == promise[p].future
     IN /\ future' = [future EXCEPT ![f].promise = q]
        /\ promise' = [Stolen(q, f, promise[p].scheduler)
                          EXCEPT ![p].mem = "freed", ![p].future = None]
  /\ UNCHANGED <<join, entries, stack, ghost>>

(* Nobody to tell: a plain value is dropped, and a promise is cancelled by *)
(* the flush of the value before p is freed.                               *)
ResolveUnlinked(p) ==
  /\ InUser /\ Theirs(p) /\ promise[p].future = None
  /\ promise' = [promise EXCEPT ![p].mem = "freed"]
  /\ UNCHANGED <<future, join, entries, stack, ghost>>

(* A promise of the library is left to it, unless users are free to cancel *)
(* or drop it.                                                             *)
MayDrop(q) == join[q].kind = "none" \/ "cancelJoin" \in Liberties

ResolveUnlinkedByPromise(p, q) ==
  /\ InUser /\ Theirs(p) /\ promise[p].future = None
  /\ Own(q) /\ q # p /\ MayDrop(q)
  /\ promise' = [promise EXCEPT ![p].mem = "dying", ![q].mem = "dying"]
  /\ stack' = stack \o <<Dying(p)>> \o Doomed(q)
  /\ UNCHANGED <<future, join, entries, ghost>>

(* The scheduler's recall: an entry no longer in its list is left alone.   *)
(* Mutant: the entry stays.                                                *)
NotRecalled(h) == entries

Recalled(h) == RemoveFirst(entries, h)

(* _eina_future_cancel from h on, over the activations base: the entry is  *)
(* recalled and the promise cancelled before the futures are told.         *)
CancelChain(h, base) ==
  LET p == future[h].promise
  IN /\ entries' = IF future[h].entry THEN Recalled(h) ELSE entries
     /\ future' = [Unlinked(p) EXCEPT ![h].entry = FALSE]
     /\ promise' = IF p = None THEN promise ELSE Condemned(p)
     /\ stack' = base \o <<Frame("cancel", h)>> \o Doomed(p)
     /\ UNCHANGED <<join, ghost>>

MayCancel(h) ==
  /\ Detached(h) => "cancelDetached" \in Liberties
  /\ Busy(h) => "cancelBusy" \in Liberties
  /\ future[h].promise # None => MayDrop(future[h].promise)
  /\ (\E g \in Inner("proxy") : HeadOf(g) = h) => "failProxied" \in Liberties
  /\ Contested(UnderWay \cup {h}) => "raceTogether" \in Liberties

(* Mutant of Cancel: the chain is cancelled from f on, not from its head.  *)
CancelFrom(f) == InUser /\ Given(f) /\ MayCancel(f) /\ CancelChain(f, stack)

(* eina_future_cancel.                                                     *)
Cancel(f) == InUser /\ Given(f) /\ MayCancel(HeadOf(f)) /\ CancelChain(HeadOf(f), stack)

(* The loop, or a loop run inside a callback, hands out its entries: the   *)
(* list is taken over as a whole.                                          *)
LoopRun ==
  /\ InUser /\ entries # <<>>
  /\ Contested(UnderWay \cup ToSet(entries)) => "raceTogether" \in Liberties
  /\ stack' = Append(stack, [Frame("loop", None) EXCEPT !.todo = entries])
  /\ entries' = <<>>
  /\ UNCHANGED <<future, promise, join, ghost>>

(* Promises of the library over futures fs, with an inner future after     *)
(* each; the scheduler is that of the first one's head.                    *)
HasScheduler(f) == future[HeadOf(f)].promise # None \/ future[HeadOf(f)].entry

Joins == {p \in Promises : join[p].kind # "none"}
Born  == Cardinality({f \in Futures : future[f].mem # "unborn"})

JoinNew(kind, p, fs) ==
  /\ InUser /\ Fresh(promise, p) /\ Cardinality(Joins) < MaxJoins
  /\ \A f \in ToSet(fs) : Given(f) /\ future[f].next = None
  /\ HasScheduler(fs[1])
  /\ Born + Len(fs) <= MaxFutures
  /\ LET after(i) == Born + i
     IN /\ future' = [f \in Futures |->
                        CASE f \in ToSet(fs) ->
                               [future[f] EXCEPT !.next = after(CHOOSE i \in DOMAIN fs : fs[i] = f)]
                          [] f - Born \in DOMAIN fs ->
                               [NewFuture EXCEPT !.mem = "live", !.cb = "inner", !.prev = fs[f - Born]]
                          [] OTHER -> future[f]]
        /\ ghost' = [f \in Futures |->
                       IF f - Born \in DOMAIN fs THEN [ghost[f] EXCEPT !.after = fs[f - Born]] ELSE ghost[f]]
        /\ join' = [join EXCEPT ![p] = [NewJoin EXCEPT !.kind = kind, !.mem = "live",
                                                       !.futures = [i \in DOMAIN fs |-> after(i)]]]
  /\ promise' = [promise EXCEPT ![p] = [NewPromise EXCEPT !.mem = "live", !.scheduler = TRUE]]
  /\ UNCHANGED <<entries, stack>>

(* eina_promise_all, of two futures.                                       *)
PromiseAll(p, f, g) == f < g /\ JoinNew("all", p, <<f, g>>)

(* eina_promise_race, of two futures at rest.                              *)
PromiseRace(p, f, g) ==
  /\ f < g /\ JoinNew("race", p, <<f, g>>)
  /\ \/ {HeadOf(f), HeadOf(g)} \cap UnderWay # {}
     \/ {HeadOf(f), HeadOf(g)} \subseteq ToSet(entries)
     => "raceTogether" \in Liberties

(* eina_future_as_value.                                                   *)
FutureAsValue(p, f) == JoinNew("proxy", p, <<f>>)

-----------------------------------------------------------------------------
(* What eina_promise.c does by itself.                                     *)

LoopEnd ==
  /\ At("loop") /\ Top.todo = <<>>
  /\ stack' = Below
  /\ UNCHANGED <<future, promise, join, entries, ghost>>

(* Mutant of LoopNext: only the first entry of the list is delivered.      *)
LoopFirst ==
  /\ At("loop") /\ Top.todo # <<>>
  /\ LET f == Head(Top.todo)
     IN /\ future' = [future EXCEPT ![f].entry = FALSE]
        /\ stack' = Below \o <<[Top EXCEPT !.todo = <<>>], Frame("dispatch", f)>>
  /\ UNCHANGED <<promise, join, entries, ghost>>

(* _scheduled_entry_cb.                                                    *)
LoopNext ==
  /\ At("loop") /\ Top.todo # <<>>
  /\ LET f == Head(Top.todo)
     IN /\ future' = [future EXCEPT ![f].entry = FALSE]
        /\ stack' = Below \o <<[Top EXCEPT !.todo = Tail(@)], Frame("dispatch", f)>>
  /\ UNCHANGED <<promise, join, entries, ghost>>

(* EINA_FUTURE_DISPATCHED: the callback of n runs further down the stack.  *)
BeingCalled(n) == n # None /\ future[n].cb = "dispatched"

(* Go on with the future behind the one that is freed, if there is one.    *)
Onwards(kind, n) == IF n = None THEN Below ELSE Append(Below, Frame(kind, n))

(* Both loops free a future without callback and go on, and stop at one    *)
(* that is being called.                                                   *)
Skip(kind) ==
  /\ At(kind) /\ future[Top.f].cb \in {"none", "dispatched"}
  /\ future' = IF BeingCalled(Top.f) THEN future ELSE Freed(Top.f)
  /\ stack' = IF BeingCalled(Top.f) THEN Below ELSE Onwards(kind, future[Top.f].next)
  /\ UNCHANGED <<promise, join, entries, ghost>>

(* _eina_future_dispatch.                                                  *)
DispatchSkip == Skip("dispatch")

DispatchCall ==
  /\ At("dispatch") /\ future[Top.f].cb = "user"
  /\ CallBack(Top.f, "called")
  /\ UNCHANGED <<promise, join, entries>>

(* A callback returned into the activation under it.                       *)
Returning(kind) == At("user") /\ Len(stack) > 1 /\ Under.kind = kind

(* The stack without the callback and without the activation under it.     *)
Base == Front(Below)

After(kind, n) == IF n = None THEN Base ELSE Append(Base, Frame(kind, n))

(* ... with a value for the next future.                                   *)
ReturnValue ==
  /\ Returning("called")
  /\ LET f == Under.f
     IN /\ future' = Freed(f)
        /\ stack' = After("dispatch", future[f].next)
  /\ UNCHANGED <<promise, join, entries, ghost>>

(* ... with a promise: the next future waits for it, or nobody does; it is *)
(* cancelled if that future is being called.                               *)
ReturnPromise(q) ==
  /\ Returning("called") /\ Own(q) /\ NoCircle(q, future[Under.f].next)
  /\ LET f == Under.f
         n == future[f].next
     IN IF BeingCalled(n)
        THEN /\ MayDrop(q)
             /\ future' = Freed(f)
             /\ promise' = Condemned(q)
             /\ stack' = Base \o Doomed(q)
        ELSE /\ future' = [g \in Futures |-> IF g = n THEN [Freed(f)[g] EXCEPT !.promise = q]
                                             ELSE Freed(f)[g]]
             /\ promise' = Stolen(q, n, TRUE)
             /\ stack' = Base
  /\ UNCHANGED <<join, entries, ghost>>

(* The loop of _eina_future_cancel.                                        *)
CancelSkip == Skip("cancel")

CancelCall ==
  /\ At("cancel") /\ future[Top.f].cb = "user"
  /\ CallBack(Top.f, "cancelCalled")
  /\ UNCHANGED <<promise, join, entries>>

ReturnCancelled ==
  /\ Returning("cancelCalled")
  /\ LET f == Under.f
     IN /\ future' = Freed(f)
        /\ stack' = After("cancel", future[f].next)
  /\ UNCHANGED <<promise, join, entries, ghost>>

(* A promise returned to a cancelled chain is cancelled with its value.    *)
ReturnCancelledPromise(q) ==
  /\ Returning("cancelCalled") /\ Own(q) /\ MayDrop(q)
  /\ promise' = Condemned(q)
  /\ stack' = Base \o <<Frame("cancelFree", Under.f)>> \o Doomed(q)
  /\ UNCHANGED <<future, join, entries, ghost>>

CancelFree ==
  /\ At("cancelFree")
  /\ future' = Freed(Top.f)
  /\ stack' = Onwards("cancel", future[Top.f].next)
  /\ UNCHANGED <<promise, join, entries, ghost>>

(* The cancel callback of a promise returned: its memory goes.             *)
ReturnDying ==
  /\ Returning("dying")
  /\ promise' = [promise EXCEPT ![Under.p].mem = "freed"]
  /\ stack' = Base
  /\ UNCHANGED <<future, join, entries, ghost>>

(* A promise that was resolved by a promise nobody waits for, or that has  *)
(* answered.                                                               *)
DyingResolved ==
  /\ At("dying")
  /\ promise' = [promise EXCEPT ![Top.p].mem = "freed"]
  /\ stack' = Below
  /\ UNCHANGED <<future, join, entries, ghost>>

-----------------------------------------------------------------------------
(* The callbacks of inner futures.                                         *)

(* _all_then_cb, with the last of its futures: answer, then clean up.      *)
(* Mutant: one callback too many is waited for.                            *)
AllFollowsLate(p) ==
  IF join[p].processed = Len(join[p].futures) THEN <<Clean(p), Answer(p)>> ELSE <<>>

AllFollows(p) ==
  IF join[p].processed + 1 = Len(join[p].futures) THEN <<Clean(p), Answer(p)>> ELSE <<>>

(* _race_then_cb, with the first of them: clean up, then answer.           *)
RaceFollows(p) == IF join[p].processed = 0 THEN <<Answer(p), Clean(p)>> ELSE <<>>

(* _future_proxy: an error is not passed on.                               *)
ProxyFollows(p, fails) == IF fails THEN <<>> ELSE <<Answer(p)>>

(* An inner future is called with a value, or if it fails with an error,   *)
(* takes itself out of the context, and more follows before it returns.    *)
InnerCall(at, kind, fails) ==
  /\ At(at) /\ future[Top.f].cb = "inner"
  /\ LET g == Top.f
         p == Owner(g)
     IN /\ join[p].kind = "proxy" /\ fails => "failProxied" \in Liberties
        /\ join' = [join EXCEPT ![p].futures[Position(g)] = None, ![p].processed = @ + 1]
        /\ stack' = Below \o <<Frame(kind, g)>>
                      \o CASE join[p].kind = "all"   -> AllFollows(p)
                           [] join[p].kind = "race"  -> RaceFollows(p)
                           [] join[p].kind = "proxy" -> ProxyFollows(p, fails)
  /\ future' = Dispatched(Top.f)
  /\ ghost' = [ghost EXCEPT ![Top.f].calls = @ + 1]
  /\ UNCHANGED <<promise, entries>>

InnerDispatch == \E fails \in BOOLEAN : InnerCall("dispatch", "called", fails)
InnerCancel   == InnerCall("cancel", "cancelCalled", TRUE)

(* ... and returns what it was called with to a chain that ends here.      *)
InnerReturn ==
  /\ At("called") \/ At("cancelCalled")
  /\ future' = Freed(Top.f)
  /\ stack' = Below
  /\ UNCHANGED <<promise, join, entries, ghost>>

(* _eina_promise_clean_dispatch: the future of the promise is called at    *)
(* once, without the scheduler.                                            *)
AnswerNow ==
  /\ At("answer")
  /\ LET p == Top.p
         f == promise[p].future
     IN /\ future' = Unlinked(p)
        /\ promise' = Condemned(p)
        /\ stack' = Below \o <<Dying(p)>> \o (IF f = None THEN <<>> ELSE <<Frame("dispatch", f)>>)
  /\ UNCHANGED <<join, entries, ghost>>

(* _base_ctx_clean: cancel what is left, position by position.             *)
CleanNext ==
  /\ At("clean") /\ Top.todo # <<>>
  /\ LET g    == join[Top.p].futures[Head(Top.todo)]
         rest == Append(Below, [Top EXCEPT !.todo = Tail(@)])
     IN IF g = None
        THEN stack' = rest /\ UNCHANGED <<future, promise, join, entries, ghost>>
        ELSE CancelChain(HeadOf(g), rest)

CleanEnd ==
  /\ At("clean") /\ Top.todo = <<>>
  /\ join' = [join EXCEPT ![Top.p].mem = "freed"]
  /\ stack' = Below
  /\ UNCHANGED <<future, promise, entries, ghost>>

-----------------------------------------------------------------------------
UserStep ==
  \/ \E p \in Promises : PromiseNew(p) \/ ContinueNew(p) \/ Resolve(p) \/ ResolveUnlinked(p)
  \/ \E p, q \in Promises : ResolveByPromise(p, q) \/ ResolveUnlinkedByPromise(p, q)
  \/ \E p \in Promises, f \in Futures : FutureNew(p, f)
  \/ \E f, g \in Futures : Then(f, g)
  \/ \E f \in Futures : Cancel(f)
  \/ \E p \in Promises, f, g \in Futures : PromiseAll(p, f, g) \/ PromiseRace(p, f, g)
  \/ \E p \in Promises, f \in Futures : FutureAsValue(p, f)

Return == \/ ReturnValue \/ ReturnCancelled \/ ReturnDying
          \/ \E q \in Promises : ReturnPromise(q) \/ ReturnCancelledPromise(q)

Step == \/ LoopEnd \/ LoopNext \/ DispatchSkip \/ DispatchCall
        \/ CancelSkip \/ CancelCall \/ CancelFree \/ DyingResolved
        \/ InnerDispatch \/ InnerCancel \/ InnerReturn
        \/ AnswerNow \/ CleanNext \/ CleanEnd

Next == UserStep \/ LoopRun \/ Step \/ Return

(* Callbacks return, whatever they do before, and the loop goes on.        *)
Fairness == WF_vars(Step) /\ SF_vars(Return) /\ WF_vars(LoopRun)

SafetySpec == Init /\ [][Next]_vars
Spec == SafetySpec /\ Fairness

-----------------------------------------------------------------------------
Memory == {"unborn", "live", "dying", "freed"}

(* The variables keep their types; in particular a future is called at     *)
(* most once, and a list entry names a future.                             *)
TypeOK ==
  /\ future \in [Futures -> [mem : Memory \ {"dying"}, cb : {"none", "user", "inner", "dispatched"},
                             next : Futures \cup {None}, prev : Futures \cup {None},
                             promise : Promises \cup {None}, entry : BOOLEAN]]
  /\ promise \in [Promises -> [mem : Memory, future : Futures \cup {None},
                               scheduler : BOOLEAN, given : BOOLEAN]]
  /\ join \in [Promises -> [kind : JoinKinds, mem : Memory \ {"dying"},
                            futures : Seq(Futures \cup {None}), processed : 0 .. MaxFutures]]
  /\ entries \in Seq(Futures)
  /\ stack \in Seq([kind : FrameKinds, f : Futures \cup {None}, p : Promises \cup {None},
                    todo : Seq(Futures)])
  /\ stack # <<>>
  /\ ghost \in [Futures -> [calls : 0 .. 1, after : Futures \cup {None}]]

(* Nothing that will be followed leads to freed memory: not the links of   *)
(* live futures and promises, not the scheduler's list, nor the lists and  *)
(* futures the suspended activations will go on with.                      *)
NoDangling ==
  /\ \A f \in Futures : Live(f) =>
       /\ {future[f].next, future[f].prev} \subseteq {g \in Futures : Live(g)} \cup {None}
       /\ future[f].promise # None => promise[future[f].promise].mem # "freed"
  /\ \A p \in Promises : Usable(p) /\ promise[p].future # None => Live(promise[p].future)
  /\ \A f \in ToSet(entries) : Live(f)
  /\ \A p \in Joins : \A g \in Inners(p) :
       /\ Live(g)
       /\ promise[p].mem = "live" \/ join[p].kind # "proxy"
       /\ join[p].mem = "live"
  /\ \A i \in DOMAIN stack :
       /\ stack[i].kind # "user" /\ stack[i].f # None => Live(stack[i].f)
       /\ stack[i].kind = "loop" => \A f \in ToSet(stack[i].todo) : Live(f)
       /\ stack[i].kind = "dying" => promise[stack[i].p].mem = "dying"
       /\ stack[i].kind = "answer" => promise[stack[i].p].mem # "freed"
       /\ stack[i].kind = "clean" => join[stack[i].p].mem = "live"

(* The callback of a future is called exactly once before it is freed,     *)
(* with a value or, when cancelled, with an error: it is the only place    *)
(* where user code can release what it attached.                           *)
CalledOnce ==
  \A f \in Futures : /\ ghost[f].calls <= 1
                     /\ future[f].mem = "freed" /\ ghost[f].after # None => ghost[f].calls = 1

(* A chain is called in its order, also when it is cancelled from its end  *)
(* or from inside one of its callbacks.                                    *)
ChainOrder ==
  \A f \in Futures : ghost[f].calls > 0 /\ ghost[f].after # None =>
    LET b == ghost[f].after
    IN ghost[b].calls = 1 \/ ghost[b].after = None

(* No chain is forgotten: its head waits for a promise that knows it, has  *)
(* an entry in a list, or some activation is about to go on with it.       *)
NoOrphan ==
  \A f \in Futures : Waiting(f) =>
    LET h == HeadOf(f)
        p == future[h].promise
    IN \/ p # None /\ Usable(p) /\ promise[p].future = h
       \/ future[h].entry /\ (h \in ToSet(entries) \/ Detached(h))
       \/ Busy(h)
       \/ \E i \in DOMAIN stack : stack[i].kind = "dispatch" /\ stack[i].f = h

(* A promise that a future waits for can answer, and will: it has a        *)
(* scheduler, also one that was made without (eina_promise_continue_new),  *)
(* and for one of the library an inner future is yet to be called, or some *)
(* activation is about to answer.                                          *)
Answerable ==
  \A p \in Promises : Usable(p) /\ promise[p].future # None =>
    /\ promise[p].scheduler
    /\ \/ join[p].kind = "none"
       \/ Inners(p) # {}
       \/ \E i \in DOMAIN stack : stack[i].kind = "answer" /\ stack[i].p = p

(* A future whose promise was resolved is called, or without a callback    *)
(* freed, whatever happens to its neighbours.                              *)
Delivered == \A f \in Futures : future[f].entry ~> future[f].mem = "freed"
=============================================================================
