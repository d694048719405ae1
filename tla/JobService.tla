----------------------------- MODULE JobService -----------------------------
(***************************************************************************)
(* What Ecore_Thread promises of its jobs, without threads, lists, locks   *)
(* or a queue of calls (src/src/lib/ecore/Ecore_Common.h, Ecore_Thread):    *)
(* a job waits, is held by one thread at a time, may be put back to wait,  *)
(* and once it is over and its messages were read it is closed, with       *)
(* func_cancel if it had been asked to stop and func_end otherwise.        *)
(***************************************************************************)
EXTENDS Naturals

CONSTANTS
  Jobs,
  Own          (* jobs with a thread of their own: they start even when    *)
               (* asked to stop before                                     *)

VARIABLES phase, stop, runs, sent, received

vars == <<phase, stop, runs, sent, received>>

Phases == {"new", "waiting", "held", "over", "ended", "cancelled"}

Init == /\ phase = [j \in Jobs |-> "new"]
        /\ stop = [j \in Jobs |-> FALSE]
        /\ runs = [j \in Jobs |-> 0]
        /\ sent = [j \in Jobs |-> 0] /\ received = [j \in Jobs |-> 0]

Moves(j, from, to) == phase[j] = from /\ phase' = [phase EXCEPT ![j] = to]

counters == <<runs, sent, received>>

Submit(j) == Moves(j, "new", "waiting") /\ UNCHANGED <<stop, counters>>
Take(j)   == Moves(j, "waiting", "held") /\ UNCHANGED <<stop, counters>>
Back(j)   == Moves(j, "held", "waiting") /\ UNCHANGED <<stop, counters>>
Over(j)   == Moves(j, "held", "over") /\ UNCHANGED <<stop, counters>>

Enter(j) == /\ phase[j] = "held"
            /\ stop[j] => j \in Own
            /\ runs' = [runs EXCEPT ![j] = @ + 1]
            /\ UNCHANGED <<phase, stop, sent, received>>

Send(j) == /\ phase[j] = "held"
           /\ sent' = [sent EXCEPT ![j] = @ + 1]
           /\ UNCHANGED <<phase, stop, runs, received>>

Receive(j) == /\ received[j] < sent[j]
              /\ phase[j] \notin {"ended", "cancelled"}
              /\ received' = [received EXCEPT ![j] = @ + 1]
              /\ UNCHANGED <<phase, stop, runs, sent>>

Ask(j) == /\ phase[j] \in {"waiting", "held", "over"}
          /\ stop' = [stop EXCEPT ![j] = TRUE]
          /\ UNCHANGED <<phase, counters>>

Close(j) == /\ received[j] = sent[j]
            /\ Moves(j, "over", IF stop[j] THEN "cancelled" ELSE "ended")
            /\ UNCHANGED <<stop, counters>>

(* No thread can be started for a job that no thread has taken.            *)
Refuse(j) == Moves(j, "waiting", "cancelled") /\ UNCHANGED <<stop, counters>>

Next == \E j \in Jobs : \/ Submit(j) \/ Take(j) \/ Back(j) \/ Over(j) \/ Enter(j)
                        \/ Send(j) \/ Receive(j) \/ Ask(j) \/ Close(j) \/ Refuse(j)

Spec == Init /\ [][Next]_vars
=============================================================================
