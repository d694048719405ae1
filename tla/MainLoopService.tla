-------------------------- MODULE MainLoopService --------------------------
(***************************************************************************)
(* What Ecore's cross-thread calls promise, without locks, ids, lists or   *)
(* pipes: at most one thread uses the main loop's data at a time, it only  *)
(* changes hands while nobody uses it, and every call that was posted is   *)
(* executed once, by the main loop's own thread, while it has its turn.    *)
(***************************************************************************)
CONSTANTS Workers, Main, Calls

VARIABLES
  users,     (* the threads that may use the main loop's data               *)
  posted,    (* calls that wait to be executed                              *)
  done       (* calls that were executed                                    *)

vars == <<users, posted, done>>

Init == users = {Main} /\ posted = {} /\ done = {}

Post(c) ==
  /\ c \notin posted \cup done
  /\ posted' = posted \cup {c}
  /\ UNCHANGED <<users, done>>

Execute(c) ==
  /\ Main \in users /\ c \in posted
  /\ posted' = posted \ {c}
  /\ done' = done \cup {c}
  /\ UNCHANGED users

(* The main loop is suspended, or a worker's section ends.                 *)
Leave(a) ==
  /\ users = {a}
  /\ users' = {}
  /\ UNCHANGED <<posted, done>>

(* A worker's section begins, or the main loop is resumed.                 *)
Enter(a) ==
  /\ users = {}
  /\ users' = {a}
  /\ UNCHANGED <<posted, done>>

Next == \/ \E c \in Calls : Post(c) \/ Execute(c)
        \/ \E a \in Workers \cup {Main} : Leave(a) \/ Enter(a)

Safety == Init /\ [][Next]_vars

(* Every posted call is executed, however often the loop is lent out; the  *)
(* loop is never left without a user, and every section ends.              *)
Fairness ==
  /\ \A c \in Calls : SF_vars(Execute(c))
  /\ WF_vars(\E a \in Workers \cup {Main} : Enter(a))
  /\ \A w \in Workers : WF_vars(Leave(w))

Spec == Safety /\ Fairness
=============================================================================
