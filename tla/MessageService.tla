--------------------------- MODULE MessageService ---------------------------
(***************************************************************************)
(* What an Eina_Thread_Queue promises its users (eina_thread_queue.h):     *)
(* messages are numbered in the order in which eina_thread_queue_send()    *)
(* allocated them, the sender of each completes it with                    *)
(* eina_thread_queue_send_done(), and each is given to one receiver, in    *)
(* that order and never before it is complete.                             *)
(***************************************************************************)
EXTENDS Naturals

CONSTANT Queue

VARIABLES allocated,   \* per queue, the number of messages allocated
          complete,    \* the messages their senders have completed
          taken        \* the messages given to receivers

vars == <<allocated, complete, taken>>

Init ==
  /\ allocated = [q \in Queue |-> 0]
  /\ complete = [q \in Queue |-> {}]
  /\ taken = [q \in Queue |-> {}]

Open(q) ==
  /\ allocated' = [allocated EXCEPT ![q] = @ + 1]
  /\ UNCHANGED <<complete, taken>>

Complete(q) ==
  /\ \E n \in (1..allocated[q]) \ complete[q] :
       complete' = [complete EXCEPT ![q] = @ \cup {n}]
  /\ UNCHANGED <<allocated, taken>>

Take(q) ==
  /\ \E n \in complete[q] \ taken[q] :
       taken[q] = 1..(n-1) /\ taken' = [taken EXCEPT ![q] = 1..n]
  /\ UNCHANGED <<allocated, complete>>

Next == \E q \in Queue : Open(q) \/ Complete(q) \/ Take(q)

Spec == Init /\ [][Next]_vars
=============================================================================
