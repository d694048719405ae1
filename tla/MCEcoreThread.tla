--------------------------- MODULE MCEcoreThread ---------------------------
(* Model values and symmetry for the model-checking runs of EcoreThread.   *)
EXTENDS EcoreThread

CONSTANTS s1, s2, f1, d1, t1, t2, t3

NoJob == {}
S1 == {s1}
S2 == {s1, s2}
F1 == {f1}
D1 == {d1}
T1 == {t1}
T2 == {t1, t2}
T3 == {t1, t2, t3}

NoLiberty  == {}
Refusals   == {"createFails"}
RefusalsLocked == {"createFails", "lockedCalls"}
Rough      == {"createFails", "lockedCalls", "cancellable"}
RaiseMax   == {"raiseMax"}
LowerMax   == {"lowerMax"}
Cancellable == {"cancellable"}
WaitTwice  == {"waitTwice"}
WaitInNotify == {"waitInNotify"}
WaitInNotifyTwice == {"waitInNotify", "waitTwice"}

(* Threads and short jobs are interchangeable in the runs without liveness. *)
ThreadSymmetry == Permutations(Threads) \cup Permutations(Short)
=============================================================================
