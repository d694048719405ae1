---------------------------- MODULE MCSafeCall ----------------------------
(* Model values and symmetry for the model-checking runs of SafeCall.      *)
EXTENDS SafeCall, TLC

CONSTANTS w1, w2, w3

OneWorker    == {w1}
TwoWorkers   == {w1, w2}
ThreeWorkers == {w1, w2, w3}

(* Workers are interchangeable: used by the runs that check safety only.   *)
WorkerSymmetry == Permutations(Workers)
=============================================================================
