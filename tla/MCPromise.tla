----------------------------- MODULE MCPromise -----------------------------
(* Values of the constants of Promise for its model-checking runs.         *)
EXTENDS Promise

NoLiberty      == {}
CancelDetached == {"cancelDetached"}
CancelBusy     == {"cancelBusy"}
CancelJoin     == {"cancelJoin"}
FailProxied    == {"failProxied"}
RaceTogether   == {"raceTogether"}
=============================================================================
