----------------------------- MODULE MCEoEvents -----------------------------
(* Values of the constants of EoEvents for its model-checking runs.        *)
EXTENDS EoEvents

CONSTANTS e1, r1

Plain     == {e1}
Both      == {e1, r1}
Idle      == {r1}
Nobody    == {}
Kind(items, priority) == [items |-> items, priority |-> priority]
Mixed     == {Kind(<<e1, e1, Del>>, 0), Kind(<<e1, r1>>, 1), Kind(<<r1, Add>>, 0)}
OnlyPlain == {Kind(<<e1>>, 0), Kind(<<e1>>, 1)}

NoLiberty     == {}
CrowdIn       == {"crowdIn"}
EditInArray   == {"editInArray"}
AddAndRestart == {"addAndRestart"}
=============================================================================
