---------------------------- MODULE MCAutonomy ----------------------------
EXTENDS Autonomy, TLC
CONSTANTS m1, m2, p1, p2
SameProc == [m \in Managers |-> p1]
TwoProcs == (m1 :> p1) @@ (m2 :> p2)
Reqs == {<<"start", "a">>, <<"resume", "b">>, <<"pause", "c">>, <<"cancel", "d">>}
Few == {<<"start", "a">>, <<"resume", "b">>, <<"takeover", "c">>}
Symmetry == Permutations(Runs)
===========================================================================
