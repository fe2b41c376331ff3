---------------------------- MODULE MCAgentTeam -----------------------------
EXTENDS AgentTeam, TLC
CONSTANTS o1, o2, o3, o4, b1, b2
Only(f) == [o \in Owners |-> f[o]]
Board == Only(o1 :> b1 @@ o2 :> b1 @@ o3 :> b1 @@ o4 :> b2)
\* Two jobs of one executor, a reviewer, and another process's team.
Agent == Only(o1 :> <<"executor", 1>> @@ o2 :> <<"executor", 1>> @@ o3 :> <<"reviewer", 1>>
              @@ o4 :> <<"executor", 1>>)
Declared == Only(o1 :> <<"src">> @@ o2 :> <<"src", "a">> @@ o3 :> None
                 @@ o4 :> <<"src">>)
Step == [o \in Owners |-> "review"]
TwoTeams == b1 :> <<o1, o2, o3>> @@ b2 :> <<o4>>
Paths == {<<"src">>, <<"src", "a">>, <<"doc">>}
=============================================================================
