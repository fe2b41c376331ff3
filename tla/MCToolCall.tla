----------------------------- MODULE MCToolCall -----------------------------
(* Model checking of what a step asks of the host's threads, in one run: a    *)
(* behaviour is the tool calls of two loops with their approvals and          *)
(* receipts, or the lease authority with its expiry monitor (NetworkLease,    *)
(* which is instantiated because its names are also Operations' names).       *)
EXTENDS ToolCall

CONSTANTS c1, c2, write
\* c2 is c1's successor after a restart of the step; the two may overlap.
Scope == [c \in {c1, c2} |-> "code"]

CONSTANTS Keys, Conns, Callers, Monitors, TTLs, MaxTime, MaxGeneration, MaxLeases

VARIABLES what,
          clock, generations, revoking, leases, active, connLease, awaiting, closing,
          releasable, place, fr, todo, snap, failed, cur, monitor, confirmed

Authority == INSTANCE NetworkLease WITH pending <- awaiting, pc <- place

leaseVars == <<clock, generations, revoking, leases, active, connLease, awaiting, closing,
               releasable, place, fr, todo, snap, failed, cur, monitor, confirmed>>
mcVars == <<what, allVars, leaseVars>>

\* The machines that stand still have one initial state.
MCInit == CallInit /\ Authority!Init /\ what \in {"call", "authority"}

\* The successor makes one start.
ToolStep == what = "call" /\ CallNext /\ counters'[c2][write] <= 2 /\ UNCHANGED <<what, leaseVars>>
AuthorityStep == what = "authority" /\ Authority!Next /\ UNCHANGED <<what, allVars>>

\* The fairness of each machine, for the behaviours in which it runs.
Runs(machine, A) == what = machine /\ A

MCSpec ==
    /\ MCInit /\ [][ToolStep \/ AuthorityStep]_mcVars
    /\ \A i \in Items : WF_allVars(Runs("call", AskStep(i)))
    /\ \A t \in Resolvers : WF_allVars(Runs("call", ResolveStep(t)))
    /\ \A t \in Callers \cup Monitors :
         WF_leaseVars(Runs("authority", Authority!LoopStep(t) \/ Authority!Callback(t)))
    /\ \A t \in Callers \cup Monitors, c \in Conns :
         SF_leaseVars(Runs("authority", /\ Authority!CloseConfirmed(t) \/ Authority!ReleaseEnd(t, TRUE)
                                       /\ cur[t] = c))
    /\ \A m \in Monitors : WF_leaseVars(Runs("authority", Authority!MonitorSweep(m)))

ExpiredClosed == Authority!ExpiredClosed
=============================================================================
