------------------------- MODULE NetworkLeaseProofs -------------------------
(***************************************************************************)
(* What network_lease.py guarantees for every number of scopes,            *)
(* connections, threads, revocations and instants.  Two inductive          *)
(* invariants carry the argument: Typed (types, and which locals a call    *)
(* has at each place) and Epochs (what the generation counter means).      *)
(* Then the same for the proxy that is built on the authority's table: an  *)
(* invariant of its own, ProxyInv, accounts for every socket.              *)
(***************************************************************************)
EXTENDS NetworkLease, ProxySession, TLAPS

\* Which locals are set at each place of a call; every entry of the table
\* carries a lease.
Shape ==
  /\ \A c \in active : connLease[c] \in Lease
  /\ \A t \in Threads :
       /\ pc[t] \in {"waiting", "callback", "releasing"} => cur[t] \in Conns
       /\ pc[t] \in {"idle", "sampled", "loop"} => cur[t] = None
       /\ fr[t].op \in {"request", "revoke", "register"} => fr[t].arg \in Lease
       /\ pc[t] = "asking" => fr[t].op = "request"
       /\ pc[t] \in {"sampled", "commit"} => fr[t].op \in {"sweep", "register"}
       /\ pc[t] = "commit" => fr[t].op = "register"
       /\ pc[t] \in {"loop", "waiting", "callback"} =>
            fr[t].op \in {"revoke", "sweep", "register"}

Typed == TypeOK /\ Shape

\* A revoke that has met no failure has still to visit, or is at, every open
\* connection older than the generation it started.
RevokeCovers ==
  \A t \in Threads : fr[t].op = "revoke" /\ ~failed[t] =>
    \A c \in active :
      connLease[c].key = fr[t].arg.key /\ connLease[c].gen < fr[t].arg.gen =>
        c \in todo[t] \/ c = cur[t]

\* No revoke works for a generation that the counter has not reached.
Counted ==
  /\ \A k \in Keys : confirmed[k] <= generations[k]
  /\ \A t \in Threads : fr[t].op = "revoke" =>
       fr[t].arg.gen <= generations[fr[t].arg.key]

Epochs == OldGenerationBlocked /\ Counted /\ RevokeCovers /\ RevocationComplete

-----------------------------------------------------------------------------
\* TypeOK with the locals of every call; closing entries are always in the
\* table.
LEMMA TypedHolds == Spec => []Typed
<1>1. Init => Typed
  BY ConstantsAssumption DEF Init, Typed, TypeOK, Shape, IdleFrame, Frame, Ops, Places, Threads, Lease
<1>2. Typed /\ [Next]_vars => Typed'
  <2> SUFFICES ASSUME Typed, [Next]_vars PROVE Typed'
    OBVIOUS
  <2> USE ConstantsAssumption
  <2> USE DEF Typed, TypeOK, Shape, Threads, Frame, IdleFrame, Ops, Places, Lease,
      connVars, loopVars
  <2>1. CASE Tick
    BY <2>1 DEF Tick
  <2>2. ASSUME NEW t \in Threads, NEW c \in Conns, LoopSkip(t, c) PROVE Typed'
    BY <2>2 DEF LoopSkip
  <2>3. ASSUME NEW t \in Threads, NEW c \in Conns, LoopWait(t, c) PROVE Typed'
    BY <2>3 DEF LoopWait, Goto, Visit
  <2>4. ASSUME NEW t \in Threads, NEW c \in Conns, LoopClose(t, c) PROVE Typed'
    BY <2>4 DEF LoopClose, Goto, Visit, MayStartClose
  <2>5. ASSUME NEW t \in Threads, WaitDone(t) PROVE Typed'
    BY <2>5 DEF WaitDone, Goto, Leave, WaitOutcome
  <2>6. ASSUME NEW t \in Threads, WaitTimeout(t) PROVE Typed'
    BY <2>6 DEF WaitTimeout, Goto, Leave
  <2>7. ASSUME NEW t \in Threads, CloseConfirmed(t) PROVE Typed'
    BY <2>7 DEF CloseConfirmed, Goto, Leave, Forget
  <2>8. ASSUME NEW t \in Threads, CloseUnconfirmed(t) PROVE Typed'
    BY <2>8 DEF CloseUnconfirmed, Goto, Leave
  <2>9. ASSUME NEW t \in Threads, LoopRaise(t) PROVE Typed'
    BY <2>9 DEF LoopRaise, Return, Goto
  <2>10. ASSUME NEW t \in Threads, RevokeEnd(t) PROVE Typed'
    BY <2>10 DEF RevokeEnd, Return, Goto, OfKey
  <2>11. ASSUME NEW t \in Threads, SweepBegin(t) PROVE Typed'
    <3> DEFINE swept == {d \in active : Expired(d, fr[t].now)}
               marked == revoking \cup {connLease[c].key : c \in swept}
    <3>1. \A c \in swept : connLease[c].key \in Keys
      BY DEF Typed, Shape, Lease
    <3>2. marked \in SUBSET Keys
      BY <3>1 DEF Typed, TypeOK
    <3>3. {c \in active : Swept(c, fr[t].now)} \in SUBSET Conns
      BY DEF Typed, TypeOK
    <3>4. TypeOK'
      BY <2>11, <3>2, <3>3 DEF SweepBegin, Goto, Typed, TypeOK, Places, connVars
    <3>5. Shape'
      BY <2>11 DEF SweepBegin, Goto, Typed, TypeOK, Shape, connVars
    <3>6. QED
      BY <3>4, <3>5 DEF Typed
  <2>12. ASSUME NEW t \in Threads, SweepEnd(t) PROVE Typed'
    <3>1. /\ revoking' \in SUBSET Keys
          /\ UNCHANGED <<clock, generations, leases, connVars, monitor, confirmed>>
          /\ pc[t] = "loop"
      BY <2>12 DEF SweepEnd
    <3>2. CASE fr[t].op = "register"
      <4>1. /\ Goto(t, "commit") /\ snap' = [snap EXCEPT ![t] = {}]
            /\ UNCHANGED <<fr, todo, failed, cur>>
        BY <2>12, <3>2 DEF SweepEnd
      <4>2. QED
        BY <3>1, <3>2, <4>1 DEF Goto
    <3>3. CASE fr[t].op = "sweep"
      <4>1. Return(t)
        BY <2>12, <3>3 DEF SweepEnd
      <4>2. QED
        BY <3>1, <4>1 DEF Return, Goto
    <3>4. QED
      BY <2>12, <3>2, <3>3 DEF SweepEnd
  <2>13. ASSUME NEW t \in Threads, NEW r \in BOOLEAN, ReleaseEnd(t, r) PROVE Typed'
    BY <2>13 DEF ReleaseEnd, Return, Goto, Forget
  <2>14. ASSUME NEW t \in Callers, NEW k \in Keys, RequestBegin(t, k) PROVE Typed'
    BY <2>14 DEF RequestBegin, Call, Goto, KeyGen
  <2>15. ASSUME NEW t \in Callers, NEW k \in Keys, RevokeBegin(t, k) PROVE Typed'
    BY <2>15 DEF RevokeBegin, Goto, OfKey, KeyGen
  <2>16. ASSUME NEW t \in Callers, NEW ttl \in TTLs, RequestIssue(t, ttl) PROVE
      Typed'
    BY <2>16 DEF RequestIssue, Return, Goto, StillApprovable
  <2>17. ASSUME NEW t \in Callers, RequestRefused(t) PROVE Typed'
    BY <2>17 DEF RequestRefused, Return, Goto
  <2>18. ASSUME NEW t \in Callers, SweepCall(t) PROVE Typed'
    BY <2>18 DEF SweepCall, Call, Goto
  <2>19. ASSUME NEW t \in Callers, NEW l \in leases, RegisterCall(t, l) PROVE Typed'
    BY <2>19 DEF RegisterCall, Call, Goto
  <2>20. ASSUME NEW t \in Callers, NEW c \in Conns, NEW dial \in BOOLEAN,
      RegisterCommit(t, c, dial) PROVE Typed'
    BY <2>20 DEF RegisterCommit, Return, Goto, LeaseLive
  <2>21. ASSUME NEW t \in Callers, RegisterRefused(t) PROVE Typed'
    BY <2>21 DEF RegisterRefused, Return, Goto
  <2>22. ASSUME NEW t \in Callers, NEW c \in Conns, ReleaseNow(t, c) PROVE Typed'
    BY <2>22 DEF ReleaseNow
  <2>23. ASSUME NEW t \in Callers, NEW c \in Conns, ReleaseBegin(t, c) PROVE Typed'
    BY <2>23 DEF ReleaseBegin, Goto, MayStartClose
  <2>24. ASSUME NEW c \in Conns, NEW n \in 0 .. MaxTime, Promote(c, n) PROVE Typed'
    BY <2>24 DEF Promote, MayPromote, LeaseLive
  <2>25. ASSUME NEW m \in Monitors, MonitorStart(m) PROVE Typed'
    BY <2>25 DEF MonitorStart
  <2>26. ASSUME NEW m \in Monitors, MonitorStop(m) PROVE Typed'
    BY <2>26 DEF MonitorStop
  <2>27. ASSUME NEW m \in Monitors, MonitorSweep(m) PROVE Typed'
    BY <2>27 DEF MonitorSweep, Call, Goto
  <2>28. CASE UNCHANGED vars
    BY <2>28 DEF vars
  <2> HIDE DEF Typed, TypeOK, Shape, Threads, Frame, IdleFrame, Ops, Places, Lease,
      connVars, loopVars
  <2>29. QED
    BY <2>1, <2>2, <2>3, <2>4, <2>5, <2>6, <2>7, <2>8, <2>9, <2>10, <2>11, <2>12,
        <2>13, <2>14, <2>15, <2>16, <2>17, <2>18, <2>19, <2>20, <2>21, <2>22, <2>23,
        <2>24, <2>25, <2>26, <2>27, <2>28 DEF Next, LoopStep, CallStep, Callback
<1>3. QED
  BY <1>1, <1>2, PTL DEF Spec

\* The authority's table, markers and counters keep their types, for any
\* number of scopes, connections and threads.
THEOREM TypeCorrect == Spec => []TypeOK
BY TypedHolds, PTL DEF Typed

-----------------------------------------------------------------------------
\* At most one thread at a time runs a close or release callback of an entry,
\* and the flag .closing says so exactly.
THEOREM CallbacksExclusive == Spec => []CallbackExclusive
<1>1. Init => CallbackExclusive
  BY DEF Init, CallbackExclusive, InCallback
<1>2. Typed /\ CallbackExclusive /\ [Next]_vars => CallbackExclusive'
  <2> SUFFICES ASSUME Typed, CallbackExclusive, [Next]_vars PROVE CallbackExclusive'
    OBVIOUS
  <2> USE DEF Typed, TypeOK, Shape, Threads, Places, connVars, loopVars,
      CallbackExclusive, InCallback
  <2>1. CASE Tick
    BY <2>1 DEF Tick
  <2>2. ASSUME NEW t \in Threads, NEW c \in Conns, LoopSkip(t, c) PROVE
      CallbackExclusive'
    BY <2>2 DEF LoopSkip
  <2>3. ASSUME NEW t \in Threads, NEW c \in Conns, LoopWait(t, c) PROVE
      CallbackExclusive'
    BY <2>3 DEF LoopWait, Goto, Visit
  <2>4. ASSUME NEW t \in Threads, NEW c \in Conns, LoopClose(t, c) PROVE
      CallbackExclusive'
    BY <2>4 DEF LoopClose, Goto, Visit, MayStartClose
  <2>5. ASSUME NEW t \in Threads, WaitDone(t) PROVE CallbackExclusive'
    BY <2>5 DEF WaitDone, Goto, Leave, WaitOutcome
  <2>6. ASSUME NEW t \in Threads, WaitTimeout(t) PROVE CallbackExclusive'
    BY <2>6 DEF WaitTimeout, Goto, Leave
  <2>7. ASSUME NEW t \in Threads, CloseConfirmed(t) PROVE CallbackExclusive'
    BY <2>7 DEF CloseConfirmed, Goto, Leave, Forget
  <2>8. ASSUME NEW t \in Threads, CloseUnconfirmed(t) PROVE CallbackExclusive'
    BY <2>8 DEF CloseUnconfirmed, Goto, Leave
  <2>9. ASSUME NEW t \in Threads, LoopRaise(t) PROVE CallbackExclusive'
    BY <2>9 DEF LoopRaise, Return, Goto
  <2>10. ASSUME NEW t \in Threads, RevokeEnd(t) PROVE CallbackExclusive'
    BY <2>10 DEF RevokeEnd, Return, Goto, OfKey
  <2>11. ASSUME NEW t \in Threads, SweepBegin(t) PROVE CallbackExclusive'
    BY <2>11 DEF SweepBegin, Goto, Swept, Expired, StaleGeneration
  <2>12. ASSUME NEW t \in Threads, SweepEnd(t) PROVE CallbackExclusive'
    BY <2>12 DEF SweepEnd, Return, Goto, CleanAfterSweep, OfKey, Swept, Expired,
        StaleGeneration
  <2>13. ASSUME NEW t \in Threads, NEW r \in BOOLEAN, ReleaseEnd(t, r) PROVE
      CallbackExclusive'
    BY <2>13 DEF ReleaseEnd, Return, Goto, Forget
  <2>14. ASSUME NEW t \in Callers, NEW k \in Keys, RequestBegin(t, k) PROVE
      CallbackExclusive'
    BY <2>14 DEF RequestBegin, Call, Goto, KeyGen
  <2>15. ASSUME NEW t \in Callers, NEW k \in Keys, RevokeBegin(t, k) PROVE
      CallbackExclusive'
    BY <2>15 DEF RevokeBegin, Goto, OfKey, KeyGen
  <2>16. ASSUME NEW t \in Callers, NEW ttl \in TTLs, RequestIssue(t, ttl) PROVE
      CallbackExclusive'
    BY <2>16 DEF RequestIssue, Return, Goto, StillApprovable
  <2>17. ASSUME NEW t \in Callers, RequestRefused(t) PROVE CallbackExclusive'
    BY <2>17 DEF RequestRefused, Return, Goto
  <2>18. ASSUME NEW t \in Callers, SweepCall(t) PROVE CallbackExclusive'
    BY <2>18 DEF SweepCall, Call, Goto
  <2>19. ASSUME NEW t \in Callers, NEW l \in leases, RegisterCall(t, l) PROVE
      CallbackExclusive'
    BY <2>19 DEF RegisterCall, Call, Goto
  <2>20. ASSUME NEW t \in Callers, NEW c \in Conns, NEW dial \in BOOLEAN,
      RegisterCommit(t, c, dial) PROVE CallbackExclusive'
    <3>1. /\ pc[t] = "commit" /\ pc' = [pc EXCEPT ![t] = "idle"]
          /\ cur' = [cur EXCEPT ![t] = None] /\ UNCHANGED closing
      BY <2>20 DEF RegisterCommit, Return, Goto
    <3>2. QED
      BY <3>1
  <2>21. ASSUME NEW t \in Callers, RegisterRefused(t) PROVE CallbackExclusive'
    BY <2>21 DEF RegisterRefused, Return, Goto
  <2>22. ASSUME NEW t \in Callers, NEW c \in Conns, ReleaseNow(t, c) PROVE
      CallbackExclusive'
    BY <2>22 DEF ReleaseNow
  <2>23. ASSUME NEW t \in Callers, NEW c \in Conns, ReleaseBegin(t, c) PROVE
      CallbackExclusive'
    BY <2>23 DEF ReleaseBegin, Goto, MayStartClose
  <2>24. ASSUME NEW c \in Conns, NEW n \in 0 .. MaxTime, Promote(c, n) PROVE
      CallbackExclusive'
    BY <2>24 DEF Promote, MayPromote, LeaseLive
  <2>25. ASSUME NEW m \in Monitors, MonitorStart(m) PROVE CallbackExclusive'
    BY <2>25 DEF MonitorStart
  <2>26. ASSUME NEW m \in Monitors, MonitorStop(m) PROVE CallbackExclusive'
    BY <2>26 DEF MonitorStop
  <2>27. ASSUME NEW m \in Monitors, MonitorSweep(m) PROVE CallbackExclusive'
    BY <2>27 DEF MonitorSweep, Call, Goto
  <2>28. CASE UNCHANGED vars
    BY <2>28 DEF vars
  <2> HIDE DEF Typed, TypeOK, Shape, Threads, Places, connVars, loopVars,
      CallbackExclusive, InCallback
  <2>29. QED
    BY <2>1, <2>2, <2>3, <2>4, <2>5, <2>6, <2>7, <2>8, <2>9, <2>10, <2>11, <2>12,
        <2>13, <2>14, <2>15, <2>16, <2>17, <2>18, <2>19, <2>20, <2>21, <2>22, <2>23,
        <2>24, <2>25, <2>26, <2>27, <2>28 DEF Next, LoopStep, CallStep, Callback
<1>3. QED
  BY <1>1, <1>2, TypedHolds, PTL DEF Spec

-----------------------------------------------------------------------------
\* The generation counter means what it should: connections of a revoked
\* generation keep their scope blocked, and a revoke that returned leaves none.
THEOREM EpochsHold == Spec => []Epochs
<1>1. Init => Epochs
  BY DEF Init, Epochs, OldGenerationBlocked, Counted, RevokeCovers, RevocationComplete, IdleFrame
<1>2. Typed /\ Epochs /\ [Next]_vars => Epochs'
  <2> SUFFICES ASSUME Typed, Epochs, [Next]_vars PROVE Epochs'
    OBVIOUS
  <2> USE ConstantsAssumption
  <2> USE DEF Typed, TypeOK, Shape, Threads, IdleFrame, Lease, connVars, loopVars, Epochs, OldGenerationBlocked, StaleGeneration, Counted, RevokeCovers,
      RevocationComplete
  <2>1. CASE Tick
    BY <2>1 DEF Tick
  <2>2. ASSUME NEW t \in Threads, NEW c \in Conns, LoopSkip(t, c) PROVE Epochs'
    BY <2>2 DEF LoopSkip
  <2>3. ASSUME NEW t \in Threads, NEW c \in Conns, LoopWait(t, c) PROVE Epochs'
    BY <2>3 DEF LoopWait, Goto, Visit
  <2>4. ASSUME NEW t \in Threads, NEW c \in Conns, LoopClose(t, c) PROVE Epochs'
    BY <2>4 DEF LoopClose, Goto, Visit, MayStartClose
  <2>5. ASSUME NEW t \in Threads, WaitDone(t) PROVE Epochs'
    BY <2>5 DEF WaitDone, Goto, Leave, WaitOutcome
  <2>6. ASSUME NEW t \in Threads, WaitTimeout(t) PROVE Epochs'
    BY <2>6 DEF WaitTimeout, Goto, Leave
  <2>7. ASSUME NEW t \in Threads, CloseConfirmed(t) PROVE Epochs'
    BY <2>7 DEF CloseConfirmed, Goto, Leave, Forget
  <2>8. ASSUME NEW t \in Threads, CloseUnconfirmed(t) PROVE Epochs'
    BY <2>8 DEF CloseUnconfirmed, Goto, Leave
  <2>9. ASSUME NEW t \in Threads, LoopRaise(t) PROVE Epochs'
    BY <2>9 DEF LoopRaise, Return, Goto
  <2>10. ASSUME NEW t \in Threads, RevokeEnd(t) PROVE Epochs'
    <3> DEFINE a == fr[t].arg
    <3>1. /\ pc[t] = "loop" /\ fr[t].op = "revoke" /\ ~failed[t]
          /\ todo[t] = {} /\ cur[t] = None /\ a \in Lease
          /\ UNCHANGED <<generations, connVars, todo>>
      BY <2>10 DEF RevokeEnd, Return, Typed, Shape
    <3>2. \A c \in active : connLease[c].key = a.key => connLease[c].gen >= a.gen
      BY <3>1 DEF Epochs, RevokeCovers, Typed, TypeOK, Shape, Lease
    <3>3. OldGenerationBlocked'
      BY <2>10, <3>1 DEF RevokeEnd, OfKey, Epochs, OldGenerationBlocked, StaleGeneration, connVars
    <3>4. Counted'
      BY <2>10, <3>1 DEF RevokeEnd, Return, Epochs, Counted, IdleFrame, Typed, TypeOK, Lease
    <3>5. RevokeCovers'
      BY <2>10, <3>1 DEF RevokeEnd, Return, Epochs, RevokeCovers, IdleFrame, Typed, TypeOK, connVars
    <3>6. RevocationComplete'
      BY <2>10, <3>1, <3>2 DEF RevokeEnd, Epochs, RevocationComplete, Typed, TypeOK, Shape,
                               Lease, connVars
    <3>7. QED
      BY <3>3, <3>4, <3>5, <3>6 DEF Epochs
  <2>11. ASSUME NEW t \in Threads, SweepBegin(t) PROVE Epochs'
    BY <2>11 DEF SweepBegin, Goto, Swept, Expired, StaleGeneration
  <2>12. ASSUME NEW t \in Threads, SweepEnd(t) PROVE Epochs'
    <3>1. UNCHANGED <<generations, connVars, confirmed, todo>>
      BY <2>12 DEF SweepEnd, Return
    <3>2. OldGenerationBlocked'
      BY <2>12, <3>1 DEF SweepEnd, CleanAfterSweep, OfKey, Swept
    <3>3. (Counted /\ RevokeCovers /\ RevocationComplete)'
      BY <2>12, <3>1 DEF SweepEnd, Return
    <3>4. QED
      BY <3>2, <3>3
  <2>13. ASSUME NEW t \in Threads, NEW r \in BOOLEAN, ReleaseEnd(t, r) PROVE Epochs'
    BY <2>13 DEF ReleaseEnd, Return, Goto, Forget
  <2>14. ASSUME NEW t \in Callers, NEW k \in Keys, RequestBegin(t, k) PROVE Epochs'
    BY <2>14 DEF RequestBegin, Call, Goto, KeyGen
  <2>15. ASSUME NEW t \in Callers, NEW k \in Keys, RevokeBegin(t, k) PROVE Epochs'
    BY <2>15 DEF RevokeBegin, Goto, OfKey, KeyGen
  <2>16. ASSUME NEW t \in Callers, NEW ttl \in TTLs, RequestIssue(t, ttl) PROVE
      Epochs'
    BY <2>16 DEF RequestIssue, Return, Goto, StillApprovable
  <2>17. ASSUME NEW t \in Callers, RequestRefused(t) PROVE Epochs'
    BY <2>17 DEF RequestRefused, Return, Goto
  <2>18. ASSUME NEW t \in Callers, SweepCall(t) PROVE Epochs'
    BY <2>18 DEF SweepCall, Call, Goto
  <2>19. ASSUME NEW t \in Callers, NEW l \in leases, RegisterCall(t, l) PROVE
      Epochs'
    BY <2>19 DEF RegisterCall, Call, Goto
  <2>20. ASSUME NEW t \in Callers, NEW c \in Conns, NEW dial \in BOOLEAN,
      RegisterCommit(t, c, dial) PROVE Epochs'
    BY <2>20 DEF RegisterCommit, Return, Goto, LeaseLive
  <2>21. ASSUME NEW t \in Callers, RegisterRefused(t) PROVE Epochs'
    BY <2>21 DEF RegisterRefused, Return, Goto
  <2>22. ASSUME NEW t \in Callers, NEW c \in Conns, ReleaseNow(t, c) PROVE Epochs'
    BY <2>22 DEF ReleaseNow
  <2>23. ASSUME NEW t \in Callers, NEW c \in Conns, ReleaseBegin(t, c) PROVE Epochs'
    BY <2>23 DEF ReleaseBegin, Goto, MayStartClose
  <2>24. ASSUME NEW c \in Conns, NEW n \in 0 .. MaxTime, Promote(c, n) PROVE Epochs'
    BY <2>24 DEF Promote, MayPromote, LeaseLive
  <2>25. ASSUME NEW m \in Monitors, MonitorStart(m) PROVE Epochs'
    BY <2>25 DEF MonitorStart
  <2>26. ASSUME NEW m \in Monitors, MonitorStop(m) PROVE Epochs'
    BY <2>26 DEF MonitorStop
  <2>27. ASSUME NEW m \in Monitors, MonitorSweep(m) PROVE Epochs'
    BY <2>27 DEF MonitorSweep, Call, Goto
  <2>28. CASE UNCHANGED vars
    BY <2>28 DEF vars
  <2> HIDE DEF Typed, TypeOK, Shape, Threads, IdleFrame, Lease, connVars, loopVars, Epochs, OldGenerationBlocked, StaleGeneration, Counted, RevokeCovers,
      RevocationComplete
  <2>29. QED
    BY <2>1, <2>2, <2>3, <2>4, <2>5, <2>6, <2>7, <2>8, <2>9, <2>10, <2>11, <2>12,
        <2>13, <2>14, <2>15, <2>16, <2>17, <2>18, <2>19, <2>20, <2>21, <2>22, <2>23,
        <2>24, <2>25, <2>26, <2>27, <2>28 DEF Next, LoopStep, CallStep, Callback
<1>3. QED
  BY <1>1, <1>2, TypedHolds, PTL DEF Spec

\* For every instance: an open connection of a revoked generation blocks its
\* scope (request_lease, registration and promotion test the marker).
THEOREM OldGenerationsBlocked == Spec => []OldGenerationBlocked
<1>1. Epochs => OldGenerationBlocked
  BY DEF Epochs
<1>2. QED
  BY <1>1, EpochsHold, PTL

\* For every instance: after revoke returns normally no older connection of
\* the scope is open.
THEOREM RevocationsComplete == Spec => []RevocationComplete
<1>1. Epochs => RevocationComplete
  BY DEF Epochs
<1>2. QED
  BY <1>1, EpochsHold, PTL

\* For every instance: leases and registrations of one generation never
\* overlap an open connection of another one.
THEOREM GenerationsNeverOverlap == Spec => NoOverlappingGenerations
<1> DEFINE A == /\ \A l \in leases' \ leases :
                     l.gen = generations[l.key]
                       /\ \A d \in OfKey(l.key) : connLease[d].gen = l.gen
                /\ \A c \in active' \ active : \A d \in OfKey(connLease'[c].key) :
                     connLease[d].gen = connLease'[c].gen
<1>1. Typed /\ Epochs /\ [Next]_vars => [A]_vars
  <2> SUFFICES ASSUME Typed, Epochs, Next PROVE A
    OBVIOUS
  <2> USE DEF Typed, TypeOK, Shape, Threads, Lease, connVars, Epochs,
      OldGenerationBlocked, StaleGeneration, OfKey
  <2>1. CASE Tick
    BY <2>1 DEF Tick
  <2>2. ASSUME NEW t \in Threads, NEW c \in Conns, LoopSkip(t, c) PROVE A
    BY <2>2 DEF LoopSkip
  <2>3. ASSUME NEW t \in Threads, NEW c \in Conns, LoopWait(t, c) PROVE A
    BY <2>3 DEF LoopWait, Goto, Visit
  <2>4. ASSUME NEW t \in Threads, NEW c \in Conns, LoopClose(t, c) PROVE A
    BY <2>4 DEF LoopClose, Goto, Visit, MayStartClose
  <2>5. ASSUME NEW t \in Threads, WaitDone(t) PROVE A
    BY <2>5 DEF WaitDone, Goto, Leave, WaitOutcome
  <2>6. ASSUME NEW t \in Threads, WaitTimeout(t) PROVE A
    BY <2>6 DEF WaitTimeout, Goto, Leave
  <2>7. ASSUME NEW t \in Threads, CloseConfirmed(t) PROVE A
    BY <2>7 DEF CloseConfirmed, Goto, Leave, Forget
  <2>8. ASSUME NEW t \in Threads, CloseUnconfirmed(t) PROVE A
    BY <2>8 DEF CloseUnconfirmed, Goto, Leave
  <2>9. ASSUME NEW t \in Threads, LoopRaise(t) PROVE A
    BY <2>9 DEF LoopRaise, Return, Goto
  <2>10. ASSUME NEW t \in Threads, RevokeEnd(t) PROVE A
    BY <2>10 DEF RevokeEnd, Return, Goto, OfKey
  <2>11. ASSUME NEW t \in Threads, SweepBegin(t) PROVE A
    BY <2>11 DEF SweepBegin, Goto, Swept, Expired, StaleGeneration
  <2>12. ASSUME NEW t \in Threads, SweepEnd(t) PROVE A
    BY <2>12 DEF SweepEnd, Return, Goto, CleanAfterSweep, OfKey, Swept, Expired,
        StaleGeneration
  <2>13. ASSUME NEW t \in Threads, NEW r \in BOOLEAN, ReleaseEnd(t, r) PROVE A
    BY <2>13 DEF ReleaseEnd, Return, Goto, Forget
  <2>14. ASSUME NEW t \in Callers, NEW k \in Keys, RequestBegin(t, k) PROVE A
    BY <2>14 DEF RequestBegin, Call, Goto, KeyGen
  <2>15. ASSUME NEW t \in Callers, NEW k \in Keys, RevokeBegin(t, k) PROVE A
    BY <2>15 DEF RevokeBegin, Goto, OfKey, KeyGen
  <2>16. ASSUME NEW t \in Callers, NEW ttl \in TTLs, RequestIssue(t, ttl) PROVE A
    BY <2>16 DEF RequestIssue, Return, Goto, StillApprovable
  <2>17. ASSUME NEW t \in Callers, RequestRefused(t) PROVE A
    BY <2>17 DEF RequestRefused, Return, Goto
  <2>18. ASSUME NEW t \in Callers, SweepCall(t) PROVE A
    BY <2>18 DEF SweepCall, Call, Goto
  <2>19. ASSUME NEW t \in Callers, NEW l \in leases, RegisterCall(t, l) PROVE A
    BY <2>19 DEF RegisterCall, Call, Goto
  <2>20. ASSUME NEW t \in Callers, NEW c \in Conns, NEW dial \in BOOLEAN,
      RegisterCommit(t, c, dial) PROVE A
    BY <2>20 DEF RegisterCommit, Return, Goto, LeaseLive
  <2>21. ASSUME NEW t \in Callers, RegisterRefused(t) PROVE A
    BY <2>21 DEF RegisterRefused, Return, Goto
  <2>22. ASSUME NEW t \in Callers, NEW c \in Conns, ReleaseNow(t, c) PROVE A
    BY <2>22 DEF ReleaseNow
  <2>23. ASSUME NEW t \in Callers, NEW c \in Conns, ReleaseBegin(t, c) PROVE A
    BY <2>23 DEF ReleaseBegin, Goto, MayStartClose
  <2>24. ASSUME NEW c \in Conns, NEW n \in 0 .. MaxTime, Promote(c, n) PROVE A
    BY <2>24 DEF Promote, MayPromote, LeaseLive
  <2>25. ASSUME NEW m \in Monitors, MonitorStart(m) PROVE A
    BY <2>25 DEF MonitorStart
  <2>26. ASSUME NEW m \in Monitors, MonitorStop(m) PROVE A
    BY <2>26 DEF MonitorStop
  <2>27. ASSUME NEW m \in Monitors, MonitorSweep(m) PROVE A
    BY <2>27 DEF MonitorSweep, Call, Goto
  <2> HIDE DEF Typed, TypeOK, Shape, Threads, Lease, connVars, Epochs,
      OldGenerationBlocked, StaleGeneration, OfKey
  <2>28. QED
    BY <2>1, <2>2, <2>3, <2>4, <2>5, <2>6, <2>7, <2>8, <2>9, <2>10, <2>11, <2>12,
        <2>13, <2>14, <2>15, <2>16, <2>17, <2>18, <2>19, <2>20, <2>21, <2>22, <2>23,
        <2>24, <2>25, <2>26, <2>27 DEF Next, LoopStep, CallStep, Callback
<1>2. QED
  BY <1>1, TypedHolds, EpochsHold, PTL DEF Spec, NoOverlappingGenerations

-----------------------------------------------------------------------------
(***************************************************************************)
(* The authority implements LeaseTable.  The steps that move time, prompts *)
(* and threads only are stutters; those that issue or revoke leases and    *)
(* mark or unmark scopes are Revalue, whose condition ScopesWhole is what  *)
(* OldGenerationBlocked is for; the others are steps of one entry.         *)
(***************************************************************************)
\* Entries, and registrations under way, carry leases that were issued.
Recorded ==
  /\ \A c \in active : connLease[c] \in leases
  /\ \A t \in Threads : fr[t].op = "register" => fr[t].arg \in leases
  /\ \A c \in pending : connLease[c] # None

LEMMA RecordedHolds == Spec => []Recorded
<1>1. Init => Recorded
  BY DEF Init, Recorded, IdleFrame
<1>2. Typed /\ Recorded /\ [Next]_vars => Recorded'
  <2> SUFFICES ASSUME Typed, Recorded, [Next]_vars PROVE Recorded'
    OBVIOUS
  <2> USE NoneAssumption
  <2> USE DEF Typed, TypeOK, Shape, Recorded, Threads, Frame, IdleFrame, connVars,
      loopVars
  <2>1. CASE Tick
    BY <2>1 DEF Tick
  <2>2. ASSUME NEW t \in Threads, NEW c \in Conns, LoopSkip(t, c) PROVE Recorded'
    BY <2>2 DEF LoopSkip
  <2>3. ASSUME NEW t \in Threads, NEW c \in Conns, LoopWait(t, c) PROVE Recorded'
    BY <2>3 DEF LoopWait, Goto, Visit
  <2>4. ASSUME NEW t \in Threads, NEW c \in Conns, LoopClose(t, c) PROVE Recorded'
    BY <2>4 DEF LoopClose, Goto, Visit, MayStartClose
  <2>5. ASSUME NEW t \in Threads, WaitDone(t) PROVE Recorded'
    BY <2>5 DEF WaitDone, Goto, Leave, WaitOutcome
  <2>6. ASSUME NEW t \in Threads, WaitTimeout(t) PROVE Recorded'
    BY <2>6 DEF WaitTimeout, Goto, Leave
  <2>7. ASSUME NEW t \in Threads, CloseConfirmed(t) PROVE Recorded'
    BY <2>7 DEF CloseConfirmed, Goto, Leave, Forget
  <2>8. ASSUME NEW t \in Threads, CloseUnconfirmed(t) PROVE Recorded'
    BY <2>8 DEF CloseUnconfirmed, Goto, Leave
  <2>9. ASSUME NEW t \in Threads, LoopRaise(t) PROVE Recorded'
    BY <2>9 DEF LoopRaise, Return, Goto
  <2>10. ASSUME NEW t \in Threads, RevokeEnd(t) PROVE Recorded'
    BY <2>10 DEF RevokeEnd, Return, Goto, OfKey
  <2>13. ASSUME NEW t \in Threads, NEW r \in BOOLEAN, ReleaseEnd(t, r) PROVE Recorded'
    BY <2>13 DEF ReleaseEnd, Return, Goto, Forget
  <2>14. ASSUME NEW t \in Callers, NEW k \in Keys, RequestBegin(t, k) PROVE Recorded'
    BY <2>14 DEF RequestBegin, Call, Goto, KeyGen
  <2>15. ASSUME NEW t \in Callers, NEW k \in Keys, RevokeBegin(t, k) PROVE Recorded'
    BY <2>15 DEF RevokeBegin, Goto, OfKey, KeyGen
  <2>16. ASSUME NEW t \in Callers, NEW ttl \in TTLs, RequestIssue(t, ttl) PROVE
      Recorded'
    BY <2>16 DEF RequestIssue, Return, Goto, StillApprovable
  <2>17. ASSUME NEW t \in Callers, RequestRefused(t) PROVE Recorded'
    BY <2>17 DEF RequestRefused, Return, Goto
  <2>18. ASSUME NEW t \in Callers, SweepCall(t) PROVE Recorded'
    BY <2>18 DEF SweepCall, Call, Goto
  <2>19. ASSUME NEW t \in Callers, NEW l \in leases, RegisterCall(t, l) PROVE Recorded'
    BY <2>19 DEF RegisterCall, Call, Goto
  <2>20. ASSUME NEW t \in Callers, NEW c \in Conns, NEW dial \in BOOLEAN,
      RegisterCommit(t, c, dial) PROVE Recorded'
    BY <2>20 DEF RegisterCommit, Return, Goto, LeaseLive
  <2>21. ASSUME NEW t \in Callers, RegisterRefused(t) PROVE Recorded'
    BY <2>21 DEF RegisterRefused, Return, Goto
  <2>22. ASSUME NEW t \in Callers, NEW c \in Conns, ReleaseNow(t, c) PROVE Recorded'
    BY <2>22 DEF ReleaseNow
  <2>23. ASSUME NEW t \in Callers, NEW c \in Conns, ReleaseBegin(t, c) PROVE Recorded'
    BY <2>23 DEF ReleaseBegin, Goto, MayStartClose
  <2>24. ASSUME NEW c \in Conns, NEW n \in 0 .. MaxTime, Promote(c, n) PROVE Recorded'
    BY <2>24 DEF Promote, MayPromote, LeaseLive
  <2>25. ASSUME NEW m \in Monitors, MonitorStart(m) PROVE Recorded'
    BY <2>25 DEF MonitorStart
  <2>26. ASSUME NEW m \in Monitors, MonitorStop(m) PROVE Recorded'
    BY <2>26 DEF MonitorStop
  <2>27. ASSUME NEW m \in Monitors, MonitorSweep(m) PROVE Recorded'
    BY <2>27 DEF MonitorSweep, Call, Goto
  <2>28. CASE UNCHANGED vars
    BY <2>28 DEF vars
  <2>11. ASSUME NEW t \in Threads, SweepBegin(t) PROVE Recorded'
    BY <2>11 DEF SweepBegin
  <2>12. ASSUME NEW t \in Threads, SweepEnd(t) PROVE Recorded'
    <3>1. UNCHANGED <<leases, active, connLease, pending>>
      BY <2>12 DEF SweepEnd
    <3>2. UNCHANGED fr \/ fr' = [fr EXCEPT ![t] = IdleFrame]
      BY <2>12 DEF SweepEnd, Return
    <3>3. QED
      BY <3>1, <3>2
  <2> HIDE DEF Typed, TypeOK, Shape, Recorded, Threads, Frame, IdleFrame, connVars,
      loopVars
  <2>29. QED
    BY <2>1, <2>2, <2>3, <2>4, <2>5, <2>6, <2>7, <2>8, <2>9, <2>10, <2>11, <2>12,
        <2>13, <2>14, <2>15, <2>16, <2>17, <2>18, <2>19, <2>20, <2>21, <2>22, <2>23,
        <2>24, <2>25, <2>26, <2>27, <2>28 DEF Next, LoopStep, CallStep, Callback
<1>3. QED
  BY <1>1, <1>2, TypedHolds, PTL DEF Spec

\* Beside a valid lease no connection of its scope is open under another
\* generation's.
LEMMA ScopesStayWhole ==
  ASSUME Typed, Epochs, Recorded
  PROVE  ValidLeases \subseteq Lease /\ Table!ScopesWhole(ValidLeases)
BY NoneAssumption DEF Typed, TypeOK, Shape, Epochs, OldGenerationBlocked, StaleGeneration,
   Recorded, ValidLeases, Table!ScopesWhole, Table!Tabled, EntryKind, KeyOf

\* What a step that touches neither leases nor the table is to LeaseTable.
LEMMA QuietSteps ==
  ASSUME UNCHANGED <<generations, revoking, leases, connVars>>
  PROVE  UNCHANGED Table!tableVars
BY DEF connVars, Table!tableVars, ValidLeases, EntryKind

\* A step that changes which leases are valid and nothing of the table.
LEMMA RevaluingSteps ==
  ASSUME UNCHANGED connVars, Typed', Epochs', Recorded'
  PROVE  Table!Revalue
<1>1. (ValidLeases \subseteq Lease /\ Table!ScopesWhole(ValidLeases))'
  BY ScopesStayWhole, PTL
<1>2. QED
  BY <1>1 DEF Table!Revalue, connVars, EntryKind, Table!ScopesWhole, Table!Tabled

\* The steps of one entry, in LeaseTable's words.
LEMMA ClosingBegins ==
  ASSUME Typed, NEW c \in active \ closing, closing' = closing \cup {c},
         UNCHANGED <<generations, revoking, leases, active, connLease, pending>>
  PROVE  Table!BeginClose(c)
BY NoneAssumption
   DEF Typed, TypeOK, Shape, Table!BeginClose, Table!Tabled, ValidLeases, EntryKind

LEMMA ClosingEnds ==
  ASSUME Typed, NEW c \in closing, NEW r \in BOOLEAN,
         IF r THEN Forget(c) ELSE closing' = closing \ {c} /\ UNCHANGED active,
         UNCHANGED <<generations, revoking, leases, connLease, pending>>
  PROVE  Table!EndClose(c, r)
BY NoneAssumption
   DEF Typed, TypeOK, Shape, Forget, Table!EndClose, ValidLeases, EntryKind

LEMMA Dropping ==
  ASSUME Typed, NEW c \in active \ closing, active' = active \ {c},
         UNCHANGED <<generations, revoking, leases, connLease, pending, closing>>
  PROVE  Table!Drop(c)
BY NoneAssumption
   DEF Typed, TypeOK, Shape, Table!Drop, Table!Tabled, ValidLeases, EntryKind

LEMMA Promoting ==
  ASSUME Typed, Recorded, NEW c \in Conns, NEW n \in 0 .. MaxTime, Promote(c, n)
  PROVE  Table!PromoteEntry(c)
<1> DEFINE kinds == [d \in Conns |-> EntryKind(d)]
<1>1. /\ c \in active /\ c \in pending /\ c \notin closing
      /\ pending' = pending \ {c}
      /\ connLease[c] \in leases /\ connLease[c] # None
      /\ UNCHANGED <<generations, revoking, leases, active, connLease, closing>>
  BY NoneAssumption DEF Typed, Shape, Recorded, Promote, MayPromote
<1>2. connLease[c] \in ValidLeases
  BY <1>1 DEF Promote, LeaseLive, ValidLeases
<1>3. kinds[c] = "pending" /\ kinds' = [kinds EXCEPT ![c] = "active"]
  BY <1>1 DEF EntryKind
<1>4. UNCHANGED ValidLeases
  BY <1>1 DEF ValidLeases
<1>5. QED
  BY <1>1, <1>2, <1>3, <1>4 DEF Table!PromoteEntry

LEMMA Registering ==
  ASSUME Typed, Recorded, NEW t \in Callers, NEW c \in Conns, NEW dial \in BOOLEAN,
         RegisterCommit(t, c, dial)
  PROVE  \E l \in ValidLeases, k \in {"pending", "active"} : Table!Register(c, l, k)
<1> DEFINE l == fr[t].arg
           k == IF dial THEN "pending" ELSE "active"
<1>1. l \in ValidLeases /\ l # None
  BY NoneAssumption DEF Typed, TypeOK, Shape, Recorded, Threads, RegisterCommit,
     LeaseLive, ValidLeases
<1>2. connLease[c] = None /\ c \notin active /\ c \notin pending
  BY NoneAssumption DEF Typed, Shape, Recorded, RegisterCommit
<1>3. Table!Register(c, l, k)
  BY <1>1, <1>2 DEF Typed, TypeOK, RegisterCommit, Table!Register, ValidLeases, EntryKind
<1>4. QED
  BY <1>1, <1>3

\* Every thread interleaving of the authority is one of LeaseTable's.
THEOREM AuthorityImplementsTable == Spec => ImplementsTable
<1>1. Init => Table!TableInit
  BY DEF Init, Table!TableInit, ValidLeases, EntryKind
<1>2. Typed /\ CallbackExclusive /\ Recorded /\ Typed' /\ Epochs' /\ Recorded' /\ [Next]_vars
        => [Table!TableNext]_(Table!tableVars)
  <2> DEFINE Quiet == UNCHANGED <<generations, revoking, leases, connVars>>
             Implemented == Table!TableNext \/ UNCHANGED Table!tableVars
  <2> SUFFICES ASSUME Typed, CallbackExclusive, Recorded, Typed', Epochs', Recorded',
                      [Next]_vars
               PROVE  Implemented
    OBVIOUS
  <2>100. ASSUME Quiet PROVE Implemented
    BY <2>100, QuietSteps
  <2>101. ASSUME UNCHANGED connVars PROVE Implemented
    BY <2>101, RevaluingSteps DEF Table!TableNext
  <2> HIDE DEF Quiet, Implemented
  <2>1. CASE Tick
    BY <2>1, <2>100 DEF Tick, Quiet
  <2>2. ASSUME NEW t \in Threads, NEW c \in Conns, LoopSkip(t, c) PROVE Implemented
    BY <2>2, <2>100 DEF LoopSkip, Quiet
  <2>3. ASSUME NEW t \in Threads, NEW c \in Conns, LoopWait(t, c) PROVE Implemented
    BY <2>3, <2>100 DEF LoopWait, Quiet
  <2>4. ASSUME NEW t \in Threads, NEW c \in Conns, LoopClose(t, c) PROVE Implemented
    BY <2>4, ClosingBegins DEF LoopClose, MayStartClose, Implemented, Table!TableNext
  <2>5. ASSUME NEW t \in Threads, WaitDone(t) PROVE Implemented
    BY <2>5, <2>100 DEF WaitDone, Quiet
  <2>6. ASSUME NEW t \in Threads, WaitTimeout(t) PROVE Implemented
    BY <2>6, <2>100 DEF WaitTimeout, Quiet
  <2>7. ASSUME NEW t \in Threads, CloseConfirmed(t) PROVE Implemented
    <3>1. cur[t] \in Conns /\ cur[t] \in closing
      BY <2>7 DEF CloseConfirmed, Typed, TypeOK, Shape, Threads, CallbackExclusive, InCallback
    <3>2. Table!EndClose(cur[t], TRUE)
      BY <2>7, <3>1, ClosingEnds DEF CloseConfirmed
    <3>3. QED
      BY <3>1, <3>2 DEF Implemented, Table!TableNext
  <2>8. ASSUME NEW t \in Threads, CloseUnconfirmed(t) PROVE Implemented
    <3>1. cur[t] \in Conns /\ cur[t] \in closing
      BY <2>8 DEF CloseUnconfirmed, Typed, TypeOK, Shape, Threads, CallbackExclusive, InCallback
    <3>2. Table!EndClose(cur[t], FALSE)
      BY <2>8, <3>1, ClosingEnds DEF CloseUnconfirmed
    <3>3. QED
      BY <3>1, <3>2 DEF Implemented, Table!TableNext
  <2>9. ASSUME NEW t \in Threads, LoopRaise(t) PROVE Implemented
    BY <2>9, <2>100 DEF LoopRaise, Quiet
  <2>10. ASSUME NEW t \in Threads, RevokeEnd(t) PROVE Implemented
    BY <2>10, <2>101 DEF RevokeEnd, connVars
  <2>11. ASSUME NEW t \in Threads, SweepBegin(t) PROVE Implemented
    BY <2>11, <2>101 DEF SweepBegin, connVars
  <2>12. ASSUME NEW t \in Threads, SweepEnd(t) PROVE Implemented
    BY <2>12, <2>101 DEF SweepEnd, connVars
  <2>13. ASSUME NEW t \in Threads, NEW r \in BOOLEAN, ReleaseEnd(t, r) PROVE Implemented
    <3>1. cur[t] \in Conns /\ cur[t] \in closing
      BY <2>13 DEF ReleaseEnd, Typed, TypeOK, Shape, Threads, CallbackExclusive, InCallback
    <3>2. Table!EndClose(cur[t], r)
      BY <2>13, <3>1, ClosingEnds DEF ReleaseEnd
    <3>3. QED
      BY <3>1, <3>2 DEF Implemented, Table!TableNext
  <2>14. ASSUME NEW t \in Callers, NEW k \in Keys, RequestBegin(t, k) PROVE Implemented
    BY <2>14, <2>100 DEF RequestBegin, Quiet
  <2>15. ASSUME NEW t \in Callers, NEW k \in Keys, RevokeBegin(t, k) PROVE Implemented
    BY <2>15, <2>101 DEF RevokeBegin, connVars
  <2>16. ASSUME NEW t \in Callers, NEW ttl \in TTLs, RequestIssue(t, ttl) PROVE
      Implemented
    BY <2>16, <2>101 DEF RequestIssue, connVars
  <2>17. ASSUME NEW t \in Callers, RequestRefused(t) PROVE Implemented
    BY <2>17, <2>100 DEF RequestRefused, Quiet
  <2>18. ASSUME NEW t \in Callers, SweepCall(t) PROVE Implemented
    BY <2>18, <2>100 DEF SweepCall, Quiet
  <2>19. ASSUME NEW t \in Callers, NEW l \in leases, RegisterCall(t, l) PROVE
      Implemented
    BY <2>19, <2>100 DEF RegisterCall, Quiet
  <2>20. ASSUME NEW t \in Callers, NEW c \in Conns, NEW dial \in BOOLEAN,
      RegisterCommit(t, c, dial) PROVE Implemented
    BY <2>20, Registering DEF Implemented, Table!TableNext
  <2>21. ASSUME NEW t \in Callers, RegisterRefused(t) PROVE Implemented
    BY <2>21, <2>100 DEF RegisterRefused, Quiet
  <2>22. ASSUME NEW t \in Callers, NEW c \in Conns, ReleaseNow(t, c) PROVE Implemented
    BY <2>22, Dropping DEF ReleaseNow, Typed, TypeOK, Implemented, Table!TableNext
  <2>23. ASSUME NEW t \in Callers, NEW c \in Conns, ReleaseBegin(t, c) PROVE Implemented
    BY <2>23, ClosingBegins DEF ReleaseBegin, MayStartClose, Implemented, Table!TableNext
  <2>24. ASSUME NEW c \in Conns, NEW n \in 0 .. MaxTime, Promote(c, n) PROVE Implemented
    BY <2>24, Promoting DEF Implemented, Table!TableNext
  <2>25. ASSUME NEW m \in Monitors, MonitorStart(m) PROVE Implemented
    BY <2>25, <2>100 DEF MonitorStart, Quiet
  <2>26. ASSUME NEW m \in Monitors, MonitorStop(m) PROVE Implemented
    BY <2>26, <2>100 DEF MonitorStop, Quiet
  <2>27. ASSUME NEW m \in Monitors, MonitorSweep(m) PROVE Implemented
    BY <2>27, <2>100 DEF MonitorSweep, Quiet
  <2>28. CASE UNCHANGED vars
    BY <2>28, <2>100 DEF vars, Quiet
  <2>29. QED
    BY <2>1, <2>2, <2>3, <2>4, <2>5, <2>6, <2>7, <2>8, <2>9, <2>10, <2>11, <2>12,
        <2>13, <2>14, <2>15, <2>16, <2>17, <2>18, <2>19, <2>20, <2>21, <2>22, <2>23,
        <2>24, <2>25, <2>26, <2>27, <2>28 DEF Next, LoopStep, CallStep, Callback,
        Implemented
<1>3. QED
  BY <1>1, <1>2, TypedHolds, CallbacksExclusive, EpochsHold, RecordedHolds, PTL
     DEF Spec, ImplementsTable, Table!TableSpec

(***************************************************************************)
(* The proxy (ProxySession), for every number of clients, addresses and    *)
(* faults.  SocketsInv says what is known of the sockets, of the           *)
(* authority's entries and of the scope's sets at each place of the        *)
(* serving thread; ClosesInv what the closes in progress rest on.          *)
(***************************************************************************)

AsSv(v) == [at |-> v.at, c |-> v.c, i |-> v.i]
AsScope(s) == [closed |-> s.closed, opening |-> s.opening, accepted |-> s.accepted, pending |-> s.pending, tunnels |-> s.tunnels]
AsServer(s) ==
  [made |-> s.made, closed |-> s.closed, listener |-> s.listener, path |-> s.path, serving |-> s.serving, pending |-> s.pending]
AsRuntime(r) ==
  [started |-> r.started, closing |-> r.closing, closed |-> r.closed, monitor |-> r.monitor, scope |-> r.scope]
AsSession(s) ==
  [start |-> s.start, closing |-> s.closing, closed |-> s.closed, ready |-> s.ready, acked |-> s.acked, nonce |-> s.nonce,
   control |-> s.control]
AsCall(k) ==
  [todo |-> k.todo, tunnels |-> k.tunnels, clean |-> k.clean, scopeOk |-> k.scopeOk, serverOk |-> k.serverOk,
   joined |-> k.joined]

\* The lists of steps a close goes through.
L0 == <<>>
L1 == <<"control">>
L2 == <<"serverEnd", "control">>
L3 == <<"scopeEnd", "serverEnd", "control">>
L4 == <<"scopeMark", "scopeEnd", "serverEnd", "control">>
L5 == <<"serverSockets", "scopeMark", "scopeEnd", "serverEnd", "control">>
L6 == <<"join", "serverSockets", "scopeMark", "scopeEnd", "serverEnd", "control">>
L7 == <<"serverEnd", "join", "serverSockets", "scopeMark", "scopeEnd", "serverEnd", "control">>
L8 == <<"scopeEnd", "serverEnd", "join", "serverSockets", "scopeMark", "scopeEnd", "serverEnd", "control">>
L9 == <<"scopeMark", "scopeEnd", "serverEnd", "join", "serverSockets", "scopeMark", "scopeEnd", "serverEnd", "control">>
J2 == <<"scopeEnd", "control">>
J3 == <<"scopeMark", "scopeEnd", "control">>
S1 == <<"serverEnd">>
S2 == <<"scopeEnd", "serverEnd">>
S3 == <<"scopeMark", "scopeEnd", "serverEnd">>
R1 == <<"runtimeEnd">>
R2 == <<"scopeEnd", "runtimeEnd">>

AfterScope == {L2, L1}
AfterJoin == {L5, L4, L3, L2, L1, J3, J2}
EmptyCloses == {EmptySessionClose, J3, J2}
AfterSockets == {L9, L8, L7, L6, L5, L4, L3, L2, L1} \cup EmptyCloses
Sessions == AfterSockets \cup {SessionClose}
ServerLists == {L0, S1, S2, S3, ServerClose}
Lists == Sessions \cup ServerLists \cup {R1, R2, RuntimeClose}

\* Head, Tail and Len, opaque: what is known of them is ListFacts.
First(l) == Head(l)
Rest(l) == Tail(l)
Size(l) == Len(l)

\* Places of the serving thread.
SvPlaces ==
  {"off", "start", "loop", "poll", "accepted", "tracked", "head", "open", "authorize", "enlisted", "lookup", "dns",
   "dial", "record", "connect", "connecting", "connected", "promoted", "publish", "published", "unwind",
   "unwound", "opened", "answer", "relay", "fail", "finish", "leave", "forget", "dead"}
Alone == {"off", "start", "loop", "poll", "dead"}
WithClient ==
  {"accepted", "tracked", "head", "open", "fail", "opened", "answer", "relay", "authorize", "enlisted", "lookup",
   "dns", "dial", "record", "connect", "connecting", "connected", "promoted", "publish", "published", "unwind",
   "unwound"}
Opening ==
  {"authorize", "enlisted", "lookup", "dns", "dial", "record", "connect", "connecting", "connected", "promoted",
   "publish", "published", "unwind", "unwound"}
Entering ==
  {"enlisted", "lookup", "dns", "dial", "record", "connect", "connecting", "connected", "promoted", "publish",
   "published"}
Admitted == {"tracked", "head", "open", "authorize", "enlisted"}
Early == {"accepted", "tracked", "head", "open", "authorize", "enlisted", "lookup", "dns"}
BeforeDial ==
  {"accepted", "tracked", "head", "open", "authorize", "enlisted", "lookup", "dns", "dial"}
Dialling == {"record", "connect", "connecting", "connected", "promoted", "publish"}
Tunnelled == {"published", "opened", "answer", "relay", "finish"}
Leaving == {"leave", "forget"}
TunnelHeld == {"published", "opened", "answer", "relay", "finish", "leave", "forget"}

Live(x) == sock[x] = "new" \/ sock[x] = "open"
Silence(c) == \A x \in Sockets : x[1] = c => ~Live(x)
Untouched(x) == sock[x] = "none" /\ kind[x] = "absent"

SvShaped ==
  /\ sv = AsSv(sv) /\ sv.at \in SvPlaces /\ sv.i \in Nat \ {0}
  /\ sv.at \in WithClient => sv.c \in Clients
  /\ sv.at \in Alone => sv.c = NoClient
  /\ sv.c \in Clients \cup {NoClient}

ScopeShaped ==
  /\ scope = AsScope(scope)
  /\ scope.accepted \subseteq Clients /\ scope.pending \subseteq Clients /\ scope.tunnels \subseteq Clients

OthersShaped ==
  /\ server = AsServer(server) /\ runtime = AsRuntime(runtime) /\ session = AsSession(session)
  /\ server.pending \subseteq Clients
  /\ call = [t \in Closers |-> call[t]] /\ \A t \in Closers : call[t] = AsCall(call[t])

TableShaped ==
  /\ sock \in [Sockets -> {"none", "new", "open", "closed"}]
  /\ kind \in [Sockets -> {"absent", "pending", "active", "gone"}]

\* What the table says of a socket.
SockEntered ==
  \A x \in Sockets :
    /\ kind[x] = "gone" => sock[x] = "closed"
    /\ x \in settled => sock[x] = "closed"
    /\ x[2] # 0 /\ sock[x] = "open" => kind[x] # "absent"
    /\ kind[x] = "pending" => x[2] # 0
    /\ sock[x] = "none" => kind[x] = "absent"

EndsEntered ==
  /\ \A c \in scope.tunnels : kind[Endpoint(c)] # "absent"
  /\ sv.at \in Entering => kind[Endpoint(sv.c)] # "absent"

\* No address is dialled twice, and none of a client that was not accepted.
Fresh ==
  /\ \A x \in Sockets : sock[Endpoint(x[1])] = "none" => Untouched(x)
  /\ sv.at \in Early => sv.i = 1
  /\ sv.at \in BeforeDial => \A x \in Sockets : x[1] = sv.c /\ x[2] >= sv.i => Untouched(x)
  /\ sv.at \in Dialling => \A x \in Sockets : x[1] = sv.c /\ x[2] > sv.i => Untouched(x)
  /\ sv.at \in WithClient => sock[Endpoint(sv.c)] # "none"

\* The address in hand.
InHand ==
  /\ sv.at \in Dialling => sv.i <= Targets /\ sock[Now] # "none"
  /\ sv.at = "record" => sock[Now] = "new" /\ kind[Now] = "absent"
  /\ sv.at = "connect" => sock[Now] = "new" /\ kind[Now] = "pending"
  /\ sv.at \in {"connecting", "connected"} => sock[Now] = "open" /\ kind[Now] = "pending"
  /\ sv.at \in {"promoted", "publish"} => kind[Now] # "pending" /\ sock[Now] # "new"

\* Whose sockets may still be live, and where.
Owned ==
  /\ sv.at \in Opening => scope.opening = TRUE
  /\ sv.at \in Admitted => sv.c \in scope.accepted
  /\ \A x \in Sockets : Live(x) =>
       \/ x[1] \in scope.accepted \/ x[1] \in scope.tunnels
       \/ sv.at \in Opening /\ x[1] = sv.c
       \/ sv.at = "accepted" /\ x = Endpoint(sv.c)

Dialled ==
  \A x \in Sockets : Live(x) /\ x[2] # 0 =>
    \/ sv.at \in Dialling /\ x = Now
    \/ x[1] \in scope.tunnels /\ kind[x] = "active"

Silent ==
  /\ sv.c \in scope.tunnels => sv.at \in TunnelHeld
  /\ sv.at = "unwound" \/ sv.at \in Leaving => Silence(sv.c)
  /\ sv.at \in Tunnelled /\ sv.c \notin scope.tunnels => Silence(sv.c)

Forgotten ==
  /\ scope.opening = TRUE \/ scope.opening = FALSE
  /\ runtime.scope = "forgotten" =>
       scope.closed = TRUE /\ scope.opening = FALSE /\ scope.accepted = {} /\ scope.tunnels = {}
  /\ \A t \in Closers : call[t].todo # L0 /\ First(call[t].todo) = "scopeEnd" => scope.closed = TRUE

ThreadOver == (sv.at = "off" \/ sv.at = "dead") /\ call["serve"].todo = L0
SessionOnly == session.closing = TRUE /\ session.start # "receiving" /\ session.start # "waiting" /\ transport = "tcp"

Listed ==
  /\ call["serve"].todo \in ServerLists /\ call["host"].todo \in Lists
  /\ call["host"].todo \in Sessions => SessionOnly
  /\ session.closed = TRUE => SessionOnly
  /\ server.made = TRUE \/ server.made = FALSE
  /\ call["host"].todo \in EmptyCloses => server.made = FALSE
  /\ server.made = FALSE => server.listener = "none" /\ sv.at = "off"
  /\ sv.at = "off" => server.made = FALSE
  /\ session.start # "new" => transport = "tcp"
  /\ transport = "tcp" /\ server.made = TRUE => session.start # "new" /\ session.start # "receiving"

Closing ==
  /\ call["host"].todo \in AfterSockets => server.listener # "open"
  /\ call["host"].todo \in AfterJoin /\ call["host"].joined = TRUE => ThreadOver
  /\ call["host"].todo \in AfterScope /\ call["host"].scopeOk = TRUE => runtime.scope = "forgotten"
  /\ session.closed = TRUE => ThreadOver /\ server.listener # "open" /\ runtime.scope = "forgotten"

\* The sockets, the table, the scope and the serving thread.
SocketsInv ==
  /\ SvShaped /\ ScopeShaped /\ TableShaped /\ SockEntered /\ EndsEntered /\ Fresh /\ InHand
  /\ Owned /\ Dialled /\ Silent

\* The closes.
ClosesInv == OthersShaped /\ Forgotten /\ Listed /\ Closing

ProxyInv == SocketsInv /\ ClosesInv

\* The lists, read one step at a time.
LEMMA ListFacts ==
  /\ L1 # L0 /\ First(L1) = "control" /\ Size(L1) = 1 /\ Rest(L1) = L0
  /\ L2 # L0 /\ First(L2) = "serverEnd" /\ Size(L2) = 2 /\ Rest(L2) = L1
  /\ L3 # L0 /\ First(L3) = "scopeEnd" /\ Size(L3) = 3 /\ Rest(L3) = L2
  /\ L4 # L0 /\ First(L4) = "scopeMark" /\ Size(L4) = 4 /\ Rest(L4) = L3
  /\ L5 # L0 /\ First(L5) = "serverSockets" /\ Size(L5) = 5 /\ Rest(L5) = L4
  /\ L6 # L0 /\ First(L6) = "join" /\ Size(L6) = 6 /\ Rest(L6) = L5
  /\ L7 # L0 /\ First(L7) = "serverEnd" /\ Size(L7) = 7 /\ Rest(L7) = L6
  /\ L8 # L0 /\ First(L8) = "scopeEnd" /\ Size(L8) = 8 /\ Rest(L8) = L7
  /\ L9 # L0 /\ First(L9) = "scopeMark" /\ Size(L9) = 9 /\ Rest(L9) = L8
  /\ SessionClose # L0 /\ First(SessionClose) = "serverSockets" /\ Size(SessionClose) = 10 /\ Rest(SessionClose) = L9
  /\ J2 # L0 /\ First(J2) = "scopeEnd" /\ Size(J2) = 2 /\ Rest(J2) = L1
  /\ J3 # L0 /\ First(J3) = "scopeMark" /\ Size(J3) = 3 /\ Rest(J3) = J2
  /\ EmptySessionClose # L0 /\ First(EmptySessionClose) = "join" /\ Size(EmptySessionClose) = 4 /\ Rest(EmptySessionClose) = J3
  /\ S1 # L0 /\ First(S1) = "serverEnd" /\ Size(S1) = 1 /\ Rest(S1) = L0
  /\ S2 # L0 /\ First(S2) = "scopeEnd" /\ Size(S2) = 2 /\ Rest(S2) = S1
  /\ S3 # L0 /\ First(S3) = "scopeMark" /\ Size(S3) = 3 /\ Rest(S3) = S2
  /\ ServerClose # L0 /\ First(ServerClose) = "serverSockets" /\ Size(ServerClose) = 4 /\ Rest(ServerClose) = S3
  /\ R1 # L0 /\ First(R1) = "runtimeEnd" /\ Size(R1) = 1 /\ Rest(R1) = L0
  /\ R2 # L0 /\ First(R2) = "scopeEnd" /\ Size(R2) = 2 /\ Rest(R2) = R1
  /\ RuntimeClose # L0 /\ First(RuntimeClose) = "scopeMark" /\ Size(RuntimeClose) = 3 /\ Rest(RuntimeClose) = R2
<1>1. L1 # L0 /\ First(L1) = "control" /\ Size(L1) = 1 /\ Rest(L1) = L0
  BY DEF First, Rest, Size, L0, L1
<1>2. L2 # L0 /\ First(L2) = "serverEnd" /\ Size(L2) = 2 /\ Rest(L2) = L1
  BY DEF First, Rest, Size, L0, L2, L1
<1>3. L3 # L0 /\ First(L3) = "scopeEnd" /\ Size(L3) = 3 /\ Rest(L3) = L2
  BY DEF First, Rest, Size, L0, L3, L2
<1>4. L4 # L0 /\ First(L4) = "scopeMark" /\ Size(L4) = 4 /\ Rest(L4) = L3
  BY DEF First, Rest, Size, L0, L4, L3
<1>5. L5 # L0 /\ First(L5) = "serverSockets" /\ Size(L5) = 5 /\ Rest(L5) = L4
  BY DEF First, Rest, Size, L0, L5, L4
<1>6. L6 # L0 /\ First(L6) = "join" /\ Size(L6) = 6 /\ Rest(L6) = L5
  BY DEF First, Rest, Size, L0, L6, L5
<1>7. L7 # L0 /\ First(L7) = "serverEnd" /\ Size(L7) = 7 /\ Rest(L7) = L6
  BY DEF First, Rest, Size, L0, L7, L6
<1>8. L8 # L0 /\ First(L8) = "scopeEnd" /\ Size(L8) = 8 /\ Rest(L8) = L7
  BY DEF First, Rest, Size, L0, L8, L7
<1>9. L9 # L0 /\ First(L9) = "scopeMark" /\ Size(L9) = 9 /\ Rest(L9) = L8
  BY DEF First, Rest, Size, L0, L9, L8
<1>10. SessionClose # L0 /\ First(SessionClose) = "serverSockets" /\ Size(SessionClose) = 10 /\ Rest(SessionClose) = L9
  BY DEF First, Rest, Size, L0, SessionClose, L9
<1>11. J2 # L0 /\ First(J2) = "scopeEnd" /\ Size(J2) = 2 /\ Rest(J2) = L1
  BY DEF First, Rest, Size, L0, J2, L1
<1>12. J3 # L0 /\ First(J3) = "scopeMark" /\ Size(J3) = 3 /\ Rest(J3) = J2
  BY DEF First, Rest, Size, L0, J3, J2
<1>13. EmptySessionClose # L0 /\ First(EmptySessionClose) = "join" /\ Size(EmptySessionClose) = 4 /\ Rest(EmptySessionClose) = J3
  BY DEF First, Rest, Size, L0, EmptySessionClose, J3
<1>14. S1 # L0 /\ First(S1) = "serverEnd" /\ Size(S1) = 1 /\ Rest(S1) = L0
  BY DEF First, Rest, Size, L0, S1
<1>15. S2 # L0 /\ First(S2) = "scopeEnd" /\ Size(S2) = 2 /\ Rest(S2) = S1
  BY DEF First, Rest, Size, L0, S2, S1
<1>16. S3 # L0 /\ First(S3) = "scopeMark" /\ Size(S3) = 3 /\ Rest(S3) = S2
  BY DEF First, Rest, Size, L0, S3, S2
<1>17. ServerClose # L0 /\ First(ServerClose) = "serverSockets" /\ Size(ServerClose) = 4 /\ Rest(ServerClose) = S3
  BY DEF First, Rest, Size, L0, ServerClose, S3
<1>18. R1 # L0 /\ First(R1) = "runtimeEnd" /\ Size(R1) = 1 /\ Rest(R1) = L0
  BY DEF First, Rest, Size, L0, R1
<1>19. R2 # L0 /\ First(R2) = "scopeEnd" /\ Size(R2) = 2 /\ Rest(R2) = R1
  BY DEF First, Rest, Size, L0, R2, R1
<1>20. RuntimeClose # L0 /\ First(RuntimeClose) = "scopeMark" /\ Size(RuntimeClose) = 3 /\ Rest(RuntimeClose) = R2
  BY DEF First, Rest, Size, L0, RuntimeClose, R2
<1> QED
  BY <1>1, <1>2, <1>3, <1>4, <1>5, <1>6, <1>7, <1>8, <1>9, <1>10, <1>11, <1>12, <1>13, <1>14, <1>15, <1>16,
     <1>17, <1>18, <1>19, <1>20

\* No two of them are the same.
LEMMA ListsDiffer ==
  /\ L2 # J2
  /\ L3 # J3
  /\ L4 # EmptySessionClose
  /\ L1 # S1
  /\ L2 # S2
  /\ J2 # S2
  /\ L3 # S3
  /\ J3 # S3
  /\ L4 # ServerClose
  /\ EmptySessionClose # ServerClose
  /\ L1 # R1
  /\ S1 # R1
  /\ L2 # R2
  /\ J2 # R2
  /\ S2 # R2
  /\ L3 # RuntimeClose
  /\ J3 # RuntimeClose
  /\ S3 # RuntimeClose
<1>1. L1 # S1 /\ L1 # R1 /\ S1 # R1
  BY ListFacts
<1>2. L2 # J2 /\ L2 # S2 /\ J2 # S2 /\ L2 # R2 /\ J2 # R2 /\ S2 # R2
  BY <1>1, ListFacts
<1>3. L3 # J3 /\ L3 # S3 /\ J3 # S3 /\ L3 # RuntimeClose /\ J3 # RuntimeClose /\ S3 # RuntimeClose
  BY <1>2, ListFacts
<1>4. L4 # EmptySessionClose /\ L4 # ServerClose /\ EmptySessionClose # ServerClose
  BY <1>3, ListFacts
<1> QED BY <1>1, <1>2, <1>3, <1>4

\* A list goes on to its tail, and each kind of list is entered by one step.
LEMMA Tails ==
  ASSUME NEW l \in Lists, l # L0
  PROVE  /\ Size(l) = 1 => l \in {L1, S1, R1}
         /\ Size(l) # 1 =>
              /\ l \in ServerLists => Rest(l) \in ServerLists
              /\ Rest(l) \in Sessions => l \in Sessions
              /\ Rest(l) \in EmptyCloses => l \in EmptyCloses
              /\ Rest(l) \in AfterSockets => l \in AfterSockets \/ First(l) = "serverSockets"
              /\ Rest(l) \in AfterJoin => l \in AfterJoin \/ First(l) = "join"
              /\ Rest(l) \in AfterScope => l \in AfterScope \/ First(l) = "scopeEnd"
              /\ First(Rest(l)) = "scopeEnd" => First(l) = "scopeMark"
              /\ Rest(l) \in Lists /\ Rest(l) # L0
<1>1. l \in {L1, L2, L3, L4, L5, L6, L7, L8, L9, SessionClose, J2, J3, EmptySessionClose, S1, S2, S3, ServerClose, R1, R2, RuntimeClose}
  BY DEF Lists, Sessions, ServerLists, AfterSockets, EmptyCloses
<1>2. Size(l) = 1 => l \in {L1, S1, R1}
  BY <1>1, ListFacts
<1>3. (Size(l) # 1) => (l \in ServerLists => Rest(l) \in ServerLists)
  BY <1>1, ListFacts, ListsDiffer DEF ServerLists
<1>4. (Size(l) # 1) => (Rest(l) \in Sessions => l \in Sessions)
  BY <1>1, ListFacts, ListsDiffer DEF Sessions, AfterSockets, EmptyCloses
<1>5. (Size(l) # 1) => (Rest(l) \in EmptyCloses => l \in EmptyCloses)
  BY <1>1, ListFacts, ListsDiffer DEF EmptyCloses
<1>6. (Size(l) # 1) => (Rest(l) \in AfterSockets => l \in AfterSockets \/ First(l) = "serverSockets")
  BY <1>1, ListFacts, ListsDiffer DEF AfterSockets, EmptyCloses
<1>7. (Size(l) # 1) => (Rest(l) \in AfterJoin => l \in AfterJoin \/ First(l) = "join")
  BY <1>1, ListFacts, ListsDiffer DEF AfterJoin
<1>8. (Size(l) # 1) => (Rest(l) \in AfterScope => l \in AfterScope \/ First(l) = "scopeEnd")
  BY <1>1, ListFacts, ListsDiffer DEF AfterScope
<1>9. (Size(l) # 1) => (Rest(l) \in Lists /\ Rest(l) # L0)
  <2>1. Size(l) # 1 => Rest(l) \in {L1, L2, L3, L4, L5, L6, L7, L8, L9, J2, J3, S1, S2, S3, R1, R2}
    BY <1>1, ListFacts
  <2>2. \A k \in {L1, L2, L3, L4, L5, L6, L7, L8, L9, J2, J3, S1, S2, S3, R1, R2} : k \in Lists /\ k # L0
    BY ListFacts DEF Lists, ServerLists, Sessions, AfterSockets, EmptyCloses
  <2> QED BY <2>1, <2>2
<1>10. (Size(l) # 1) => (First(Rest(l)) = "scopeEnd" => First(l) = "scopeMark")
  <2>1. \A k \in Lists : First(k) = "scopeEnd" /\ k # L0 => k \in {L8, L3, J2, S2, R2}
    BY ListFacts DEF Lists, Sessions, ServerLists, AfterSockets, EmptyCloses
  <2>2. (Size(l) # 1 /\ Rest(l) \in {L8, L3, J2, S2, R2}) => l \in {L9, L4, J3, S3, RuntimeClose}
    BY <1>1, ListFacts, ListsDiffer
  <2> QED BY <2>1, <2>2, <1>9, ListFacts
<1> QED
  BY <1>2, <1>3, <1>4, <1>5, <1>6, <1>7, <1>8, <1>10, <1>9

\* The parts of a socket's name.
LEMMA Ends ==
  ASSUME NEW c \in Clients
  PROVE  Endpoint(c) \in Sockets /\ Endpoint(c)[1] = c /\ Endpoint(c)[2] = 0
BY ProxyAssumption DEF Endpoint, Sockets

\* A socket is a client's own or one of its dials.
LEMMA Parts ==
  ASSUME NEW x \in Sockets
  PROVE  /\ x[1] \in Clients /\ x[2] \in Nat /\ x[2] <= Targets
         /\ x[2] = 0 => x = Endpoint(x[1])
         /\ x[2] # 0 => x \in Upstreams(x[1])
BY ProxyAssumption DEF Endpoint, Sockets, Upstreams, Dial

\* The address in hand is a dial of the client in hand.
LEMMA NowParts ==
  ASSUME sv.c \in Clients, sv.i \in Nat \ {0}, sv.i <= Targets
  PROVE  Now \in Sockets /\ Now[1] = sv.c /\ Now[2] = sv.i /\ Now[2] # 0
BY ProxyAssumption DEF Now, Dial, Sockets

LEMMA UpstreamParts ==
  ASSUME NEW c \in Clients, NEW x \in Upstreams(c)
  PROVE  x \in Sockets /\ x[1] = c /\ x[2] # 0 /\ x[2] <= Targets
BY ProxyAssumption DEF Upstreams, Dial, Sockets

(***************************************************************************)
(* Steps of the serving thread that close at most its client's socket      *)
(***************************************************************************)
\* The serving thread moves on and changes no socket, no entry and no set of the scope.
MayMove(p, q) ==
  \/ (p = "off" /\ q = "start") \/ (p = "start" /\ q = "loop") \/ (p = "start" /\ q = "dead")
  \/ (p = "loop" /\ q = "poll") \/ (p = "loop" /\ q = "dead") \/ (p = "poll" /\ q = "finish")
  \/ (p = "tracked" /\ q = "head") \/ (p = "head" /\ q = "open") \/ (p = "head" /\ q = "fail")
  \/ (p = "authorize" /\ q = "unwind") \/ (p = "enlisted" /\ q = "unwind")
  \/ (p = "lookup" /\ q = "dns") \/ (p = "lookup" /\ q = "unwind")
  \/ (p = "dns" /\ q = "dial") \/ (p = "dns" /\ q = "unwind") \/ (p = "dial" /\ q = "unwind")
  \/ (p = "connecting" /\ q = "connected") \/ (p = "promoted" /\ q = "publish")
  \/ (p = "opened" /\ q = "answer") \/ (p = "answer" /\ q = "relay") \/ (p = "relay" /\ q = "finish")
  \/ (p = "leave" /\ q = "forget") \/ (p = "finish" /\ sv.c \notin scope.tunnels /\ q = "forget")

SameSets == scope'.accepted = scope.accepted /\ scope'.tunnels = scope.tunnels /\ scope'.opening = scope.opening

Moved(q) ==
  /\ MayMove(sv.at, q) /\ sv' = [sv EXCEPT !.at = q] /\ UNCHANGED <<sock, kind, settled>>
  /\ SameSets /\ ScopeShaped'

\* Such a step keeps what is known of the sockets.
LEMMA Moves ==
  ASSUME SocketsInv, NEW q, Moved(q)
  PROVE  SocketsInv'
<1> USE DEF SocketsInv, Moved, MayMove, SameSets
<1>1. SvShaped'
  BY DEF SvShaped, AsSv, SvPlaces, WithClient, Alone
<1>2. TableShaped' /\ SockEntered'
  BY DEF TableShaped, SockEntered
<1>3. EndsEntered'
  BY DEF EndsEntered, SvShaped, AsSv, Entering
<1>4. Fresh'
  BY DEF Fresh, SvShaped, AsSv, Early, BeforeDial, Dialling, WithClient, Untouched
<1>5. InHand'
  BY DEF InHand, SvShaped, AsSv, Dialling, Now, Dial
<1>6. Owned'
  BY DEF Owned, SvShaped, AsSv, Opening, Admitted, Live
<1>7. Dialled'
  BY DEF Dialled, InHand, SvShaped, AsSv, Dialling, Live, Now, Dial
<1>8. Silent'
  BY Parts, ProxyAssumption DEF Silent, SvShaped, AsSv, TunnelHeld, Leaving, Tunnelled, Silence, Live, Owned,
     Dialled, Alone, Dialling, ScopeShaped
<1> QED BY <1>1, <1>2, <1>3, <1>4, <1>5, <1>6, <1>7, <1>8

\* It closes its client's socket, and changes no entry and no set.
MayDrop(p, q) ==
  \/ (p = "accepted" /\ q = "fail") \/ (p = "head" /\ q = "finish") \/ (p = "open" /\ q = "fail")
  \/ (p = "opened" /\ q = "finish") \/ (p = "relay" /\ q = "finish") \/ (p = "fail" /\ q = "finish")

Dropped(q) ==
  /\ MayDrop(sv.at, q) /\ sv' = [sv EXCEPT !.at = q] /\ UNCHANGED <<kind, settled>>
  /\ CloseSockets({Endpoint(sv.c)}) /\ SameSets /\ ScopeShaped'

LEMMA Drops ==
  ASSUME SocketsInv, NEW q, Dropped(q)
  PROVE  SocketsInv'
<1> USE DEF SocketsInv, Dropped, MayDrop, SameSets
<1>e. sv.c \in Clients
  BY DEF SvShaped, WithClient
<1>f. Endpoint(sv.c) \in Sockets /\ Endpoint(sv.c)[1] = sv.c /\ Endpoint(sv.c)[2] = 0
  BY <1>e, Ends
<1>1. SvShaped'
  BY DEF SvShaped, AsSv, SvPlaces, WithClient, Alone
<1>2. TableShaped' /\ SockEntered'
  BY DEF TableShaped, SockEntered, CloseSockets
<1>3. EndsEntered'
  BY DEF EndsEntered, SvShaped, AsSv, Entering
<1>4. Fresh'
  BY <1>f, Ends, Parts DEF Fresh, SvShaped, AsSv, Early, BeforeDial, Dialling, WithClient, Untouched,
     CloseSockets, TableShaped
<1>5. InHand'
  BY DEF InHand, SvShaped, AsSv, Dialling
<1>6. Owned'
  BY DEF Owned, SvShaped, AsSv, Opening, Admitted, Live, CloseSockets
<1>7. Dialled'
  BY DEF Dialled, SvShaped, AsSv, Dialling, Live, CloseSockets
<1>8. Silent'
  BY <1>e, <1>f, Parts DEF Silent, SvShaped, AsSv, TunnelHeld, Leaving, Tunnelled, Silence, Live, CloseSockets,
     Dialled, Dialling,
     Owned, Opening
<1> QED BY <1>1, <1>2, <1>3, <1>4, <1>5, <1>6, <1>7, <1>8

\* Nothing of it changes.
LEMMA Stays ==
  ASSUME SocketsInv, UNCHANGED <<sv, sock, kind, settled, scope>>
  PROVE  SocketsInv'
BY DEF SocketsInv, SvShaped, ScopeShaped, TableShaped, SockEntered, EndsEntered, Fresh, InHand, Owned, Dialled,
   Silent, Untouched,
   Live, Silence, Now, Dial, Endpoint

\* Steps that only move the thread on.
LEMMA MovingSteps ==
  ASSUME SocketsInv, OthersShaped, Listed,
         \/ ServeReady \/ ServeLoop \/ PollRefused \/ PollNobody
         \/ ReadHead \/ ReadFails \/ (\E head \in Heads : EnlistRefused(head)) \/ Lookup
         \/ (\E answer \in Answers : Resolved(answer)) \/ NoMoreTargets \/ ConnectDone \/ FinishConnected
         \/ Opened \/ Answered \/ RelayDone \/ LeaveTunnel
         \/ MakeUnixServer \/ (\E message \in HandoffMessages : StartReceive(message))
  PROVE  SocketsInv'
<1> USE DEF SocketsInv, Moved, MayMove, SameSets, SvShaped, ScopeShaped, AsSv, AsScope, At, Go, CloseThenGo, TableSame, Here, tableVars
<1>1. CASE ServeReady
  <2>1. Moved("loop") \/ Moved("dead")
    BY <1>1 DEF ServeReady
  <2> QED BY <2>1, Moves
<1>2. CASE ServeLoop
  <2>1. Moved("poll") \/ Moved("dead")
    BY <1>2 DEF ServeLoop
  <2> QED BY <2>1, Moves
<1>3. CASE PollRefused
  <2>1. Moved("finish")
    BY <1>3 DEF PollRefused
  <2> QED BY <2>1, Moves
<1>4. CASE PollNobody
  <2>1. Moved("finish")
    BY <1>4 DEF PollNobody
  <2> QED BY <2>1, Moves
<1>5. CASE ReadHead
  <2>1. Moved("open")
    BY <1>5 DEF ReadHead
  <2> QED BY <2>1, Moves
<1>6. CASE ReadFails
  <2>1. Moved("fail")
    BY <1>6 DEF ReadFails
  <2> QED BY <2>1, Moves
<1>7. CASE (\E head \in Heads : EnlistRefused(head))
  <2>1. Moved("unwind")
    BY <1>7 DEF EnlistRefused
  <2> QED BY <2>1, Moves
<1>8. CASE Lookup
  <2>1. Moved("dns") \/ Moved("unwind")
    BY <1>8 DEF Lookup
  <2> QED BY <2>1, Moves
<1>9. CASE (\E answer \in Answers : Resolved(answer))
  <2>1. Moved("dial") \/ Moved("unwind")
    BY <1>9 DEF Resolved
  <2> QED BY <2>1, Moves
<1>10. CASE NoMoreTargets
  <2>1. Moved("unwind")
    BY <1>10 DEF NoMoreTargets
  <2> QED BY <2>1, Moves
<1>11. CASE ConnectDone
  <2>1. Moved("connected")
    BY <1>11 DEF ConnectDone
  <2> QED BY <2>1, Moves
<1>12. CASE FinishConnected
  <2>1. Moved("publish")
    BY <1>12 DEF FinishConnected
  <2> QED BY <2>1, Moves
<1>13. CASE Opened
  <2>1. Moved("answer")
    BY <1>13 DEF Opened
  <2> QED BY <2>1, Moves
<1>14. CASE Answered
  <2>1. Moved("relay")
    BY <1>14 DEF Answered
  <2> QED BY <2>1, Moves
<1>15. CASE RelayDone
  <2>1. Moved("finish")
    BY <1>15 DEF RelayDone
  <2> QED BY <2>1, Moves
<1>16. CASE LeaveTunnel
  <2>1. Moved("forget")
    BY <1>16 DEF LeaveTunnel
  <2> QED BY <2>1, Moves
<1>17. CASE MakeUnixServer
  <2>1. Moved("start")
    BY <1>17 DEF MakeUnixServer, Listed
  <2> QED BY <2>1, Moves
<1>18. CASE (\E message \in HandoffMessages : StartReceive(message))
  <2>1. Moved("start")
    BY <1>18 DEF StartReceive, Listed
  <2> QED BY <2>1, Moves
<1> QED
  BY <1>1, <1>2, <1>3, <1>4, <1>5, <1>6, <1>7, <1>8, <1>9, <1>10, <1>11, <1>12, <1>13, <1>14, <1>15, <1>16,
     <1>17, <1>18

\* Steps that close the client's socket.
LEMMA DroppingSteps ==
  ASSUME SocketsInv, ReadRefused \/ SocksRejected \/ OpenedTooLate \/ RelayStopped \/ Fail
  PROVE  SocketsInv'
<1> USE DEF SocketsInv, Dropped, MayDrop, SameSets, SvShaped, ScopeShaped, AsSv, AsScope, At, Go, CloseThenGo, TableSame, Here, tableVars
<1>1. CASE ReadRefused
  <2>1. Dropped("finish")
    BY <1>1 DEF ReadRefused
  <2> QED BY <2>1, Drops
<1>2. CASE SocksRejected
  <2>1. Dropped("finish")
    BY <1>2 DEF SocksRejected
  <2> QED BY <2>1, Drops
<1>3. CASE OpenedTooLate
  <2>1. Dropped("finish")
    BY <1>3 DEF OpenedTooLate
  <2> QED BY <2>1, Drops
<1>4. CASE RelayStopped
  <2>1. Dropped("finish")
    BY <1>4 DEF RelayStopped
  <2> QED BY <2>1, Drops
<1>5. CASE Fail
  <2>1. Dropped("finish")
    BY <1>5 DEF Fail
  <2> QED BY <2>1, Drops
<1> QED
  BY <1>1, <1>2, <1>3, <1>4, <1>5

(***************************************************************************)
(* Sockets closed by any thread, and attempts given up                     *)
(***************************************************************************)
\* Sockets are closed and their entries go, by the thread itself or by another.
Shut ==
  /\ \/ sv' = sv
     \/ sv.at = "answer" /\ sv' = [sv EXCEPT !.at = "finish"]
     \/ sv.at = "finish" /\ sv.c \in scope.tunnels /\ sv' = [sv EXCEPT !.at = "leave"] /\ Silence(sv.c)'
  /\ sock' \in [Sockets -> {"none", "new", "open", "closed"}]
  /\ kind' \in [Sockets -> {"absent", "pending", "active", "gone"}]
  /\ settled' = settled
  /\ \A x \in Sockets : sock'[x] = sock[x] \/ (sock[x] # "none" /\ sock'[x] = "closed")
  /\ \A x \in Sockets : kind'[x] = kind[x] \/ (kind'[x] = "gone" /\ sock'[x] = "closed")
  /\ \A x \in Sockets : Live(x) /\ x[2] # 0 /\ kind[x] # "active" => sock'[x] = sock[x] /\ kind'[x] = kind[x]
  /\ scope'.accepted = scope.accepted /\ scope'.opening = scope.opening /\ ScopeShaped'
  /\ scope'.tunnels \subseteq scope.tunnels
  /\ \A c \in scope.tunnels : c \in scope'.tunnels \/ Silence(c)'

\* Closing never disturbs it: what a place of the thread relies on is a dial
\* that no other thread may close.
LEMMA Shuts ==
  ASSUME SocketsInv, Shut
  PROVE  SocketsInv'
<1> USE DEF SocketsInv, Shut
<1>1. SvShaped'
  BY DEF SvShaped, AsSv, SvPlaces, WithClient, Alone
<1>2. TableShaped' /\ SockEntered'
  BY DEF TableShaped, SockEntered
<1>3. EndsEntered'
  BY Ends DEF EndsEntered, SvShaped, ScopeShaped, AsSv, Entering, WithClient
<1>4. Fresh'
  BY Ends, Parts DEF Fresh, SvShaped, AsSv, Early, BeforeDial, Dialling, WithClient, Untouched
<1>5. InHand'
  <2>1. CASE sv' = sv
    <3>1. sv.at \in Dialling => Now \in Sockets /\ Now[2] # 0 /\ Now' = Now
      BY <2>1, NowParts DEF InHand, SvShaped, WithClient, Dialling, Now
    <3> QED BY <2>1, <3>1 DEF InHand, Dialling, Live
  <2>2. CASE sv'.at \in {"finish", "leave"}
    BY <2>2 DEF InHand, Dialling
  <2> QED BY <2>1, <2>2 DEF SvShaped, AsSv
<1>6. Owned'
  <2>1. \A x \in Sockets : Live(x)' => Live(x)
    BY DEF Live
  <2> QED BY <2>1, Parts DEF Owned, SvShaped, AsSv, Opening, Admitted, Silence
<1>7. Dialled'
  <2>1. \A x \in Sockets : Live(x)' => Live(x) /\ kind'[x] = kind[x]
    BY DEF Live
  <2> QED BY <2>1, Parts DEF Dialled, SvShaped, AsSv, Dialling, Silence, Now, Dial
<1>8. Silent'
  <2>1. \A x \in Sockets : Live(x)' => Live(x)
    BY DEF Live
  <2> QED BY <2>1 DEF Silent, SvShaped, AsSv, TunnelHeld, Leaving, Tunnelled, Silence
<1> QED BY <1>1, <1>2, <1>3, <1>4, <1>5, <1>6, <1>7, <1>8

\* The address in hand is given up.
Discarded ==
  /\ sv.at \in Dialling
  /\ sv' = [sv EXCEPT !.at = "unwind"] \/ sv' = [sv EXCEPT !.at = "dial", !.i = @ + 1]
  /\ CloseSockets({Now}) /\ SameSets /\ ScopeShaped'
  /\ kind' = kind \/ kind' = [kind EXCEPT ![Now] = "gone"]
  /\ settled' = settled \/ settled' = settled \cup {Now}

\* The attempt's socket is closed, its entry gone or left, and the next
\* address untouched.
LEMMA Discards ==
  ASSUME SocketsInv, Discarded
  PROVE  SocketsInv'
<1> USE DEF SocketsInv, Discarded, SameSets
<1>d. sv.c \in Clients /\ sv.i \in Nat \ {0} /\ sv.i <= Targets
  BY DEF InHand, SvShaped, WithClient, Dialling
<1>s. /\ sv' = AsSv(sv') /\ sv'.c = sv.c
      /\ \/ sv'.at = "unwind" /\ sv'.i = sv.i
         \/ sv'.at = "dial" /\ sv'.i = sv.i + 1
  <2>1. CASE sv' = [sv EXCEPT !.at = "unwind"]
    BY <2>1 DEF SvShaped, AsSv
  <2>2. CASE sv' = [sv EXCEPT !.at = "dial", !.i = @ + 1]
    BY <2>2 DEF SvShaped, AsSv
  <2> QED BY <2>1, <2>2
<1>e. Now \in Sockets /\ Now[1] = sv.c /\ Now[2] = sv.i /\ Now[2] # 0 /\ sock[Now] # "none"
  BY <1>d, NowParts DEF InHand, Dialling
<1>1. SvShaped'
  BY <1>d, <1>s DEF SvShaped, SvPlaces, WithClient, Alone
<1>2. TableShaped' /\ SockEntered'
  BY <1>e DEF TableShaped, SockEntered, CloseSockets
<1>3. EndsEntered'
  <2>1. \A x \in Sockets : kind[x] # "absent" => kind'[x] # "absent"
    BY <1>e DEF TableShaped
  <2>2. \A c \in scope.tunnels : Endpoint(c) \in Sockets
    BY Ends DEF ScopeShaped
  <2>3. scope'.tunnels = scope.tunnels /\ EndsEntered
    OBVIOUS
  <2>6. sv.at \in Dialling
    OBVIOUS
  <2> HIDE DEF SocketsInv, Discarded, SameSets
  <2>4. \A c \in scope'.tunnels : kind'[Endpoint(c)] # "absent"
    BY <2>1, <2>2, <2>3 DEF EndsEntered
  <2>5. kind[Endpoint(sv.c)] # "absent"
    BY <2>3, <2>6 DEF EndsEntered, Entering, Dialling
  <2>7. kind'[Endpoint(sv.c)] # "absent"
    BY <1>d, <2>1, <2>5, Ends
  <2> QED BY <1>s, <2>4, <2>7 DEF EndsEntered
<1>4. Fresh'
  <2>1. \A x \in Sockets : x # Now => sock'[x] = sock[x] /\ kind'[x] = kind[x]
    BY <1>e DEF CloseSockets, TableShaped
  <2>2. \A x \in Sockets : sock'[x] = "none" => sock[x] = "none"
    BY DEF CloseSockets
  <2>3. sock[Endpoint(sv.c)] # "none" /\ Endpoint(sv.c) \in Sockets
    BY <1>d, Ends DEF Fresh, Dialling, WithClient
  <2>4. \A x \in Sockets : sock'[Endpoint(x[1])] = "none" => Untouched(x)'
    BY <1>d, <1>e, <2>1, <2>2, <2>3, Ends, Parts DEF Fresh, Untouched
  <2>5. sv'.at = "dial" => \A x \in Sockets : x[1] = sv.c /\ x[2] >= sv.i + 1 => Untouched(x)'
    BY <1>d, <1>e, <2>1, Parts DEF Fresh, Untouched
  <2>6. sock'[Endpoint(sv.c)] # "none"
    BY <2>3 DEF CloseSockets
  <2> QED BY <1>s, <2>4, <2>5, <2>6 DEF Fresh, Early, BeforeDial, Dialling, WithClient
<1>5. InHand'
  BY DEF InHand, SvShaped, AsSv, Dialling
<1>6. Owned'
  BY DEF Owned, SvShaped, AsSv, Opening, Admitted, Live, CloseSockets, Dialling
<1>7. Dialled'
  BY <1>e DEF Dialled, SvShaped, AsSv, Dialling, Live, CloseSockets, TableShaped
<1>8. Silent'
  BY <1>e DEF Silent, SvShaped, AsSv, TunnelHeld, Leaving, Tunnelled, Silence, Live, CloseSockets, Dialling
<1> QED BY <1>1, <1>2, <1>3, <1>4, <1>5, <1>6, <1>7, <1>8

(***************************************************************************)
(* The serving thread's steps one by one                                   *)
(***************************************************************************)
\* The steps that take a client in: accepted, entered, enlisted, adopted,
\* published, forgotten.
LEMMA TrackKeeps ==
  ASSUME SocketsInv, Track, ~(scope.closed \/ ~Healthy)
  PROVE  SocketsInv'
<1> USE DEF SocketsInv, At, Go, Track, TableSame, Here, tableVars
<1>c. sv.c \in Clients /\ Endpoint(sv.c) \in Sockets /\ Endpoint(sv.c)[1] = sv.c /\ Endpoint(sv.c)[2] = 0
  BY Ends DEF SvShaped, WithClient
<1>1. SvShaped'
  BY DEF SvShaped, AsSv, SvPlaces, WithClient, Alone
<1>2. ScopeShaped'
  BY DEF ScopeShaped, AsScope, SvShaped, WithClient
<1>3. TableShaped'
  BY DEF TableShaped
<1>4. SockEntered'
  BY DEF SockEntered, TableShaped
<1>5. EndsEntered'
  BY DEF EndsEntered, SvShaped, AsSv, ScopeShaped, AsScope, TableShaped, Entering
<1>6. Fresh'
  BY Ends, Parts DEF Fresh, SvShaped, AsSv, Early, BeforeDial, Dialling, WithClient, Untouched
<1>7. InHand'
  BY DEF InHand, SvShaped, AsSv, Dialling
<1>8. Owned'
  BY <1>c, Parts DEF Owned, SvShaped, AsSv, ScopeShaped, AsScope, Opening, Admitted, Live
<1>9. Dialled'
  BY DEF Dialled, SvShaped, AsSv, ScopeShaped, AsScope, Dialling, Live
<1>10. Silent'
  BY DEF Silent, SvShaped, AsSv, ScopeShaped, AsScope, TunnelHeld, Leaving, Tunnelled, Silence, Live, Dialled,
     Owned
<1> QED BY <1>1, <1>2, <1>3, <1>4, <1>5, <1>6, <1>7, <1>8, <1>9, <1>10

LEMMA EnterKeeps ==
  ASSUME SocketsInv, Enter, server.closed
  PROVE  SocketsInv'
<1> USE DEF SocketsInv, At, Go, Enter, CloseSockets, TableSame, Here, tableVars
<1>c. sv.c \in Clients /\ Endpoint(sv.c) \in Sockets /\ Endpoint(sv.c)[1] = sv.c /\ Endpoint(sv.c)[2] = 0
  BY Ends DEF SvShaped, WithClient
<1>1. SvShaped'
  BY DEF SvShaped, AsSv, SvPlaces, WithClient, Alone
<1>2. ScopeShaped'
  BY DEF ScopeShaped, AsScope, SvShaped, WithClient
<1>3. TableShaped'
  BY <1>c DEF TableShaped
<1>4. SockEntered'
  BY <1>c DEF SockEntered, TableShaped
<1>5. EndsEntered'
  BY DEF EndsEntered, SvShaped, AsSv, ScopeShaped, AsScope, TableShaped, Entering
<1>6. Fresh'
  BY <1>c, Ends, Parts DEF Fresh, SvShaped, AsSv, Early, BeforeDial, Dialling, WithClient, Untouched
<1>7. InHand'
  BY DEF InHand, SvShaped, AsSv, Dialling
<1>8. Owned'
  BY <1>c, Parts DEF Owned, SvShaped, AsSv, ScopeShaped, AsScope, Opening, Admitted, Live, Dialled, Dialling,
     Silent, TunnelHeld
<1>9. Dialled'
  BY DEF Dialled, SvShaped, AsSv, ScopeShaped, AsScope, Dialling, Live
<1>10. Silent'
  BY <1>c, Parts DEF Silent, SvShaped, AsSv, ScopeShaped, AsScope, TunnelHeld, Leaving, Tunnelled, Silence,
     Live, Dialled, Owned, Dialling, Opening, Admitted
<1> QED BY <1>1, <1>2, <1>3, <1>4, <1>5, <1>6, <1>7, <1>8, <1>9, <1>10

LEMMA OpenBeginKeeps ==
  ASSUME SocketsInv, OpenBegin, ~(scope.closed \/ ~Healthy)
  PROVE  SocketsInv'
<1> USE DEF SocketsInv, At, Go, OpenBegin, TableSame, Here, tableVars
<1>1. SvShaped'
  BY DEF SvShaped, AsSv, SvPlaces, WithClient, Alone
<1>2. ScopeShaped'
  BY DEF ScopeShaped, AsScope, SvShaped, WithClient
<1>3. TableShaped'
  BY DEF TableShaped
<1>4. SockEntered'
  BY DEF SockEntered, TableShaped
<1>5. EndsEntered'
  BY DEF EndsEntered, SvShaped, AsSv, ScopeShaped, AsScope, TableShaped, Entering
<1>6. Fresh'
  BY Ends, Parts DEF Fresh, SvShaped, AsSv, Early, BeforeDial, Dialling, WithClient, Untouched
<1>7. InHand'
  BY DEF InHand, SvShaped, AsSv, Dialling
<1>8. Owned'
  BY Parts DEF Owned, SvShaped, AsSv, ScopeShaped, AsScope, Opening, Admitted, Live
<1>9. Dialled'
  BY DEF Dialled, SvShaped, AsSv, ScopeShaped, AsScope, Dialling, Live
<1>10. Silent'
  BY DEF Silent, SvShaped, AsSv, ScopeShaped, AsScope, TunnelHeld, Leaving, Tunnelled, Silence, Live
<1> QED BY <1>1, <1>2, <1>3, <1>4, <1>5, <1>6, <1>7, <1>8, <1>9, <1>10

LEMMA AdoptKeeps ==
  ASSUME SocketsInv, Adopt, ~scope.closed
  PROVE  SocketsInv'
<1> USE DEF SocketsInv, At, Go, Adopt, TableSame, Here, tableVars
<1>c. sv.c \in Clients /\ Endpoint(sv.c) \in Sockets /\ Endpoint(sv.c)[1] = sv.c /\ Endpoint(sv.c)[2] = 0
  BY Ends DEF SvShaped, WithClient
<1>1. SvShaped'
  BY DEF SvShaped, AsSv, SvPlaces, WithClient, Alone
<1>2. ScopeShaped'
  <2>1. scope' = AsScope(scope') /\ scope'.accepted = scope.accepted \ {sv.c} /\ scope'.pending = scope.pending \cup {sv.c}
        /\ scope'.tunnels = scope.tunnels
    BY DEF ScopeShaped, AsScope
  <2> QED BY <1>c, <2>1 DEF ScopeShaped
<1>3. TableShaped'
  BY DEF TableShaped
<1>4. SockEntered'
  BY DEF SockEntered, TableShaped
<1>5. EndsEntered'
  BY DEF EndsEntered, SvShaped, AsSv, ScopeShaped, AsScope, TableShaped, Entering
<1>6. Fresh'
  BY Ends, Parts DEF Fresh, SvShaped, AsSv, Early, BeforeDial, Dialling, WithClient, Untouched
<1>7. InHand'
  BY DEF InHand, SvShaped, AsSv, Dialling
<1>8. Owned'
  BY <1>c, Parts DEF Owned, SvShaped, AsSv, ScopeShaped, AsScope, Opening, Admitted, Live
<1>9. Dialled'
  BY DEF Dialled, SvShaped, AsSv, ScopeShaped, AsScope, Dialling, Live
<1>10. Silent'
  BY DEF Silent, SvShaped, AsSv, ScopeShaped, AsScope, TunnelHeld, Leaving, Tunnelled, Silence, Live
<1> QED BY <1>1, <1>2, <1>3, <1>4, <1>5, <1>6, <1>7, <1>8, <1>9, <1>10

LEMMA PublishKeeps ==
  ASSUME SocketsInv, Publish
  PROVE  SocketsInv'
<1> USE DEF SocketsInv, At, Go, Publish, TableSame, Here, tableVars
<1>c. sv.c \in Clients /\ sv.i \in Nat \ {0} /\ sv.i <= Targets
  BY DEF InHand, SvShaped, WithClient, Dialling
<1>d. Now \in Sockets /\ Now[1] = sv.c /\ Now[2] = sv.i /\ Now[2] # 0
  BY <1>c, NowParts
<1>e. sock[Now] = "open" => kind[Now] = "active"
  BY <1>d DEF InHand, SockEntered, TableShaped
<1>1. SvShaped'
  BY DEF SvShaped, AsSv, SvPlaces, WithClient, Alone
<1>2. ScopeShaped'
  BY <1>c DEF ScopeShaped, AsScope, SvShaped, WithClient
<1>3. TableShaped'
  BY DEF TableShaped
<1>4. SockEntered'
  BY DEF SockEntered, TableShaped
<1>5. EndsEntered'
  BY <1>c DEF EndsEntered, SvShaped, AsSv, ScopeShaped, AsScope, TableShaped, Entering
<1>6. Fresh'
  BY Ends, Parts DEF Fresh, SvShaped, AsSv, Early, BeforeDial, Dialling, WithClient, Untouched
<1>7. InHand'
  BY DEF InHand, SvShaped, AsSv, Dialling
<1>8. Owned'
  BY Parts DEF Owned, SvShaped, AsSv, ScopeShaped, AsScope, Opening, Admitted, Live
<1>9. Dialled'
  BY <1>c, <1>d, <1>e DEF Dialled, SvShaped, AsSv, ScopeShaped, AsScope, Dialling, Live, InHand
<1>10. Silent'
  BY DEF Silent, SvShaped, AsSv, ScopeShaped, AsScope, TunnelHeld, Leaving, Tunnelled, Silence, Live, InHand
<1> QED BY <1>1, <1>2, <1>3, <1>4, <1>5, <1>6, <1>7, <1>8, <1>9, <1>10

LEMMA OpenEndKeeps ==
  ASSUME SocketsInv, OpenEnd
  PROVE  SocketsInv'
<1> USE DEF SocketsInv, At, Go, OpenEnd, TableSame, Here, tableVars
<1>c. sv.c \in Clients /\ Endpoint(sv.c) \in Sockets /\ Endpoint(sv.c)[1] = sv.c /\ Endpoint(sv.c)[2] = 0
  BY Ends DEF SvShaped, WithClient
<1>1. SvShaped'
  BY DEF SvShaped, AsSv, SvPlaces, WithClient, Alone
<1>2. ScopeShaped'
  BY DEF ScopeShaped, AsScope, SvShaped, WithClient
<1>3. TableShaped'
  BY DEF TableShaped
<1>4. SockEntered'
  BY DEF SockEntered, TableShaped
<1>5. EndsEntered'
  BY DEF EndsEntered, SvShaped, AsSv, ScopeShaped, AsScope, TableShaped, Entering
<1>6. Fresh'
  BY Ends, Parts DEF Fresh, SvShaped, AsSv, Early, BeforeDial, Dialling, WithClient, Untouched
<1>7. InHand'
  BY DEF InHand, SvShaped, AsSv, Dialling
<1>8. Owned'
  BY <1>c, Parts DEF Owned, SvShaped, AsSv, ScopeShaped, AsScope, Opening, Admitted, Live, Silent, Silence,
     Leaving, Tunnelled, Dialled
<1>9. Dialled'
  BY DEF Dialled, SvShaped, AsSv, ScopeShaped, AsScope, Dialling, Live
<1>10. Silent'
  BY DEF Silent, SvShaped, AsSv, ScopeShaped, AsScope, TunnelHeld, Leaving, Tunnelled, Silence, Live
<1> QED BY <1>1, <1>2, <1>3, <1>4, <1>5, <1>6, <1>7, <1>8, <1>9, <1>10

LEMMA ForgetClientKeeps ==
  ASSUME SocketsInv, ForgetClient
  PROVE  SocketsInv'
<1> USE DEF SocketsInv, At, Go, ForgetClient, TableSame, Here, tableVars
<1>1. SvShaped'
  BY DEF SvShaped, AsSv, SvPlaces, WithClient, Alone
<1>2. ScopeShaped'
  BY DEF ScopeShaped, AsScope, SvShaped, WithClient
<1>3. TableShaped'
  BY DEF TableShaped
<1>4. SockEntered'
  BY DEF SockEntered, TableShaped
<1>5. EndsEntered'
  BY DEF EndsEntered, SvShaped, AsSv, ScopeShaped, AsScope, TableShaped, Entering
<1>6. Fresh'
  BY Ends, Parts DEF Fresh, SvShaped, AsSv, Early, BeforeDial, Dialling, WithClient, Untouched
<1>7. InHand'
  BY DEF InHand, SvShaped, AsSv, Dialling
<1>8. Owned'
  BY Parts DEF Owned, SvShaped, AsSv, ScopeShaped, AsScope, Opening, Admitted, Live, Silent, Silence, Leaving
<1>9. Dialled'
  BY DEF Dialled, SvShaped, AsSv, ScopeShaped, AsScope, Dialling, Live
<1>10. Silent'
  BY ProxyAssumption DEF Silent, SvShaped, AsSv, ScopeShaped, AsScope, TunnelHeld, Leaving, Tunnelled, Silence,
     Live, Dialled, Owned
<1> QED BY <1>1, <1>2, <1>3, <1>4, <1>5, <1>6, <1>7, <1>8, <1>9, <1>10

\* The steps of one attempt: a socket, its entry, the connect and the
\* promotion.
LEMMA NewDialKeeps ==
  ASSUME SocketsInv, NewDial
  PROVE  SocketsInv'
<1> USE DEF SocketsInv, At, Go, NewDial, TableSame, Here, tableVars
<1>c. sv.c \in Clients /\ sv.i \in Nat \ {0} /\ sv.i <= Targets
  BY DEF SvShaped, WithClient
<1>d. Now \in Sockets /\ Now[1] = sv.c /\ Now[2] = sv.i /\ Now[2] # 0
  BY <1>c, NowParts
<1>e. Untouched(Now) /\ Endpoint(sv.c) # Now /\ Endpoint(sv.c) \in Sockets
  BY <1>c, <1>d, Ends DEF Fresh, BeforeDial
<1>f. Now' = Now
  BY DEF Now, Dial, SvShaped, AsSv
<1>g. sock'[Now] = "new" /\ \A x \in Sockets : x # Now => sock'[x] = sock[x]
  BY <1>d DEF TableShaped
<1>1. SvShaped'
  BY DEF SvShaped, AsSv, SvPlaces, WithClient, Alone
<1>2. ScopeShaped'
  BY DEF ScopeShaped, AsScope, SvShaped, WithClient
<1>3. TableShaped'
  BY DEF TableShaped
<1>4. SockEntered'
  BY <1>d, <1>e, <1>g DEF SockEntered, TableShaped, Untouched
<1>5. EndsEntered'
  BY DEF EndsEntered, SvShaped, AsSv, ScopeShaped, AsScope, TableShaped, Entering
<1>6. Fresh'
  BY <1>c, <1>d, <1>e, <1>g, Ends, Parts DEF Fresh, SvShaped, AsSv, Early, BeforeDial, Dialling, WithClient,
     Untouched
<1>7. InHand'
  BY <1>c, <1>d, <1>e, <1>f, <1>g DEF InHand, SvShaped, AsSv, Dialling, Untouched
<1>8. Owned'
  BY <1>d, <1>g, Parts DEF Owned, SvShaped, AsSv, ScopeShaped, AsScope, Opening, Admitted, Live
<1>9. Dialled'
  BY <1>d, <1>f, <1>g DEF Dialled, SvShaped, AsSv, ScopeShaped, AsScope, Dialling, Live
<1>10. Silent'
  BY DEF Silent, SvShaped, AsSv, ScopeShaped, AsScope, TunnelHeld, Leaving, Tunnelled, Silence, Live
<1> QED BY <1>1, <1>2, <1>3, <1>4, <1>5, <1>6, <1>7, <1>8, <1>9, <1>10

LEMMA NoSocketKeeps ==
  ASSUME SocketsInv, NoSocket
  PROVE  SocketsInv'
<1> USE DEF SocketsInv, At, Go, NoSocket, TableSame, Here, tableVars
<1>c. sv.c \in Clients /\ sv.i \in Nat \ {0} /\ sv.i + 1 \in Nat
  BY DEF SvShaped, WithClient
<1>1. SvShaped'
  BY <1>c DEF SvShaped, AsSv, SvPlaces, WithClient, Alone
<1>2. ScopeShaped'
  BY DEF ScopeShaped, AsScope, SvShaped, WithClient
<1>3. TableShaped'
  BY DEF TableShaped
<1>4. SockEntered'
  BY DEF SockEntered, TableShaped
<1>5. EndsEntered'
  BY DEF EndsEntered, SvShaped, AsSv, ScopeShaped, AsScope, TableShaped, Entering
<1>6. Fresh'
  BY <1>c, Ends, Parts DEF Fresh, SvShaped, AsSv, Early, BeforeDial, Dialling, WithClient, Untouched
<1>7. InHand'
  BY DEF InHand, SvShaped, AsSv, Dialling
<1>8. Owned'
  BY Parts DEF Owned, SvShaped, AsSv, ScopeShaped, AsScope, Opening, Admitted, Live
<1>9. Dialled'
  BY DEF Dialled, SvShaped, AsSv, ScopeShaped, AsScope, Dialling, Live
<1>10. Silent'
  BY DEF Silent, SvShaped, AsSv, ScopeShaped, AsScope, TunnelHeld, Leaving, Tunnelled, Silence, Live
<1> QED BY <1>1, <1>2, <1>3, <1>4, <1>5, <1>6, <1>7, <1>8, <1>9, <1>10

LEMMA RecordDialKeeps ==
  ASSUME SocketsInv, RecordDial
  PROVE  SocketsInv'
<1> USE DEF SocketsInv, At, Go, RecordDial, Register, Here
<1>c. sv.c \in Clients /\ sv.i \in Nat \ {0} /\ sv.i <= Targets
  BY DEF InHand, SvShaped, WithClient, Dialling
<1>d. Now \in Sockets /\ Now[1] = sv.c /\ Now[2] = sv.i /\ Now[2] # 0
  BY <1>c, NowParts
<1>e. sock[Now] = "new" /\ kind[Now] = "absent" /\ Now # Endpoint(sv.c) /\ Endpoint(sv.c) \in Sockets
  BY <1>c, <1>d, Ends DEF InHand
<1>f. Now' = Now
  BY DEF Now, Dial, SvShaped, AsSv
<1>g. kind'[Now] = "pending" /\ \A x \in Sockets : x # Now => kind'[x] = kind[x]
  BY <1>d DEF TableShaped
<1>1. SvShaped'
  BY DEF SvShaped, AsSv, SvPlaces, WithClient, Alone
<1>2. ScopeShaped'
  BY DEF ScopeShaped, AsScope, SvShaped, WithClient
<1>3. TableShaped'
  BY DEF TableShaped
<1>4. SockEntered'
  BY <1>d, <1>e, <1>g DEF SockEntered, TableShaped
<1>5. EndsEntered'
  BY DEF EndsEntered, SvShaped, AsSv, ScopeShaped, AsScope, TableShaped, Entering
<1>6. Fresh'
  BY <1>c, <1>d, <1>e, <1>g, Ends, Parts DEF Fresh, SvShaped, AsSv, Early, BeforeDial, Dialling, WithClient,
     Untouched
<1>7. InHand'
  BY <1>c, <1>d, <1>e, <1>f, <1>g DEF InHand, SvShaped, AsSv, Dialling
<1>8. Owned'
  BY <1>d, <1>e, <1>g, Parts DEF Owned, SvShaped, AsSv, ScopeShaped, AsScope, Opening, Admitted, Live
<1>9. Dialled'
  BY <1>d, <1>e, <1>f, <1>g DEF Dialled, SvShaped, AsSv, ScopeShaped, AsScope, Dialling, Live, InHand
<1>10. Silent'
  BY DEF Silent, SvShaped, AsSv, ScopeShaped, AsScope, TunnelHeld, Leaving, Tunnelled, Silence, Live
<1> QED BY <1>1, <1>2, <1>3, <1>4, <1>5, <1>6, <1>7, <1>8, <1>9, <1>10

LEMMA ConnectStartKeeps ==
  ASSUME SocketsInv, ConnectStart
  PROVE  SocketsInv'
<1> USE DEF SocketsInv, At, Go, ConnectStart, TableSame, Here, tableVars
<1>c. sv.c \in Clients /\ sv.i \in Nat \ {0} /\ sv.i <= Targets
  BY DEF InHand, SvShaped, WithClient, Dialling
<1>d. Now \in Sockets /\ Now[1] = sv.c /\ Now[2] = sv.i /\ Now[2] # 0
  BY <1>c, NowParts
<1>e. sock[Now] = "new" /\ kind[Now] = "pending" /\ Now # Endpoint(sv.c) /\ Endpoint(sv.c) \in Sockets
  BY <1>c, <1>d, Ends DEF InHand
<1>f. Now' = Now
  BY DEF Now, Dial, SvShaped, AsSv
<1>g. sock'[Now] = "open" /\ \A x \in Sockets : x # Now => sock'[x] = sock[x]
  BY <1>d DEF TableShaped
<1>1. SvShaped'
  BY DEF SvShaped, AsSv, SvPlaces, WithClient, Alone
<1>2. ScopeShaped'
  BY DEF ScopeShaped, AsScope, SvShaped, WithClient
<1>3. TableShaped'
  BY DEF TableShaped
<1>4. SockEntered'
  BY <1>d, <1>e, <1>g DEF SockEntered, TableShaped
<1>5. EndsEntered'
  BY DEF EndsEntered, SvShaped, AsSv, ScopeShaped, AsScope, TableShaped, Entering
<1>6. Fresh'
  BY <1>c, <1>d, <1>e, <1>g, Ends, Parts DEF Fresh, SvShaped, AsSv, Early, BeforeDial, Dialling, WithClient,
     Untouched
<1>7. InHand'
  BY <1>c, <1>d, <1>e, <1>f, <1>g DEF InHand, SvShaped, AsSv, Dialling
<1>8. Owned'
  BY <1>d, <1>e, <1>g, Parts DEF Owned, SvShaped, AsSv, ScopeShaped, AsScope, Opening, Admitted, Live
<1>9. Dialled'
  BY <1>d, <1>e, <1>f, <1>g DEF Dialled, SvShaped, AsSv, ScopeShaped, AsScope, Dialling, Live, InHand
<1>10. Silent'
  BY DEF Silent, SvShaped, AsSv, ScopeShaped, AsScope, TunnelHeld, Leaving, Tunnelled, Silence, Live
<1> QED BY <1>1, <1>2, <1>3, <1>4, <1>5, <1>6, <1>7, <1>8, <1>9, <1>10

LEMMA PromoteDialKeeps ==
  ASSUME SocketsInv, PromoteDial
  PROVE  SocketsInv'
<1> USE DEF SocketsInv, At, Go, PromoteDial, PromoteEntry, Here
<1>c. sv.c \in Clients /\ sv.i \in Nat \ {0} /\ sv.i <= Targets
  BY DEF InHand, SvShaped, WithClient, Dialling
<1>d. Now \in Sockets /\ Now[1] = sv.c /\ Now[2] = sv.i /\ Now[2] # 0
  BY <1>c, NowParts
<1>e. sock[Now] = "open" /\ kind[Now] = "pending" /\ Now # Endpoint(sv.c) /\ Endpoint(sv.c) \in Sockets
  BY <1>c, <1>d, Ends DEF InHand
<1>f. Now' = Now
  BY DEF Now, Dial, SvShaped, AsSv
<1>g. kind'[Now] = "active" /\ \A x \in Sockets : x # Now => kind'[x] = kind[x]
  BY <1>d DEF TableShaped
<1>1. SvShaped'
  BY DEF SvShaped, AsSv, SvPlaces, WithClient, Alone
<1>2. ScopeShaped'
  BY DEF ScopeShaped, AsScope, SvShaped, WithClient
<1>3. TableShaped'
  BY DEF TableShaped
<1>4. SockEntered'
  BY <1>d, <1>e, <1>g DEF SockEntered, TableShaped
<1>5. EndsEntered'
  BY DEF EndsEntered, SvShaped, AsSv, ScopeShaped, AsScope, TableShaped, Entering
<1>6. Fresh'
  BY <1>c, <1>d, <1>e, <1>g, Ends, Parts DEF Fresh, SvShaped, AsSv, Early, BeforeDial, Dialling, WithClient,
     Untouched
<1>7. InHand'
  BY <1>c, <1>d, <1>e, <1>f, <1>g DEF InHand, SvShaped, AsSv, Dialling
<1>8. Owned'
  BY <1>d, <1>e, <1>g, Parts DEF Owned, SvShaped, AsSv, ScopeShaped, AsScope, Opening, Admitted, Live
<1>9. Dialled'
  BY <1>d, <1>e, <1>f, <1>g DEF Dialled, SvShaped, AsSv, ScopeShaped, AsScope, Dialling, Live, InHand
<1>10. Silent'
  BY DEF Silent, SvShaped, AsSv, ScopeShaped, AsScope, TunnelHeld, Leaving, Tunnelled, Silence, Live
<1> QED BY <1>1, <1>2, <1>3, <1>4, <1>5, <1>6, <1>7, <1>8, <1>9, <1>10

\* A client is accepted once: none of its sockets was used before.
LEMMA AcceptKeeps ==
  ASSUME SocketsInv, NEW c \in Clients, Accept(c)
  PROVE  SocketsInv'
<1> USE DEF SocketsInv, At, Go, Accept, TableSame, Here, tableVars
<1>c. Endpoint(c) \in Sockets /\ Endpoint(c)[1] = c /\ Endpoint(c)[2] = 0
  BY Ends
<1>d. \A x \in Sockets : x[1] = c => Untouched(x)
  BY DEF Fresh
<1>e. sv' = AsSv(sv') /\ sv'.at = "accepted" /\ sv'.c = c /\ sv'.i = 1
  BY DEF SvShaped, AsSv
<1>g. sock'[Endpoint(c)] = "open" /\ \A x \in Sockets : x # Endpoint(c) => sock'[x] = sock[x]
  BY <1>c DEF TableShaped
<1>h. c \notin scope.tunnels
  BY <1>c, <1>d DEF EndsEntered, Untouched
<1>1. SvShaped'
  BY <1>e DEF SvShaped, SvPlaces, WithClient, Alone
<1>2. ScopeShaped'
  BY DEF ScopeShaped, AsScope, SvShaped, WithClient
<1>3. TableShaped'
  BY DEF TableShaped
<1>4. SockEntered'
  BY <1>c, <1>d, <1>g DEF SockEntered, TableShaped, Untouched
<1>5. EndsEntered'
  BY DEF EndsEntered, SvShaped, AsSv, ScopeShaped, AsScope, TableShaped, Entering
<1>6. Fresh'
  BY <1>c, <1>d, <1>e, <1>g, Ends, Parts DEF Fresh, SvShaped, AsSv, Early, BeforeDial, Dialling, WithClient,
     Untouched
<1>7. InHand'
  BY DEF InHand, SvShaped, AsSv, Dialling
<1>8. Owned'
  BY <1>c, <1>e, <1>g, Parts DEF Owned, SvShaped, AsSv, ScopeShaped, AsScope, Opening, Admitted, Live
<1>9. Dialled'
  BY <1>c, <1>e, <1>g DEF Dialled, SvShaped, AsSv, ScopeShaped, AsScope, Dialling, Live
<1>10. Silent'
  BY <1>e, <1>h DEF Silent, SvShaped, AsSv, ScopeShaped, AsScope, TunnelHeld, Leaving, Tunnelled, Silence, Live
<1> QED BY <1>1, <1>2, <1>3, <1>4, <1>5, <1>6, <1>7, <1>8, <1>9, <1>10

\* Its own entry comes before its first dial.
LEMMA EnlistKeeps ==
  ASSUME SocketsInv, NEW head \in Heads, Enlist(head)
  PROVE  SocketsInv'
<1> USE DEF SocketsInv, At, Go, Enlist, Register, Here
<1>c. sv.c \in Clients /\ Endpoint(sv.c) \in Sockets /\ Endpoint(sv.c)[1] = sv.c /\ Endpoint(sv.c)[2] = 0
  BY Ends DEF SvShaped, WithClient
<1>g. kind'[Endpoint(sv.c)] = "active" /\ \A x \in Sockets : x # Endpoint(sv.c) => kind'[x] = kind[x]
  BY <1>c DEF TableShaped
<1>h. sock[Endpoint(sv.c)] # "none"
  BY DEF Fresh, WithClient
<1>1. SvShaped'
  BY DEF SvShaped, AsSv, SvPlaces, WithClient, Alone
<1>2. ScopeShaped'
  BY DEF ScopeShaped, AsScope, SvShaped, WithClient
<1>3. TableShaped'
  BY DEF TableShaped
<1>4. SockEntered'
  BY <1>c, <1>g, <1>h DEF SockEntered, TableShaped
<1>5. EndsEntered'
  BY <1>c, <1>g, Ends DEF EndsEntered, SvShaped, AsSv, ScopeShaped, AsScope, TableShaped, Entering
<1>6. Fresh'
  BY Ends, Parts DEF Fresh, SvShaped, AsSv, Early, BeforeDial, Dialling, WithClient, Untouched
<1>7. InHand'
  BY DEF InHand, SvShaped, AsSv, Dialling
<1>8. Owned'
  BY Parts DEF Owned, SvShaped, AsSv, ScopeShaped, AsScope, Opening, Admitted, Live
<1>9. Dialled'
  BY DEF Dialled, SvShaped, AsSv, ScopeShaped, AsScope, Dialling, Live
<1>10. Silent'
  BY DEF Silent, SvShaped, AsSv, ScopeShaped, AsScope, TunnelHeld, Leaving, Tunnelled, Silence, Live
<1> QED BY <1>1, <1>2, <1>3, <1>4, <1>5, <1>6, <1>7, <1>8, <1>9, <1>10

\* A failed operation leaves none of the client's sockets live.
LEMMA UnwindKeeps ==
  ASSUME SocketsInv, Unwind
  PROVE  SocketsInv'
<1> USE DEF SocketsInv, At, Go, Unwind, CloseSockets, Released, Tabled, Here
<1>c. sv.c \in Clients /\ Endpoint(sv.c) \in Sockets /\ Endpoint(sv.c)[1] = sv.c /\ Endpoint(sv.c)[2] = 0
  BY Ends DEF SvShaped, WithClient
<1>1. SvShaped'
  BY DEF SvShaped, AsSv, SvPlaces, WithClient, Alone
<1>2. ScopeShaped'
  BY DEF ScopeShaped, AsScope, SvShaped, WithClient
<1>3. TableShaped'
  BY DEF TableShaped
<1>4. SockEntered'
  BY DEF SockEntered, TableShaped
<1>5. EndsEntered'
  BY Ends DEF EndsEntered, SvShaped, AsSv, ScopeShaped, AsScope, TableShaped, Entering
<1>6. Fresh'
  BY Ends, Parts DEF Fresh, SvShaped, AsSv, Early, BeforeDial, Dialling, WithClient, Untouched
<1>7. InHand'
  BY DEF InHand, SvShaped, AsSv, Dialling
<1>8. Owned'
  BY Parts DEF Owned, SvShaped, AsSv, ScopeShaped, AsScope, Opening, Admitted, Live
<1>9. Dialled'
  BY DEF Dialled, SvShaped, AsSv, ScopeShaped, AsScope, Dialling, Live
<1>10. Silent'
  BY <1>c, Parts DEF Silent, SvShaped, AsSv, ScopeShaped, AsScope, TunnelHeld, Leaving, Tunnelled, Silence,
     Live, Dialled, Dialling
<1> QED BY <1>1, <1>2, <1>3, <1>4, <1>5, <1>6, <1>7, <1>8, <1>9, <1>10

\* Steps that give up when the scope or the server was closed, and go on
\* otherwise.
LEMMA EnteringSteps ==
  ASSUME SocketsInv, Track \/ Enter \/ OpenBegin \/ Adopt
  PROVE  SocketsInv'
<1> USE DEF SocketsInv, SameSets, SvShaped, ScopeShaped, AsSv, AsScope, At, Go, TableSame, Here, tableVars
<1>1. CASE Track
  <2>1. CASE scope.closed \/ ~Healthy
    <3>1. Dropped("fail")
      BY <1>1, <2>1 DEF Track, Dropped, MayDrop
    <3> QED BY <3>1, Drops
  <2> QED BY <1>1, <2>1, TrackKeeps
<1>2. CASE Enter
  <2>1. CASE ~server.closed
    <3>1. /\ sv.at = "tracked" /\ sv' = [sv EXCEPT !.at = "head"] /\ UNCHANGED <<sock, kind, settled>>
          /\ scope' = scope
      BY <1>2, <2>1 DEF Enter
    <3>2. ScopeShaped'
      BY <3>1
    <3>3. Moved("head")
      BY <3>1, <3>2 DEF Moved, MayMove
    <3> QED BY <3>3, Moves
  <2> QED BY <1>2, <2>1, EnterKeeps
<1>3. CASE OpenBegin
  <2>1. CASE scope.closed \/ ~Healthy
    <3>1. Dropped("fail")
      BY <1>3, <2>1 DEF OpenBegin, Dropped, MayDrop
    <3> QED BY <3>1, Drops
  <2> QED BY <1>3, <2>1, OpenBeginKeeps
<1>4. CASE Adopt
  <2>1. CASE scope.closed
    <3>1. Moved("unwind")
      BY <1>4, <2>1 DEF Adopt, Moved, MayMove
    <3> QED BY <3>1, Moves
  <2> QED BY <1>4, <2>1, AdoptKeeps
<1> QED BY <1>1, <1>2, <1>3, <1>4

\* An attempt is cleaned up.
LEMMA DiscardSteps ==
  ASSUME SocketsInv, NEW ok \in BOOLEAN,
         RecordRefused \/ ConnectFails(ok) \/ DialStopped(ok) \/ CloseUpstream(ok)
  PROVE  SocketsInv'
<1> USE DEF SocketsInv, At, Go, Here
<1>1. sv.at \in Dialling
  BY DEF RecordRefused, ConnectFails, DialStopped, CloseUpstream, Dialling
<1>2. Now \in Sockets
  BY <1>1, NowParts DEF InHand, SvShaped, WithClient, Dialling
<1>3. \/ sv' = [sv EXCEPT !.at = "unwind"]
      \/ sv' = [sv EXCEPT !.at = "dial", !.i = @ + 1]
  BY DEF RecordRefused, ConnectFails, DialStopped, CloseUpstream
<1>4. CloseSockets({Now})
  BY DEF RecordRefused, ConnectFails, DialStopped, CloseUpstream, CleanupDial
<1>5. SameSets /\ ScopeShaped'
  BY DEF RecordRefused, ConnectFails, DialStopped, CloseUpstream, SameSets, ScopeShaped, AsScope
<1>6. settled' = settled \/ settled' = settled \cup {Now}
  BY DEF RecordRefused, ConnectFails, DialStopped, CloseUpstream, CleanupDial, TableSame
<1>7. kind' = kind \/ kind' = [kind EXCEPT ![Now] = "gone"]
  <2>1. \A S : (Released(S) /\ S \subseteq {Now}) => (kind' = kind \/ kind' = [kind EXCEPT ![Now] = "gone"])
    BY <1>2 DEF Released, TableShaped
  <2> QED BY <2>1 DEF RecordRefused, ConnectFails, DialStopped, CloseUpstream, CleanupDial, TableSame, tableVars
<1>8. Discarded
  BY <1>1, <1>3, <1>4, <1>5, <1>6, <1>7 DEF Discarded
<1> QED BY <1>8, Discards

\* A tunnel is closed, by its thread or by a close of the scope.
LEMMA TunnelClosed ==
  ASSUME SocketsInv, NEW c \in Clients, NEW ok \in BOOLEAN, ClosesTunnel(c, ok)
  PROVE  /\ sock' \in [Sockets -> {"none", "new", "open", "closed"}]
         /\ kind' \in [Sockets -> {"absent", "pending", "active", "gone"}]
         /\ \A x \in Sockets : sock'[x] = sock[x] \/ (sock[x] # "none" /\ sock'[x] = "closed")
         /\ \A x \in Sockets : kind'[x] = kind[x] \/ (kind'[x] = "gone" /\ sock'[x] = "closed")
         /\ \A x \in Sockets : Live(x) /\ x[2] # 0 /\ kind[x] # "active" => sock'[x] = sock[x] /\ kind'[x] = kind[x]
         /\ c \in scope.tunnels => Silence(c)'
<1> DEFINE ends == {Endpoint(c)} \cup {x \in Upstreams(c) : kind[x] = "active"}
<1>1. Endpoint(c) \in ends /\ Endpoint(c)[2] = 0 /\ Endpoint(c) \in Sockets
  BY Ends
<1>2. \A x \in Sockets : (x \in ends) = (x = Endpoint(c) \/ (x \in Upstreams(c) /\ kind[x] = "active"))
  OBVIOUS
<1>3. /\ sock' = [x \in Sockets |-> IF x \in ends /\ sock[x] # "none" THEN "closed" ELSE sock[x]]
      /\ \A x \in Sockets : kind'[x] = kind[x] \/ (kind'[x] = "gone" /\ x \in ends /\ kind[x] # "absent")
      /\ kind' \in [Sockets -> {"absent", "pending", "active", "gone"}]
  BY <1>1 DEF ClosesTunnel, CloseSockets, Released, Tabled, SocketsInv, TableShaped
<1> HIDE DEF ends
<1>4. sock' \in [Sockets -> {"none", "new", "open", "closed"}]
  BY <1>3 DEF SocketsInv, TableShaped
<1>5. \A x \in Sockets : sock'[x] = sock[x] \/ (sock[x] # "none" /\ sock'[x] = "closed")
  BY <1>3
<1>6. \A x \in Sockets : kind'[x] = kind[x] \/ (kind'[x] = "gone" /\ sock'[x] = "closed")
  BY <1>3 DEF SocketsInv, SockEntered
<1>7. \A x \in Sockets : Live(x) /\ x[2] # 0 /\ kind[x] # "active" => sock'[x] = sock[x] /\ kind'[x] = kind[x]
  BY <1>1, <1>2, <1>3
<1>8. c \in scope.tunnels => Silence(c)'
  <2> SUFFICES ASSUME c \in scope.tunnels, NEW x \in Sockets, x[1] = c, Live(x)'
               PROVE  FALSE
    BY DEF Silence
  <2>1. Live(x) /\ x \notin ends
    BY <1>3 DEF Live
  <2>2. x[2] # 0 /\ x \in Upstreams(c)
    BY <1>1, <2>1, Parts
  <2>3. kind[x] # "active"
    BY <1>2, <2>1, <2>2
  <2>4. sv.at \in Dialling /\ x = Now
    BY <2>1, <2>2, <2>3 DEF SocketsInv, Dialled
  <2>5. sv.c = c
    BY <2>4, NowParts DEF SocketsInv, InHand, SvShaped, WithClient, Dialling
  <2> QED BY <2>4, <2>5 DEF SocketsInv, Silent, TunnelHeld, Dialling
<1> QED BY <1>3, <1>4, <1>5, <1>6, <1>7, <1>8

\* The three places a tunnel is closed from: the thread that serves it, at
\* two of its places, and a close of the scope.
LEMMA TunnelSteps ==
  ASSUME SocketsInv, NEW t \in Closers, NEW c \in Clients, NEW ok \in BOOLEAN,
         AnsweredClosed(ok) \/ FinishTunnel(ok) \/ ScopeTunnel(t, c, ok)
  PROVE  SocketsInv'
<1> USE DEF Shut, Here, Go, At
<1>s. ScopeShaped /\ sv = AsSv(sv)
  BY DEF SocketsInv, SvShaped
<1>1. CASE AnsweredClosed(ok)
  <2>1. sv.c \in Clients
    BY <1>1 DEF AnsweredClosed, SocketsInv, SvShaped, WithClient
  <2>2. ClosesTunnel(sv.c, ok) /\ sv' = [sv EXCEPT !.at = "finish"] /\ sv.at = "answer" /\ settled' = settled
    BY <1>1 DEF AnsweredClosed
  <2>3. scope' = [scope EXCEPT !.tunnels = IF ok THEN @ \ {sv.c} ELSE @]
    BY <1>1 DEF AnsweredClosed
  <2>4. /\ scope'.accepted = scope.accepted /\ scope'.opening = scope.opening /\ ScopeShaped'
        /\ scope'.tunnels \subseteq scope.tunnels /\ \A d \in scope.tunnels : d = sv.c \/ d \in scope'.tunnels
    BY <1>s, <2>3 DEF ScopeShaped, AsScope
  <2>5. Shut
    BY <2>1, <2>2, <2>4, TunnelClosed
  <2> QED BY <2>5, Shuts
<1>2. CASE FinishTunnel(ok)
  <2>1. sv.c \in Clients /\ sv.c \in scope.tunnels
    BY <1>2 DEF FinishTunnel, SocketsInv, ScopeShaped
  <2>2. ClosesTunnel(sv.c, ok) /\ sv' = [sv EXCEPT !.at = "leave"] /\ sv.at = "finish" /\ settled' = settled
    BY <1>2 DEF FinishTunnel
  <2>3. scope' = [scope EXCEPT !.tunnels = IF ok THEN @ \ {sv.c} ELSE @]
    BY <1>2 DEF FinishTunnel
  <2>4. /\ scope'.accepted = scope.accepted /\ scope'.opening = scope.opening /\ ScopeShaped'
        /\ scope'.tunnels \subseteq scope.tunnels /\ \A d \in scope.tunnels : d = sv.c \/ d \in scope'.tunnels
    BY <1>s, <2>3 DEF ScopeShaped, AsScope
  <2>5. Silence(sv.c)'
    <3>1. \A d \in Clients : (ClosesTunnel(d, ok) /\ d \in scope.tunnels) => \A x \in Sockets : x[1] = d => ~Live(x)'
      BY TunnelClosed DEF Silence
    <3>2. sv'.c = sv.c
      BY <1>s, <2>2 DEF AsSv
    <3> QED BY <2>1, <2>2, <3>1, <3>2 DEF Silence
  <2>6. Shut
    BY <2>1, <2>2, <2>4, <2>5, TunnelClosed
  <2> QED BY <2>6, Shuts
<1>3. CASE ScopeTunnel(t, c, ok)
  <2>2. ClosesTunnel(c, ok) /\ sv' = sv /\ settled' = settled
    BY <1>3 DEF ScopeTunnel
  <2>3. scope' = [scope EXCEPT !.tunnels = IF ok THEN @ \ {c} ELSE @]
    BY <1>3 DEF ScopeTunnel
  <2>4. /\ scope'.accepted = scope.accepted /\ scope'.opening = scope.opening /\ ScopeShaped'
        /\ scope'.tunnels \subseteq scope.tunnels /\ \A d \in scope.tunnels : d = c \/ d \in scope'.tunnels
    BY <1>s, <2>3 DEF ScopeShaped, AsScope
  <2>5. Shut
    BY <2>2, <2>4, TunnelClosed
  <2> QED BY <2>5, Shuts
<1> QED BY <1>1, <1>2, <1>3

\* A close takes the sockets it copied.
LEMMA CopiedSteps ==
  ASSUME SocketsInv, OthersShaped, NEW t \in Closers, NEW ok \in BOOLEAN,
         ScopeMark(t, ok) \/ ServerSockets(t, ok)
  PROVE  SocketsInv'
<1> USE DEF Shut
<1>s. ScopeShaped /\ sock \in [Sockets -> {"none", "new", "open", "closed"}]
      /\ kind \in [Sockets -> {"absent", "pending", "active", "gone"}]
      /\ \A y \in Sockets : (y \in settled => sock[y] = "closed") /\ (sock[y] = "none" => kind[y] = "absent")
  BY DEF SocketsInv, TableShaped, SockEntered
<1>1. CASE ScopeMark(t, ok)
  <2>1. sv' = sv /\ settled' = settled
    BY <1>1 DEF ScopeMark
  <2>2. /\ scope' = [scope EXCEPT !.closed = TRUE, !.pending = {}]
        /\ CloseSockets({Endpoint(d) : d \in scope.accepted \cup scope.pending})
        /\ Released({Endpoint(d) : d \in scope.pending})
    BY <1>1 DEF ScopeMark
  <2>3. \A d \in scope.accepted \cup scope.pending : Endpoint(d) \in Sockets /\ Endpoint(d)[2] = 0
    BY <1>s, Ends DEF ScopeShaped
  <2>4. scope'.accepted = scope.accepted /\ scope'.opening = scope.opening /\ scope'.tunnels = scope.tunnels /\ ScopeShaped'
    BY <1>s, <2>2 DEF ScopeShaped, AsScope
  <2>5. /\ sock' \in [Sockets -> {"none", "new", "open", "closed"}]
        /\ \A y \in Sockets : sock'[y] = sock[y] \/ (sock[y] # "none" /\ sock'[y] = "closed" /\ y[2] = 0)
    BY <1>s, <2>2, <2>3 DEF CloseSockets
  <2>6. /\ kind' \in [Sockets -> {"absent", "pending", "active", "gone"}]
        /\ \A y \in Sockets : kind'[y] = kind[y] \/ (kind'[y] = "gone" /\ sock'[y] = "closed" /\ y[2] = 0)
    BY <1>s, <2>2, <2>3 DEF Released, Tabled, CloseSockets
  <2>7. Shut
    BY <2>1, <2>4, <2>5, <2>6
  <2> QED BY <2>7, Shuts
<1>2. CASE ServerSockets(t, ok)
  <2>1. sv' = sv /\ settled' = settled /\ scope' = scope /\ kind' = kind
    BY <1>2 DEF ServerSockets, tableVars
  <2>2. CloseSockets({Endpoint(d) : d \in server.pending})
    BY <1>2 DEF ServerSockets
  <2>3. \A d \in server.pending : Endpoint(d) \in Sockets /\ Endpoint(d)[2] = 0
    BY Ends DEF OthersShaped
  <2>4. ScopeShaped'
    BY <1>s, <2>1 DEF ScopeShaped, AsScope
  <2>5. /\ sock' \in [Sockets -> {"none", "new", "open", "closed"}]
        /\ \A y \in Sockets : sock'[y] = sock[y] \/ (sock[y] # "none" /\ sock'[y] = "closed" /\ y[2] = 0)
    BY <1>s, <2>2, <2>3 DEF CloseSockets
  <2>7. Shut
    BY <1>s, <2>1, <2>4, <2>5
  <2> QED BY <2>7, Shuts
<1> QED BY <1>1, <1>2

\* The authority closes a socket, or lets a dial's entry go.
LEMMA AuthoritySteps ==
  ASSUME SocketsInv, NEW x \in Sockets, NEW ok \in BOOLEAN,
         ClosesActive(x, ok) \/ DialAwaited(x, ok)
  PROVE  SocketsInv'
<1> USE DEF Shut
<1>s. ScopeShaped /\ sock \in [Sockets -> {"none", "new", "open", "closed"}]
      /\ kind \in [Sockets -> {"absent", "pending", "active", "gone"}]
      /\ \A y \in Sockets : (y \in settled => sock[y] = "closed") /\ (sock[y] = "none" => kind[y] = "absent")
  BY DEF SocketsInv, TableShaped, SockEntered
<1>1. CASE ClosesActive(x, ok)
  <2>1. sv' = sv /\ settled' = settled /\ scope' = scope /\ kind[x] = "active" /\ CloseSockets({x})
    BY <1>1 DEF ClosesActive
  <2>2. kind' = kind \/ kind' = [kind EXCEPT ![x] = "gone"]
    BY <1>1 DEF ClosesActive, Drop, tableVars
  <2>3. sock[x] # "none"
    BY <1>s, <2>1
  <2>4. ScopeShaped'
    BY <1>s, <2>1 DEF ScopeShaped, AsScope
  <2>5. /\ sock' \in [Sockets -> {"none", "new", "open", "closed"}] /\ sock'[x] = "closed"
        /\ \A y \in Sockets : y # x => sock'[y] = sock[y]
    BY <1>s, <2>1, <2>3 DEF CloseSockets
  <2>6. /\ kind' \in [Sockets -> {"absent", "pending", "active", "gone"}]
        /\ \A y \in Sockets : y # x => kind'[y] = kind[y]
        /\ kind'[x] = kind[x] \/ kind'[x] = "gone"
    BY <1>s, <2>2
  <2>7. Shut
    BY <2>1, <2>3, <2>4, <2>5, <2>6
  <2> QED BY <2>7, Shuts
<1>2. CASE DialAwaited(x, ok)
  <2>1. sv' = sv /\ settled' = settled /\ scope' = scope /\ sock' = sock /\ (ok => x \in settled)
    BY <1>2 DEF DialAwaited
  <2>2. kind' = IF ok THEN [kind EXCEPT ![x] = "gone"] ELSE kind
    BY <1>2 DEF DialAwaited, EndClose
  <2>4. ScopeShaped'
    BY <1>s, <2>1 DEF ScopeShaped, AsScope
  <2>5. CASE kind' = kind
    <3>1. Shut
      BY <1>s, <2>1, <2>4, <2>5
    <3> QED BY <3>1, Shuts
  <2>6. CASE ok
    <3>1. sock[x] = "closed" /\ ~Live(x)
      BY <1>s, <2>1, <2>6 DEF Live
    <3>2. Shut
      BY <1>s, <2>1, <2>2, <2>4, <2>6, <3>1
    <3> QED BY <3>2, Shuts
  <2> QED BY <2>2, <2>5, <2>6
<1> QED BY <1>1, <1>2

(***************************************************************************)
(* The closes                                                              *)
(***************************************************************************)
\* Which lists the closes begin with, and which of them are past a step.
LEMMA ListParts ==
  /\ SessionClose \in Sessions /\ EmptySessionClose \in Sessions /\ EmptySessionClose \in EmptyCloses
  /\ SessionClose \notin AfterSockets /\ SessionClose \notin EmptyCloses
  /\ AfterSockets \subseteq Sessions /\ AfterJoin \subseteq Sessions /\ AfterScope \subseteq Sessions
  /\ EmptyCloses \subseteq Sessions /\ EmptyCloses \subseteq AfterSockets
  /\ SessionClose \notin AfterJoin /\ SessionClose \notin AfterScope
  /\ EmptySessionClose \notin AfterJoin /\ EmptySessionClose \notin AfterScope
  /\ Sessions \subseteq Lists /\ ServerLists \subseteq Lists
  /\ ServerClose \in ServerLists /\ RuntimeClose \in Lists /\ R1 \in Lists /\ L0 \in ServerLists
  /\ ServerClose \notin Sessions /\ RuntimeClose \notin Sessions /\ R1 \notin Sessions /\ L0 \notin Sessions
<1>1. /\ SessionClose \in Sessions /\ EmptySessionClose \in Sessions /\ EmptySessionClose \in EmptyCloses
      /\ AfterSockets \subseteq Sessions /\ AfterJoin \subseteq Sessions /\ AfterScope \subseteq Sessions
      /\ EmptyCloses \subseteq Sessions /\ EmptyCloses \subseteq AfterSockets
      /\ Sessions \subseteq Lists /\ ServerLists \subseteq Lists
      /\ ServerClose \in ServerLists /\ RuntimeClose \in Lists /\ R1 \in Lists /\ L0 \in ServerLists
  BY DEF Lists, Sessions, ServerLists, AfterSockets, EmptyCloses, AfterJoin, AfterScope
<1>2. SessionClose \notin AfterSockets /\ SessionClose \notin EmptyCloses /\ SessionClose \notin AfterJoin /\ SessionClose \notin AfterScope
  BY ListFacts DEF AfterSockets, EmptyCloses, AfterJoin, AfterScope
<1>3. EmptySessionClose \notin AfterJoin /\ EmptySessionClose \notin AfterScope
  BY ListFacts, ListsDiffer DEF AfterJoin, AfterScope
<1>4. ServerClose \notin Sessions /\ RuntimeClose \notin Sessions /\ R1 \notin Sessions /\ L0 \notin Sessions
  BY ListFacts, ListsDiffer DEF Sessions, AfterSockets, EmptyCloses
<1> QED BY <1>1, <1>2, <1>3, <1>4

\* No close of a session has begun, and none has answered True.
LEMMA NoSessionClose ==
  ASSUME Listed, ~SessionOnly
  PROVE  /\ call["host"].todo \notin Sessions /\ call["host"].todo \notin AfterSockets /\ call["host"].todo \notin AfterJoin
         /\ call["host"].todo \notin AfterScope /\ call["host"].todo \notin EmptyCloses
         /\ session.closed # TRUE
BY ListParts DEF Listed

\* A step of the serving thread.
Serves ==
  /\ call["serve"].todo = L0 /\ sv.at # "off" /\ sv.at # "dead" /\ sv'.at # "off"
  /\ runtime' = runtime /\ transport' = transport
  /\ session' = session \/ session' = [session EXCEPT !.ready = TRUE]
  /\ server' = AsServer(server') /\ server'.pending \subseteq Clients
  /\ server'.made = server.made /\ server'.listener = server.listener
  /\ scope'.closed = scope.closed
  /\ scope'.opening = TRUE \/ scope'.opening = FALSE
  /\ scope.closed = TRUE =>
       /\ scope.opening = FALSE => scope'.opening = FALSE
       /\ scope'.accepted \subseteq scope.accepted /\ scope'.tunnels \subseteq scope.tunnels
  /\ call' = call \/ Begins("serve", ServerClose)

\* The serving thread never disturbs a close: it takes up no client once the
\* scope is closed, and is not over.
LEMMA ServesKeeps ==
  ASSUME ClosesInv, Serves
  PROVE  ClosesInv'
<1> USE DEF ClosesInv, Serves
<1>1. OthersShaped'
  BY DEF OthersShaped, AsRuntime, AsSession, AsCall, Begins, AtRest, Closers
<1>c. call'["host"] = call["host"] /\ (call'["serve"] = call["serve"] \/ call'["serve"].todo = ServerClose)
  BY DEF OthersShaped, Begins, AtRest, Closers
<1>s. /\ session'.closed = session.closed /\ session'.start = session.start /\ session'.closing = session.closing
  BY DEF OthersShaped, AsSession
<1>m. server.made # FALSE
  BY DEF Listed
<1>2. Forgotten'
  <2>1. \A t \in Closers : call'[t].todo # L0 /\ First(call'[t].todo) = "scopeEnd" => scope'.closed = TRUE
    BY <1>c, ListFacts DEF Forgotten, Closers
  <2> QED BY <2>1 DEF Forgotten
<1>3. Listed'
  BY <1>c, <1>s, <1>m, ListParts DEF Listed, SessionOnly
<1>4. Closing'
  BY <1>c, <1>s, <1>m DEF Closing, ThreadOver
<1> QED BY <1>1, <1>2, <1>3, <1>4

\* Steps that leave the scope, the server and the session as they are.
LEMMA PlainServes ==
  ASSUME SvShaped, OthersShaped, Forgotten,
         \/ PollRefused \/ PollNobody \/ ReadHead \/ ReadFails \/ ReadRefused \/ SocksRejected \/ Unwind \/ Opened
         \/ OpenedTooLate \/ RelayDone \/ RelayStopped \/ Fail \/ Lookup \/ NoMoreTargets \/ NewDial \/ NoSocket
         \/ RecordDial \/ RecordRefused \/ ConnectStart \/ ConnectDone \/ PromoteDial \/ FinishConnected
         \/ (\E c \in Clients : Accept(c)) \/ (\E head \in Heads : Enlist(head))
         \/ (\E head \in Heads : EnlistRefused(head)) \/ (\E answer \in Answers : Resolved(answer))
         \/ (\E ok \in BOOLEAN : ConnectFails(ok)) \/ (\E ok \in BOOLEAN : DialStopped(ok))
         \/ (\E ok \in BOOLEAN : CloseUpstream(ok))
  PROVE  Serves
<1> USE DEF Serves, SvShaped, AsSv, OthersShaped, Forgotten, At, Go, CloseThenGo, Idle, L0, Here
<1>1. CASE PollRefused
  BY <1>1 DEF PollRefused
<1>2. CASE PollNobody
  BY <1>2 DEF PollNobody
<1>3. CASE ReadHead
  BY <1>3 DEF ReadHead
<1>4. CASE ReadFails
  BY <1>4 DEF ReadFails
<1>5. CASE ReadRefused
  BY <1>5 DEF ReadRefused
<1>6. CASE SocksRejected
  BY <1>6 DEF SocksRejected
<1>7. CASE Unwind
  BY <1>7 DEF Unwind
<1>8. CASE Opened
  BY <1>8 DEF Opened
<1>9. CASE OpenedTooLate
  BY <1>9 DEF OpenedTooLate
<1>10. CASE RelayDone
  BY <1>10 DEF RelayDone
<1>11. CASE RelayStopped
  BY <1>11 DEF RelayStopped
<1>12. CASE Fail
  BY <1>12 DEF Fail
<1>13. CASE Lookup
  BY <1>13 DEF Lookup
<1>14. CASE NoMoreTargets
  BY <1>14 DEF NoMoreTargets
<1>15. CASE NewDial
  BY <1>15 DEF NewDial
<1>16. CASE NoSocket
  BY <1>16 DEF NoSocket
<1>17. CASE RecordDial
  BY <1>17 DEF RecordDial
<1>18. CASE RecordRefused
  BY <1>18 DEF RecordRefused
<1>19. CASE ConnectStart
  BY <1>19 DEF ConnectStart
<1>20. CASE ConnectDone
  BY <1>20 DEF ConnectDone
<1>21. CASE PromoteDial
  BY <1>21 DEF PromoteDial
<1>22. CASE FinishConnected
  BY <1>22 DEF FinishConnected
<1>23. CASE (\E c \in Clients : Accept(c))
  BY <1>23 DEF Accept
<1>24. CASE (\E head \in Heads : Enlist(head))
  BY <1>24 DEF Enlist
<1>25. CASE (\E head \in Heads : EnlistRefused(head))
  BY <1>25 DEF EnlistRefused
<1>26. CASE (\E answer \in Answers : Resolved(answer))
  BY <1>26 DEF Resolved
<1>27. CASE (\E ok \in BOOLEAN : ConnectFails(ok))
  BY <1>27 DEF ConnectFails
<1>28. CASE (\E ok \in BOOLEAN : DialStopped(ok))
  BY <1>28 DEF DialStopped
<1>29. CASE (\E ok \in BOOLEAN : CloseUpstream(ok))
  BY <1>29 DEF CloseUpstream
<1> QED BY <1>1, <1>2, <1>3, <1>4, <1>5, <1>6, <1>7, <1>8, <1>9, <1>10, <1>11, <1>12, <1>13, <1>14, <1>15,
   <1>16, <1>17, <1>18, <1>19, <1>20, <1>21, <1>22, <1>23, <1>24, <1>25, <1>26, <1>27, <1>28, <1>29

\* Steps that count a client in or out, or open and close the operation.
LEMMA CountingSteps ==
  ASSUME SvShaped, OthersShaped, ScopeShaped, Forgotten, Listed,
         \/ ServeReady \/ ServeLoop \/ Track \/ Enter \/ OpenBegin \/ Adopt \/ Publish \/ OpenEnd \/ Answered
         \/ LeaveTunnel \/ ForgetClient \/ (\E ok \in BOOLEAN : AnsweredClosed(ok))
         \/ (\E ok \in BOOLEAN : FinishTunnel(ok))
  PROVE  Serves
<1> USE DEF Serves, SvShaped, AsSv, OthersShaped, AsServer, AsSession, ScopeShaped, AsScope, Forgotten, Listed, At, Go, CloseThenGo, Idle, L0, Here
<1>1. CASE ServeReady
  BY <1>1 DEF ServeReady
<1>2. CASE ServeLoop
  BY <1>2 DEF ServeLoop
<1>3. CASE Track
  BY <1>3 DEF Track
<1>4. CASE Enter
  BY <1>4 DEF Enter, WithClient
<1>5. CASE OpenBegin
  BY <1>5 DEF OpenBegin
<1>6. CASE Adopt
  BY <1>6 DEF Adopt
<1>7. CASE Publish
  BY <1>7 DEF Publish, VerifyLease
<1>8. CASE OpenEnd
  BY <1>8 DEF OpenEnd
<1>9. CASE Answered
  BY <1>9 DEF Answered
<1>10. CASE LeaveTunnel
  BY <1>10 DEF LeaveTunnel
<1>11. CASE ForgetClient
  BY <1>11 DEF ForgetClient
<1>12. CASE (\E ok \in BOOLEAN : AnsweredClosed(ok))
  <2>1. PICK ok \in BOOLEAN : AnsweredClosed(ok)
    BY <1>12
  <2>2. server' = [server EXCEPT !.pending = @ \ {sv.c}] /\ scope' = [scope EXCEPT !.tunnels = IF ok THEN @ \ {sv.c} ELSE @]
    BY <2>1 DEF AnsweredClosed
  <2>3. /\ call["serve"].todo = L0 /\ sv.at # "off" /\ sv.at # "dead" /\ sv'.at # "off"
        /\ UNCHANGED <<runtime, transport, session, call>>
    BY <2>1 DEF AnsweredClosed
  <2>4. /\ server' = AsServer(server') /\ server'.pending \subseteq Clients
        /\ server'.made = server.made /\ server'.listener = server.listener
    BY <2>2
  <2>5. scope'.closed = scope.closed /\ scope'.opening = scope.opening /\ scope'.accepted = scope.accepted
        /\ scope'.tunnels \subseteq scope.tunnels
    BY <2>2
  <2> QED BY <2>3, <2>4, <2>5
<1>13. CASE (\E ok \in BOOLEAN : FinishTunnel(ok))
  BY <1>13 DEF FinishTunnel
<1> QED BY <1>1, <1>2, <1>3, <1>4, <1>5, <1>6, <1>7, <1>8, <1>9, <1>10, <1>11, <1>12, <1>13

\* What Done leaves: the rest of the list, and the results recorded.
LEMMA DoneParts ==
  ASSUME OthersShaped, Listed, NEW t \in Closers, NEW r, r = AsCall(r), r.todo = call[t].todo, r.todo # L0, Done(t, r)
  PROVE  /\ call' = [u \in Closers |-> call'[u]] /\ \A u \in Closers : call'[u] = AsCall(call'[u])
         /\ \A u \in Closers : u # t => call'[u] = call[u]
         /\ \/ Size(r.todo) = 1 /\ call'[t].todo = L0
            \/ Size(r.todo) # 1 /\ call'[t].todo = Rest(r.todo) /\ call'[t].joined = r.joined /\ call'[t].scopeOk = r.scopeOk
<1> USE DEF OthersShaped, Done, Size, Rest
<1>1. AtRest.todo = L0 /\ AtRest = AsCall(AtRest)
  BY DEF AtRest, L0, AsCall
<1> HIDE DEF L0
<1>2. CASE Size(r.todo) = 1
  <2>1. call' = [call EXCEPT ![t] = AtRest]
    BY <1>2
  <2> QED BY <1>1, <1>2, <2>1
<1>3. CASE Size(r.todo) # 1
  <2>1. call' = [call EXCEPT ![t] = [r EXCEPT !.todo = Rest(@)]]
    BY <1>3
  <2>2. DEFINE q == [r EXCEPT !.todo = Rest(@)]
  <2>3. q = AsCall(q) /\ q.todo = Rest(r.todo) /\ q.joined = r.joined /\ q.scopeOk = r.scopeOk
    <3> HIDE DEF Rest
    <3> QED BY DEF AsCall
  <2> HIDE DEF q
  <2>4. call' = [call EXCEPT ![t] = q]
    BY <2>1 DEF q
  <2> QED BY <1>3, <2>3, <2>4
<1> QED BY <1>2, <1>3

\* What such a step leaves to show: the server's listener, the join, and the
\* scope's answer.
Stepping(t, r) ==
  /\ call[t].todo # L0 /\ Done(t, r) /\ r = AsCall(r) /\ r.todo = call[t].todo
  /\ sv' = sv /\ transport' = transport
  /\ server' = AsServer(server') /\ server'.pending \subseteq Clients /\ server'.made = server.made
  /\ server.listener # "open" => server'.listener = server.listener
  /\ First(r.todo) = "serverSockets" => server'.listener # "open"
  /\ server.made = FALSE => server'.listener = "none"
  /\ runtime' = AsRuntime(runtime') /\ (runtime.scope = "forgotten" => runtime'.scope = "forgotten")
  /\ runtime'.scope = "forgotten" => runtime.scope = "forgotten" \/ (scope.closed = TRUE /\ scope.opening = FALSE /\ scope.accepted = {} /\ scope.tunnels = {})
  /\ session' = AsSession(session') /\ session'.start = session.start /\ session'.closing = session.closing
  /\ session'.closed = TRUE =>
       \/ session.closed = TRUE
       \/ r.todo = L1 /\ call["host"].todo = L1 /\ call["host"].scopeOk = TRUE /\ call["host"].joined = TRUE
  /\ scope.closed = TRUE => scope'.closed = TRUE
  /\ First(r.todo) = "scopeMark" => scope'.closed = TRUE
  /\ scope'.opening = scope.opening /\ scope'.accepted = scope.accepted /\ scope'.tunnels = scope.tunnels
  /\ First(r.todo) = "join" \/ r.joined = call[t].joined
  /\ First(r.todo) = "join" /\ r.joined = TRUE => ThreadOver
  /\ First(r.todo) = "scopeEnd" \/ r.scopeOk = call[t].scopeOk
  /\ First(r.todo) = "scopeEnd" /\ r.scopeOk = TRUE => runtime'.scope = "forgotten"

\* A step of a close keeps what the answers rest on: the listener is closed
\* before the join, the join says whether the thread is over, and the scope's
\* answer says it is forgotten.
LEMMA Steppings ==
  ASSUME ClosesInv, NEW t \in Closers, NEW r, Stepping(t, r)
  PROVE  ClosesInv'
<1> USE DEF ClosesInv
<1>1. /\ call' = [u \in Closers |-> call'[u]] /\ \A u \in Closers : call'[u] = AsCall(call'[u])
      /\ \A u \in Closers : u # t => call'[u] = call[u]
      /\ \/ Size(r.todo) = 1 /\ call'[t].todo = L0
         \/ Size(r.todo) # 1 /\ call'[t].todo = Rest(r.todo) /\ call'[t].joined = r.joined /\ call'[t].scopeOk = r.scopeOk
  BY DoneParts DEF Stepping
<1>2. r.todo \in Lists /\ r.todo # L0 /\ r.todo = call[t].todo
  BY ListParts DEF Stepping, Listed, Closers
<1>3. OthersShaped'
  BY <1>1 DEF Stepping, OthersShaped
<1>4. Forgotten'
  <2>1. \A u \in Closers : call'[u].todo # L0 /\ First(call'[u].todo) = "scopeEnd" => scope'.closed = TRUE
    BY <1>1, <1>2, Tails DEF Forgotten, Stepping
  <2> QED BY <2>1 DEF Forgotten, Stepping
<1>5. SessionOnly' = SessionOnly /\ ("serve" \in Closers /\ "host" \in Closers)
  BY DEF SessionOnly, Stepping, Closers
<1>6. /\ call'["serve"].todo \in ServerLists /\ call'["host"].todo \in Lists
      /\ call'["host"].todo \in Sessions => call["host"].todo \in Sessions
      /\ call'["host"].todo \in EmptyCloses => call["host"].todo \in EmptyCloses
  BY <1>1, <1>2, <1>5, Tails, ListParts DEF Listed
<1>7. call["host"].todo = L1 => call["host"].todo \in Sessions
  BY DEF Sessions, AfterSockets
<1>8. Listed'
  BY <1>5, <1>6, <1>7 DEF Listed, Stepping
<1>9. ThreadOver => ThreadOver'
  BY <1>1, <1>2, <1>5 DEF ThreadOver, Stepping
<1>10. call'["host"].todo \in AfterSockets => server'.listener # "open"
  BY <1>1, <1>2, <1>5, Tails, ListParts DEF Closing, Stepping
<1>11. call'["host"].todo \in AfterJoin /\ call'["host"].joined = TRUE => ThreadOver'
  BY <1>1, <1>2, <1>5, <1>9, Tails, ListParts DEF Closing, Stepping
<1>12. call'["host"].todo \in AfterScope /\ call'["host"].scopeOk = TRUE => runtime'.scope = "forgotten"
  BY <1>1, <1>2, <1>5, Tails, ListParts DEF Closing, Stepping
<1>13. session'.closed = TRUE => ThreadOver' /\ server'.listener # "open" /\ runtime'.scope = "forgotten"
  <2>1. L1 \in AfterSockets /\ L1 \in AfterJoin /\ L1 \in AfterScope
    BY DEF AfterSockets, AfterJoin, AfterScope
  <2> QED BY <1>9, <2>1 DEF Closing, Stepping
<1>14. Closing'
  BY <1>10, <1>11, <1>12, <1>13 DEF Closing
<1> QED BY <1>3, <1>4, <1>8, <1>14

\* The steps of a close.
LEMMA CloseSteps ==
  ASSUME ClosesInv, ScopeShaped, NEW t \in Closers, CloseStep(t)
  PROVE  ClosesInv'
<1>t. call[t] = AsCall(call[t]) /\ call[t].todo \in Lists
  BY ListParts DEF ClosesInv, OthersShaped, Listed, Closers
<1>l. \A l \in Lists : l # L0 /\ First(l) = "control" => l = L1
  BY ListFacts DEF Lists, Sessions, ServerLists, AfterSockets, EmptyCloses
<1>k. L1 \notin ServerLists
  BY ListFacts, ListsDiffer DEF ServerLists
<1>s. /\ server = AsServer(server) /\ server.pending \subseteq Clients /\ runtime = AsRuntime(runtime) /\ session = AsSession(session)
      /\ server.made = FALSE => server.listener = "none"
      /\ scope.opening = TRUE \/ scope.opening = FALSE
  BY DEF ClosesInv, OthersShaped, Listed, Forgotten
<1>1. CASE \E ok \in BOOLEAN : ScopeMark(t, ok)
  <2>1. PICK ok \in BOOLEAN : ScopeMark(t, ok)
    BY <1>1
  <2>2. PICK r : r = [call[t] EXCEPT !.tunnels = scope.tunnels, !.clean = ok]
    OBVIOUS
  <2>3. r = AsCall(r) /\ r.todo = call[t].todo /\ r.joined = call[t].joined /\ r.scopeOk = call[t].scopeOk
    BY <1>t, <2>2 DEF AsCall
  <2>4. /\ call[t].todo # L0 /\ First(call[t].todo) = "scopeMark" /\ Done(t, r)
        /\ scope' = [scope EXCEPT !.closed = TRUE, !.pending = {}]
        /\ UNCHANGED <<transport, runtime, server, session, sv>>
    BY <2>1, <2>2 DEF ScopeMark, Doing, L0, First
  <2>5. Stepping(t, r)
    BY <1>s, <2>3, <2>4 DEF Stepping, ScopeShaped, AsScope
  <2> QED BY <2>5, Steppings
<1>2. CASE ScopeEnd(t)
  <2> DEFINE r == [call[t] EXCEPT !.scopeOk = ScopeQuiet(t)]
  <2>2. r = AsCall(r) /\ r.todo = call[t].todo /\ r.joined = call[t].joined /\ r.scopeOk = ScopeQuiet(t)
    BY <1>t DEF AsCall
  <2>3. /\ call[t].todo # L0 /\ First(call[t].todo) = "scopeEnd" /\ Done(t, r)
        /\ runtime' = [runtime EXCEPT !.scope = IF ScopeQuiet(t) THEN "forgotten" ELSE @]
        /\ UNCHANGED <<transport, scope, server, session, sv>>
    BY <1>2 DEF ScopeEnd, Doing, L0, First
  <2>4. scope.closed = TRUE
    BY <2>3 DEF ClosesInv, Forgotten
  <2>5. ScopeQuiet(t) => scope.opening = FALSE /\ scope.accepted = {} /\ scope.tunnels = {}
    BY <1>s DEF ScopeQuiet
  <2>6. /\ runtime' = AsRuntime(runtime')
        /\ runtime'.scope = IF ScopeQuiet(t) THEN "forgotten" ELSE runtime.scope
    BY <1>s, <2>3 DEF AsRuntime
  <2> HIDE DEF r
  <2>7. Stepping(t, r)
    BY <1>s, <2>2, <2>3, <2>4, <2>5, <2>6 DEF Stepping
  <2> QED BY <2>7, Steppings
<1>3. CASE \E ok \in BOOLEAN : ServerSockets(t, ok)
  <2>1. PICK ok \in BOOLEAN : ServerSockets(t, ok)
    BY <1>3
  <2> DEFINE r == [call[t] EXCEPT !.serverOk = ok]
  <2>2. r = AsCall(r) /\ r.todo = call[t].todo /\ r.joined = call[t].joined /\ r.scopeOk = call[t].scopeOk
    BY <1>t DEF AsCall
  <2>3. /\ call[t].todo # L0 /\ First(call[t].todo) = "serverSockets" /\ Done(t, r)
        /\ server' = [server EXCEPT !.closed = server.made, !.listener = IF @ = "open" THEN "closed" ELSE @]
        /\ UNCHANGED <<transport, runtime, scope, session, sv>>
    BY <2>1 DEF ServerSockets, Doing, L0, First
  <2>4. /\ server' = AsServer(server') /\ server'.pending = server.pending /\ server'.made = server.made
        /\ server'.listener = IF server.listener = "open" THEN "closed" ELSE server.listener
    BY <1>s, <2>3 DEF AsServer
  <2> HIDE DEF r
  <2>5. Stepping(t, r)
    BY <1>s, <2>2, <2>3, <2>4 DEF Stepping
  <2> QED BY <2>5, Steppings
<1>4. CASE ServerEnd(t)
  <2> DEFINE good == call[t].serverOk /\ call[t].scopeOk /\ ~server.serving /\ server.path # "foreign"
             r == [call[t] EXCEPT !.serverOk = good]
  <2>2. r = AsCall(r) /\ r.todo = call[t].todo /\ r.joined = call[t].joined /\ r.scopeOk = call[t].scopeOk
    <3> HIDE DEF good
    <3> QED BY <1>t DEF AsCall
  <2>3. /\ call[t].todo # L0 /\ First(call[t].todo) = "serverEnd" /\ Done(t, r)
        /\ server' = [server EXCEPT !.path = PathAfterClose]
        /\ UNCHANGED <<transport, runtime, scope, session, sv>>
    BY <1>4 DEF ServerEnd, Doing, L0, First
  <2>4. /\ server' = AsServer(server') /\ server'.pending = server.pending /\ server'.made = server.made
        /\ server'.listener = server.listener
    BY <1>s, <2>3 DEF AsServer
  <2> HIDE DEF r
  <2>5. Stepping(t, r)
    BY <1>s, <2>2, <2>3, <2>4 DEF Stepping
  <2> QED BY <2>5, Steppings
<1>5. CASE Join(t)
  <2> DEFINE over == sv.at \in {"off", "dead"} /\ call["serve"].todo = <<>>
             r == [call[t] EXCEPT !.joined = over]
  <2>2. r = AsCall(r) /\ r.todo = call[t].todo /\ r.joined = over /\ r.scopeOk = call[t].scopeOk
    BY <1>t DEF AsCall
  <2>3. /\ call[t].todo # L0 /\ First(call[t].todo) = "join" /\ Done(t, r)
        /\ UNCHANGED <<transport, runtime, scope, server, session, sv>>
    BY <1>5 DEF Join, Doing, L0, First
  <2>4. over => ThreadOver
    BY DEF ThreadOver, L0
  <2> HIDE DEF r, over
  <2>5. Stepping(t, r)
    BY <1>s, <2>2, <2>3, <2>4 DEF Stepping
  <2> QED BY <2>5, Steppings
<1>6. CASE SessionEnd(t)
  <2>3. /\ call[t].todo # L0 /\ First(call[t].todo) = "control" /\ Done(t, call[t])
        /\ session' = [session EXCEPT !.control = FALSE, !.closed = call[t].serverOk /\ call[t].scopeOk /\ call[t].joined]
        /\ UNCHANGED <<transport, runtime, scope, server, sv>>
    BY <1>6 DEF SessionEnd, Doing, L0, First
  <2>4. call[t].todo = L1 /\ t = "host"
    BY <1>t, <1>l, <1>k, <2>3 DEF ClosesInv, Listed, Closers
  <2>5. /\ session' = AsSession(session') /\ session'.start = session.start /\ session'.closing = session.closing
        /\ session'.closed = TRUE => call[t].scopeOk = TRUE /\ call[t].joined = TRUE
    BY <1>s, <2>3 DEF AsSession
  <2>6. Stepping(t, call[t])
    BY <1>s, <1>t, <2>3, <2>4, <2>5, ListFacts DEF Stepping
  <2> QED BY <2>6, Steppings
<1>7. CASE RuntimeEnd(t)
  <2>3. /\ call[t].todo # L0 /\ First(call[t].todo) = "runtimeEnd" /\ Done(t, call[t])
        /\ runtime' = [runtime EXCEPT !.monitor = "stopped", !.closed = TRUE] \/ runtime' = runtime
        /\ UNCHANGED <<transport, scope, server, session, sv>>
    BY <1>7 DEF RuntimeEnd, Doing, L0, First
  <2>4. runtime' = AsRuntime(runtime') /\ runtime'.scope = runtime.scope
    BY <1>s, <2>3 DEF AsRuntime
  <2>5. Stepping(t, call[t])
    BY <1>s, <1>t, <2>3, <2>4 DEF Stepping
  <2> QED BY <2>5, Steppings
<1>8. CASE \E ok \in BOOLEAN : \E c \in Clients : ScopeTunnel(t, c, ok)
  <2>1. PICK ok \in BOOLEAN, c \in Clients : ScopeTunnel(t, c, ok)
    BY <1>8
  <2>2. /\ call[t].todo # L0 /\ UNCHANGED <<transport, runtime, server, session, sv>>
        /\ call' = [call EXCEPT ![t].tunnels = @ \ {c}, ![t].clean = @ /\ ok]
    BY <2>1 DEF ScopeTunnel, Doing, L0
  <2>3. scope' = [scope EXCEPT !.tunnels = IF ok THEN @ \ {c} ELSE @]
    BY <2>1 DEF ScopeTunnel
  <2>4. scope'.closed = scope.closed /\ scope'.opening = scope.opening /\ scope'.accepted = scope.accepted
        /\ scope'.tunnels \subseteq scope.tunnels
    BY <2>3 DEF ScopeShaped, AsScope
  <2>5. /\ call' = [u \in Closers |-> call'[u]] /\ \A u \in Closers : call'[u] = AsCall(call'[u])
        /\ \A u \in Closers : call'[u].todo = call[u].todo /\ call'[u].joined = call[u].joined /\ call'[u].scopeOk = call[u].scopeOk
    BY <1>t, <2>2 DEF ClosesInv, OthersShaped, AsCall
  <2>6. "host" \in Closers /\ "serve" \in Closers
    BY DEF Closers
  <2>7. OthersShaped'
    BY <2>2, <2>5 DEF ClosesInv, OthersShaped
  <2>8. Forgotten'
    BY <2>2, <2>4, <2>5 DEF ClosesInv, Forgotten
  <2>9. Listed'
    BY <2>2, <2>5, <2>6 DEF ClosesInv, Listed, SessionOnly
  <2>10. Closing'
    BY <2>2, <2>5, <2>6 DEF ClosesInv, Closing, ThreadOver
  <2> QED BY <2>7, <2>8, <2>9, <2>10 DEF ClosesInv
<1> QED BY <1>1, <1>2, <1>3, <1>4, <1>5, <1>6, <1>7, <1>8 DEF CloseStep

\* The host brings the proxy up, and begins to close it.
LEMMA HostCloses ==
  ASSUME ClosesInv, SvShaped,
         \/ RuntimeStart \/ CreateScope \/ MonitorFails \/ CloseSession \/ CloseUnixServer \/ CloseRuntime
         \/ MakeUnixServer \/ PathReplaced \/ StartBegin \/ (\E message \in HandoffMessages : StartReceive(message))
         \/ StartAck \/ StartFails
  PROVE  ClosesInv'
<1>s. /\ server = AsServer(server) /\ server.pending \subseteq Clients /\ runtime = AsRuntime(runtime) /\ session = AsSession(session)
      /\ call = [u \in Closers |-> call[u]] /\ \A u \in Closers : call[u] = AsCall(call[u])
      /\ "host" \in Closers /\ "serve" \in Closers /\ sv = AsSv(sv)
  BY DEF ClosesInv, OthersShaped, SvShaped, Closers
<1>1. CASE RuntimeStart \/ CreateScope \/ MonitorFails
  <2>1. /\ UNCHANGED <<transport, scope, server, session, sv, call>>
        /\ \/ runtime' = [runtime EXCEPT !.started = TRUE, !.monitor = "running"]
           \/ runtime' = [runtime EXCEPT !.scope = "live"] /\ runtime.scope = "none"
           \/ runtime' = [runtime EXCEPT !.monitor = "failed"]
    BY <1>1 DEF RuntimeStart, CreateScope, MonitorFails
  <2>2. runtime' = AsRuntime(runtime') /\ (runtime'.scope = runtime.scope \/ (runtime.scope = "none" /\ runtime'.scope = "live"))
    BY <1>s, <2>1 DEF AsRuntime
  <2> QED BY <2>1, <2>2 DEF ClosesInv, OthersShaped, Forgotten, Listed, Closing, SessionOnly, ThreadOver
<1>2. CASE PathReplaced
  <2>1. /\ UNCHANGED <<transport, scope, runtime, session, sv, call>>
        /\ server' = [server EXCEPT !.path = "foreign"]
    BY <1>2 DEF PathReplaced
  <2>2. /\ server' = AsServer(server') /\ server'.pending = server.pending /\ server'.made = server.made
        /\ server'.listener = server.listener
    BY <1>s, <2>1 DEF AsServer
  <2> QED BY <2>1, <2>2 DEF ClosesInv, OthersShaped, Forgotten, Listed, Closing, SessionOnly, ThreadOver
<1>3. CASE MakeUnixServer
  <2>1. /\ UNCHANGED <<transport, scope, runtime, session, call>> /\ transport = "unix"
        /\ server' = [server EXCEPT !.made = TRUE, !.listener = "open", !.path = "ours"] /\ sv' = [sv EXCEPT !.at = "start"]
    BY <1>3 DEF MakeUnixServer
  <2>2. /\ server' = AsServer(server') /\ server'.pending = server.pending /\ server'.made = TRUE
        /\ sv'.at = "start"
    BY <1>s, <2>1 DEF AsServer, AsSv
  <2>3. ~SessionOnly /\ ~SessionOnly'
    BY <2>1 DEF SessionOnly
  <2> QED BY <2>1, <2>2, <2>3, NoSessionClose DEF ClosesInv, OthersShaped, Forgotten, Listed, Closing
<1>4. CASE StartBegin
  <2>1. /\ UNCHANGED <<transport, scope, runtime, server, sv, call>> /\ session.start = "new" /\ ~session.closing /\ transport = "tcp"
        /\ session' = [session EXCEPT !.start = "receiving"]
    BY <1>4 DEF StartBegin
  <2>2. session' = AsSession(session') /\ session'.start = "receiving" /\ session'.closed = session.closed
    BY <1>s, <2>1 DEF AsSession
  <2>3. ~SessionOnly /\ ~SessionOnly'
    BY <2>1, <2>2 DEF SessionOnly
  <2> QED BY <2>1, <2>2, <2>3, NoSessionClose DEF ClosesInv, OthersShaped, Forgotten, Listed, Closing
<1>5. CASE \E message \in HandoffMessages : StartReceive(message)
  <2>1. /\ UNCHANGED <<transport, scope, runtime, call>> /\ session.start = "receiving"
        /\ session' = [session EXCEPT !.start = "waiting", !.nonce = TRUE]
        /\ server' = [server EXCEPT !.made = TRUE, !.listener = "open"] /\ sv' = [sv EXCEPT !.at = "start"]
    BY <1>5 DEF StartReceive
  <2>2. session' = AsSession(session') /\ session'.start = "waiting" /\ session'.closed = session.closed
    BY <1>s, <2>1 DEF AsSession
  <2>3. /\ server' = AsServer(server') /\ server'.pending = server.pending /\ server'.made = TRUE
        /\ sv'.at = "start"
    BY <1>s, <2>1 DEF AsServer, AsSv
  <2>4. ~SessionOnly /\ ~SessionOnly'
    BY <2>1, <2>2 DEF SessionOnly
  <2> QED BY <2>1, <2>2, <2>3, <2>4, NoSessionClose DEF ClosesInv, OthersShaped, Forgotten, Listed, Closing
<1>6. CASE StartAck
  <2>1. /\ UNCHANGED <<transport, scope, runtime, server, sv, call>> /\ session.start = "waiting"
        /\ session' = [session EXCEPT !.start = "done", !.acked = TRUE, !.nonce = FALSE]
    BY <1>6 DEF StartAck
  <2>2. session' = AsSession(session') /\ session'.start = "done" /\ session'.closed = session.closed
    BY <1>s, <2>1 DEF AsSession
  <2>3. ~SessionOnly
    BY <2>1 DEF SessionOnly
  <2> QED BY <2>1, <2>2, <2>3, NoSessionClose DEF ClosesInv, OthersShaped, Forgotten, Listed, Closing
<1>b. \A l : Begins("host", l) =>
        /\ call' = [u \in Closers |-> call'[u]] /\ \A u \in Closers : call'[u] = AsCall(call'[u])
        /\ call'["host"].todo = l /\ call'["serve"] = call["serve"]
  <2> SUFFICES ASSUME NEW l, Begins("host", l)
               PROVE  /\ call' = [u \in Closers |-> call'[u]] /\ \A u \in Closers : call'[u] = AsCall(call'[u])
                      /\ call'["host"].todo = l /\ call'["serve"] = call["serve"]
    OBVIOUS
  <2>1. PICK k : k = [AtRest EXCEPT !.todo = l]
    OBVIOUS
  <2>2. k = AsCall(k) /\ k.todo = l
    BY <2>1 DEF AtRest, AsCall
  <2>3. call' = [call EXCEPT !["host"] = k]
    BY <2>1 DEF Begins
  <2> QED BY <1>s, <2>2, <2>3
<1>7. CASE CloseSession
  <2>1. /\ UNCHANGED <<transport, scope, runtime, server, sv>> /\ transport = "tcp"
        /\ session' = [session EXCEPT !.closing = TRUE]
        /\ IF Starting THEN UNCHANGED call ELSE Begins("host", SessionSteps)
    BY <1>7 DEF CloseSession
  <2>2. /\ session' = AsSession(session') /\ session'.closing = TRUE /\ session'.start = session.start
        /\ session'.closed = session.closed
    BY <1>s, <2>1 DEF AsSession
  <2>3. CASE Starting
    <3>1. ~SessionOnly
      BY <2>3 DEF SessionOnly, Starting
    <3> QED BY <2>1, <2>2, <2>3, <3>1, NoSessionClose DEF ClosesInv, OthersShaped, Forgotten, Listed, Closing
  <2>4. CASE ~Starting
    <3>1. SessionOnly'
      BY <2>1, <2>2, <2>4 DEF SessionOnly, Starting
    <3>2. /\ call' = [u \in Closers |-> call'[u]] /\ \A u \in Closers : call'[u] = AsCall(call'[u])
          /\ call'["serve"] = call["serve"]
          /\ \/ call'["host"].todo = SessionClose
             \/ call'["host"].todo = EmptySessionClose /\ server.made = FALSE
      BY <1>b, <2>1, <2>4 DEF SessionSteps, ClosesInv, Listed
    <3>3. OthersShaped'
      BY <2>1, <2>2, <3>2 DEF ClosesInv, OthersShaped
    <3>4. Forgotten'
      BY <2>1, <3>2, ListFacts DEF ClosesInv, Forgotten, Closers
    <3>5. Listed'
      BY <2>1, <2>2, <3>1, <3>2, ListParts DEF ClosesInv, Listed
    <3>6. Closing'
      BY <2>1, <2>2, <3>2, ListParts DEF ClosesInv, Closing, Listed, ThreadOver
    <3> QED BY <3>3, <3>4, <3>5, <3>6 DEF ClosesInv
  <2> QED BY <2>3, <2>4
<1>8. CASE StartFails
  <2>1. /\ UNCHANGED <<transport, scope, runtime, server, sv>> /\ Starting
        /\ session' = [session EXCEPT !.start = "failed", !.closing = TRUE]
        /\ Begins("host", SessionSteps)
    BY <1>8 DEF StartFails
  <2>2. /\ session' = AsSession(session') /\ session'.closing = TRUE /\ session'.start = "failed"
        /\ session'.closed = session.closed
    BY <1>s, <2>1 DEF AsSession
  <2>3. ~SessionOnly /\ session.start # "new"
    BY <2>1 DEF SessionOnly, Starting
  <2>4. SessionOnly'
    BY <2>1, <2>2, <2>3 DEF SessionOnly, ClosesInv, Listed
  <2>5. /\ call' = [u \in Closers |-> call'[u]] /\ \A u \in Closers : call'[u] = AsCall(call'[u])
        /\ call'["serve"] = call["serve"]
        /\ \/ call'["host"].todo = SessionClose
           \/ call'["host"].todo = EmptySessionClose /\ server.made = FALSE
    BY <1>b, <2>1 DEF SessionSteps, ClosesInv, Listed
  <2>6. session.closed # TRUE
    BY <2>3, NoSessionClose DEF ClosesInv
  <2>7. OthersShaped'
    BY <2>1, <2>2, <2>5 DEF ClosesInv, OthersShaped
  <2>8. Forgotten'
    BY <2>1, <2>5, ListFacts DEF ClosesInv, Forgotten, Closers
  <2>9. Listed'
    BY <2>1, <2>2, <2>3, <2>4, <2>5, ListParts DEF ClosesInv, Listed
  <2>10. Closing'
    BY <2>1, <2>2, <2>5, <2>6, ListParts DEF ClosesInv, Closing, Listed
  <2> QED BY <2>7, <2>8, <2>9, <2>10 DEF ClosesInv
<1>9. CASE CloseUnixServer \/ CloseRuntime
  <2>1. /\ UNCHANGED <<transport, scope, server, session, sv>>
        /\ runtime' = runtime \/ runtime' = [runtime EXCEPT !.closing = TRUE]
    BY <1>9 DEF CloseUnixServer, CloseRuntime
  <2>2. runtime' = AsRuntime(runtime') /\ runtime'.scope = runtime.scope
    BY <1>s, <2>1 DEF AsRuntime
  <2>3. /\ call' = [u \in Closers |-> call'[u]] /\ \A u \in Closers : call'[u] = AsCall(call'[u])
        /\ call'["serve"] = call["serve"]
        /\ call'["host"].todo \in {ServerClose, RuntimeClose, R1}
    <3>1. CASE CloseUnixServer
      BY <1>b, <3>1 DEF CloseUnixServer
    <3>2. CASE CloseRuntime
      <4>1. PICK l, k : l \in {RuntimeClose, R1} /\ k = [AtRest EXCEPT !.scopeOk = runtime.scope # "live", !.todo = l]
                        /\ call' = [call EXCEPT !["host"] = k]
        BY <3>2 DEF CloseRuntime, R1
      <4>2. k = AsCall(k) /\ k.todo = l
        BY <4>1 DEF AtRest, AsCall
      <4> QED BY <1>s, <4>1, <4>2
    <3> QED BY <1>9, <3>1, <3>2
  <2>4. call'["host"].todo \in Lists /\ call'["host"].todo \notin Sessions /\ First(call'["host"].todo) # "scopeEnd"
    BY <2>3, ListParts, ListFacts
  <2>5. OthersShaped'
    BY <2>1, <2>2, <2>3 DEF ClosesInv, OthersShaped
  <2>6. Forgotten'
    BY <2>1, <2>2, <2>3, <2>4 DEF ClosesInv, Forgotten, Closers
  <2>7. Listed'
    BY <2>1, <2>3, <2>4, ListParts DEF ClosesInv, Listed, SessionOnly
  <2>8. Closing'
    BY <2>1, <2>2, <2>3, <2>4, ListParts DEF ClosesInv, Closing, ThreadOver
  <2> QED BY <2>5, <2>6, <2>7, <2>8 DEF ClosesInv
<1> QED BY <1>1, <1>2, <1>3, <1>4, <1>5, <1>6, <1>7, <1>8, <1>9

(***************************************************************************)
(* The theorem                                                             *)
(***************************************************************************)
\* The authority's steps touch sockets and entries only.
LEMMA AuthorityCloses ==
  ASSUME ClosesInv, LeaseEnds \/ AuthorityStep
  PROVE  ClosesInv'
<1>1. UNCHANGED <<transport, runtime, scope, server, session, sv, call>>
  BY DEF LeaseEnds, AuthorityStep, CancelsDial, ClosesActive, DialAwaited
<1> QED BY <1>1 DEF ClosesInv, OthersShaped, Forgotten, Listed, Closing, SessionOnly, ThreadOver

\* A step of the thread that serves.
LEMMA ServesInv ==
  ASSUME ProxyInv, ServeStep \/ RelayDone
  PROVE  ProxyInv'
<1> USE DEF ProxyInv
<1>1. ClosesInv'
  <2>1. Serves
    BY PlainServes, CountingSteps DEF ServeStep, Connector, SocketsInv, ClosesInv
  <2> QED BY <2>1, ServesKeeps
<1>2. SocketsInv'
  <2>1. CASE \/ ServeReady \/ ServeLoop \/ PollRefused \/ PollNobody
             \/ ReadHead \/ ReadFails \/ (\E head \in Heads : EnlistRefused(head)) \/ Lookup
             \/ (\E answer \in Answers : Resolved(answer)) \/ NoMoreTargets \/ ConnectDone \/ FinishConnected
             \/ Opened \/ Answered \/ RelayDone \/ LeaveTunnel
    BY <2>1, MovingSteps DEF ClosesInv
  <2>2. CASE ReadRefused \/ SocksRejected \/ OpenedTooLate \/ RelayStopped \/ Fail
    BY <2>2, DroppingSteps
  <2>3. CASE Track \/ Enter \/ OpenBegin \/ Adopt
    BY <2>3, EnteringSteps
  <2>4. CASE RecordRefused \/ \E ok \in BOOLEAN : ConnectFails(ok) \/ DialStopped(ok) \/ CloseUpstream(ok)
    BY <2>4, DiscardSteps
  <2>5. CASE \E ok \in BOOLEAN : AnsweredClosed(ok) \/ FinishTunnel(ok)
    <3>1. sv.c \in Clients /\ "host" \in Closers
      BY <2>5 DEF AnsweredClosed, FinishTunnel, At, SocketsInv, SvShaped, ScopeShaped, WithClient, Closers
    <3> QED BY <2>5, <3>1, TunnelSteps
  <2>6. CASE NewDial \/ NoSocket \/ RecordDial \/ ConnectStart \/ PromoteDial
    BY <2>6, NewDialKeeps, NoSocketKeeps, RecordDialKeeps, ConnectStartKeeps, PromoteDialKeeps
  <2>7. CASE Publish \/ Unwind \/ OpenEnd \/ ForgetClient
    BY <2>7, PublishKeeps, UnwindKeeps, OpenEndKeeps, ForgetClientKeeps
  <2>8. CASE (\E c \in Clients : Accept(c)) \/ (\E head \in Heads : Enlist(head))
    BY <2>8, AcceptKeeps, EnlistKeeps
  <2> QED BY <2>1, <2>2, <2>3, <2>4, <2>5, <2>6, <2>7, <2>8, Zenon DEF ServeStep, Connector
<1> QED BY <1>1, <1>2

\* Every step of the proxy keeps the invariant.
LEMMA ProxyStep ==
  ASSUME ProxyInv, [ProxyNext]_proxyVars
  PROVE  ProxyInv'
<1> USE DEF ProxyInv
<1>1. CASE ServeStep \/ RelayDone
  BY <1>1, ServesInv
<1>2. CASE \E t \in Closers : CloseStep(t)
  <2>1. PICK t \in Closers : CloseStep(t)
    BY <1>2
  <2>2. ClosesInv'
    BY <2>1, CloseSteps DEF SocketsInv
  <2>3. CASE ScopeEnd(t) \/ ServerEnd(t) \/ Join(t) \/ SessionEnd(t) \/ RuntimeEnd(t)
    <3>1. UNCHANGED <<sv, sock, kind, settled, scope>>
      BY <2>3 DEF ScopeEnd, ServerEnd, Join, SessionEnd, RuntimeEnd, tableVars
    <3> QED BY <2>2, <3>1, Stays
  <2>4. CASE \E ok \in BOOLEAN : ScopeMark(t, ok) \/ ServerSockets(t, ok)
    BY <2>2, <2>4, CopiedSteps DEF ClosesInv
  <2>5. CASE \E ok \in BOOLEAN : \E c \in Clients : ScopeTunnel(t, c, ok)
    BY <2>2, <2>5, TunnelSteps
  <2> QED BY <2>1, <2>3, <2>4, <2>5, Zenon DEF CloseStep
<1>3. CASE LeaseEnds \/ AuthorityStep
  <2>1. ClosesInv'
    BY <1>3, AuthorityCloses
  <2>2. CASE LeaseEnds
    BY <2>1, <2>2, Stays DEF LeaseEnds, Revalue
  <2>3. CASE \E x \in Sockets : CancelsDial(x)
    BY <2>1, <2>3, Stays DEF CancelsDial, BeginClose
  <2>4. CASE \E x \in Sockets : \E ok \in BOOLEAN : ClosesActive(x, ok) \/ DialAwaited(x, ok)
    BY <2>1, <2>4, AuthoritySteps
  <2> QED BY <1>3, <2>2, <2>3, <2>4 DEF AuthorityStep
<1>4. CASE \/ RuntimeStart \/ CreateScope \/ MonitorFails \/ CloseSession \/ CloseUnixServer \/ CloseRuntime
           \/ MakeUnixServer \/ PathReplaced \/ StartBegin \/ (\E message \in HandoffMessages : StartReceive(message))
           \/ StartAck \/ StartFails
  <2>1. ClosesInv'
    BY <1>4, HostCloses DEF SocketsInv
  <2>2. CASE MakeUnixServer \/ \E message \in HandoffMessages : StartReceive(message)
    BY <2>1, <2>2, MovingSteps DEF ClosesInv
  <2>3. CASE \/ RuntimeStart \/ CreateScope \/ MonitorFails \/ CloseSession \/ CloseUnixServer \/ CloseRuntime
             \/ PathReplaced \/ StartBegin \/ StartAck \/ StartFails
    <3>1. UNCHANGED <<sv, sock, kind, settled, scope>>
      BY <2>3 DEF RuntimeStart, CreateScope, MonitorFails, CloseSession, CloseUnixServer, CloseRuntime,
         PathReplaced, StartBegin,
         StartAck, StartFails, tableVars
    <3> QED BY <2>1, <3>1, Stays
  <2> QED BY <1>4, <2>2, <2>3
<1>5. CASE UNCHANGED proxyVars
  <2>1. UNCHANGED <<transport, runtime, scope, server, session, sv, call, sock, kind, settled>>
    BY <1>5 DEF proxyVars, tableVars
  <2>2. ClosesInv'
    BY <2>1 DEF ClosesInv, OthersShaped, Forgotten, Listed, Closing, SessionOnly, ThreadOver
  <2> QED BY <2>1, <2>2, Stays
<1> QED BY <1>1, <1>2, <1>3, <1>4, <1>5, Zenon DEF ProxyNext, StartStep

\* The invariant holds before anything was started.
LEMMA ProxyStart ==
  ASSUME ProxyInit
  PROVE  ProxyInv
<1> USE DEF ProxyInit, TableInit
<1>1. SvShaped /\ ScopeShaped
  BY DEF SvShaped, ScopeShaped, AsSv, AsScope, SvPlaces, WithClient, Alone
<1>2. TableShaped /\ SockEntered
  BY TableAssumption DEF TableShaped, SockEntered
<1>3. EndsEntered /\ InHand
  BY DEF EndsEntered, InHand, Entering, Dialling
<1>4. Fresh
  <2>1. \A x \in Sockets : Untouched(x)
    BY TableAssumption DEF Untouched
  <2> QED BY <2>1 DEF Fresh, Early, BeforeDial, Dialling, WithClient
<1>5. Owned /\ Dialled
  BY DEF Owned, Dialled, Live, Opening, Admitted
<1>6. Silent
  BY DEF Silent, Silence, Live, Leaving, Tunnelled
<1>7. \A t \in Closers : call[t].todo = L0 /\ call[t] = AsCall(call[t])
  BY DEF AtRest, L0, AsCall
<1>8. OthersShaped
  BY <1>7 DEF OthersShaped, AsServer, AsRuntime, AsSession
<1>9. Forgotten
  BY <1>7 DEF Forgotten
<1>10. Listed /\ Closing
  BY <1>7, ListParts DEF Listed, Closing, Closers
<1> QED BY <1>1, <1>2, <1>3, <1>4, <1>5, <1>6, <1>8, <1>9, <1>10 DEF ProxyInv, SocketsInv, ClosesInv

\* It says that no socket is open behind the authority's back, or a close's.
LEMMA ProxyAccounts ==
  ASSUME ProxyInv
  PROVE  SocketsAccounted
<1> USE DEF ProxyInv, SocketsInv, ClosesInv
<1>1. OpenIsTabled
  <2>1. ASSUME NEW c \in Clients, NEW x \in Upstreams(c), sock[x] = "open"
        PROVE  Tabled(x)
    BY <2>1, UpstreamParts DEF SockEntered, TableShaped, Tabled
  <2>2. ASSUME NEW c \in Clients, c \in scope.tunnels, sock[Endpoint(c)] = "open"
        PROVE  Tabled(Endpoint(c))
    BY <2>2, Ends DEF SockEntered, EndsEntered, TableShaped, Tabled
  <2> QED BY <2>1, <2>2 DEF OpenIsTabled
<1>2. runtime.scope = "forgotten" =>
        ~scope.opening /\ \A x \in Sockets : Live(x) => sv.at = "accepted" /\ x = Endpoint(sv.c)
  BY DEF Forgotten, Owned
<1>3. session.closed = TRUE => ~ThreadAlive /\ server.listener # "open" /\ \A x \in Sockets : ~Live(x)
  BY <1>2 DEF Closing, ThreadOver, ThreadAlive, Idle, L0
<1>4. QuietWhenClosed
  BY <1>2, <1>3 DEF QuietWhenClosed, Live
<1> QED BY <1>1, <1>4 DEF SocketsAccounted

\* No socket of the proxy is open behind the back of the authority or of a
\* close that answered True, for any number of clients and addresses and
\* however the serving thread, the closes, the expiry monitor and the
\* authority interleave (network_connector.py, network_proxy_scope.py,
\* network_proxy_server.py).
THEOREM ProxySocketsAccounted == ProxySpec => []SocketsAccounted
<1>1. ProxyInit => ProxyInv
  BY ProxyStart
<1>2. ProxyInv /\ [ProxyNext]_proxyVars => ProxyInv'
  BY ProxyStep
<1>3. ProxyInv => SocketsAccounted
  BY ProxyAccounts
<1> QED BY <1>1, <1>2, <1>3, PTL DEF ProxySpec
=============================================================================
