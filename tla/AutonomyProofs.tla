--------------------------- MODULE AutonomyProofs ---------------------------
(***************************************************************************)
(* At most one worker of a ticket, each client request once, and a worker  *)
(* behind every record that says active, for any number of managers,       *)
(* processes, runs, requests, steps and failed writes.                     *)
(*                                                                         *)
(* OneWorker alone is not inductive: that a second start is refused rests  *)
(* on the registrations of the first.  Held says that a run that is        *)
(* reserved or alive still has every registration it was given, and        *)
(* Starting that the section between the reservation and thread.start()    *)
(* works on a run whose thread does not exist yet.                         *)
(***************************************************************************)
EXTENDS Autonomy, FiniteSetTheorems, TLAPS

Shape ==
  /\ control \in [Managers -> Runs \cup {None}]
  /\ lock \in [Managers -> Runs \cup {None, "api"}]
  /\ section \in [Managers -> Sections]
  /\ registry \in [Procs -> Runs \cup {None}]
  /\ lease \in Runs \cup {None}
  /\ pc \in [Runs -> Places]
  /\ owner \in [Runs -> Managers \cup {None}]

\* A section is under way only while its manager's lock is held.
Locked == \A m \in Managers : section[m] # "none" => lock[m] # None

Held ==
  \A r \in Runs : pc[r] \in Live \cup {"reserved"} =>
    /\ owner[r] \in Managers
    /\ control[owner[r]] = r
    /\ registry[ProcOf[owner[r]]] = r
    /\ UseLease => lease = r

Starting ==
  \A m \in Managers : section[m] \in {"persist", "spawn"} =>
    /\ control[m] \in Runs
    /\ pc[control[m]] = "reserved"
    /\ owner[control[m]] = m

Inv == Shape /\ Locked /\ Held /\ Starting

LEMMA InitInv == Init => Inv
  BY AutonomyAssumption
  DEF Init, Inv, Shape, Locked, Held, Starting, Sections, Places, Live

\* A manager's sections that leave the registrations and the threads alone.
LEMMA SectionInv ==
  ASSUME Inv, NEW m \in Managers,
         \/ ConstructRead(m)
         \/ \E q \in Requests : IntentReplayed(m, q) \/ StartRead(m, q) \/ StopRead(m, q)
         \/ \E o \in Outcomes : RecoverWrite(m, o) \/ StopWrite(m, o) \/ ShutdownWrite(m, o)
         \/ StartRefused(m)
         \/ ShutdownRead(m)
  PROVE  Inv'
<1> USE AutonomyAssumption
        DEF Inv, Shape, Locked, Held, Starting, Sections, Places, Live,
            Take, Drop, lockVars, mgrVars, runVars
<1>1. CASE ConstructRead(m)
  BY <1>1 DEF ConstructRead
<1>2. CASE \E q \in Requests : IntentReplayed(m, q) \/ StartRead(m, q) \/ StopRead(m, q)
  BY <1>2 DEF IntentReplayed, StartRead, StopRead
<1>3. CASE \E o \in Outcomes : RecoverWrite(m, o) \/ StopWrite(m, o) \/ ShutdownWrite(m, o)
  BY <1>3 DEF RecoverWrite, StopWrite, ShutdownWrite
<1>4. CASE StartRefused(m)
  BY <1>4 DEF StartRefused
<1>5. CASE ShutdownRead(m)
  BY <1>5 DEF ShutdownRead
<1> QED  BY <1>1, <1>2, <1>3, <1>4, <1>5

\* The reservation: what MayReserve and MayOpen rule out is exactly a live
\* worker of this process, or of any process when there is a lease.
LEMMA ReserveInv ==
  ASSUME Inv, NEW m \in Managers, NEW r \in Runs, StartReserve(m, r)
  PROVE  Inv'
<1> USE AutonomyAssumption DEF Inv, StartReserve
<1>1. \A s \in Runs : pc[s] \in Live \cup {"reserved"} =>
         ProcOf[owner[s]] # ProcOf[m] /\ owner[s] # m /\ ~UseLease
  BY DEF Held, Shape, MayReserve, MayOpen, WorkerAlive
<1>2. Shape'
  BY DEF Shape, Sections, Places, Live
<1>3. Locked'
  BY DEF Shape, Locked
<1>4. Held'
  <2> SUFFICES ASSUME NEW s \in Runs, pc'[s] \in Live \cup {"reserved"}
               PROVE  /\ owner'[s] \in Managers
                      /\ control'[owner'[s]] = s
                      /\ registry'[ProcOf[owner'[s]]] = s
                      /\ UseLease => lease' = s
    BY DEF Held
  <2>1. CASE s = r
    BY <2>1 DEF Shape
  <2>2. CASE s # r
    <3>1. pc[s] \in Live \cup {"reserved"} /\ owner'[s] = owner[s]
      BY <2>2 DEF Shape
    <3> QED  BY <1>1, <2>2, <3>1 DEF Shape, Held
  <2> QED  BY <2>1, <2>2
<1>5. Starting'
  BY <1>1 DEF Shape, Starting, Live
<1> QED  BY <1>2, <1>3, <1>4, <1>5

\* Unregister forgets one run and only that run's registrations.
LEMMA UnregisterInv ==
  ASSUME Inv, NEW m \in Managers, NEW r \in Runs,
         owner[r] = m, Unregister(m, r),
         pc' = [pc EXCEPT ![r] = "done"], owner' = owner,
         Shape', Locked', section' = section \/ section' = [section EXCEPT ![m] = "none"],
         section'[m] \notin {"persist", "spawn"}
  PROVE  Inv'
<1> USE AutonomyAssumption DEF Inv, Unregister
<1>1. Held'
  BY DEF Shape, Held, Live
<1>2. Starting'
  BY DEF Shape, Starting, Live
<1> QED  BY <1>1, <1>2

LEMMA StartInv ==
  ASSUME Inv, NEW m \in Managers, NEW o \in Outcomes,
         StartPersist(m, o) \/ Spawn(m) \/ SpawnFails(m, o)
  PROVE  Inv'
<1> USE AutonomyAssumption DEF Inv
<1>1. CASE Spawn(m)
  BY <1>1 DEF Spawn, Drop, Shape, Locked, Held, Starting, Sections, Places, Live
<1>2. CASE StartPersist(m, o) /\ o = "ok"
  BY <1>2 DEF StartPersist, Shape, Locked, Held, Starting, Sections, Places, Live
<1>3. CASE StartPersist(m, o) /\ o # "ok"
  <2>1. control[m] \in Runs /\ owner[control[m]] = m
    BY <1>3 DEF StartPersist, Starting
  <2>2. /\ Unregister(m, control[m]) /\ owner' = owner
        /\ pc' = [pc EXCEPT ![control[m]] = "done"]
        /\ section' = [section EXCEPT ![m] = "none"]
        /\ lock' = [lock EXCEPT ![m] = None]
    BY <1>3 DEF StartPersist, Drop
  <2>3. Shape' /\ Locked'
    BY <2>1, <2>2 DEF Unregister, Shape, Locked, Sections, Places, Live
  <2>4. section'[m] \notin {"persist", "spawn"}
    BY <2>2 DEF Shape
  <2> QED  BY <2>1, <2>2, <2>3, <2>4, UnregisterInv
<1>4. CASE SpawnFails(m, o)
  <2>1. control[m] \in Runs /\ owner[control[m]] = m
    BY <1>4 DEF SpawnFails, Starting
  <2>2. /\ Unregister(m, control[m]) /\ owner' = owner
        /\ pc' = [pc EXCEPT ![control[m]] = "done"]
        /\ section' = [section EXCEPT ![m] = "none"]
        /\ lock' = [lock EXCEPT ![m] = None]
    BY <1>4 DEF SpawnFails, Drop
  <2>3. Shape' /\ Locked'
    BY <2>1, <2>2 DEF Unregister, Shape, Locked, Sections, Places, Live
  <2>4. section'[m] \notin {"persist", "spawn"}
    BY <2>2 DEF Shape
  <2> QED  BY <2>1, <2>2, <2>3, <2>4, UnregisterInv
<1> QED  BY <1>1, <1>2, <1>3, <1>4

\* A worker's own steps, from one place to another of its life.
LEMMA WorkerInv ==
  ASSUME Inv, NEW r \in Runs, WorkerStep(r)
  PROVE  Inv'
<1> USE AutonomyAssumption DEF Inv
<1>1. CASE Enter(r)
  <2>1. pc[r] \in Live /\ owner[r] \in Managers
    BY <1>1 DEF Enter, Held, Live
  <2> QED
    BY <1>1, <2>1 DEF Enter, Take, Shape, Locked, Held, Starting, Sections, Places, Live,
       mgrVars, runVars
<1>2. ASSUME NEW place \in Live, pc[r] \in Live, At(r, place),
             UNCHANGED <<control, registry, lease, owner>>,
             UNCHANGED <<lock, section>> \/ (lock[owner[r]] = r /\ Drop(owner[r]))
      PROVE  Inv'
  <2>1. owner[r] \in Managers
    BY <1>2 DEF Held
  <2> QED
    BY <1>2, <2>1 DEF At, Drop, Shape, Locked, Held, Starting, Sections, Places, Live
<1>3. CASE \E o \in Outcomes : Begin(r, o)
  <2> PICK o \in Outcomes : Begin(r, o)  BY <1>3
  <2>1. \E place \in Live : At(r, place)
    BY DEF Begin, Live
  <2>2. /\ pc[r] \in Live /\ lock[owner[r]] = r /\ Drop(owner[r])
        /\ UNCHANGED <<control, registry, lease, owner>>
    BY DEF Begin, Inside, Live, mgrVars
  <2> QED  BY <1>2, <2>1, <2>2
<1>4. CASE \E o \in Outcomes : SafePoint(r, o)
  <2> PICK o \in Outcomes : SafePoint(r, o)  BY <1>4
  <2>1. \E place \in Live : At(r, place)
    BY DEF SafePoint, Passed, Live
  <2>2. /\ pc[r] \in Live /\ lock[owner[r]] = r /\ Drop(owner[r])
        /\ UNCHANGED <<control, registry, lease, owner>>
    BY DEF SafePoint, Inside, Live, mgrVars
  <2> QED  BY <1>2, <2>1, <2>2
<1>5. CASE \E o \in Outcomes : Finish(r, o) \/ RecordFailure(r, o)
  <2> PICK o \in Outcomes : Finish(r, o) \/ RecordFailure(r, o)  BY <1>5
  <2>1. \E place \in Live : At(r, place)
    BY DEF Finish, RecordFailure, Live
  <2>2. /\ pc[r] \in Live /\ lock[owner[r]] = r /\ Drop(owner[r])
        /\ UNCHANGED <<control, registry, lease, owner>>
    BY DEF Finish, RecordFailure, Inside, Live, mgrVars
  <2> QED  BY <1>2, <2>1, <2>2
<1>6. CASE \/ Execute(r) \/ Preflight(r) \/ StepRaises(r) \/ Decide(r)
           \/ \E report \in {"delivered", "blocked", "failed"} : StepReturns(r, report)
  <2>1. \E place \in Live : At(r, place)
    BY <1>6 DEF Execute, Preflight, StepRaises, Decide, StepReturns, Live
  <2>2. /\ pc[r] \in Live
        /\ UNCHANGED <<control, registry, lease, owner, lock, section>>
    BY <1>6 DEF Execute, Preflight, StepRaises, Decide, StepReturns, Live, mgrVars, lockVars
  <2> QED  BY <1>2, <2>1, <2>2
<1>7. CASE Release(r)
  <2>1. owner[r] \in Managers
    BY <1>7 DEF Release, Held, Live
  <2>2. /\ Unregister(owner[r], r) /\ owner' = owner
        /\ section' = section /\ lock' = lock /\ lock[owner[r]] = None
    BY <1>7 DEF Release, lockVars
  <2>3. pc' = [pc EXCEPT ![r] = "done"]
    BY <1>7 DEF Release, Forget, Shape
  <2>4. Shape' /\ Locked'
    BY <2>1, <2>2, <2>3 DEF Unregister, Shape, Locked, Sections, Places, Live
  <2>5. section'[owner[r]] \notin {"persist", "spawn"}
    BY <2>1, <2>2 DEF Locked
  <2> QED  BY <2>1, <2>2, <2>3, <2>4, <2>5, UnregisterInv
<1> QED  BY <1>1, <1>3, <1>4, <1>5, <1>6, <1>7 DEF WorkerStep

\* A crash takes a process with its managers, threads and lease.
LEMMA CrashInv ==
  ASSUME Inv, NEW p \in Procs, Crash(p)
  PROVE  Inv'
  BY AutonomyAssumption
  DEF Inv, Crash, Forget, Shape, Locked, Held, Starting, Sections, Places, Live

LEMMA NextInv == Inv /\ [Next]_vars => Inv'
<1> SUFFICES ASSUME Inv, [Next]_vars PROVE Inv'  OBVIOUS
<1>1. ASSUME NEW m \in Managers, ConstructRead(m) \/ ManagerStep(m) \/ ShutdownRead(m)
      PROVE  Inv'
  BY <1>1, SectionInv, StartInv, ReserveInv DEF ManagerStep, Outcomes
<1>2. ASSUME NEW m \in Managers, NEW q \in Requests,
             IntentReplayed(m, q) \/ StartRead(m, q) \/ StopRead(m, q)
      PROVE  Inv'
  BY <1>2, SectionInv
<1>3. CASE UNCHANGED vars
  BY <1>3 DEF vars, mgrVars, lockVars, runVars, Inv, Shape, Locked, Held, Starting
<1> QED  BY <1>1, <1>2, <1>3, WorkerInv, CrashInv DEF Next

\* Every registration of a live run is in place in every reachable state.
THEOREM RegistrationsHeld == Spec => []Inv
  BY InitInv, NextInv, PTL DEF Spec

\* AutonomyManager's "at most one worker per ticket", when the workspace lease
\* is in use, or when there is only one process: without either, nothing
\* keeps two processes from running the same ticket.
THEOREM SingleWorker ==
  ASSUME UseLease \/ \A m, n \in Managers : ProcOf[m] = ProcOf[n]
  PROVE  Spec => []OneWorker
<1>1. Inv => OneWorker
  BY AutonomyAssumption DEF Inv, Shape, Held, OneWorker, Live
<1> QED  BY <1>1, RegistrationsHeld, PTL

-----------------------------------------------------------------------------
(***************************************************************************)
(* Requests and records.  What follows is about one process at a time:     *)
(* either all managers share one, or a process is started after the last   *)
(* one died (the workspace lease alone does not exclude a second process:  *)
(* its manager would take over the record of a run that is still alive).   *)
(* Roles says which manager may write the record and on whose behalf.      *)
(***************************************************************************)
Up == {"recovering", "ready", "shutting"}

OneUp ==
  \A m, n \in Managers : m # n /\ mgr[m] \in Up /\ mgr[n] \in Up =>
    ProcOf[m] = ProcOf[n] /\ "shutting" \in {mgr[m], mgr[n]}

\* A registered run is the manager's own and its thread exists.
Owning ==
  \A m \in Managers : control[m] # None =>
    /\ pc[control[m]] \in Live \cup {"reserved"} /\ owner[control[m]] = m
    /\ mgr[m] \in {"ready", "shutting"}
    /\ pc[control[m]] = "reserved" => section[m] \in {"persist", "spawn"}

Duties ==
  \A m \in Managers :
    /\ mgr[m] \notin Up => section[m] = "none"
    /\ section[m] = "recover" =>
         mgr[m] = "recovering" /\ \A n \in Managers : control[n] = None
    /\ section[m] \in {"start", "persist", "spawn", "stop"} =>
         mgr[m] = "ready" /\ asked[m] \in Requests
    /\ section[m] = "start" => control[m] = None
    /\ section[m] \in {"stop", "shutdown"} => control[m] # None
    /\ section[m] = "shutdown" => mgr[m] = "shutting"
    /\ section[m] \in {"begin", "before", "after", "finish", "failing"} =>
         control[m] # None /\ lock[m] = control[m] /\ pc[control[m]] = section[m]

Types ==
  /\ mgr \in [Managers -> Up \cup {"new", "dead"}]
  /\ asked \in [Managers -> Requests \cup {None}]
  /\ DOMAIN seen = Managers

Roles == Types /\ OneUp /\ Owning /\ Duties

\* All managers live in one process, or processes do not overlap.
Solo == OneProcess \/ \A m, n \in Managers : ProcOf[m] = ProcOf[n]

\* No two managers have a worker at the same time.
LEMMA SoleWorker ==
  ASSUME Inv, Roles, NEW m \in Managers, NEW n \in Managers,
         control[m] # None, control[n] # None
  PROVE  m = n
BY AutonomyAssumption DEF Inv, Shape, Held, Roles, OneUp, Owning, Up

LEMMA RolesInit == Init => Roles
BY AutonomyAssumption DEF Init, Roles, Types, OneUp, Owning, Duties, Up

LEMMA RolesNext ==
  ASSUME Solo, Inv, Roles, Inv', [Next]_vars
  PROVE  Roles'
<1> USE AutonomyAssumption
    DEF Solo, Inv, Shape, Locked, Held, Starting, Roles, Types, OneUp, Owning, Duties, Up,
        Live, Places, Sections, WorkerAlive, mgrVars, lockVars, runVars
<1>1. ASSUME NEW m \in Managers, ConstructRead(m) PROVE Roles'
  <2> USE <1>1 DEF ConstructRead, MayConstruct
  <2>1. \A n \in Managers : n # m /\ mgr[n] \in Up => ProcOf[n] = ProcOf[m] /\ mgr[n] = "shutting"
    OBVIOUS
  <2>2. section[m] = "none" /\ control[m] = None
    OBVIOUS
  <2>3. CASE StaleRun(ProcOf[m])
    <3>1. \A n \in Managers : control[n] = None
      BY <2>1, <2>2, <2>3 DEF StaleRun
    <3>2. /\ mgr' = [mgr EXCEPT ![m] = "recovering"]
          /\ section' = [section EXCEPT ![m] = "recover"]
          /\ asked' = [asked EXCEPT ![m] = None]
          /\ lock' = [lock EXCEPT ![m] = "api"]
          /\ UNCHANGED <<control, pc, owner, seen>>
      BY <2>3 DEF Take
    <3> QED  BY <2>1, <2>2, <3>1, <3>2
  <2>4. CASE ~StaleRun(ProcOf[m])
    <3>1. /\ mgr' = [mgr EXCEPT ![m] = "ready"]
          /\ UNCHANGED <<control, pc, owner, seen, section, asked, lock>>
      BY <2>4
    <3> QED  BY <2>1, <2>2, <3>1
  <2> QED  BY <2>3, <2>4
<1>2. ASSUME NEW m \in Managers, NEW o \in Outcomes, RecoverWrite(m, o) PROVE Roles'
  BY <1>2 DEF RecoverWrite, Persist, Drop
<1>3. ASSUME NEW m \in Managers, NEW q \in Requests, IntentReplayed(m, q) PROVE Roles'
  BY <1>3 DEF IntentReplayed
<1>4. ASSUME NEW m \in Managers, NEW q \in Requests, StartRead(m, q) PROVE Roles'
  BY <1>4 DEF StartRead, Take
<1>5. ASSUME NEW m \in Managers, NEW r \in Runs, StartReserve(m, r) PROVE Roles'
  BY <1>5 DEF StartReserve, MayReserve
<1>6. ASSUME NEW m \in Managers, StartRefused(m) PROVE Roles'
  BY <1>6 DEF StartRefused, Drop
<1>7. ASSUME NEW m \in Managers, NEW o \in Outcomes, StartPersist(m, o) PROVE Roles'
  BY <1>7 DEF StartPersist, Persist, Unregister, Drop
<1>8. ASSUME NEW m \in Managers, Spawn(m) PROVE Roles'
  BY <1>8 DEF Spawn, Drop
<1>9. ASSUME NEW m \in Managers, NEW o \in Outcomes, SpawnFails(m, o) PROVE Roles'
  BY <1>9 DEF SpawnFails, Persist, Unregister, Drop
<1>10. ASSUME NEW m \in Managers, NEW q \in Requests, StopRead(m, q) PROVE Roles'
  BY <1>10 DEF StopRead, MayStop, Take
<1>11. ASSUME NEW m \in Managers, NEW o \in Outcomes, StopWrite(m, o) PROVE Roles'
  BY <1>11 DEF StopWrite, Persist, Drop
<1>12. ASSUME NEW m \in Managers, ShutdownRead(m) PROVE Roles'
  BY <1>12 DEF ShutdownRead, Take
<1>13. ASSUME NEW m \in Managers, NEW o \in Outcomes, ShutdownWrite(m, o) PROVE Roles'
  BY <1>13 DEF ShutdownWrite, Persist, Drop
<1>14. ASSUME NEW r \in Runs, Enter(r) PROVE Roles'
  BY <1>14 DEF Enter, Take
<1>15. ASSUME NEW r \in Runs, NEW o \in Outcomes, Begin(r, o) PROVE Roles'
  BY <1>15 DEF Begin, Inside, Persist, At, Drop
<1>16. ASSUME NEW r \in Runs, Execute(r) PROVE Roles'
  BY <1>16 DEF Execute, At
<1>17. ASSUME NEW r \in Runs, NEW o \in Outcomes, SafePoint(r, o) PROVE Roles'
  BY <1>17 DEF SafePoint, Inside, Passed, Persist, At, Drop
<1>18. ASSUME NEW r \in Runs, Preflight(r) PROVE Roles'
  BY <1>18 DEF Preflight, At
<1>19. ASSUME NEW r \in Runs, NEW report \in {"delivered", "blocked", "failed"}, StepReturns(r, report) PROVE Roles'
  BY <1>19 DEF StepReturns, At
<1>20. ASSUME NEW r \in Runs, StepRaises(r) PROVE Roles'
  BY <1>20 DEF StepRaises, At
<1>21. ASSUME NEW r \in Runs, Decide(r) PROVE Roles'
  BY <1>21 DEF Decide, At
<1>22. ASSUME NEW r \in Runs, NEW o \in Outcomes, Finish(r, o) PROVE Roles'
  BY <1>22 DEF Finish, Inside, Disowned, Persist, At, Drop
<1>23. ASSUME NEW r \in Runs, NEW o \in Outcomes, RecordFailure(r, o) PROVE Roles'
  BY <1>23 DEF RecordFailure, Inside, Disowned, Persist, At, Drop
<1>24. ASSUME NEW r \in Runs, Release(r) PROVE Roles'
  BY <1>24 DEF Release, Unregister, Forget
<1>25. ASSUME NEW p \in Procs, Crash(p) PROVE Roles'
  BY <1>25 DEF Crash, Forget
<1>26. CASE UNCHANGED vars
  BY <1>26 DEF vars
<1> HIDE DEF Solo, Inv, Shape, Locked, Held, Starting, Roles, Types, OneUp, Owning, Duties, Up,
        Live, Places, Sections, WorkerAlive, mgrVars, lockVars, runVars
<1> QED
  BY <1>1, <1>2, <1>3, <1>4, <1>5, <1>6, <1>7, <1>8, <1>9, <1>10, <1>11, <1>12, <1>13, <1>14, <1>15, <1>16, <1>17, <1>18, <1>19, <1>20, <1>21, <1>22, <1>23, <1>24, <1>25, <1>26
  DEF Next, ManagerStep, WorkerStep

-----------------------------------------------------------------------------
\* The fields of a record after each way of rewriting it.
LEMMA AdvanceFields ==
  ASSUME NEW rt \in Runtime, NEW s \in States
  PROVE  /\ Advance(rt, s) \in Runtime
         /\ Advance(rt, s).state = s
         /\ Advance(rt, s).run = rt.run
         /\ Advance(rt, s).receipts = rt.receipts
<1>1. PICK n \in Nat : n = rt.rev + 1
  BY DEF Runtime
<1>2. Advance(rt,s) = [rt EXCEPT !.state = s, !.rev = n]
  BY <1>1 DEF Advance
<1> QED BY <1>2 DEF Runtime

LEMMA InteractiveFields ==
  ASSUME NEW rt \in Runtime
  PROVE  /\ Interactive(rt) \in Runtime
         /\ Interactive(rt).state = rt.state
         /\ Interactive(rt).run = rt.run
         /\ Interactive(rt).receipts = rt.receipts
BY DEF Interactive, Runtime

LEMMA ReceiptedFields ==
  ASSUME NEW rt \in Runtime, NEW q \in Requests
  PROVE  /\ Receipted(rt, q) \in Runtime
         /\ Receipted(rt, q).state = rt.state
         /\ Receipted(rt, q).run = rt.run
         /\ ~InReceipts(rt, q) /\ Len(rt.receipts) < ReceiptLimit =>
              Receipted(rt, q).receipts = Append(rt.receipts, q)
<1> DEFINE all == Append(rt.receipts, q)
           kept == IF InReceipts(rt, q) THEN rt.receipts
                   ELSE IF Len(all) > ReceiptLimit THEN Tail(all) ELSE all
<1>1. rt.receipts \in Seq(Requests) /\ all \in Seq(Requests) /\ all # <<>>
      /\ Len(all) = Len(rt.receipts) + 1
  BY DEF Runtime
<1>2. Tail(all) \in Seq(Requests)
  BY <1>1
<1>3. kept \in Seq(Requests)
      /\ (~InReceipts(rt, q) /\ Len(rt.receipts) < ReceiptLimit => kept = all)
  BY <1>1, <1>2, AutonomyAssumption
<1>4. Receipted(rt, q) = [rt EXCEPT !.receipts = kept]
  BY DEF Receipted
<1> HIDE DEF kept, all
<1>5. PICK k \in Seq(Requests) : k = kept
  BY <1>3
<1>6. Receipted(rt, q) = [rt EXCEPT !.receipts = k]
  BY <1>4, <1>5
<1>7. /\ Receipted(rt, q) \in Runtime
         /\ Receipted(rt, q).state = rt.state
         /\ Receipted(rt, q).run = rt.run
         /\ Receipted(rt, q).receipts = k
  BY <1>6 DEF Runtime
<1> QED BY <1>3, <1>5, <1>7 DEF all

LEMMA StartFields ==
  ASSUME NEW rt \in Runtime, NEW q \in Requests, NEW r \in Runs
  PROVE  /\ StartRecord(rt, r, q) \in Runtime
         /\ StartRecord(rt, r, q).state = "starting"
         /\ StartRecord(rt, r, q).run = r
         /\ StartRecord(rt, r, q).receipts = Receipted(Advance(rt, "starting"), q).receipts
<1>0. "starting" \in States
  BY DEF States, Active
<1>1. PICK one \in Runtime : one = Receipted(Advance(rt, "starting"), q)
  BY <1>0, AdvanceFields, ReceiptedFields
<1>2. one.state = "starting"
  BY <1>0, <1>1, AdvanceFields, ReceiptedFields
<1>3. StartRecord(rt, r, q) = [one EXCEPT !.run = r, !.mode = "autonomous"]
  BY <1>1 DEF StartRecord
<1>4. QED
  BY <1>1, <1>2, <1>3 DEF Runtime

LEMMA TargetFields ==
  ASSUME NEW rt \in Runtime, NEW intent
  PROVE  /\ SafePointTarget(rt, intent) \in Runtime
         /\ SafePointTarget(rt, intent).run = rt.run
         /\ SafePointTarget(rt, intent).receipts = rt.receipts
         /\ IF intent = "none" THEN SafePointTarget(rt, intent).state = "running"
            ELSE SafePointTarget(rt, intent).state \notin Active
<1>1. {"running", "cancelled", "paused", "interrupted"} \subseteq States
  BY DEF States, Active, Results
<1>2. ASSUME NEW s \in {"running", "cancelled", "paused", "interrupted"}
      PROVE  /\ Advance(rt, s) \in Runtime /\ Interactive(Advance(rt, s)) \in Runtime
             /\ Advance(rt, s).state = s /\ Interactive(Advance(rt, s)).state = s
             /\ Advance(rt, s).run = rt.run /\ Interactive(Advance(rt, s)).run = rt.run
             /\ Advance(rt, s).receipts = rt.receipts
             /\ Interactive(Advance(rt, s)).receipts = rt.receipts
  <2>1. PICK a \in Runtime :
          /\ a = Advance(rt, s) /\ a.state = s /\ a.run = rt.run /\ a.receipts = rt.receipts
    BY <1>1, AdvanceFields
  <2> QED  BY <2>1, InteractiveFields
<1>3. QED
  BY <1>2 DEF SafePointTarget, Active

(***************************************************************************)
(* The record, what a section has read of it, a run's result, and for whom *)
(* a lock is held.                                                         *)
(***************************************************************************)
Guarded ==
  \A m \in Managers :
    /\ lock[m] # None => section[m] # "none"
    /\ lock[m] \in Runs => section[m] \in {"begin", "before", "after", "finish", "failing"}

Records ==
  /\ store \in Runtime
  /\ read \in [Managers -> Runtime \cup {None}]
  /\ \A m \in Managers : section[m] # "none" => read[m] \in Runtime
  /\ result \in [Runs -> Results \cup {"none"}]
  /\ \A r \in Runs : pc[r] \in {"decide", "finish"} => result[r] \in Results
  /\ Guarded

LEMMA RecordsInit == Init => Records
BY AutonomyAssumption DEF Init, Records, Guarded, Runtime, States

LEMMA RecordsNext ==
  ASSUME Inv, Roles, Records, [Next]_vars
  PROVE  Records'
<1> USE AutonomyAssumption
    DEF Records, Guarded, Inv, Shape, Locked, Held, Starting, Places, Live, Sections, mgrVars, lockVars, runVars
<1>o. \A r \in Runs : pc[r] \in Live => owner[r] \in Managers
  OBVIOUS
<1>h. \A r \in Runs : pc[r] \in Live /\ lock[owner[r]] = r => read[owner[r]] \in Runtime
  BY <1>o
<1>s. {"running", "starting", "interrupted", "failed", "pause_requested",
       "cancel_requested"} \cup Results \subseteq States
  BY DEF States, Active, Results
<1> USE DEF Results
<1>1. ASSUME NEW m \in Managers, ConstructRead(m) PROVE Records'
  BY <1>1 DEF ConstructRead, MayConstruct, StaleRun, Take
<1>2. ASSUME NEW m \in Managers, NEW o \in Outcomes, RecoverWrite(m, o) PROVE Records'
  <2>1. Interactive(Advance(read[m], "interrupted")) \in Runtime
    BY <1>2, <1>o, <1>s, AdvanceFields, InteractiveFields DEF RecoverWrite, Drop
  <2>2. store' \in Runtime
    BY <1>2, <2>1 DEF RecoverWrite, Persist
  <2> QED  BY <1>2, <1>o, <2>2 DEF RecoverWrite, Drop, At
<1>3. ASSUME NEW m \in Managers, NEW q \in Requests, IntentReplayed(m, q) PROVE Records'
  BY <1>3 DEF IntentReplayed
<1>4. ASSUME NEW m \in Managers, NEW q \in Requests, StartRead(m, q) PROVE Records'
  BY <1>4 DEF StartRead, Take
<1>5. ASSUME NEW m \in Managers, NEW r \in Runs, StartReserve(m, r) PROVE Records'
  BY <1>5 DEF StartReserve, MayReserve
<1>6. ASSUME NEW m \in Managers, StartRefused(m) PROVE Records'
  BY <1>6 DEF StartRefused, Drop
<1>7. ASSUME NEW m \in Managers, NEW o \in Outcomes, StartPersist(m, o) PROVE Records'
  <2>1. control[m] \in Runs /\ asked[m] \in Requests /\ read[m] \in Runtime
    BY <1>7 DEF StartPersist, Roles, Duties
  <2>2. StartRecord(read[m], control[m], asked[m]) \in Runtime
    BY <2>1, StartFields
  <2> QED  BY <1>7, <2>1, <2>2 DEF StartPersist, Persist, Unregister, Drop
<1>8. ASSUME NEW m \in Managers, Spawn(m) PROVE Records'
  BY <1>8 DEF Spawn, Drop
<1>9. ASSUME NEW m \in Managers, NEW o \in Outcomes, SpawnFails(m, o) PROVE Records'
  <2>1. Interactive(Advance(read[m], "interrupted")) \in Runtime
    BY <1>9, <1>o, <1>s, AdvanceFields, InteractiveFields DEF SpawnFails, Drop
  <2>2. store' \in Runtime
    BY <1>9, <2>1 DEF SpawnFails, Persist
  <2> QED  BY <1>9, <1>o, <2>2 DEF SpawnFails, Drop, At
<1>10. ASSUME NEW m \in Managers, NEW q \in Requests, StopRead(m, q) PROVE Records'
  BY <1>10 DEF StopRead, MayStop, Take
<1>11. ASSUME NEW m \in Managers, NEW o \in Outcomes, StopWrite(m, o) PROVE Records'
  <2>1. asked[m] \in Requests /\ read[m] \in Runtime
    BY <1>11 DEF StopWrite, Roles, Duties
  <2>2. \A s \in {"pause_requested", "cancel_requested"} :
           Receipted(Advance(read[m], s), asked[m]) \in Runtime
    BY <1>s, <2>1, AdvanceFields, ReceiptedFields
  <2> QED  BY <1>11, <2>1, <2>2 DEF StopWrite, Persist, Drop
<1>12. ASSUME NEW m \in Managers, ShutdownRead(m) PROVE Records'
  BY <1>12 DEF ShutdownRead, Take
<1>13. ASSUME NEW m \in Managers, NEW o \in Outcomes, ShutdownWrite(m, o) PROVE Records'
  <2>1. Interactive(Advance(read[m], "interrupted")) \in Runtime
    BY <1>13, <1>o, <1>s, AdvanceFields, InteractiveFields DEF ShutdownWrite, Drop
  <2>2. store' \in Runtime
    BY <1>13, <2>1 DEF ShutdownWrite, Persist
  <2> QED  BY <1>13, <1>o, <2>2 DEF ShutdownWrite, Drop, At
<1>14. ASSUME NEW r \in Runs, Enter(r) PROVE Records'
  BY <1>14 DEF Enter, Take
<1>15. ASSUME NEW r \in Runs, NEW o \in Outcomes, Begin(r, o) PROVE Records'
  <2>1. read[owner[r]] \in Runtime
    BY <1>15, <1>h DEF Begin, Inside
  <2>2. Advance(read[owner[r]], "running") \in Runtime
    BY <1>s, <2>1, AdvanceFields
  <2>3. store' \in Runtime
    BY <1>15, <2>2 DEF Begin, Inside, Persist
  <2> QED  BY <1>15, <1>o, <2>3 DEF Begin, Inside, Drop, At
<1>16. ASSUME NEW r \in Runs, Execute(r) PROVE Records'
  BY <1>16 DEF Execute, At
<1>17. ASSUME NEW r \in Runs, NEW o \in Outcomes, SafePoint(r, o) PROVE Records'
  <2>1. SafePointTarget(read[owner[r]], SafePointIntent(owner[r], r)) \in Runtime
    BY <1>17, <1>o, TargetFields DEF SafePoint, Inside
  <2>2. store' \in Runtime
    BY <1>17, <2>1 DEF SafePoint, Persist
  <2>3. PICK p \in {"exit", "failing", "preflight", "before", "decide"} :
           At(r, p) /\ (p = "decide" => result[r] # "none")
    BY <1>17 DEF SafePoint, Inside, Passed
  <2>4. Drop(owner[r]) /\ UNCHANGED result /\ owner[r] \in Managers
    BY <1>17, <1>o DEF SafePoint, Inside
  <2> QED  BY <2>2, <2>3, <2>4 DEF At, Drop
<1>18. ASSUME NEW r \in Runs, Preflight(r) PROVE Records'
  BY <1>18 DEF Preflight, At
<1>19. ASSUME NEW r \in Runs, NEW report \in {"delivered", "blocked", "failed"}, StepReturns(r, report) PROVE Records'
  BY <1>19 DEF StepReturns, At
<1>20. ASSUME NEW r \in Runs, StepRaises(r) PROVE Records'
  BY <1>20 DEF StepRaises, At
<1>21. ASSUME NEW r \in Runs, Decide(r) PROVE Records'
  BY <1>21 DEF Decide, At
<1>22. ASSUME NEW r \in Runs, NEW o \in Outcomes, Finish(r, o) PROVE Records'
  <2>1. result[r] \in Results /\ read[owner[r]] \in Runtime
    BY <1>22, <1>o DEF Finish, Inside
  <2>2. Advance(read[owner[r]], result[r]) \in Runtime
    BY <1>s, <2>1, AdvanceFields
  <2>3. store' \in Runtime
    BY <1>22, <2>2 DEF Finish, Persist
  <2> QED  BY <1>22, <1>o, <2>3 DEF Finish, Inside, Drop, At
<1>23. ASSUME NEW r \in Runs, NEW o \in Outcomes, RecordFailure(r, o) PROVE Records'
  <2>1. read[owner[r]] \in Runtime
    BY <1>23, <1>h DEF RecordFailure, Inside
  <2>2. Advance(read[owner[r]], "failed") \in Runtime
    BY <1>s, <2>1, AdvanceFields
  <2>3. store' \in Runtime
    BY <1>23, <2>2 DEF RecordFailure, Inside, Persist
  <2> QED  BY <1>23, <1>o, <2>3 DEF RecordFailure, Inside, Drop, At
<1>24. ASSUME NEW r \in Runs, Release(r) PROVE Records'
  BY <1>24 DEF Release, Unregister, Forget
<1>25. ASSUME NEW p \in Procs, Crash(p) PROVE Records'
  BY <1>25 DEF Crash, Forget
<1>26. CASE UNCHANGED vars
  BY <1>26 DEF vars
<1> HIDE DEF Results, Records, Inv, Shape, Locked, Held, Starting, Places, Live, Sections, mgrVars, lockVars, runVars
<1> QED
  BY <1>1, <1>2, <1>3, <1>4, <1>5, <1>6, <1>7, <1>8, <1>9, <1>10, <1>11, <1>12, <1>13, <1>14, <1>15, <1>16, <1>17, <1>18, <1>19, <1>20, <1>21, <1>22, <1>23, <1>24, <1>25, <1>26
  DEF Next, ManagerStep, WorkerStep

-----------------------------------------------------------------------------
(***************************************************************************)
(* Every request that took effect is in the record's receipts, which no    *)
(* other section rewrites between a manager's read and its write.          *)
(***************************************************************************)
Answered(rt) == {rt.receipts[i] : i \in DOMAIN rt.receipts}

Receipts ==
  /\ Cardinality(Answered(store)) = Len(store.receipts)
  /\ \A m \in Managers : section[m] # "none" => read[m].receipts = store.receipts
  /\ \A m \in Managers :
       section[m] \in {"start", "persist", "stop"} => asked[m] \notin Answered(store)
  /\ applied \in [Requests -> Nat]
  /\ \A q \in Requests : applied[q] <= 1 /\ (applied[q] = 1 => q \in Answered(store))

\* The clients send no more requests than the record keeps receipts of.
FewRequests == IsFiniteSet(Requests) /\ Cardinality(Requests) <= ReceiptLimit

LEMMA ReceiptsInit == Init => Receipts
<1> SUFFICES ASSUME Init PROVE Receipts
  OBVIOUS
<1>1. Answered(store) = {} /\ Len(store.receipts) = 0
  BY DEF Init, Answered
<1>2. Cardinality(Answered(store)) = Len(store.receipts)
  BY <1>1, FS_EmptySet
<1>3. /\ applied \in [Requests -> Nat] /\ \A q \in Requests : applied[q] = 0
      /\ \A m \in Managers : section[m] = "none"
  BY DEF Init
<1> QED  BY <1>2, <1>3 DEF Receipts

\* A section that answers a request is the only one under way.
LEMMA SoleSection ==
  ASSUME Inv, Roles, NEW m \in Managers, section[m] \in {"persist", "stop"},
         NEW n \in Managers, n # m
  PROVE  section[n] = "none"
<1>1. control[m] # None /\ mgr[m] = "ready"
  BY AutonomyAssumption DEF Inv, Starting, Roles, Duties
<1>2. control[n] = None
  BY <1>1, SoleWorker
<1>3. mgr[n] \in Up => mgr[n] = "shutting"
  BY <1>1 DEF Roles, OneUp, Up
<1> QED  BY <1>2, <1>3 DEF Inv, Shape, Sections, Roles, Duties

\* Adding a request that was not answered.
LEMMA Answers ==
  ASSUME FewRequests, NEW rt \in Runtime, NEW q \in Requests, q \notin Answered(rt),
         Cardinality(Answered(rt)) = Len(rt.receipts), NEW s \in States,
         NEW new \in Runtime, new.receipts = Receipted(Advance(rt, s), q).receipts
  PROVE  /\ Answered(new) = Answered(rt) \cup {q}
         /\ Cardinality(Answered(new)) = Len(new.receipts)
<1> USE DEF FewRequests
<1>1. PICK a \in Runtime : a = Advance(rt, s) /\ a.receipts = rt.receipts
  BY AdvanceFields
<1>2. rt.receipts \in Seq(Requests) /\ Answered(rt) \subseteq Requests
  BY DEF Answered, Runtime
<1>3. IsFiniteSet(Answered(rt)) /\ Cardinality(Answered(rt)) \in Nat
  BY <1>2, FS_Subset, FS_CardinalityType
<1>4. Cardinality(Answered(rt)) < Cardinality(Requests)
  <2>1. Answered(rt) \cup {q} \subseteq Requests
    BY <1>2
  <2>2. Cardinality(Answered(rt) \cup {q}) = Cardinality(Answered(rt)) + 1
    BY <1>3, FS_AddElement
  <2>3. Cardinality(Answered(rt) \cup {q}) <= Cardinality(Requests)
    BY <2>1, FS_Subset
  <2>4. Cardinality(Requests) \in Nat
    BY FS_CardinalityType
  <2> QED  BY <1>3, <2>2, <2>3, <2>4
<1>5. ~InReceipts(a, q) /\ Len(a.receipts) < ReceiptLimit
  <2>1. ~InReceipts(a, q)
    BY <1>1 DEF InReceipts, Answered
  <2>2. Cardinality(Requests) \in Nat
    BY FS_CardinalityType
  <2> QED  BY <1>1, <1>3, <1>4, <2>1, <2>2, AutonomyAssumption
<1>6. new.receipts = Append(rt.receipts, q)
  BY <1>1, <1>5, ReceiptedFields
<1>7. Answered(new) = Answered(rt) \cup {q}
  BY <1>2, <1>6 DEF Answered
<1>8. Len(new.receipts) = Len(rt.receipts) + 1
  BY <1>2, <1>6
<1> QED  BY <1>3, <1>7, <1>8, FS_AddElement

\* A step that leaves the receipts alone.
LEMMA QuietReceipts ==
  ASSUME Receipts, store'.receipts = store.receipts, applied' = applied,
         \A m \in Managers :
           /\ section'[m] # "none" => read'[m].receipts = store.receipts
           /\ section'[m] \in {"start", "persist", "stop"} => asked'[m] \notin Answered(store)
  PROVE  Receipts'
<1>1. Answered(store') = Answered(store)
  BY DEF Answered
<1> QED  BY <1>1 DEF Receipts

\* The receipt of a request that starts a run or stops one.
LEMMA AnswerReceipts ==
  ASSUME Inv, Roles, Records, Receipts, FewRequests,
         NEW m \in Managers, section[m] \in {"persist", "stop"},
         NEW s \in States, NEW new \in Runtime, NEW o,
         new.receipts = Receipted(Advance(read[m], s), asked[m]).receipts,
         store' = IF o = "refused" THEN store ELSE new,
         applied' = [applied EXCEPT ![asked[m]] = IF o = "refused" THEN @ ELSE @ + 1],
         \A n \in Managers : n # m => section'[n] = section[n],
         \/ section'[m] = "none"
         \/ o # "refused" /\ section'[m] = "spawn" /\ read'[m] = new
  PROVE  Receipts'
<1> DEFINE q == asked[m]
<1>1. /\ q \in Requests /\ q \notin Answered(store) /\ read[m] \in Runtime /\ store \in Runtime
      /\ read[m].receipts = store.receipts
  BY DEF Roles, Duties, Records, Receipts
<1>2. \A n \in Managers : n # m => section[n] = "none"
  BY SoleSection
<1>3. CASE o = "refused"
  <2>1. applied' = applied
    BY <1>1, <1>3 DEF Receipts
  <2> QED  BY <1>2, <1>3, <2>1, QuietReceipts
<1>4. CASE o # "refused"
  <2>1. Answered(read[m]) = Answered(store)
    BY <1>1 DEF Answered
  <2>2. /\ Answered(new) = Answered(store) \cup {q}
        /\ Cardinality(Answered(new)) = Len(new.receipts)
    BY <1>1, <2>1, Answers DEF Receipts
  <2>3. applied[q] = 0
    BY <1>1 DEF Receipts
  <2>4. applied' = [applied EXCEPT ![q] = 1]
    BY <1>1, <1>4, <2>3 DEF Receipts
  <2> HIDE DEF q
  <2>5. applied' \in [Requests -> Nat]
        /\ \A p \in Requests : applied'[p] <= 1 /\ (applied'[p] = 1 => p \in Answered(new))
    BY <1>1, <2>2, <2>4 DEF Receipts
  <2> QED  BY <1>2, <1>4, <2>2, <2>5 DEF Receipts
<1> QED  BY <1>3, <1>4

LEMMA ReceiptsNext ==
  ASSUME Inv, Roles, Records, Receipts, FewRequests, [Next]_vars
  PROVE  Receipts'
<1> USE AutonomyAssumption DEF Receipts, mgrVars, lockVars, runVars
<1>t. /\ section \in [Managers -> Sections] /\ read \in [Managers -> Runtime \cup {None}]
      /\ asked \in [Managers -> Requests \cup {None}] /\ store \in Runtime
      /\ \A m \in Managers : section[m] # "none" => read[m] \in Runtime
  BY DEF Inv, Shape, Records, Roles, Types
<1>h. \A r \in Runs : pc[r] \in Live /\ lock[owner[r]] = r =>
        owner[r] \in Managers /\ read[owner[r]] \in Runtime
          /\ read[owner[r]].receipts = store.receipts
  BY DEF Inv, Held, Records, Guarded
<1>s. {"running", "starting", "interrupted", "failed", "pause_requested",
       "cancel_requested"} \cup Results \subseteq States
  BY DEF States, Active, Results
<1>1. ASSUME NEW m \in Managers, ConstructRead(m) PROVE Receipts'
  BY <1>1, <1>t, QuietReceipts DEF ConstructRead, MayConstruct, StaleRun, Take
<1>2. ASSUME NEW m \in Managers, NEW o \in Outcomes, RecoverWrite(m, o) PROVE Receipts'
  <2>1. PICK one \in Runtime : one = Advance(read[m], "interrupted") /\ one.receipts = store.receipts
    BY <1>2, <1>s, <1>t, AdvanceFields DEF RecoverWrite
  <2>2. Interactive(one).receipts = store.receipts
    BY <2>1, InteractiveFields
  <2>3. store'.receipts = store.receipts
    BY <1>2, <2>1, <2>2 DEF RecoverWrite, Persist
  <2>4. applied' = applied /\ Drop(m)
    BY <1>2 DEF RecoverWrite
  <2> QED  BY <1>t, <2>3, <2>4, QuietReceipts DEF Drop
<1>3. ASSUME NEW m \in Managers, NEW q \in Requests, IntentReplayed(m, q) PROVE Receipts'
  BY <1>3, <1>t, QuietReceipts DEF IntentReplayed
<1>4. ASSUME NEW m \in Managers, NEW q \in Requests, StartRead(m, q) PROVE Receipts'
  BY <1>4, <1>t, QuietReceipts DEF StartRead, Take, Known, InReceipts, Answered
<1>5. ASSUME NEW m \in Managers, NEW r \in Runs, StartReserve(m, r) PROVE Receipts'
  BY <1>5, <1>t, QuietReceipts DEF StartReserve, MayReserve
<1>6. ASSUME NEW m \in Managers, StartRefused(m) PROVE Receipts'
  BY <1>6, <1>t, QuietReceipts DEF StartRefused, Drop
<1>7. ASSUME NEW m \in Managers, NEW o \in Outcomes, StartPersist(m, o) PROVE Receipts'
  <2>1. control[m] \in Runs /\ asked[m] \in Requests /\ read[m] \in Runtime
    BY <1>7, <1>t DEF StartPersist, Inv, Starting, Roles, Duties
  <2>2. PICK new \in Runtime :
           /\ new = StartRecord(read[m], control[m], asked[m])
           /\ new.receipts = Receipted(Advance(read[m], "starting"), asked[m]).receipts
    BY <2>1, StartFields
  <2>3. /\ section[m] \in {"persist", "stop"}
        /\ store' = IF o = "refused" THEN store ELSE new
        /\ applied' = [applied EXCEPT ![asked[m]] = IF o = "refused" THEN @ ELSE @ + 1]
    BY <1>7, <2>2 DEF StartPersist, Persist
  <2>4. /\ \A n \in Managers : n # m => section'[n] = section[n]
        /\ \/ section'[m] = "none"
           \/ o # "refused" /\ section'[m] = "spawn" /\ read'[m] = new
    BY <1>7, <1>t, <2>2 DEF StartPersist, Drop
  <2>5. "starting" \in States
    BY <1>s
  <2> HIDE DEF Receipts
  <2> QED  BY <2>2, <2>3, <2>4, <2>5, AnswerReceipts
<1>8. ASSUME NEW m \in Managers, Spawn(m) PROVE Receipts'
  BY <1>8, <1>t, QuietReceipts DEF Spawn, Drop
<1>9. ASSUME NEW m \in Managers, NEW o \in Outcomes, SpawnFails(m, o) PROVE Receipts'
  <2>1. PICK one \in Runtime : one = Advance(read[m], "interrupted") /\ one.receipts = store.receipts
    BY <1>9, <1>s, <1>t, AdvanceFields DEF SpawnFails
  <2>2. Interactive(one).receipts = store.receipts
    BY <2>1, InteractiveFields
  <2>3. store'.receipts = store.receipts
    BY <1>9, <2>1, <2>2 DEF SpawnFails, Persist
  <2>4. applied' = applied /\ Drop(m)
    BY <1>9 DEF SpawnFails
  <2> QED  BY <1>t, <2>3, <2>4, QuietReceipts DEF Drop
<1>10. ASSUME NEW m \in Managers, NEW q \in Requests, StopRead(m, q) PROVE Receipts'
  BY <1>10, <1>t, QuietReceipts DEF StopRead, Take, Known, InReceipts, Answered
<1>11. ASSUME NEW m \in Managers, NEW o \in Outcomes, StopWrite(m, o) PROVE Receipts'
  <2>1. asked[m] \in Requests /\ read[m] \in Runtime
    BY <1>11, <1>t DEF StopWrite, Roles, Duties
  <2>2. PICK s \in {"cancel_requested", "pause_requested"} :
           s = IF asked[m][1] = "cancel" THEN "cancel_requested" ELSE "pause_requested"
    OBVIOUS
  <2>3. PICK a \in Runtime : a = Advance(read[m], s)
    BY <1>s, <2>1, <2>2, AdvanceFields
  <2>4. PICK new \in Runtime : new = Receipted(Advance(read[m], s), asked[m])
    BY <2>1, <2>3, ReceiptedFields
  <2>5. /\ section[m] \in {"persist", "stop"}
        /\ store' = IF o = "refused" THEN store ELSE new
        /\ applied' = [applied EXCEPT ![asked[m]] = IF o = "refused" THEN @ ELSE @ + 1]
    BY <1>11, <2>2, <2>4 DEF StopWrite, Persist
  <2>6. section'[m] = "none" /\ \A n \in Managers : n # m => section'[n] = section[n]
    BY <1>11, <1>t DEF StopWrite, Drop
  <2>7. s \in States /\ new.receipts = Receipted(Advance(read[m], s), asked[m]).receipts
    BY <1>s, <2>2, <2>4
  <2> HIDE DEF Receipts
  <2> QED  BY <2>4, <2>5, <2>6, <2>7, AnswerReceipts
<1>12. ASSUME NEW m \in Managers, ShutdownRead(m) PROVE Receipts'
  <2>1. store' = store /\ applied' = applied
    BY <1>12 DEF ShutdownRead
  <2>2. \/ /\ section' = [section EXCEPT ![m] = "shutdown"]
           /\ read' = [read EXCEPT ![m] = store] /\ asked' = [asked EXCEPT ![m] = None]
        \/ UNCHANGED <<section, read, asked>>
    BY <1>12 DEF ShutdownRead, Take
  <2>3. \A n \in Managers :
           /\ section'[n] # "none" => read'[n].receipts = store.receipts
           /\ section'[n] \in {"start", "persist", "stop"} => asked'[n] \notin Answered(store)
    BY <1>t, <2>2
  <2> HIDE DEF Receipts
  <2> QED  BY <2>1, <2>3, QuietReceipts
<1>13. ASSUME NEW m \in Managers, NEW o \in Outcomes, ShutdownWrite(m, o) PROVE Receipts'
  <2>1. PICK one \in Runtime : one = Advance(read[m], "interrupted") /\ one.receipts = store.receipts
    BY <1>13, <1>s, <1>t, AdvanceFields DEF ShutdownWrite
  <2>2. Interactive(one).receipts = store.receipts
    BY <2>1, InteractiveFields
  <2>3. store'.receipts = store.receipts
    BY <1>13, <2>1, <2>2 DEF ShutdownWrite, Persist
  <2>4. applied' = applied /\ Drop(m)
    BY <1>13 DEF ShutdownWrite
  <2> QED  BY <1>t, <2>3, <2>4, QuietReceipts DEF Drop
<1>14. ASSUME NEW r \in Runs, Enter(r) PROVE Receipts'
  <2>1. owner[r] \in Managers
    BY <1>14 DEF Enter, Inv, Held, Live
  <2>2. store' = store /\ applied' = applied
    BY <1>14 DEF Enter
  <2>3. /\ section' = [section EXCEPT ![owner[r]] = pc[r]] /\ read' = [read EXCEPT ![owner[r]] = store]
        /\ asked' = [asked EXCEPT ![owner[r]] = None]
        /\ pc[r] \in {"begin", "before", "after", "finish", "failing"}
    BY <1>14 DEF Enter, Take
  <2> QED  BY <1>t, <2>1, <2>2, <2>3, QuietReceipts
<1>15. ASSUME NEW r \in Runs, NEW o \in Outcomes, Begin(r, o) PROVE Receipts'
  <2>1. /\ owner[r] \in Managers /\ read[owner[r]] \in Runtime /\ "running" \in States
        /\ read[owner[r]].receipts = store.receipts
    BY <1>15, <1>h, <1>s DEF Begin, Inside, Live, Records
  <2>2. Advance(read[owner[r]], "running").receipts = store.receipts
    BY <2>1, AdvanceFields
  <2>3. store'.receipts = store.receipts
    BY <1>15, <2>2 DEF Begin, Inside, Persist
  <2>4. applied' = applied /\ Drop(owner[r])
    BY <1>15 DEF Begin, Inside
  <2> QED  BY <1>t, <2>1, <2>3, <2>4, QuietReceipts DEF Drop
<1>16. ASSUME NEW r \in Runs, Execute(r) PROVE Receipts'
  BY <1>16, <1>t, QuietReceipts DEF Execute, At
<1>17. ASSUME NEW r \in Runs, NEW o \in Outcomes, SafePoint(r, o) PROVE Receipts'
  <2>1. /\ owner[r] \in Managers /\ read[owner[r]] \in Runtime
        /\ read[owner[r]].receipts = store.receipts
    BY <1>17, <1>h DEF SafePoint, Inside, Live
  <2>2. SafePointTarget(read[owner[r]], SafePointIntent(owner[r], r)).receipts = store.receipts
    BY <2>1, TargetFields
  <2>3. store'.receipts = store.receipts
    BY <1>17, <2>2 DEF SafePoint, Persist
  <2>4. applied' = applied /\ Drop(owner[r])
    BY <1>17 DEF SafePoint, Inside
  <2> QED  BY <1>t, <2>1, <2>3, <2>4, QuietReceipts DEF Drop
<1>18. ASSUME NEW r \in Runs, Preflight(r) PROVE Receipts'
  BY <1>18, <1>t, QuietReceipts DEF Preflight, At
<1>19. ASSUME NEW r \in Runs, NEW report \in {"delivered", "blocked", "failed"}, StepReturns(r, report) PROVE Receipts'
  BY <1>19, <1>t, QuietReceipts DEF StepReturns, At
<1>20. ASSUME NEW r \in Runs, StepRaises(r) PROVE Receipts'
  BY <1>20, <1>t, QuietReceipts DEF StepRaises, At
<1>21. ASSUME NEW r \in Runs, Decide(r) PROVE Receipts'
  BY <1>21, <1>t, QuietReceipts DEF Decide, At
<1>22. ASSUME NEW r \in Runs, NEW o \in Outcomes, Finish(r, o) PROVE Receipts'
  <2>1. /\ owner[r] \in Managers /\ read[owner[r]] \in Runtime /\ result[r] \in States
        /\ read[owner[r]].receipts = store.receipts
    BY <1>22, <1>h, <1>s DEF Finish, Inside, Live, Records
  <2>2. Advance(read[owner[r]], result[r]).receipts = store.receipts
    BY <2>1, AdvanceFields
  <2>3. store'.receipts = store.receipts
    BY <1>22, <2>2 DEF Finish, Inside, Persist
  <2>4. applied' = applied /\ Drop(owner[r])
    BY <1>22 DEF Finish, Inside
  <2> QED  BY <1>t, <2>1, <2>3, <2>4, QuietReceipts DEF Drop
<1>23. ASSUME NEW r \in Runs, NEW o \in Outcomes, RecordFailure(r, o) PROVE Receipts'
  <2>1. /\ owner[r] \in Managers /\ read[owner[r]] \in Runtime /\ "failed" \in States
        /\ read[owner[r]].receipts = store.receipts
    BY <1>23, <1>h, <1>s DEF RecordFailure, Inside, Live, Records
  <2>2. Advance(read[owner[r]], "failed").receipts = store.receipts
    BY <2>1, AdvanceFields
  <2>3. store'.receipts = store.receipts
    BY <1>23, <2>2 DEF RecordFailure, Inside, Persist
  <2>4. applied' = applied /\ Drop(owner[r])
    BY <1>23 DEF RecordFailure, Inside
  <2> QED  BY <1>t, <2>1, <2>3, <2>4, QuietReceipts DEF Drop
<1>24. ASSUME NEW r \in Runs, Release(r) PROVE Receipts'
  BY <1>24, <1>t, QuietReceipts DEF Release
<1>25. ASSUME NEW p \in Procs, Crash(p) PROVE Receipts'
  BY <1>25, <1>t, QuietReceipts DEF Crash
<1>26. CASE UNCHANGED vars
  BY <1>26, QuietReceipts DEF vars
<1> HIDE DEF Receipts, mgrVars, lockVars, runVars
<1> QED
  BY <1>1, <1>2, <1>3, <1>4, <1>5, <1>6, <1>7, <1>8, <1>9, <1>10, <1>11, <1>12, <1>13, <1>14, <1>15, <1>16, <1>17, <1>18, <1>19, <1>20, <1>21, <1>22, <1>23, <1>24, <1>25, <1>26
  DEF Next, ManagerStep, WorkerStep

\* The registrations, the roles and the records together.
Sound == Inv /\ Roles /\ Records

LEMMA SoundAlways ==
  ASSUME Solo
  PROVE  Spec => []Sound
<1>1. Init => Sound
  BY InitInv, RolesInit, RecordsInit DEF Sound
<1>2. Sound /\ [Next]_vars => Sound'
  BY NextInv, RolesNext, RecordsNext DEF Sound
<1> QED  BY <1>1, <1>2, PTL DEF Spec

\* A request is applied at most once (handle_intent's receipts), by managers of
\* one process at a time, as long as the clients' requests of a ticket fit in
\* the receipts that are kept: the oldest receipt is dropped after that.
THEOREM RequestsAppliedOnce ==
  ASSUME Solo, FewRequests
  PROVE  Spec => []IntentAppliedOnce
<1>1. Init => Receipts
  BY ReceiptsInit
<1>2. Sound /\ Receipts /\ [Next]_vars => Receipts'
  BY ReceiptsNext DEF Sound
<1>3. Receipts => IntentAppliedOnce
  BY DEF Receipts, IntentAppliedOnce
<1> QED  BY <1>1, <1>2, <1>3, SoundAlways, PTL DEF Spec

-----------------------------------------------------------------------------
(***************************************************************************)
(* What the record says of the registered worker, while no write fails.    *)
(***************************************************************************)
\* The record is active exactly while the ready manager's worker is at work.
Tracks(m, r) ==
  /\ section[m] = "persist" => store.state \notin Active
  /\ section[m] = "spawn" => store.state = "starting" /\ store.run = r
  /\ section[m] = "stop" => store.state \in Active
  /\ pc[r] \in Live \ {"exit"} => store.state \in Active /\ store.run = r
  /\ pc[r] = "exit" => store.state \notin Active
  /\ section[m] \notin {"none", "persist"} => read[m] = store

\* Without a worker of its own, only one that is being shut down is left.
Inherits ==
  store.state \in Active => \E n \in Managers : section[n] = "shutdown" /\ store.run = control[n]

\* Once shutdown has written, the worker changes nothing that matters.
Retires(m, r) ==
  IF section[m] = "shutdown" THEN store.state \in Active /\ store.run = r
  ELSE store.state \notin Active

Follows(m) ==
  /\ mgr[m] = "ready" /\ control[m] # None => Tracks(m, control[m])
  /\ mgr[m] = "ready" /\ control[m] = None => Inherits
  /\ mgr[m] = "shutting" /\ control[m] # None => Retires(m, control[m])

Following == faults \in Nat /\ (faults = 0 => \A m \in Managers : Follows(m))

LEMMA FollowingInit == Init => Following
BY DEF Init, Following, Follows

LEMMA FaultsGrow ==
  ASSUME faults \in Nat, [Next]_vars
  PROVE  faults' \in Nat /\ faults' >= faults
<1>1. ASSUME NEW m \in Managers, ConstructRead(m) PROVE faults' \in Nat /\ faults' >= faults
  BY <1>1 DEF ConstructRead, Persist
<1>2. ASSUME NEW m \in Managers, NEW o \in Outcomes, RecoverWrite(m, o) PROVE faults' \in Nat /\ faults' >= faults
  BY <1>2 DEF RecoverWrite, Persist
<1>3. ASSUME NEW m \in Managers, NEW q \in Requests, IntentReplayed(m, q) PROVE faults' \in Nat /\ faults' >= faults
  BY <1>3 DEF IntentReplayed, Persist
<1>4. ASSUME NEW m \in Managers, NEW q \in Requests, StartRead(m, q) PROVE faults' \in Nat /\ faults' >= faults
  BY <1>4 DEF StartRead, Persist
<1>5. ASSUME NEW m \in Managers, NEW r \in Runs, StartReserve(m, r) PROVE faults' \in Nat /\ faults' >= faults
  BY <1>5 DEF StartReserve, Persist
<1>6. ASSUME NEW m \in Managers, StartRefused(m) PROVE faults' \in Nat /\ faults' >= faults
  BY <1>6 DEF StartRefused, Persist
<1>7. ASSUME NEW m \in Managers, NEW o \in Outcomes, StartPersist(m, o) PROVE faults' \in Nat /\ faults' >= faults
  BY <1>7 DEF StartPersist, Persist
<1>8. ASSUME NEW m \in Managers, Spawn(m) PROVE faults' \in Nat /\ faults' >= faults
  BY <1>8 DEF Spawn, Persist
<1>9. ASSUME NEW m \in Managers, NEW o \in Outcomes, SpawnFails(m, o) PROVE faults' \in Nat /\ faults' >= faults
  BY <1>9 DEF SpawnFails, Persist
<1>10. ASSUME NEW m \in Managers, NEW q \in Requests, StopRead(m, q) PROVE faults' \in Nat /\ faults' >= faults
  BY <1>10 DEF StopRead, Persist
<1>11. ASSUME NEW m \in Managers, NEW o \in Outcomes, StopWrite(m, o) PROVE faults' \in Nat /\ faults' >= faults
  BY <1>11 DEF StopWrite, Persist
<1>12. ASSUME NEW m \in Managers, ShutdownRead(m) PROVE faults' \in Nat /\ faults' >= faults
  BY <1>12 DEF ShutdownRead, Persist
<1>13. ASSUME NEW m \in Managers, NEW o \in Outcomes, ShutdownWrite(m, o) PROVE faults' \in Nat /\ faults' >= faults
  BY <1>13 DEF ShutdownWrite, Persist
<1>14. ASSUME NEW r \in Runs, Enter(r) PROVE faults' \in Nat /\ faults' >= faults
  BY <1>14 DEF Enter, Persist
<1>15. ASSUME NEW r \in Runs, NEW o \in Outcomes, Begin(r, o) PROVE faults' \in Nat /\ faults' >= faults
  BY <1>15 DEF Begin, Persist
<1>16. ASSUME NEW r \in Runs, Execute(r) PROVE faults' \in Nat /\ faults' >= faults
  BY <1>16 DEF Execute, Persist
<1>17. ASSUME NEW r \in Runs, NEW o \in Outcomes, SafePoint(r, o) PROVE faults' \in Nat /\ faults' >= faults
  BY <1>17 DEF SafePoint, Persist
<1>18. ASSUME NEW r \in Runs, Preflight(r) PROVE faults' \in Nat /\ faults' >= faults
  BY <1>18 DEF Preflight, Persist
<1>19. ASSUME NEW r \in Runs, NEW report \in {"delivered", "blocked", "failed"}, StepReturns(r, report) PROVE faults' \in Nat /\ faults' >= faults
  BY <1>19 DEF StepReturns, Persist
<1>20. ASSUME NEW r \in Runs, StepRaises(r) PROVE faults' \in Nat /\ faults' >= faults
  BY <1>20 DEF StepRaises, Persist
<1>21. ASSUME NEW r \in Runs, Decide(r) PROVE faults' \in Nat /\ faults' >= faults
  BY <1>21 DEF Decide, Persist
<1>22. ASSUME NEW r \in Runs, NEW o \in Outcomes, Finish(r, o) PROVE faults' \in Nat /\ faults' >= faults
  BY <1>22 DEF Finish, Persist
<1>23. ASSUME NEW r \in Runs, NEW o \in Outcomes, RecordFailure(r, o) PROVE faults' \in Nat /\ faults' >= faults
  BY <1>23 DEF RecordFailure, Persist
<1>24. ASSUME NEW r \in Runs, Release(r) PROVE faults' \in Nat /\ faults' >= faults
  BY <1>24 DEF Release, Persist
<1>25. ASSUME NEW p \in Procs, Crash(p) PROVE faults' \in Nat /\ faults' >= faults
  BY <1>25 DEF Crash, Persist
<1>26. CASE UNCHANGED vars
  BY <1>26 DEF vars
<1> QED
  BY <1>1, <1>2, <1>3, <1>4, <1>5, <1>6, <1>7, <1>8, <1>9, <1>10, <1>11, <1>12, <1>13, <1>14, <1>15, <1>16, <1>17, <1>18, <1>19, <1>20, <1>21, <1>22, <1>23, <1>24, <1>25, <1>26
  DEF Next, ManagerStep, WorkerStep

\* A step that leaves the record, the managers and the registrations alone,
\* and no worker reaches its end.
LEMMA QuietFollows ==
  ASSUME \A m \in Managers : Follows(m), UNCHANGED <<store, mgr, control>>,
         \A m \in Managers :
           /\ section'[m] = "shutdown" <=> section[m] = "shutdown"
           /\ control[m] # None =>
                /\ section'[m] = "persist" => section[m] = "persist"
                /\ section'[m] = "spawn" => section[m] = "spawn"
                /\ section'[m] = "stop" => section[m] = "stop" \/ store.state \in Active
                /\ pc'[control[m]] \in Live \ {"exit"} =>
                     pc[control[m]] \in Live \ {"exit"} \/ section[m] = "spawn"
                /\ pc'[control[m]] = "exit" => pc[control[m]] = "exit" \/ mgr[m] = "shutting"
                /\ section'[m] \notin {"none", "persist"} =>
                     read'[m] = store \/ (section[m] = section'[m] /\ read'[m] = read[m])
  PROVE  \A m \in Managers : Follows(m)'
BY DEF Follows, Tracks, Inherits, Retires, Active

\* A record that is no longer active.
LEMMA EndedFollows ==
  ASSUME store'.state \notin Active,
         \A m \in Managers :
           /\ mgr'[m] = "shutting" /\ control'[m] # None => section'[m] # "shutdown"
           /\ mgr'[m] = "ready" /\ control'[m] # None =>
                section'[m] = "none" /\ pc'[control'[m]] = "exit"
  PROVE  \A m \in Managers : Follows(m)'
BY DEF Follows, Tracks, Inherits, Retires, Active

LEMMA FollowingNext ==
  ASSUME Solo, Sound, Sound', Following, [Next]_vars
  PROVE  Following'
<1>f. faults' \in Nat /\ faults' >= faults /\ faults \in Nat
  BY FaultsGrow DEF Following
<1> SUFFICES ASSUME faults' = 0 PROVE \A k \in Managers : Follows(k)'
  BY <1>f DEF Following
<1>0. faults = 0 /\ \A m \in Managers : Follows(m)
  BY <1>f DEF Following
<1>1. Inv /\ Inv' /\ Roles /\ Roles' /\ Records
  BY DEF Sound
<1>2. \A m, n \in Managers : control[m] # None /\ control[n] # None => m = n
  BY <1>1, SoleWorker
<1>3. \A m, n \in Managers : m # n /\ mgr[m] \in Up /\ mgr[n] \in Up =>
        ProcOf[m] = ProcOf[n] /\ (mgr[m] = "shutting" \/ mgr[n] = "shutting")
  BY <1>1 DEF Roles, OneUp
<1>t. /\ section \in [Managers -> Sections] /\ read \in [Managers -> Runtime \cup {None}]
      /\ store \in Runtime /\ control \in [Managers -> Runs \cup {None}]
      /\ mgr \in [Managers -> Up \cup {"new", "dead"}]
      /\ pc \in [Runs -> Places] /\ owner \in [Runs -> Managers \cup {None}]
      /\ lock \in [Managers -> Runs \cup {None, "api"}]
      /\ asked \in [Managers -> Requests \cup {None}]
      /\ \A m \in Managers : section[m] # "none" => read[m] \in Runtime
      /\ None \notin Runs /\ ProcOf \in [Managers -> Procs]
  BY <1>1, AutonomyAssumption DEF Inv, Shape, Records, Roles, Types
<1>d. Duties /\ Owning /\ Guarded /\ Locked
  BY <1>1 DEF Roles, Inv, Records
<1>w. \A r \in Runs : pc[r] \in Live /\ lock[owner[r]] = r =>
        /\ owner[r] \in Managers /\ control[owner[r]] = r /\ read[owner[r]] \in Runtime
        /\ mgr[owner[r]] \in {"ready", "shutting"} /\ section[owner[r]] = pc[r]
        /\ pc[r] \in {"begin", "before", "after", "finish", "failing"}
  BY <1>1, <1>t, <1>d DEF Inv, Held, Roles, Owning, Duties, Records, Guarded
<1>v. \A r \in Runs : pc[r] \in Live =>
        owner[r] \in Managers /\ control[owner[r]] = r /\ mgr[owner[r]] \in {"ready", "shutting"}
  BY <1>1, <1>t, <1>d DEF Inv, Held, Owning
<1>s. {"running", "starting", "interrupted", "failed", "pause_requested",
       "cancel_requested"} \cup Results \subseteq States
  BY DEF States, Active, Results
<1>a1. ASSUME NEW m \in Managers, ConstructRead(m) PROVE \A k \in Managers : Follows(k)'
  <2>1. /\ control[m] = None /\ section[m] = "none"
        /\ \A n \in Managers : n # m /\ mgr[n] \in Up => ProcOf[n] = ProcOf[m] /\ mgr[n] = "shutting"
    BY <1>a1, <1>d, <1>t DEF ConstructRead, MayConstruct, Duties, Owning, Solo, Up
  <2>2. CASE StaleRun(ProcOf[m])
    <3>1. /\ mgr' = [mgr EXCEPT ![m] = "recovering"] /\ UNCHANGED <<store, control, pc>>
          /\ section' = [section EXCEPT ![m] = "recover"] /\ read' = [read EXCEPT ![m] = store]
      BY <1>a1, <2>2 DEF ConstructRead, Take, runVars
    <3> QED  BY <1>0, <1>t, <2>1, <3>1 DEF Follows, Tracks, Inherits, Retires
  <2>3. CASE ~StaleRun(ProcOf[m])
    <3>1. /\ mgr' = [mgr EXCEPT ![m] = "ready"]
          /\ UNCHANGED <<store, control, pc, section, read>>
      BY <1>a1, <2>3 DEF ConstructRead, runVars, lockVars
    <3>2. Inherits
      <4> SUFFICES ASSUME store.state \in Active
                   PROVE  \E n \in Managers : section[n] = "shutdown" /\ store.run = control[n]
        BY DEF Inherits
      <4>1. PICK r \in Runs : r = registry[ProcOf[m]] /\ pc[r] \in Live \cup {"reserved"}
        BY <1>1, <1>t, <2>3 DEF StaleRun, WorkerAlive, Inv, Shape
      <4>2. owner[r] \in Managers /\ control[owner[r]] = r
        BY <1>1, <4>1 DEF Inv, Held
      <4>3. owner[r] # m /\ mgr[owner[r]] = "shutting"
        BY <1>d, <1>t, <2>1, <4>2 DEF Owning, Up
      <4> QED  BY <1>0, <1>t, <4>2, <4>3 DEF Follows, Retires
    <3> QED  BY <1>0, <1>t, <2>1, <3>1, <3>2 DEF Follows, Tracks, Inherits, Retires
  <2> QED  BY <2>2, <2>3
<1>a2. ASSUME NEW m \in Managers, NEW o \in Outcomes, RecoverWrite(m, o) PROVE \A k \in Managers : Follows(k)'
  <2>1. o = "ok" /\ section[m] # "none"
    BY <1>a2, <1>0 DEF RecoverWrite, Persist, Outcomes
  <2>2. PICK one \in Runtime : one = Advance(read[m], "interrupted") /\ one.state = "interrupted"
    BY <1>s, <1>t, <2>1, AdvanceFields
  <2>3. store'.state \notin Active
    BY <1>a2, <2>1, <2>2, InteractiveFields DEF RecoverWrite, Persist, Active
  <2>4. mgr' = [mgr EXCEPT ![m] = "ready"] /\ UNCHANGED control
    BY <1>a2 DEF RecoverWrite
  <2>5. \A k \in Managers : control[k] = None
    BY <1>a2, <1>d DEF RecoverWrite, Duties
  <2> QED  BY <2>3, <2>4, <2>5, EndedFollows
<1>a3. ASSUME NEW m \in Managers, NEW q \in Requests, IntentReplayed(m, q) PROVE \A k \in Managers : Follows(k)'
  BY <1>a3, <1>0, QuietFollows DEF IntentReplayed, lockVars, runVars
<1>a4. ASSUME NEW m \in Managers, NEW q \in Requests, StartRead(m, q) PROVE \A k \in Managers : Follows(k)'
  <2>1. control[m] = None
    BY <1>a4, <1>d, <1>t DEF StartRead, WorkerAlive, Owning
  <2>2. /\ section' = [section EXCEPT ![m] = "start"] /\ section[m] = "none"
        /\ read' = [read EXCEPT ![m] = store] /\ UNCHANGED <<store, mgr, control, pc>>
    BY <1>a4, <1>d DEF StartRead, Take, mgrVars, runVars, Guarded, Locked
  <2> QED  BY <1>0, <1>t, <2>1, <2>2, QuietFollows
<1>a5. ASSUME NEW m \in Managers, NEW r \in Runs, StartReserve(m, r) PROVE \A k \in Managers : Follows(k)'
  <2>1. /\ mgr[m] = "ready" /\ control[m] = None
    BY <1>a5, <1>d DEF StartReserve, Duties
  <2>2. /\ control' = [control EXCEPT ![m] = r] /\ pc' = [pc EXCEPT ![r] = "reserved"]
        /\ section' = [section EXCEPT ![m] = "persist"] /\ section[m] = "start"
        /\ UNCHANGED <<store, mgr, read>>
    BY <1>a5 DEF StartReserve
  <2>3. store.state \notin Active
    <3> SUFFICES ASSUME store.state \in Active PROVE FALSE
      OBVIOUS
    <3>1. PICK n \in Managers : section[n] = "shutdown"
      BY <1>0, <2>1 DEF Follows, Inherits
    <3>2. n # m /\ mgr[n] = "shutting" /\ control[n] # None
      BY <1>d, <2>2, <3>1 DEF Duties
    <3>3. ProcOf[n] = ProcOf[m] /\ WorkerAlive(registry[ProcOf[n]])
      BY <1>1, <1>3, <1>d, <1>t, <2>1, <3>2 DEF Up, Owning, Inv, Held, WorkerAlive
    <3> QED  BY <1>a5, <3>3 DEF StartReserve, MayReserve
  <2>4. \A k \in Managers : k # m => control[k] = None
    <3>1. control'[m] # None
      BY <1>t, <2>2
    <3> QED  BY <1>1, <1>t, <2>2, <3>1, AutonomyAssumption
             DEF Inv, Shape, Held, Roles, OneUp, Owning, Up
  <2> QED  BY <1>0, <1>t, <2>1, <2>2, <2>3, <2>4 DEF Follows, Tracks, Inherits, Retires, Live
<1>a6. ASSUME NEW m \in Managers, StartRefused(m) PROVE \A k \in Managers : Follows(k)'
  <2>1. section' = [section EXCEPT ![m] = "none"] /\ section[m] = "start"
        /\ read' = [read EXCEPT ![m] = None] /\ UNCHANGED <<store, mgr, control, pc>>
    BY <1>a6 DEF StartRefused, Drop, mgrVars, runVars
  <2> QED  BY <1>0, <1>t, <2>1, QuietFollows
<1>a7. ASSUME NEW m \in Managers, NEW o \in Outcomes, StartPersist(m, o) PROVE \A k \in Managers : Follows(k)'
  <2>1. /\ o = "ok" /\ control[m] \in Runs /\ asked[m] \in Requests /\ read[m] \in Runtime
        /\ pc[control[m]] = "reserved" /\ mgr[m] = "ready"
    BY <1>a7, <1>0, <1>1, <1>d, <1>t DEF StartPersist, Persist, Outcomes, Inv, Starting, Duties
  <2>2. PICK new \in Runtime : /\ new = StartRecord(read[m], control[m], asked[m])
                               /\ new.state = "starting" /\ new.run = control[m]
    BY <2>1, StartFields
  <2>3. /\ store' = new /\ section' = [section EXCEPT ![m] = "spawn"]
        /\ read' = [read EXCEPT ![m] = new] /\ UNCHANGED <<mgr, control, pc>>
    BY <1>a7, <2>1, <2>2 DEF StartPersist, Persist
  <2>4. \A k \in Managers : k # m => control[k] = None /\ mgr[k] # "ready"
    BY <1>2, <1>3, <1>t, <2>1 DEF Up
  <2> QED  BY <1>t, <2>1, <2>2, <2>3, <2>4 DEF Follows, Tracks, Inherits, Retires, Live, Active
<1>a8. ASSUME NEW m \in Managers, Spawn(m) PROVE \A k \in Managers : Follows(k)'
  <2>1. /\ control[m] \in Runs /\ mgr[m] = "ready" /\ section[m] = "spawn"
    BY <1>a8, <1>1, <1>d DEF Spawn, Inv, Starting, Duties
  <2>2. /\ pc' = [pc EXCEPT ![control[m]] = "begin"] /\ UNCHANGED <<store, mgr, control>>
        /\ section' = [section EXCEPT ![m] = "none"] /\ read' = [read EXCEPT ![m] = None]
    BY <1>a8 DEF Spawn, Drop
  <2>3. \A k \in Managers : k # m => control[k] = None
    BY <1>2, <1>t, <2>1
  <2> QED  BY <1>0, <1>t, <2>1, <2>2, <2>3, QuietFollows DEF Live
<1>a9. ASSUME NEW m \in Managers, NEW o \in Outcomes, SpawnFails(m, o) PROVE \A k \in Managers : Follows(k)'
  <2>1. o = "ok" /\ section[m] # "none"
    BY <1>a9, <1>0 DEF SpawnFails, Persist, Outcomes
  <2>2. PICK one \in Runtime : one = Advance(read[m], "interrupted") /\ one.state = "interrupted"
    BY <1>s, <1>t, <2>1, AdvanceFields
  <2>3. store'.state \notin Active
    BY <1>a9, <2>1, <2>2, InteractiveFields DEF SpawnFails, Persist, Active
  <2>4. control' = [control EXCEPT ![m] = None] /\ UNCHANGED mgr
    BY <1>a9 DEF SpawnFails, Unregister
  <2>5. \A k \in Managers : k # m => control[k] = None
    BY <1>a9, <1>1, <1>2, <1>t DEF SpawnFails, Inv, Starting
  <2> QED  BY <1>t, <2>3, <2>4, <2>5, EndedFollows
<1>a10. ASSUME NEW m \in Managers, NEW q \in Requests, StopRead(m, q) PROVE \A k \in Managers : Follows(k)'
  <2>1. control[m] # None /\ store.state \in Active /\ section[m] = "none"
    BY <1>a10, <1>d DEF StopRead, Take, MayStop, WorkerAlive, Active, Locked
  <2>2. /\ section' = [section EXCEPT ![m] = "stop"]
        /\ read' = [read EXCEPT ![m] = store] /\ UNCHANGED <<store, mgr, control, pc>>
    BY <1>a10 DEF StopRead, Take, mgrVars, runVars
  <2> QED  BY <1>0, <1>t, <2>1, <2>2, QuietFollows
<1>a11. ASSUME NEW m \in Managers, NEW o \in Outcomes, StopWrite(m, o) PROVE \A k \in Managers : Follows(k)'
  <2>1. /\ o = "ok" /\ asked[m] \in Requests /\ control[m] \in Runs
        /\ mgr[m] = "ready" /\ section[m] = "stop"
    BY <1>a11, <1>0, <1>d, <1>t DEF StopWrite, Persist, Outcomes, Duties
  <2>2. read[m] = store /\ store.state \in Active
    BY <1>0, <1>t, <2>1 DEF Follows, Tracks
  <2>3. pc[control[m]] \in Live \ {"exit"} /\ store.run = control[m]
    BY <1>0, <1>d, <1>t, <2>1, <2>2 DEF Follows, Tracks, Owning
  <2>4. PICK s \in {"cancel_requested", "pause_requested"} :
           s = IF asked[m][1] = "cancel" THEN "cancel_requested" ELSE "pause_requested"
    OBVIOUS
  <2>5. PICK a \in Runtime : a = Advance(store, s) /\ a.state = s /\ a.run = store.run
    BY <1>s, <1>t, <2>4, AdvanceFields
  <2>6. PICK new \in Runtime :
           new = Receipted(Advance(store, s), asked[m]) /\ new.state = s /\ new.run = store.run
    BY <2>1, <2>5, ReceiptedFields
  <2>7. /\ store' = new /\ section' = [section EXCEPT ![m] = "none"]
        /\ UNCHANGED <<mgr, control, pc>>
    BY <1>a11, <2>1, <2>2, <2>4, <2>6 DEF StopWrite, Persist, Drop
  <2>8. \A k \in Managers : k # m => control[k] = None /\ mgr[k] # "ready"
    BY <1>2, <1>3, <1>t, <2>1 DEF Up
  <2> QED  BY <1>t, <2>1, <2>3, <2>4, <2>6, <2>7, <2>8 DEF Follows, Tracks, Inherits, Retires, Live, Active
<1>a12. ASSUME NEW m \in Managers, ShutdownRead(m) PROVE \A k \in Managers : Follows(k)'
  <2>1. mgr[m] = "ready" /\ section[m] = "none"
    BY <1>a12, <1>d DEF ShutdownRead, Locked
  <2>2. mgr' = [mgr EXCEPT ![m] = "shutting"] /\ UNCHANGED <<store, control, pc>>
    BY <1>a12 DEF ShutdownRead
  <2>3. \A k \in Managers : k # m => mgr[k] # "ready"
    BY <1>3, <2>1 DEF Up
  <2>4. CASE control[m] # None /\ store.state \in Active
    <3>1. section' = [section EXCEPT ![m] = "shutdown"]
      BY <1>a12, <2>4 DEF ShutdownRead, Take
    <3>2. store.run = control[m]
      BY <1>0, <1>d, <2>1, <2>4 DEF Follows, Tracks, Owning
    <3>3. \A k \in Managers : k # m => control[k] = None
      BY <1>2, <2>4
    <3> QED  BY <1>t, <2>2, <2>3, <2>4, <3>1, <3>2, <3>3 DEF Follows, Retires
  <2>5. CASE ~(control[m] # None /\ store.state \in Active)
    <3>1. UNCHANGED <<section, read>>
      BY <1>a12, <2>5 DEF ShutdownRead, lockVars
    <3> QED  BY <1>0, <1>t, <2>1, <2>2, <2>3, <2>5, <3>1 DEF Follows, Retires
  <2> QED  BY <2>4, <2>5
<1>a13. ASSUME NEW m \in Managers, NEW o \in Outcomes, ShutdownWrite(m, o) PROVE \A k \in Managers : Follows(k)'
  <2>1. o = "ok" /\ section[m] # "none"
    BY <1>a13, <1>0 DEF ShutdownWrite, Persist, Outcomes
  <2>2. PICK one \in Runtime : one = Advance(read[m], "interrupted") /\ one.state = "interrupted"
    BY <1>s, <1>t, <2>1, AdvanceFields
  <2>3. store'.state \notin Active
    BY <1>a13, <2>1, <2>2, InteractiveFields DEF ShutdownWrite, Persist, Active
  <2>4. mgr[m] = "shutting" /\ control[m] # None /\ section' = [section EXCEPT ![m] = "none"]
        /\ UNCHANGED <<mgr, control>>
    BY <1>a13, <1>d DEF ShutdownWrite, Duties, Drop, mgrVars
  <2>5. \A k \in Managers : k # m => control[k] = None
    BY <1>2, <2>4
  <2> QED  BY <1>t, <2>3, <2>4, <2>5, EndedFollows
<1>a14. ASSUME NEW r \in Runs, Enter(r) PROVE \A k \in Managers : Follows(k)'
  <2>1. /\ owner[r] \in Managers /\ section[owner[r]] = "none"
    BY <1>a14, <1>d, <1>v DEF Enter, Take, Live, Locked
  <2>2. /\ section' = [section EXCEPT ![owner[r]] = pc[r]] /\ read' = [read EXCEPT ![owner[r]] = store]
        /\ pc[r] \in {"begin", "before", "after", "finish", "failing"}
        /\ UNCHANGED <<store, mgr, control, pc>>
    BY <1>a14 DEF Enter, Take, mgrVars, runVars
  <2> QED  BY <1>0, <1>t, <2>1, <2>2, QuietFollows
<1>a15. ASSUME NEW r \in Runs, NEW o \in Outcomes, Begin(r, o) PROVE \A k \in Managers : Follows(k)'
  <2>1. /\ owner[r] \in Managers /\ control[owner[r]] = r /\ section[owner[r]] = "begin"
        /\ mgr[owner[r]] \in {"ready", "shutting"} /\ pc[r] = "begin" /\ r \in Runs
    BY <1>a15, <1>w DEF Begin, Inside, Live
  <2>2. /\ section' = [section EXCEPT ![owner[r]] = "none"] /\ UNCHANGED <<mgr, control>>
        /\ read' = [read EXCEPT ![owner[r]] = None]
    BY <1>a15 DEF Begin, Inside, Drop, mgrVars
  <2>3. \A k \in Managers : k # owner[r] => control[k] = None
    BY <1>2, <1>t, <2>1
  <2>4. CASE mgr[owner[r]] = "shutting"
    <3>1. store' = store /\ At(r, "exit")
      BY <1>a15, <2>4 DEF Begin
    <3> QED  BY <1>0, <1>t, <2>1, <2>2, <2>3, <2>4, <3>1, QuietFollows DEF At
  <2>5. CASE mgr[owner[r]] = "ready"
    <3>1. read[owner[r]] = store /\ store.run = r /\ store.state \in Active
      BY <1>0, <1>t, <2>1, <2>5 DEF Follows, Tracks, Live
    <3>2. PICK new \in Runtime :
             new = Advance(store, "running") /\ new.state = "running" /\ new.run = store.run
      BY <1>s, <1>t, AdvanceFields
    <3>3. (store' = store \/ store' = new) /\ At(r, "execute")
      BY <1>a15, <1>0, <2>5, <3>1, <3>2 DEF Begin, Persist, Outcomes
    <3>4. store'.state \in Active /\ store'.run = r
      BY <3>1, <3>2, <3>3 DEF Active
    <3>5. \A k \in Managers : k # owner[r] => mgr[k] # "ready"
      BY <1>3, <2>1, <2>5 DEF Up
    <3> QED  BY <1>t, <2>1, <2>2, <2>3, <2>5, <3>3, <3>4, <3>5 DEF Follows, Tracks, At
  <2> QED  BY <2>1, <2>4, <2>5
<1>a16. ASSUME NEW r \in Runs, Execute(r) PROVE \A k \in Managers : Follows(k)'
  <2>1. /\ \E p \in Live \ {"exit"} : At(r, p)
        /\ pc[r] \in Live \ {"exit"} /\ UNCHANGED <<store, mgr, control, section, read>>
    BY <1>a16 DEF Execute, mgrVars, lockVars, Live
  <2> QED  BY <1>0, <1>t, <2>1, QuietFollows DEF At
<1>a17. ASSUME NEW r \in Runs, NEW o \in Outcomes, SafePoint(r, o) PROVE \A k \in Managers : Follows(k)'
  <2>1. /\ owner[r] \in Managers /\ control[owner[r]] = r /\ section[owner[r]] \in {"before", "after"}
        /\ mgr[owner[r]] \in {"ready", "shutting"} /\ pc[r] \in {"before", "after"} /\ r \in Runs
        /\ read[owner[r]] \in Runtime
    BY <1>a17, <1>w DEF SafePoint, Inside, Live
  <2>2. /\ section' = [section EXCEPT ![owner[r]] = "none"] /\ UNCHANGED <<mgr, control>>
        /\ read' = [read EXCEPT ![owner[r]] = None]
    BY <1>a17 DEF SafePoint, Inside, Drop, mgrVars
  <2>3. \A k \in Managers : k # owner[r] => control[k] = None
    BY <1>2, <1>t, <2>1
  <2> DEFINE intent == SafePointIntent(owner[r], r)
  <2>4. PICK new \in Runtime :
          /\ new = SafePointTarget(read[owner[r]], intent) /\ new.run = read[owner[r]].run
          /\ IF intent = "none" THEN new.state = "running" ELSE new.state \notin Active
    BY <2>1, TargetFields
  <2>5. /\ \/ read[owner[r]].run # r /\ At(r, "exit") /\ store' = store
           \/ /\ read[owner[r]].run = r /\ store' = new
              /\ At(r, IF intent = "none" THEN Passed(r) ELSE "exit")
    BY <1>a17, <1>0, <2>1, <2>4 DEF SafePoint, Persist, Outcomes
  <2>6. CASE mgr[owner[r]] = "shutting"
    <3>1. intent # "none" /\ store.state \notin Active
      BY <1>0, <1>t, <2>1, <2>6 DEF SafePointIntent, Follows, Retires
    <3>2. store'.state \notin Active
      BY <2>4, <2>5, <3>1
    <3> QED  BY <1>t, <2>1, <2>2, <2>3, <2>6, <3>2, EndedFollows
  <2>7. CASE mgr[owner[r]] = "ready"
    <3>1. read[owner[r]] = store /\ store.run = r
      BY <1>0, <1>t, <2>1, <2>7 DEF Follows, Tracks, Live
    <3>2. CASE intent = "none"
      <4>1. /\ store'.state = "running" /\ store'.run = r
            /\ \E p \in {"preflight", "before", "decide"} : At(r, p)
        BY <2>4, <2>5, <3>1, <3>2 DEF Passed
      <4>2. \A k \in Managers : k # owner[r] => mgr[k] # "ready"
        BY <1>3, <2>1, <2>7 DEF Up
      <4> QED  BY <1>t, <2>1, <2>2, <2>3, <2>7, <4>1, <4>2 DEF Follows, Tracks, At, Active
    <3>3. CASE intent # "none"
      <4>1. store'.state \notin Active /\ At(r, "exit")
        BY <2>4, <2>5, <3>1, <3>3
      <4> QED  BY <1>t, <2>1, <2>2, <2>3, <2>7, <4>1, EndedFollows DEF At
    <3> QED  BY <3>2, <3>3
  <2> QED  BY <2>1, <2>6, <2>7
<1>a18. ASSUME NEW r \in Runs, Preflight(r) PROVE \A k \in Managers : Follows(k)'
  <2>1. /\ \E p \in Live \ {"exit"} : At(r, p)
        /\ pc[r] \in Live \ {"exit"} /\ UNCHANGED <<store, mgr, control, section, read>>
    BY <1>a18 DEF Preflight, mgrVars, lockVars, Live
  <2> QED  BY <1>0, <1>t, <2>1, QuietFollows DEF At
<1>a19. ASSUME NEW r \in Runs, NEW report \in {"delivered", "blocked", "failed"}, StepReturns(r, report) PROVE \A k \in Managers : Follows(k)'
  <2>1. /\ \E p \in Live \ {"exit"} : At(r, p)
        /\ pc[r] \in Live \ {"exit"} /\ UNCHANGED <<store, mgr, control, section, read>>
    BY <1>a19 DEF StepReturns, mgrVars, lockVars, Live
  <2> QED  BY <1>0, <1>t, <2>1, QuietFollows DEF At
<1>a20. ASSUME NEW r \in Runs, StepRaises(r) PROVE \A k \in Managers : Follows(k)'
  <2>1. /\ \E p \in Live \ {"exit"} : At(r, p)
        /\ pc[r] \in Live \ {"exit"} /\ UNCHANGED <<store, mgr, control, section, read>>
    BY <1>a20 DEF StepRaises, mgrVars, lockVars, Live
  <2> QED  BY <1>0, <1>t, <2>1, QuietFollows DEF At
<1>a21. ASSUME NEW r \in Runs, Decide(r) PROVE \A k \in Managers : Follows(k)'
  <2>1. /\ \E p \in Live \ {"exit"} : At(r, p)
        /\ pc[r] \in Live \ {"exit"} /\ UNCHANGED <<store, mgr, control, section, read>>
    BY <1>a21 DEF Decide, mgrVars, lockVars, Live
  <2> QED  BY <1>0, <1>t, <2>1, QuietFollows DEF At
<1>a22. ASSUME NEW r \in Runs, NEW o \in Outcomes, Finish(r, o) PROVE \A k \in Managers : Follows(k)'
  <2>1. /\ owner[r] \in Managers /\ control[owner[r]] = r /\ section[owner[r]] = "finish"
        /\ mgr[owner[r]] \in {"ready", "shutting"} /\ pc[r] = "finish" /\ r \in Runs
        /\ read[owner[r]] \in Runtime /\ result[r] \in Results
    BY <1>a22, <1>w, <1>1 DEF Finish, Inside, Live, Records
  <2>2. /\ section' = [section EXCEPT ![owner[r]] = "none"] /\ UNCHANGED <<mgr, control>>
        /\ read' = [read EXCEPT ![owner[r]] = None]
    BY <1>a22 DEF Finish, Inside, Drop, mgrVars
  <2>3. \A k \in Managers : k # owner[r] => control[k] = None
    BY <1>2, <1>t, <2>1
  <2>4. CASE mgr[owner[r]] = "shutting"
    <3>1. store' = store /\ At(r, "exit")
      BY <1>a22, <2>4 DEF Finish, Disowned
    <3> QED  BY <1>0, <1>t, <2>1, <2>2, <2>3, <2>4, <3>1, QuietFollows DEF At
  <2>5. CASE mgr[owner[r]] = "ready"
    <3>1. read[owner[r]] = store /\ store.run = r
      BY <1>0, <1>t, <2>1, <2>5 DEF Follows, Tracks, Live
    <3>2. PICK new \in Runtime : new = Advance(store, result[r]) /\ new.state = result[r]
      BY <1>s, <1>t, <2>1, AdvanceFields
    <3>3. store' = new /\ At(r, "exit")
      BY <1>a22, <1>0, <2>1, <2>5, <3>1, <3>2 DEF Finish, Disowned, Persist, Outcomes
    <3>4. store'.state \notin Active
      BY <2>1, <3>2, <3>3 DEF Active, Results
    <3> QED  BY <1>t, <2>1, <2>2, <2>3, <2>5, <3>3, <3>4, EndedFollows DEF At
  <2> QED  BY <2>1, <2>4, <2>5
<1>a23. ASSUME NEW r \in Runs, NEW o \in Outcomes, RecordFailure(r, o) PROVE \A k \in Managers : Follows(k)'
  <2>1. /\ owner[r] \in Managers /\ control[owner[r]] = r /\ section[owner[r]] = "failing"
        /\ mgr[owner[r]] \in {"ready", "shutting"} /\ pc[r] = "failing" /\ r \in Runs
        /\ read[owner[r]] \in Runtime
    BY <1>a23, <1>w, <1>1 DEF RecordFailure, Inside, Live, Records
  <2>2. /\ section' = [section EXCEPT ![owner[r]] = "none"] /\ UNCHANGED <<mgr, control>>
        /\ read' = [read EXCEPT ![owner[r]] = None]
    BY <1>a23 DEF RecordFailure, Inside, Drop, mgrVars
  <2>3. \A k \in Managers : k # owner[r] => control[k] = None
    BY <1>2, <1>t, <2>1
  <2>4. CASE mgr[owner[r]] = "shutting"
    <3>1. store' = store /\ At(r, "exit")
      BY <1>a23, <2>4 DEF RecordFailure, Disowned
    <3> QED  BY <1>0, <1>t, <2>1, <2>2, <2>3, <2>4, <3>1, QuietFollows DEF At
  <2>5. CASE mgr[owner[r]] = "ready"
    <3>1. read[owner[r]] = store /\ store.run = r
      BY <1>0, <1>t, <2>1, <2>5 DEF Follows, Tracks, Live
    <3>2. PICK new \in Runtime : new = Advance(store, "failed") /\ new.state = "failed"
      BY <1>s, <1>t, <2>1, AdvanceFields
    <3>3. store' = new /\ At(r, "exit")
      BY <1>a23, <1>0, <2>1, <2>5, <3>1, <3>2 DEF RecordFailure, Disowned, Persist, Outcomes
    <3>4. store'.state \notin Active
      BY <2>1, <3>2, <3>3 DEF Active, Results
    <3> QED  BY <1>t, <2>1, <2>2, <2>3, <2>5, <3>3, <3>4, EndedFollows DEF At
  <2> QED  BY <2>1, <2>4, <2>5
<1>a24. ASSUME NEW r \in Runs, Release(r) PROVE \A k \in Managers : Follows(k)'
  <2>1. /\ owner[r] \in Managers /\ control[owner[r]] = r /\ pc[r] = "exit"
        /\ section[owner[r]] = "none" /\ mgr[owner[r]] \in {"ready", "shutting"}
    BY <1>a24, <1>v, <1>d DEF Release, Live, Locked
  <2>2. /\ control' = [control EXCEPT ![owner[r]] = None] /\ UNCHANGED <<store, mgr, section, read>>
    BY <1>a24, <2>1 DEF Release, Unregister, lockVars
  <2>3. \A k \in Managers : k # owner[r] => control[k] = None
    BY <1>2, <1>t, <2>1
  <2>4. CASE mgr[owner[r]] = "ready"
    <3>1. store.state \notin Active
      BY <1>0, <1>t, <2>1, <2>4 DEF Follows, Tracks
    <3> QED  BY <1>t, <2>2, <2>3, <3>1, EndedFollows
  <2>5. CASE mgr[owner[r]] = "shutting"
    BY <1>0, <1>t, <2>1, <2>2, <2>3, <2>5 DEF Follows, Inherits
  <2> QED  BY <2>1, <2>4, <2>5
<1>a25. ASSUME NEW p \in Procs, Crash(p) PROVE \A k \in Managers : Follows(k)'
  <2>1. PICK m \in Managers : ProcOf[m] = p /\ mgr[m] \in Up
    BY <1>a25, <1>t DEF Crash, Up
  <2>2. \A k \in Managers : mgr[k] \in Up => ProcOf[k] = p
    BY <1>3, <2>1
  <2>3. \A k \in Managers : mgr'[k] \notin Up
    BY <1>a25, <2>2 DEF Crash, Up
  <2> QED  BY <2>3 DEF Follows, Up
<1>a26. CASE UNCHANGED vars
  BY <1>0, <1>a26, QuietFollows DEF vars, mgrVars, lockVars, runVars
<1> QED
  BY <1>a1, <1>a2, <1>a3, <1>a4, <1>a5, <1>a6, <1>a7, <1>a8, <1>a9, <1>a10, <1>a11, <1>a12, <1>a13, <1>a14, <1>a15, <1>a16, <1>a17, <1>a18, <1>a19, <1>a20, <1>a21, <1>a22, <1>a23, <1>a24, <1>a25, <1>a26
  DEF Next, ManagerStep, WorkerStep

\* Nobody waits for a worker that is gone: while no write fails, a record that
\* says active at a manager at rest names a run whose thread is alive, also
\* after a shutdown, a restart or a crash (AutonomyManager, one process at a
\* time).
THEOREM ActiveRunHasWorker ==
  ASSUME Solo
  PROVE  Spec => []ActiveHasWorker
<1>1. Init => Following
  BY FollowingInit
<1>2. Sound /\ Sound' /\ Following /\ [Next]_vars => Following'
  BY FollowingNext
<1>3. Sound /\ Following => ActiveHasWorker
  <2> SUFFICES ASSUME Sound, Following, faults = 0, NEW m \in Managers,
                      mgr[m] = "ready", lock[m] = None, store.state \in Active
               PROVE  WorkerAlive(store.run)
    BY DEF ActiveHasWorker
  <2>1. Follows(m) /\ section[m] = "none"
    BY DEF Following, Sound, Inv, Locked
  <2>2. Owning /\ None \notin Runs /\ control \in [Managers -> Runs \cup {None}]
    BY AutonomyAssumption DEF Sound, Roles, Inv, Shape
  <2>3. Duties
    BY DEF Sound, Roles
  <2>4. CASE control[m] = None
    <3>1. PICK n \in Managers : section[n] = "shutdown" /\ store.run = control[n]
      BY <2>1, <2>4 DEF Follows, Inherits
    <3> QED  BY <2>2, <2>3, <3>1 DEF Owning, Duties, WorkerAlive
  <2>5. CASE control[m] # None
    BY <2>1, <2>2, <2>5 DEF Follows, Tracks, Owning, WorkerAlive
  <2> QED  BY <2>4, <2>5
<1> QED  BY <1>1, <1>2, <1>3, SoundAlways, PTL DEF Spec
=============================================================================
