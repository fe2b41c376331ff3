------------------------------ MODULE Autonomy ------------------------------
(***************************************************************************)
(* The autonomous run of one ticket (autonomy.py): AutonomyManager, its    *)
(* worker threads and NativeChainExecutor, over the run record that the    *)
(* control plane persists.                                                 *)
(*                                                                         *)
(* A process has at most one manager that is not shutting down; an old     *)
(* manager's worker may outlive it.  Managers of different processes share *)
(* only the persisted record and the ticket's workspace lease.  Whatever a *)
(* manager does under its _lock is split at the read of the record and at  *)
(* its write, because the other managers do not take that lock.            *)
(*                                                                         *)
(* A write goes through a control-plane subprocess with a timeout: it is   *)
(* applied, refused, or applied with its answer lost.                      *)
(***************************************************************************)
EXTENDS Integers, Sequences

CONSTANTS
  Managers,      \* AutonomyManager instances, in all processes
  Procs,         \* processes, in all lifetimes
  ProcOf,        \* the process each manager lives in
  Runs,          \* run ids; a run, its RunControl and its thread are one
  Requests,      \* the intents clients send: <<intent, request id>>
  NSteps,        \* contract steps of the chain
  ReceiptLimit,  \* _INTENT_RECEIPT_LIMIT
  MaxFaults,     \* bound of the writes that fail or lose their answer
  UseLease,      \* whether the manager has a workspace_manager
  OneProcess,    \* whether a process is started only after the last one died
  None

Intents == {"start", "resume", "pause", "cancel", "takeover"}

ASSUME AutonomyAssumption ==
  /\ ProcOf \in [Managers -> Procs]
  /\ Requests \subseteq Intents \X STRING
  /\ NSteps \in Nat /\ ReceiptLimit \in Nat \ {0} /\ MaxFaults \in Nat
  /\ UseLease \in BOOLEAN /\ OneProcess \in BOOLEAN
  /\ None \notin Runs \cup {"api"} /\ "api" \notin Runs /\ None \notin Managers

VARIABLES
  store,     \* extensions.icode_agent of the ticket's metadata
  done,      \* contract steps the control plane has recorded as delivered
  mgr,       \* "new", "recovering", "ready", "shutting" or "dead"
  control,   \* _controls / _workers: the manager's registered run
  seen,      \* _receipts: requests it has answered
  lock,      \* who holds _lock
  section,   \* what the section that holds it is doing
  read,      \* the record it has read
  asked,     \* the request it serves
  registry,  \* _PROCESS_WORKERS of each process
  lease,     \* the run whose session holds the workspace lease
  pc,        \* where the thread of each run is
  owner,     \* the manager that created a run
  stop,      \* control._stop_intent
  result,    \* what the executor returned
  retried,   \* runs whose worker has used its retry
  faults,
  applied    \* history: how often each request took effect

mgrVars == <<mgr, control, seen>>
lockVars == <<lock, section, read, asked>>
runVars == <<pc, owner, stop, result, retried>>
vars == <<store, done, mgrVars, lockVars, registry, lease, runVars, faults, applied>>

Active == {"starting", "running", "pause_requested", "cancel_requested"}
Results == {"succeeded", "failed", "blocked"}
States == Active \cup Results \cup {"pending", "paused", "cancelled", "interrupted"}

Runtime == [state: States, run: Runs \cup {None}, rev: Nat,
            receipts: Seq(Requests), mode: {"interactive", "autonomous"}]

\* Threads: not created, reserved, in _worker_main or its executor, finished.
Live == {"begin", "execute", "before", "preflight", "step", "after",
         "decide", "finish", "failing", "exit"}
Places == Live \cup {"unused", "reserved", "done"}

Sections == {"none", "recover", "start", "persist", "spawn", "stop", "shutdown",
             "begin", "before", "after", "finish", "failing"}

Init ==
  /\ store = [state |-> "pending", run |-> None, rev |-> 0, receipts |-> <<>>,
              mode |-> "interactive"]
  /\ done = 0
  /\ mgr = [m \in Managers |-> "new"]
  /\ control = [m \in Managers |-> None]
  /\ seen = [m \in Managers |-> {}]
  /\ lock = [m \in Managers |-> None]
  /\ section = [m \in Managers |-> "none"]
  /\ read = [m \in Managers |-> None]
  /\ asked = [m \in Managers |-> None]
  /\ registry = [p \in Procs |-> None]
  /\ lease = None
  /\ pc = [r \in Runs |-> "unused"]
  /\ owner = [r \in Runs |-> None]
  /\ stop = [r \in Runs |-> "none"]
  /\ result = [r \in Runs |-> "none"]
  /\ retried = {}
  /\ faults = 0
  /\ applied = [q \in Requests |-> 0]

TypeOK ==
  /\ store \in Runtime
  /\ done \in 0 .. NSteps
  /\ mgr \in [Managers -> {"new", "recovering", "ready", "shutting", "dead"}]
  /\ control \in [Managers -> Runs \cup {None}]
  /\ seen \in [Managers -> SUBSET Requests]
  /\ lock \in [Managers -> Runs \cup {None, "api"}]
  /\ section \in [Managers -> Sections]
  /\ \A m \in Managers : section[m] = "none" <=> lock[m] = None
  /\ registry \in [Procs -> Runs \cup {None}]
  /\ lease \in Runs \cup {None}
  /\ pc \in [Runs -> Places]
  /\ owner \in [Runs -> Managers \cup {None}]
  /\ stop \in [Runs -> {"none", "pause", "cancel", "takeover", "interrupted"}]
  /\ result \in [Runs -> Results \cup {"none"}]
  /\ retried \subseteq Runs
  /\ faults \in 0 .. MaxFaults
  /\ applied \in [Requests -> Nat]

(***************************************************************************)
(* The control plane (update_agent_extension) and the record's fields      *)
(***************************************************************************)
Outcomes == {"ok", "refused", "lost"}

\* What a write of record r does to the store and to the fault budget.
Persist(r, outcome) ==
  /\ store' = IF outcome = "refused" THEN store ELSE r
  /\ IF outcome = "ok"
     THEN faults' = faults
     ELSE faults < MaxFaults /\ faults' = faults + 1

\* A new state for the record that was read, with the next revision.
AdvanceBug(rt, state) ==
  [rt EXCEPT !.state = state, !.rev = IF state = "starting" THEN 1 ELSE @ + 1]
Advance(rt, state) == [rt EXCEPT !.state = state, !.rev = @ + 1]
Interactive(rt) == [rt EXCEPT !.mode = "interactive"]

InReceipts(rt, req) == \E i \in DOMAIN rt.receipts : rt.receipts[i] = req

\* _append_intent_receipt: the last ReceiptLimit accepted requests.
Receipted(rt, req) ==
  LET all == Append(rt.receipts, req)
  IN [rt EXCEPT !.receipts = IF InReceipts(rt, req) THEN @
                             ELSE IF Len(all) > ReceiptLimit THEN Tail(all) ELSE all]

Take(m, who, op, req) ==
  /\ lock[m] = None
  /\ lock' = [lock EXCEPT ![m] = who]
  /\ section' = [section EXCEPT ![m] = op]
  /\ read' = [read EXCEPT ![m] = store]
  /\ asked' = [asked EXCEPT ![m] = req]

Drop(m) ==
  /\ lock' = [lock EXCEPT ![m] = None]
  /\ section' = [section EXCEPT ![m] = "none"]
  /\ read' = [read EXCEPT ![m] = None]
  /\ asked' = [asked EXCEPT ![m] = None]

WorkerAlive(r) == r # None /\ pc[r] \in Live \cup {"reserved"}

(***************************************************************************)
(* Construction, with _recover_stale_runs                                  *)
(***************************************************************************)
\* The workbench stops its old manager before it builds another.
MayConstruct(m) ==
  /\ mgr[m] = "new"
  /\ \A n \in Managers :
       IF ProcOf[n] = ProcOf[m] THEN mgr[n] \in {"new", "shutting"}
       ELSE OneProcess => mgr[n] \in {"new", "dead"}

\* _has_live_process_worker: a worker of this process still runs.
StaleRunBug(p) == store.state = "running" /\ ~WorkerAlive(registry[p])
StaleRun(p) == store.state \in Active /\ ~WorkerAlive(registry[p])

ConstructRead(m) ==
  /\ MayConstruct(m)
  /\ IF StaleRun(ProcOf[m])
     THEN mgr' = [mgr EXCEPT ![m] = "recovering"] /\ Take(m, "api", "recover", None)
     ELSE mgr' = [mgr EXCEPT ![m] = "ready"] /\ UNCHANGED lockVars
  /\ UNCHANGED <<store, done, control, seen, registry, lease, runVars, faults, applied>>

RecoverWrite(m, outcome) ==
  /\ section[m] = "recover"
  /\ Persist(Interactive(Advance(read[m], "interrupted")), outcome)
  /\ mgr' = [mgr EXCEPT ![m] = "ready"]
  /\ Drop(m)
  /\ UNCHANGED <<done, control, seen, registry, lease, runVars, applied>>

(***************************************************************************)
(* handle_intent                                                           *)
(***************************************************************************)
\* Already answered by this manager, or in the persisted receipts.
KnownBug(m, req) == req \in seen[m]
Known(m, req) == req \in seen[m] \/ InReceipts(store, req)

IntentReplayed(m, req) ==
  /\ mgr[m] = "ready" /\ lock[m] = None
  /\ Known(m, req) /\ req \notin seen[m]
  /\ seen' = [seen EXCEPT ![m] = @ \cup {req}]
  /\ UNCHANGED <<store, done, mgr, control, lockVars, registry, lease, runVars,
                 faults, applied>>

AllowedFrom(intent) ==
  IF intent = "start"
  THEN {"pending", "cancelled", "succeeded", "failed", "blocked", "interrupted"}
  ELSE {"paused", "failed", "blocked", "interrupted"}

StartRead(m, req) ==
  /\ mgr[m] = "ready" /\ ~Known(m, req)
  /\ req[1] \in {"start", "resume"}
  /\ ~WorkerAlive(control[m])
  /\ store.state \in AllowedFrom(req[1])
  /\ Take(m, "api", "start", req)
  /\ UNCHANGED <<store, done, mgrVars, registry, lease, runVars, faults, applied>>

\* _release_worker_locked: the session's lease first, then the registrations.
Unregister(m, r) ==
  /\ lease' = IF lease = r THEN None ELSE lease
  /\ IF control[m] = r
     THEN /\ control' = [control EXCEPT ![m] = None]
          /\ registry' = [registry EXCEPT ![ProcOf[m]] = IF @ = r THEN None ELSE @]
     ELSE UNCHANGED <<control, registry>>

\* _reserve_process_worker: the process has no live worker for the ticket.
MayReserveBug(p) == TRUE
MayReserve(p) == ~WorkerAlive(registry[p])

\* workspace_manager.open takes the ticket's lease, across processes.
MayOpen == UseLease => lease = None

StartReserve(m, r) ==
  /\ section[m] = "start"
  /\ MayReserve(ProcOf[m]) /\ MayOpen
  /\ pc[r] = "unused"
  /\ registry' = [registry EXCEPT ![ProcOf[m]] = r]
  /\ control' = [control EXCEPT ![m] = r]
  /\ lease' = IF UseLease THEN r ELSE lease
  /\ pc' = [pc EXCEPT ![r] = "reserved"]
  /\ owner' = [owner EXCEPT ![r] = m]
  /\ section' = [section EXCEPT ![m] = "persist"]
  /\ UNCHANGED <<store, done, mgr, seen, lock, read, asked, stop, result, retried, faults, applied>>

\* A live worker, a busy lease or a workspace that cannot be prepared.
StartRefused(m) ==
  /\ section[m] = "start"
  /\ Drop(m)
  /\ UNCHANGED <<store, done, mgrVars, registry, lease, runVars, faults, applied>>

\* The record of a run that is about to start.
StartRecord(rt, r, req) ==
  [Receipted(Advance(rt, "starting"), req) EXCEPT !.run = r, !.mode = "autonomous"]

StartPersist(m, outcome) ==
  LET r == control[m]
      starting == StartRecord(read[m], r, asked[m])
  IN
  /\ section[m] = "persist"
  /\ Persist(starting, outcome)
  /\ applied' = [applied EXCEPT ![asked[m]] = IF outcome = "refused" THEN @ ELSE @ + 1]
  /\ IF outcome = "ok"
     THEN /\ section' = [section EXCEPT ![m] = "spawn"]
          /\ read' = [read EXCEPT ![m] = starting]
          /\ UNCHANGED <<lock, asked, control, registry, lease, pc>>
     ELSE /\ Unregister(m, r)
          /\ pc' = [pc EXCEPT ![r] = "done"]
          /\ Drop(m)
  /\ UNCHANGED <<done, mgr, seen, owner, stop, result, retried>>

\* thread.start()
Spawn(m) ==
  /\ section[m] = "spawn"
  /\ pc' = [pc EXCEPT ![control[m]] = "begin"]
  /\ seen' = [seen EXCEPT ![m] = @ \cup {asked[m]}]
  /\ Drop(m)
  /\ UNCHANGED <<store, done, mgr, control, registry, lease, owner, stop, result,
                 retried, faults, applied>>

\* thread.start() raised: release the worker, record the interruption.
SpawnFails(m, outcome) ==
  /\ section[m] = "spawn"
  /\ Persist(Interactive(Advance(read[m], "interrupted")), outcome)
  /\ Unregister(m, control[m])
  /\ pc' = [pc EXCEPT ![control[m]] = "done"]
  /\ Drop(m)
  /\ UNCHANGED <<done, mgr, seen, owner, stop, result, retried, applied>>

\* _request_stop_locked
MayStop(m, intent) ==
  /\ WorkerAlive(control[m])
  /\ store.state \in {"starting", "running", "pause_requested"}
  /\ ~(store.state = "pause_requested" /\ intent = "pause")

StopRead(m, req) ==
  /\ mgr[m] = "ready" /\ ~Known(m, req)
  /\ req[1] \in {"pause", "cancel", "takeover"}
  /\ MayStop(m, req[1])
  /\ Take(m, "api", "stop", req)
  /\ UNCHANGED <<store, done, mgrVars, registry, lease, runVars, faults, applied>>

\* Only once the write is accepted does the worker see the intent.
StopIntent(old, intent, outcome) == IF outcome = "ok" THEN intent ELSE old

StopWrite(m, outcome) ==
  LET intent == asked[m][1]
      state == IF intent = "cancel" THEN "cancel_requested" ELSE "pause_requested"
      r == control[m]
  IN
  /\ section[m] = "stop"
  /\ Persist(Receipted(Advance(read[m], state), asked[m]), outcome)
  /\ applied' = [applied EXCEPT ![asked[m]] = IF outcome = "refused" THEN @ ELSE @ + 1]
  /\ stop' = [stop EXCEPT ![r] = StopIntent(@, intent, outcome)]
  /\ seen' = IF outcome = "ok" THEN [seen EXCEPT ![m] = @ \cup {asked[m]}] ELSE seen
  /\ Drop(m)
  /\ UNCHANGED <<done, mgr, control, registry, lease, pc, owner, result, retried>>

(***************************************************************************)
(* _worker_main.  A section under the lock starts with Enter.              *)
(***************************************************************************)
At(r, place) == pc' = [pc EXCEPT ![r] = place]

Enter(r) ==
  /\ pc[r] \in {"begin", "before", "after", "finish", "failing"}
  /\ Take(owner[r], r, pc[r], None)
  /\ UNCHANGED <<store, done, mgrVars, registry, lease, runVars, faults, applied>>

Inside(r, places) ==
  /\ pc[r] \in places /\ lock[owner[r]] = r
  /\ Drop(owner[r])

\* The manager is shutting down, or the record is another run's.
DisownedBug(r) ==
  LET m == owner[r]
  IN mgr[m] = "shutting" \/ control[m] # r \/ read[m].run # r
       \/ read[m].state \notin {"starting", "running"}
Disowned(r) ==
  LET m == owner[r] IN mgr[m] = "shutting" \/ control[m] # r \/ read[m].run # r

Begin(r, outcome) ==
  LET rt == read[owner[r]] IN
  /\ Inside(r, {"begin"})
  /\ IF mgr[owner[r]] = "shutting" \/ rt.run # r
     THEN At(r, "exit") /\ outcome = "ok" /\ UNCHANGED <<store, faults>>
     ELSE IF rt.state = "starting"
     THEN /\ Persist(Advance(rt, "running"), outcome)
          /\ At(r, IF outcome = "ok" THEN "execute" ELSE "failing")
     ELSE At(r, "execute") /\ outcome = "ok" /\ UNCHANGED <<store, faults>>
  /\ UNCHANGED <<done, mgrVars, registry, lease, owner, stop, result, retried, applied>>

\* NativeChainExecutor.execute: the pending steps follow from the status the
\* control plane reports; a status that cannot be read is a failure.
Execute(r) ==
  /\ pc[r] = "execute"
  /\ \/ done < NSteps /\ At(r, "before") /\ UNCHANGED result
     \/ done = NSteps /\ At(r, "decide") /\ result' = [result EXCEPT ![r] = "succeeded"]
     \/ At(r, "decide") /\ result' = [result EXCEPT ![r] = "failed"]
  /\ UNCHANGED <<store, done, mgrVars, lockVars, registry, lease, owner, stop,
                 retried, faults, applied>>

\* _safe_point: where a requested stop takes effect.
SafePointTarget(rt, intent) ==
  IF intent = "none" THEN Advance(rt, "running")
  ELSE IF intent = "pause" THEN Advance(rt, "paused")
  ELSE Interactive(Advance(rt, IF intent = "cancel" THEN "cancelled"
                               ELSE IF intent = "takeover" THEN "paused" ELSE "interrupted"))

SafePointIntent(m, r) == IF mgr[m] = "shutting" THEN "interrupted" ELSE stop[r]

\* Past the safe point: on to the step, to the next one, or to the end.
Passed(r) ==
  IF pc[r] = "before" THEN "preflight"
  ELSE IF result[r] = "none" THEN "before" ELSE "decide"

SafePoint(r, outcome) ==
  LET m == owner[r]
      rt == read[m]
      intent == SafePointIntent(m, r)
  IN
  /\ Inside(r, {"before", "after"})
  /\ IF control[m] # r \/ rt.run # r
     THEN At(r, "exit") /\ outcome = "ok" /\ UNCHANGED <<store, faults>>
     ELSE /\ Persist(SafePointTarget(rt, intent), outcome)
          /\ At(r, IF outcome # "ok" THEN "failing"
                   ELSE IF intent = "none" THEN Passed(r) ELSE "exit")
  /\ UNCHANGED <<done, mgrVars, registry, lease, owner, stop, result, retried, applied>>

\* Policy, isolation and verification-plan checks: blocked, or on to the step.
Preflight(r) ==
  /\ pc[r] = "preflight"
  /\ \/ At(r, "step") /\ UNCHANGED result
     \/ At(r, "decide") /\ result' = [result EXCEPT ![r] = "blocked"]
  /\ UNCHANGED <<store, done, mgrVars, lockVars, registry, lease, owner, stop,
                 retried, faults, applied>>

\* The step runner returns: delivered, stopped at a gate, or not delivered.
StepReturns(r, report) ==
  LET delivered == report = "delivered" IN
  /\ pc[r] = "step"
  /\ At(r, "after")
  /\ done' = IF delivered THEN done + 1 ELSE done
  /\ result' = [result EXCEPT ![r] = IF ~delivered THEN report
                                     ELSE IF done' = NSteps THEN "succeeded" ELSE "none"]
  /\ UNCHANGED <<store, mgrVars, lockVars, registry, lease, owner, stop, retried,
                 faults, applied>>

\* It raises: no completed boundary, hence no safe point.
StepRaises(r) ==
  /\ pc[r] = "step"
  /\ At(r, "decide")
  /\ result' = [result EXCEPT ![r] = "failed"]
  /\ UNCHANGED <<store, done, mgrVars, lockVars, registry, lease, owner, stop,
                 retried, faults, applied>>

\* _failure_decision_for may say retry; then the chain runs once more.
MayRetry(r) == result[r] # "succeeded" /\ r \notin retried

Decide(r) ==
  LET m == owner[r] IN
  /\ pc[r] = "decide" /\ lock[m] = None
  /\ \/ /\ MayRetry(r) /\ mgr[m] # "shutting" /\ control[m] = r
        /\ At(r, "execute")
        /\ retried' = retried \cup {r}
        /\ result' = [result EXCEPT ![r] = "none"]
     \/ At(r, "finish") /\ UNCHANGED <<retried, result>>
  /\ UNCHANGED <<store, done, mgrVars, lockVars, registry, lease, owner, stop,
                 faults, applied>>

\* The terminal state, unless the run is no longer the manager's to finish.
Finish(r, outcome) ==
  /\ Inside(r, {"finish"})
  /\ IF Disowned(r)
     THEN At(r, "exit") /\ outcome = "ok" /\ UNCHANGED <<store, faults>>
     ELSE /\ Persist(Advance(read[owner[r]], result[r]), outcome)
          /\ At(r, IF outcome = "ok" THEN "exit" ELSE "failing")
  /\ UNCHANGED <<done, mgrVars, registry, lease, owner, stop, result, retried, applied>>

\* _record_executor_failure swallows a refused write.
RecordFailure(r, outcome) ==
  /\ Inside(r, {"failing"})
  /\ IF Disowned(r)
     THEN outcome = "ok" /\ UNCHANGED <<store, faults>>
     ELSE Persist(Advance(read[owner[r]], "failed"), outcome)
  /\ At(r, "exit")
  /\ UNCHANGED <<done, mgrVars, registry, lease, owner, stop, result, retried, applied>>

\* The threads in rs have ended, and their locals are gone.
Forget(rs) ==
  /\ pc' = [r \in Runs |-> IF r \in rs THEN "done" ELSE pc[r]]
  /\ stop' = [r \in Runs |-> IF r \in rs THEN "none" ELSE stop[r]]
  /\ result' = [r \in Runs |-> IF r \in rs THEN "none" ELSE result[r]]
  /\ retried' = retried \ rs

\* finally: _release_worker_locked.
Release(r) ==
  /\ pc[r] = "exit" /\ lock[owner[r]] = None
  /\ Unregister(owner[r], r)
  /\ Forget({r}) /\ UNCHANGED owner
  /\ UNCHANGED <<store, done, mgr, seen, lockVars, faults, applied>>

(***************************************************************************)
(* shutdown, and the crash of a process                                    *)
(***************************************************************************)
ShutdownRead(m) ==
  LET r == control[m] IN
  /\ mgr[m] = "ready"
  /\ lock[m] = None
  /\ mgr' = [mgr EXCEPT ![m] = "shutting"]
  /\ stop' = IF r = None THEN stop ELSE [stop EXCEPT ![r] = "interrupted"]
  /\ IF r # None /\ store.state \in Active
     THEN Take(m, "api", "shutdown", None)
     ELSE UNCHANGED lockVars
  /\ UNCHANGED <<store, done, control, seen, registry, lease, pc, owner, result,
                 retried, faults, applied>>

ShutdownWrite(m, outcome) ==
  /\ section[m] = "shutdown"
  /\ Persist(Interactive(Advance(read[m], "interrupted")), outcome)
  /\ Drop(m)
  /\ UNCHANGED <<done, mgrVars, registry, lease, runVars, applied>>

\* Everything in memory is lost; the kernel releases the workspace lease.
Crash(p) ==
  LET ms == {m \in Managers : ProcOf[m] = p}
      rs == {r \in Runs : owner[r] \in ms}
  IN
  /\ \E m \in ms : mgr[m] \notin {"new", "dead"}
  /\ mgr' = [m \in Managers |-> IF m \in ms THEN "dead" ELSE mgr[m]]
  /\ control' = [m \in Managers |-> IF m \in ms THEN None ELSE control[m]]
  /\ lock' = [m \in Managers |-> IF m \in ms THEN None ELSE lock[m]]
  /\ section' = [m \in Managers |-> IF m \in ms THEN "none" ELSE section[m]]
  /\ read' = [m \in Managers |-> IF m \in ms THEN None ELSE read[m]]
  /\ asked' = [m \in Managers |-> IF m \in ms THEN None ELSE asked[m]]
  /\ registry' = [registry EXCEPT ![p] = None]
  /\ lease' = IF lease \in rs THEN None ELSE lease
  /\ seen' = [m \in Managers |-> IF m \in ms THEN {} ELSE seen[m]]
  /\ Forget(rs)
  /\ UNCHANGED <<store, done, owner, faults, applied>>

-----------------------------------------------------------------------------
ManagerStep(m) ==
  \/ \E o \in Outcomes :
       RecoverWrite(m, o) \/ StartPersist(m, o) \/ SpawnFails(m, o)
         \/ StopWrite(m, o) \/ ShutdownWrite(m, o)
  \/ \E r \in Runs : StartReserve(m, r)
  \/ StartRefused(m)
  \/ Spawn(m)

WorkerStep(r) ==
  \/ Enter(r)
  \/ \E o \in Outcomes : Begin(r, o) \/ SafePoint(r, o) \/ Finish(r, o) \/ RecordFailure(r, o)
  \/ Execute(r) \/ Preflight(r) \/ StepRaises(r) \/ Decide(r) \/ Release(r)
  \/ \E report \in {"delivered", "blocked", "failed"} : StepReturns(r, report)

Next ==
  \/ \E m \in Managers : ConstructRead(m) \/ ManagerStep(m) \/ ShutdownRead(m)
  \/ \E m \in Managers, req \in Requests :
       IntentReplayed(m, req) \/ StartRead(m, req) \/ StopRead(m, req)
  \/ \E r \in Runs : WorkerStep(r)
  \/ \E p \in Procs : Crash(p)

Spec == Init /\ [][Next]_vars

\* Threads and handlers that can go on do: steps return or raise (the broker
\* bounds them), locks are released, subprocesses end by their timeout.
FairSpec ==
  /\ Spec
  /\ \A m \in Managers : WF_vars(ManagerStep(m))
  /\ \A r \in Runs : WF_vars(WorkerStep(r))

-----------------------------------------------------------------------------
(***************************************************************************)
(* Properties                                                              *)
(***************************************************************************)
\* "At most one worker per ticket" (AutonomyManager's docstring), also when
\* an old manager's worker outlives it and across processes: no two threads
\* are between the start of their run and its end.
OneWorker ==
  \A r, s \in Runs : pc[r] \in Live \ {"exit"} /\ pc[s] \in Live \ {"exit"} => r = s

\* A request takes effect at most once, however often it is sent again, to
\* the same manager or to one built after its shutdown.
IntentAppliedOnce == \A q \in Requests : applied[q] <= 1

Requested == {"pause_requested", "cancel_requested"}

\* When a manager is at rest and the record says active, the thread of that
\* run exists: nobody waits for a worker that is gone, also after a restart.
\* (A write that failed may leave the record behind.)
ActiveHasWorker ==
  faults = 0 => \A m \in Managers :
    mgr[m] = "ready" /\ lock[m] = None /\ store.state \in Active => WorkerAlive(store.run)

\* An accepted stop ends the run, unless a write fails or a process has died
\* and nobody has built a manager since.
StopEnds ==
  store.state \in Requested
    ~> (store.state \notin Active \/ faults > 0 \/ \A m \in Managers : mgr[m] \in {"new", "dead"})
=============================================================================
