----------------------------- MODULE StepRunner -----------------------------
(***************************************************************************)
(* Contract steps of one ticket: run_contract_step and                     *)
(* resume_contract_step (runner.py), the chain over them (chain.py), the   *)
(* recovery analysis (recovery.py) and the checkpoint file                 *)
(* (checkpoint.py).                                                        *)
(*                                                                         *)
(* Several processes may work on the ticket: nothing in this code locks    *)
(* it.  Every call of the control plane is a step of its own, may be       *)
(* refused, and may be applied while its answer is lost; a process may die *)
(* between any two of them.  The control plane is not part of the          *)
(* repository: it is modelled from how control.py asks and how its callers *)
(* read the answers.  It repeats the first answer to a request key it      *)
(* knows, and binds an attempt to its step.                                *)
(***************************************************************************)
EXTENDS Integers, FiniteSets

CONSTANTS
  Procs,        \* processes that run or resume steps
  NSteps,       \* the chain is 1..NSteps
  Entry,        \* steps with an in_progress status
  Engineering,  \* "code" and "deepcheck"
  MaxPast,      \* bound of the failed attempts in the log of the ticket at first
  MaxAttempts,  \* bound of the attempts of the ticket
  MaxRuns,      \* bound of the runs and resumptions begun
  MaxCrashes

Steps == 1..NSteps
Attempts == 1..MaxAttempts

ASSUME StepRunnerAssumption ==
  /\ NSteps \in Nat \ {0} /\ MaxPast \in Nat /\ MaxAttempts \in Nat /\ MaxRuns \in Nat /\ MaxCrashes \in Nat
  /\ MaxPast <= MaxAttempts
  /\ Entry \subseteq Steps /\ Engineering \subseteq Steps

VARIABLES
  \* the ticket in the control plane
  reached,   \* statuses the ticket has had
  n,         \* attempts started
  of, key,   \* step and occurrence of each attempt
  st,        \* "none", "open", "success" or "failure"
  reg,       \* attempts under which every output is registered
  gate,      \* the engineering operation of each attempt
  effects,   \* attempts with an open side effect of the agent
  \* the ticket directory
  files,     \* steps whose outputs are on disk
  ckpt,      \* the checkpoint: attempt (0: no file), step and the pending mark
  \* the processes
  pc, r,     \* control point and StepReport of each
  delivered, \* processes whose last chain reported delivery
  begun, crashes,
  \* history
  gateRuns,  \* how often the plan was executed for each attempt
  earned     \* attempts finished by an engineering run

ticket == <<reached, n, of, key, st, reg, gate, effects>>
disk == <<files, ckpt>>
bounds == <<begun, crashes>>
history == <<gateRuns, earned>>
vars == <<ticket, disk, pc, r, delivered, bounds, history>>

NoFile == [att |-> 0, step |-> 0, pending |-> FALSE]
In(s) == <<"in", s>>
Done(s) == <<"done", s>>
Open == {i \in Attempts : st[i] = "open"}
OpenOperations == effects # {} \/ \E i \in Attempts : gate[i] = "open"

\* A new report of a step; kind is what called for it.
Report(kind, s, eng) ==
  [kind |-> kind, step |-> s, eng |-> eng, att |-> 0, key |-> 0,
   missing |-> FALSE, unregistered |-> FALSE, failed |-> FALSE,
   acting |-> FALSE, repaired |-> FALSE, final |-> TRUE, finish |-> "", advance |-> ""]

Idle == Report("none", 0, FALSE)

Reports ==
  [kind : {"none", "chain", "step", "resume"}, step : 0..NSteps, eng : BOOLEAN,
   att : 0..MaxAttempts, key : Nat, missing : BOOLEAN, unregistered : BOOLEAN,
   failed : BOOLEAN, acting : BOOLEAN, repaired : BOOLEAN, final : BOOLEAN,
   finish : {"", "success", "failure"}, advance : {"", "advanced", "blocked"}]

\* A ticket that was created, and whose first step may have failed before.
Init ==
  /\ reached = {In(1)} \cap {In(s) : s \in Entry}
  /\ n \in 0..MaxPast
  /\ st = [i \in Attempts |-> IF i <= n THEN "failure" ELSE "none"]
  /\ of = [i \in Attempts |-> IF i <= n THEN 1 ELSE 0]
  /\ key = [i \in Attempts |-> IF i <= n THEN i ELSE 0]
  /\ reg = {} /\ gate = [i \in Attempts |-> "none"] /\ effects = {}
  /\ files = {} /\ ckpt = NoFile
  /\ pc = [p \in Procs |-> "idle"] /\ r = [p \in Procs |-> Idle]
  /\ delivered = {} /\ begun = 0 /\ crashes = 0
  /\ gateRuns = [i \in Attempts |-> 0] /\ earned = {}

Points == {"idle", "observe", "enter", "start", "mark", "check", "agent", "register",
           "repair", "checks", "persist", "gate", "plan", "review", "deliberate",
           "finish", "stop", "clear", "advance", "conclude", "reregister"}

TypeOK ==
  /\ reached \subseteq {In(s) : s \in Entry} \cup {Done(s) : s \in Steps}
  /\ n \in 0..MaxAttempts
  /\ of \in [Attempts -> 0..NSteps] /\ key \in [Attempts -> Nat]
  /\ st \in [Attempts -> {"none", "open", "success", "failure"}]
  /\ \A i \in Attempts : st[i] # "none" <=> i <= n
  /\ reg \subseteq 1..n /\ effects \subseteq 1..n
  /\ gate \in [Attempts -> {"none", "open", "closed", "passed"}]
  /\ files \subseteq Steps
  /\ ckpt \in [att : 0..n, step : 0..NSteps, pending : BOOLEAN]
  /\ pc \in [Procs -> Points]
  /\ r \in [Procs -> Reports]
  /\ delivered \subseteq Procs
-----------------------------------------------------------------------------
(* Moving a process.  Leave is every early return: the report is not ok,   *)
(* whatever was opened in the control plane stays open.                    *)

Go(p, to) == pc' = [pc EXCEPT ![p] = to]
Set(p, rep) == r' = [r EXCEPT ![p] = rep]
Leave(p) == Go(p, "idle") /\ Set(p, Idle)
At(p, here) == pc[p] = here

(* run_contract_step: chain.py starts the whole chain without a policy;    *)
(* a single step may be given one.                                         *)
Begin(p) ==
  /\ At(p, "idle") /\ begun < MaxRuns
  /\ begun' = begun + 1
  /\ \/ Set(p, Report("chain", 1, FALSE))
     \/ \E s \in Steps, policy \in BOOLEAN :
          Set(p, Report("step", s, policy /\ s \in Engineering))
  /\ delivered' = delivered \ {p}
  /\ Go(p, "observe")
  /\ UNCHANGED <<ticket, disk, crashes, history>>

(* _step_start_request.  Of a step with an in_progress status it reads the *)
(* trace of the entry, which shows recent events only: hidden counts the   *)
(* attempts that have left the view.                                       *)
StartKey(s, hidden) ==
  LET seen == {i \in Attempts : i > hidden /\ i <= n /\ of[i] = s}
  IN  IF seen \cap Open # {} THEN 1 ELSE Cardinality(seen) + 1

(* The entry trace: it decides whether the status must be entered, and the *)
(* key; without an in_progress status an unreadable trace gives key 1.     *)
Observe(p) ==
  LET s == r[p].step IN
  /\ At(p, "observe")
  /\ \/ /\ \E hidden \in 0..(IF s \in Entry THEN n ELSE 0) :
             Set(p, [r[p] EXCEPT !.key = StartKey(s, hidden)])
        /\ Go(p, IF s \in Entry /\ (In(s) \notin reached \/ Done(s) \in reached)
                 THEN "enter" ELSE "start")
     \/ /\ s \in Entry
        /\ Leave(p)
     \/ /\ s \notin Entry
        /\ Set(p, [r[p] EXCEPT !.key = 1])
        /\ Go(p, "start")
  /\ UNCHANGED <<ticket, disk, delivered, bounds, history>>

(* cp.transition: a status that was reached before is answered from the    *)
(* log, a new one must follow the state machine.                           *)
Legal(status) ==
  LET s == status[2]
      before == s = 1 \/ Done(s - 1) \in reached
  IN  \/ status \in reached
      \/ status = In(s) /\ before
      \/ status = Done(s) /\ IF s \in Entry THEN In(s) \in reached ELSE before

Enter(p) ==
  LET status == In(r[p].step) IN
  /\ At(p, "enter")
  /\ \/ /\ Legal(status)
        /\ reached' = reached \cup {status}
        /\ \/ Go(p, "start") /\ UNCHANGED r
           \/ Leave(p)
     \/ Leave(p) /\ UNCHANGED reached
  /\ UNCHANGED <<n, of, key, st, reg, gate, effects, disk, delivered, bounds, history>>

(* cp.step_start with the chosen key, and the binding of a prepared scope, *)
(* which may refuse.                                                       *)
Start(p) ==
  LET s == r[p].step
      known == {i \in 1..n : of[i] = s /\ key[i] = r[p].key}
      Bind(i) == \/ /\ Set(p, [r[p] EXCEPT !.att = i, !.key = 0])
                    /\ Go(p, IF r[p].eng THEN "mark" ELSE "check")
                 \/ Leave(p)
  IN
  /\ At(p, "start")
  /\ \/ /\ \E i \in known : Bind(i)
        /\ UNCHANGED ticket
     \/ /\ known = {} /\ n < MaxAttempts
        /\ n' = n + 1
        /\ of' = [of EXCEPT ![n + 1] = s]
        /\ key' = [key EXCEPT ![n + 1] = r[p].key]
        /\ st' = [st EXCEPT ![n + 1] = "open"]
        /\ Bind(n + 1)
        /\ UNCHANGED <<reached, reg, gate, effects>>
     \/ Leave(p) /\ UNCHANGED ticket
  /\ UNCHANGED <<disk, delivered, bounds, history>>

\* An engineering run marks its checkpoint before any work.
Mark(p) ==
  /\ At(p, "mark")
  /\ ckpt' = [att |-> r[p].att, step |-> r[p].step, pending |-> TRUE]
  /\ Go(p, "check")
  /\ UNCHANGED <<ticket, files, r, delivered, bounds, history>>

\* cp.step_check: before the agent, and the remaining boundaries after it.
Check(p) ==
  /\ \/ At(p, "check") /\ Go(p, "agent") /\ UNCHANGED r
     \/ At(p, "checks") /\ Go(p, "persist") /\ UNCHANGED r
     \/ pc[p] \in {"check", "checks"} /\ Leave(p)
  /\ UNCHANGED <<ticket, disk, delivered, bounds, history>>
-----------------------------------------------------------------------------
(* _run_agent: a turn may write outputs, begin or end a side effect, and   *)
(* then saves the checkpoint (on_turn).  An effect that is open is not     *)
(* begun again, and only the run that began it ends it (Operations).       *)
Turn(p) ==
  LET i == r[p].att IN
  /\ At(p, "agent")
  /\ files' \in {files, files \cup {r[p].step}}
  /\ \/ UNCHANGED <<effects, r>>
     \/ /\ i \notin effects
        /\ effects' = effects \cup {i} /\ Set(p, [r[p] EXCEPT !.acting = TRUE])
     \/ /\ r[p].acting
        /\ effects' = effects \ {i} /\ Set(p, [r[p] EXCEPT !.acting = FALSE])
  /\ ckpt' = [att |-> i, step |-> r[p].step, pending |-> r[p].eng]
  /\ UNCHANGED <<reached, n, of, key, st, reg, gate, pc, delivered, bounds, history>>

\* The loop ends, the budget stops it, or it raises; an effect may stay open.
AgentEnds(p) ==
  /\ At(p, "agent")
  /\ \/ /\ \E to \in {"register", "stop"} : Go(p, to)
        /\ Set(p, [r[p] EXCEPT !.acting = FALSE])
     \/ Leave(p)
  /\ UNCHANGED <<ticket, disk, delivered, bounds, history>>

\* The answer to a registration is not looked at.
RegisterBug(p, to) ==
  /\ Set(p, [r[p] EXCEPT !.missing = r[p].step \notin files, !.unregistered = FALSE])
  /\ Go(p, to)
  /\ reg' \in {reg, IF r[p].step \in files THEN reg \cup {r[p].att} ELSE reg}

(* _register_outputs.  An output that is not on disk is missing; one that  *)
(* is there is registered, refused with an answer (the row fails) or the   *)
(* call raises.  A later call starts over (_reset_artifact_checkpoints).   *)
Register(p, to) ==
  LET i == r[p].att
      Row(missing, unregistered) ==
        /\ Set(p, [r[p] EXCEPT !.missing = missing, !.unregistered = unregistered])
        /\ Go(p, to)
  IN
  \/ /\ r[p].step \notin files
     /\ Row(TRUE, FALSE) /\ UNCHANGED reg
  \/ /\ r[p].step \in files /\ of[i] = r[p].step
     /\ reg' = reg \cup {i}
     /\ Row(FALSE, FALSE) \/ Leave(p)
  \/ /\ r[p].step \in files
     /\ Row(FALSE, TRUE) \/ Leave(p)
     /\ UNCHANGED reg

AfterOutputs(p) == IF r[p].eng THEN "gate" ELSE "deliberate"

FirstRegister(p) ==
  /\ At(p, "register")
  /\ Register(p, IF r[p].kind = "resume" THEN AfterOutputs(p)
                 ELSE IF r[p].repaired THEN "checks" ELSE "repair")
  /\ UNCHANGED <<reached, n, of, key, st, gate, effects, disk, delivered, bounds, history>>

(* One round of repair when an output is not on disk; the ledger, or an    *)
(* output the host assembles itself, may skip it.                          *)
Repair(p) ==
  /\ At(p, "repair")
  /\ \/ /\ r[p].step \notin files
        /\ Go(p, "agent")
     \/ Go(p, "checks")
  /\ Set(p, [r[p] EXCEPT !.repaired = TRUE])
  /\ UNCHANGED <<ticket, disk, delivered, bounds, history>>

(* The last resort: an output still missing is written from the text of    *)
(* the reply or assembled by the hook, and registered again.               *)
Persist(p) ==
  /\ At(p, "persist")
  /\ \/ /\ r[p].missing
        /\ files' \in {files, files \cup {r[p].step}}
        /\ Go(p, "reregister")
     \/ Go(p, AfterOutputs(p)) /\ UNCHANGED files
  /\ UNCHANGED <<ticket, ckpt, r, delivered, bounds, history>>

Reregister(p) ==
  /\ At(p, "reregister")
  /\ Register(p, AfterOutputs(p))
  /\ UNCHANGED <<reached, n, of, key, st, gate, effects, disk, delivered, bounds, history>>
-----------------------------------------------------------------------------
(* _contract_engineering_gate.  Any refusal sends the step to a finish     *)
(* that is not followed by _finalize.                                      *)
Fail(p) ==
  /\ Set(p, [r[p] EXCEPT !.failed = TRUE, !.final = FALSE])
  /\ Go(p, "finish")

\* An operation that was begun before is taken for its own.
GateBug(p) ==
  /\ At(p, "gate")
  /\ gate' = [gate EXCEPT ![r[p].att] = "open"]
  /\ Go(p, "plan") /\ UNCHANGED r
  /\ UNCHANGED <<reached, n, of, key, st, reg, effects, disk, delivered, bounds, history>>

(* The operation is named after the attempt, so its start is admitted once *)
(* per attempt whoever asks; the trace must then show it open.             *)
Gate(p) ==
  LET i == r[p].att IN
  /\ At(p, "gate")
  /\ \/ /\ gate[i] = "none"
        /\ gate' = [gate EXCEPT ![i] = "open"]
        /\ \/ Go(p, "plan") /\ UNCHANGED r
           \/ Fail(p)
     \/ Fail(p) /\ UNCHANGED gate
     \/ Go(p, "stop") /\ UNCHANGED <<gate, r>>
  /\ UNCHANGED <<reached, n, of, key, st, reg, effects, disk, delivered, bounds, history>>

(* execute_verification_plan, the finish of the operation, the receipt and *)
(* its record.  The operation stays open unless every check was collected; *)
(* an exception leaves it open too.                                        *)
Plan(p) ==
  LET i == r[p].att IN
  /\ At(p, "plan")
  /\ gateRuns' = [gateRuns EXCEPT ![i] = @ + 1]
  /\ \/ /\ gate[i] = "open" /\ effects = {}
        /\ \A j \in Attempts \ {i} : gate[j] # "open"
        /\ gate' = [gate EXCEPT ![i] = "closed"]
        /\ Go(p, "review") /\ UNCHANGED r
     \/ /\ gate' \in {gate, [gate EXCEPT ![i] = "closed"]}
        /\ Fail(p)
     \/ Leave(p) /\ UNCHANGED gate
  /\ UNCHANGED <<reached, n, of, key, st, reg, effects, disk, delivered, bounds, earned>>

\* The independent reviewer, and the identity of the source after it.
Review(p) ==
  /\ At(p, "review")
  /\ \/ /\ gate' = [gate EXCEPT ![r[p].att] = "passed"]
        /\ Go(p, "deliberate") /\ UNCHANGED r
     \/ Fail(p) /\ UNCHANGED gate
     \/ Go(p, "stop") /\ UNCHANGED <<gate, r>>
     \/ Leave(p) /\ UNCHANGED gate
  /\ UNCHANGED <<reached, n, of, key, st, reg, effects, disk, delivered, bounds, history>>

(* _prepare_deliberation, _record_deliberation and, after a gate, the last *)
(* check of the binding, which needs the attempt open and no operation     *)
(* open; a prepared scope that cannot be closed ends the run.              *)
Bound(p) == st[r[p].att] = "open" /\ ~OpenOperations

Deliberate(p) ==
  /\ At(p, "deliberate")
  /\ \/ /\ \E bad \in BOOLEAN :
             Set(p, [r[p] EXCEPT !.failed = @ \/ bad \/ (r[p].eng /\ ~Bound(p))])
        /\ Go(p, "finish")
     \/ Go(p, "stop") /\ UNCHANGED r
     \/ Leave(p)
  /\ UNCHANGED <<ticket, disk, delivered, bounds, history>>
-----------------------------------------------------------------------------
Outcome(p) ==
  IF r[p].missing \/ r[p].unregistered \/ r[p].failed THEN "failure" ELSE "success"

(* _finish_step.  The first finish of an attempt is recorded and repeated  *)
(* to later ones; only the outcome that was asked for counts as accepted.  *)
Accepted(p, outcome) ==
  IF r[p].final
  THEN /\ Set(p, [r[p] EXCEPT !.finish = outcome])
       /\ Go(p, IF outcome = "success" THEN "clear" ELSE "advance")
  ELSE Leave(p)
Unaccepted(p) ==
  IF r[p].final
  THEN Set(p, [r[p] EXCEPT !.failed = TRUE]) /\ Go(p, "advance")
  ELSE Leave(p)

FinishStep(p) ==
  LET i == r[p].att
      outcome == Outcome(p)
  IN
  /\ At(p, "finish")
  /\ \/ /\ of[i] = r[p].step /\ st[i] = "open"
        /\ st' = [st EXCEPT ![i] = outcome]
        /\ earned' = IF outcome = "success" /\ r[p].eng THEN earned \cup {i} ELSE earned
        /\ Accepted(p, outcome) \/ Unaccepted(p)
     \/ /\ of[i] = r[p].step /\ st[i] = outcome
        /\ Accepted(p, outcome)
        /\ UNCHANGED <<st, earned>>
     \/ Unaccepted(p) /\ UNCHANGED <<st, earned>>
  /\ UNCHANGED <<reached, n, of, key, reg, gate, effects, disk, delivered, bounds, gateRuns>>

\* _stop_contract_for_budget: the attempt is closed as failed, if it can be.
BudgetStop(p) ==
  LET i == r[p].att IN
  /\ At(p, "stop")
  /\ \/ /\ of[i] = r[p].step /\ st[i] = "open"
        /\ st' = [st EXCEPT ![i] = "failure"]
     \/ UNCHANGED st
  /\ Leave(p)
  /\ UNCHANGED <<reached, n, of, key, reg, gate, effects, disk, delivered, bounds, history>>

\* ckpt.clear() removes the one file of the ticket, whoever wrote it.
Clear(p) ==
  /\ At(p, "clear")
  /\ ckpt' = NoFile
  /\ Go(p, "advance")
  /\ UNCHANGED <<ticket, files, r, delivered, bounds, history>>

\* Any accepted finish is advanced.
AdvanceBug(p) ==
  LET status == Done(r[p].step) IN
  /\ At(p, "advance")
  /\ r[p].finish # "" /\ ~r[p].failed /\ Legal(status)
  /\ reached' = reached \cup {status}
  /\ Set(p, [r[p] EXCEPT !.advance = "advanced"]) /\ Go(p, "conclude")
  /\ UNCHANGED <<n, of, key, st, reg, gate, effects, disk, delivered, bounds, history>>

(* _finalize, first part: a confirmed success is advanced.  The metadata   *)
(* update may fail its row, the transition may be refused or raise.        *)
Advance(p) ==
  LET status == Done(r[p].step)
      ready == r[p].finish = "success" /\ ~r[p].failed
      Then(rep) == Set(p, rep) /\ Go(p, "conclude")
  IN
  /\ At(p, "advance")
  /\ \/ /\ ready /\ Legal(status)
        /\ reached' = reached \cup {status}
        /\ Then([r[p] EXCEPT !.advance = "advanced"]) \/ Leave(p)
     \/ /\ ready
        /\ \/ Then([r[p] EXCEPT !.advance = "blocked"])
           \/ Then([r[p] EXCEPT !.failed = TRUE])
           \/ Leave(p)
        /\ UNCHANGED reached
     \/ ~ready /\ Then(r[p]) /\ UNCHANGED reached
  /\ UNCHANGED <<n, of, key, st, reg, gate, effects, disk, delivered, bounds, history>>

(* _finalize, second part: the closing trace; run_chain goes on only after *)
(* a step that is ok and was not blocked.                                  *)
Conclude(p) ==
  LET clean == Open = {} /\ ~OpenOperations
      ok == r[p].finish = "success" /\ ~r[p].failed /\ clean
      next == ok /\ r[p].kind = "chain" /\ r[p].advance # "blocked"
  IN
  /\ At(p, "conclude")
  /\ \/ /\ next /\ r[p].step < NSteps
        /\ Set(p, Report("chain", r[p].step + 1, FALSE))
        /\ Go(p, "observe") /\ UNCHANGED delivered
     \/ /\ next /\ r[p].step = NSteps
        /\ delivered' = delivered \cup {p}
        /\ Leave(p)
     \/ Leave(p) /\ UNCHANGED delivered
  /\ UNCHANGED <<ticket, disk, bounds, history>>
-----------------------------------------------------------------------------
(* Recoverer.analyze: a checkpoint whose attempt is not open is discarded. *)
Analyzed == IF ckpt.att \in Open THEN ckpt ELSE NoFile

(* resume_contract_step.  With a mark on the checkpoint, or with a policy, *)
(* it is an engineering resumption: it needs the policy, the attempt of    *)
(* the checkpoint open for this step, no open operation, and no attempt of *)
(* the step that has begun its engineering operation.                      *)
EngineeringAdmits(s, policy) ==
  /\ policy
  /\ ~OpenOperations
  /\ ckpt.att # 0 => ckpt.step = s /\ ckpt.att \in Open /\ of[ckpt.att] = s
  /\ \A i \in Open : of[i] = s => gate[i] = "none"

Resume(p) ==
  /\ At(p, "idle") /\ begun < MaxRuns
  /\ begun' = begun + 1 /\ delivered' = delivered \ {p}
  /\ \E s \in Steps, policy \in BOOLEAN :
       LET eng == s \in Engineering /\ (ckpt.pending \/ policy) IN
       /\ eng => EngineeringAdmits(s, policy)
       /\ ~OpenOperations
       /\ ckpt' = Analyzed
       /\ \E i \in (IF Analyzed.att # 0 THEN {Analyzed.att} ELSE Open) :
            /\ eng => of[i] = s
            /\ Set(p, [Report("resume", s, eng) EXCEPT !.att = i])
       /\ Go(p, "agent")
  /\ UNCHANGED <<ticket, files, crashes, history>>

\* The command `recover` without --resume, or a resumption that is blocked.
Recover ==
  /\ ckpt # Analyzed
  /\ ckpt' = Analyzed
  /\ UNCHANGED <<ticket, files, pc, r, delivered, bounds, history>>

\* resolve_open_operation: a human has checked what really happened.
Resolve(i) ==
  /\ i \in effects \/ gate[i] = "open"
  /\ effects' = effects \ {i}
  /\ gate' = IF gate[i] = "open" THEN [gate EXCEPT ![i] = "closed"] ELSE gate
  /\ UNCHANGED <<reached, n, of, key, st, reg, disk, pc, r, delivered, bounds, history>>

\* The process dies (or is interrupted) and is started anew.
Crash(p) ==
  /\ ~At(p, "idle") /\ crashes < MaxCrashes
  /\ crashes' = crashes + 1
  /\ Leave(p)
  /\ UNCHANGED <<ticket, disk, delivered, begun, history>>

Next ==
  \/ \E p \in Procs : Begin(p)
  \/ \E p \in Procs : Resume(p)
  \/ \E p \in Procs : Observe(p)
  \/ \E p \in Procs : Enter(p)
  \/ \E p \in Procs : Start(p)
  \/ \E p \in Procs : Mark(p)
  \/ \E p \in Procs : Check(p)
  \/ \E p \in Procs : Turn(p)
  \/ \E p \in Procs : AgentEnds(p)
  \/ \E p \in Procs : FirstRegister(p)
  \/ \E p \in Procs : Repair(p)
  \/ \E p \in Procs : Persist(p)
  \/ \E p \in Procs : Reregister(p)
  \/ \E p \in Procs : Gate(p)
  \/ \E p \in Procs : Plan(p)
  \/ \E p \in Procs : Review(p)
  \/ \E p \in Procs : Deliberate(p)
  \/ \E p \in Procs : FinishStep(p)
  \/ \E p \in Procs : BudgetStop(p)
  \/ \E p \in Procs : Clear(p)
  \/ \E p \in Procs : Advance(p)
  \/ \E p \in Procs : Conclude(p)
  \/ \E p \in Procs : Crash(p)
  \/ \E i \in Attempts : Resolve(i)
  \/ Recover

Spec == Init /\ [][Next]_vars
-----------------------------------------------------------------------------
(***************************************************************************)
(* Properties                                                              *)
(***************************************************************************)

(* An attempt the control plane holds as a success has all its outputs     *)
(* registered, and passed the gate if an engineering run finished it:      *)
(* whatever was repaired, persisted, lost or resumed on the way, _finish_  *)
(* step claims success on the evidence of this attempt only.               *)
SuccessEarned ==
  \A i \in Attempts : st[i] = "success" =>
    i \in reg /\ (i \in earned => gate[i] = "passed")

(* The verification plan is executed at most once for an attempt, also     *)
(* when it is resumed, or run by two processes: the operation's name is    *)
(* bound to the attempt and its start is never replayed.                   *)
PlanRunsOnce == \A i \in Attempts : gateRuns[i] <= 1

(* The ticket has the done status of a step only after an attempt of that  *)
(* step succeeded, and a chain reports delivery only when every step of it *)
(* was advanced.                                                           *)
DeliveryEarned ==
  /\ \A s \in Steps : Done(s) \in reached =>
       \E i \in Attempts : of[i] = s /\ st[i] = "success"
  /\ delivered # {} => \A s \in Steps : Done(s) \in reached
=============================================================================
