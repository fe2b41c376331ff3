-------------------------- MODULE StepRunnerProofs --------------------------
(***************************************************************************)
(* Proofs about StepRunner, for any processes, steps, attempts and bounds: *)
(* a success is earned, the plan of an attempt runs once, a chain reports  *)
(* delivery only of steps that are done.                                   *)
(***************************************************************************)
EXTENDS StepRunner, FiniteSetTheorems, TLAPS

\* The part of TypeOK the proofs need.
Types ==
  /\ n \in 0..MaxAttempts
  /\ of \in [Attempts -> 0..NSteps]
  /\ st \in [Attempts -> {"none", "open", "success", "failure"}]
  /\ gate \in [Attempts -> {"none", "open", "closed", "passed"}]
  /\ gateRuns \in [Attempts -> Nat]
  /\ ckpt \in [att : Nat, step : Nat, pending : BOOLEAN]
  /\ pc \in [Procs -> Points]
  /\ r \in [Procs -> Reports]

\* A process that has bound an attempt.
Working == {"mark", "check", "agent", "register", "repair", "checks", "persist",
            "reregister", "gate", "plan", "review", "deliberate", "finish", "stop"}

Bounded == \A p \in Procs : pc[p] \in Working => r[p].att \in Attempts

\* After a registration, a report without a complaint stands for outputs in
\* the control plane.
Noted == {"repair", "checks", "persist", "gate", "plan", "review", "deliberate", "finish"}

Registered ==
  \A p \in Procs : pc[p] \in Noted =>
    r[p].missing \/ r[p].unregistered \/ r[p].att \in reg

\* After the gate, an engineering report without a failure stands for an
\* attempt that passed it.
Gated ==
  \A p \in Procs : pc[p] \in {"deliberate", "finish"} =>
    ~r[p].eng \/ r[p].failed \/ gate[r[p].att] = "passed"

\* Who is about to execute the plan is the only one, and it was not executed.
Planning ==
  /\ \A p \in Procs : pc[p] = "plan" =>
       gate[r[p].att] # "none" /\ gateRuns[r[p].att] = 0
  /\ \A p \in Procs : pc[p] = "review" => gateRuns[r[p].att] = 1
  /\ \A p, q \in Procs : pc[p] = "plan" /\ pc[q] = "plan" /\ r[p].att = r[q].att => p = q
  /\ \A i \in Attempts : gate[i] = "none" => gateRuns[i] = 0
  /\ \A i \in Attempts : gate[i] = "passed" => gateRuns[i] = 1

\* What was claimed for an attempt stays backed, whoever finishes it.
Claims == SuccessEarned /\ \A i \in Attempts : i \in earned => gate[i] = "passed"

Inv == Types /\ Bounded /\ Registered /\ Gated /\ Planning /\ Claims /\ PlanRunsOnce

LEMMA IdleReport == Idle \in Reports /\ Idle.att = 0
BY StepRunnerAssumption DEF Idle, Report, Reports

\* The invariant holds at first: nothing has succeeded and nobody works.
LEMMA InitInv == Init => Inv
<1>. SUFFICES ASSUME Init PROVE Inv
  OBVIOUS
<1>1. n \in 0..MaxAttempts
  BY StepRunnerAssumption DEF Init
<1>2. /\ st \in [Attempts -> {"none", "open", "success", "failure"}]
      /\ of \in [Attempts -> 0..NSteps]
  BY <1>1, StepRunnerAssumption DEF Init
<1>3. /\ gate \in [Attempts -> {"none", "open", "closed", "passed"}]
      /\ gateRuns \in [Attempts -> Nat]
      /\ ckpt \in [att : Nat, step : Nat, pending : BOOLEAN]
  BY DEF Init, NoFile
<1>4. pc \in [Procs -> Points] /\ r \in [Procs -> Reports]
  BY IdleReport DEF Init, Points
<1>5. Bounded /\ Registered /\ Gated /\ Planning
  BY DEF Init, Bounded, Registered, Gated, Planning, Working, Noted
<1>6. Claims /\ PlanRunsOnce
  BY DEF Init, Claims, SuccessEarned, PlanRunsOnce
<1>. QED
  BY <1>1, <1>2, <1>3, <1>4, <1>5, <1>6 DEF Inv, Types

\* A process that moves leaves the others where they were.
LEMMA Moved ==
  ASSUME Types, NEW p \in Procs, NEW to \in Points, NEW rep \in Reports, Go(p, to), Set(p, rep)
  PROVE  /\ pc'[p] = to /\ r'[p] = rep
         /\ \A q \in Procs : q # p => pc'[q] = pc[q] /\ r'[q] = r[q]
         /\ pc' \in [Procs -> Points] /\ r' \in [Procs -> Reports]
BY DEF Types, Go, Set

\* What a step may do to the ticket without disturbing the processes.
Frame ==
  /\ n' \in 0..MaxAttempts /\ of' \in [Attempts -> 0..NSteps]
  /\ st' \in [Attempts -> {"none", "open", "success", "failure"}]
  /\ gate' \in [Attempts -> {"none", "open", "closed", "passed"}]
  /\ ckpt' \in [att : Nat, step : Nat, pending : BOOLEAN]
  /\ reg \subseteq reg' /\ gateRuns' = gateRuns
  /\ \A i \in Attempts : /\ gate[i] = "passed" => gate'[i] = "passed"
                         /\ gate'[i] = "none" => gate[i] = "none"
                         /\ gate'[i] = "passed" => gateRuns[i] = 1
  /\ Claims'

\* What a report must satisfy at the point it is taken to.
Fit(to, rep) ==
  /\ to \in Points \ {"plan", "review"} /\ rep \in Reports
  /\ to \in Working => rep.att \in Attempts
  /\ to \in Noted => rep.missing \/ rep.unregistered \/ rep.att \in reg'
  /\ to \in {"deliberate", "finish"} => ~rep.eng \/ rep.failed \/ gate'[rep.att] = "passed"

LEMMA MoveInv ==
  ASSUME Inv, Frame, NEW p \in Procs, NEW to, NEW rep, Go(p, to), Set(p, rep), Fit(to, rep)
  PROVE  Inv'
<1>1. /\ pc'[p] = to /\ r'[p] = rep
      /\ \A q \in Procs : q # p => pc'[q] = pc[q] /\ r'[q] = r[q]
      /\ pc' \in [Procs -> Points] /\ r' \in [Procs -> Reports]
  BY Moved DEF Inv, Fit
<1>2. Types' /\ Bounded'
  BY <1>1 DEF Inv, Types, Bounded, Fit, Frame
<1>3. Registered'
  BY <1>1 DEF Inv, Registered, Fit, Frame
<1>4. Gated'
  BY <1>1 DEF Inv, Gated, Bounded, Working, Fit, Frame
<1>5. Planning'
  BY <1>1 DEF Inv, Planning, Bounded, Working, Fit, Frame
<1>6. PlanRunsOnce'
  BY DEF Inv, PlanRunsOnce, Frame
<1>. QED
  BY <1>2, <1>3, <1>4, <1>5, <1>6 DEF Inv, Frame

LEMMA StayInv ==
  ASSUME Inv, Frame, NEW p \in Procs, NEW to, Go(p, to), UNCHANGED r, Fit(to, r[p])
  PROVE  Inv'
<1>1. Set(p, r[p])
  BY DEF Set, Inv, Types
<1>. QED
  BY <1>1, MoveInv

LEMMA LeaveInv ==
  ASSUME Inv, Frame, NEW p \in Procs, Leave(p)
  PROVE  Inv'
<1>1. Fit("idle", Idle)
  BY IdleReport DEF Fit, Points, Working, Noted
<1>. QED
  BY <1>1, MoveInv DEF Leave

\* A step that leaves attempts and gates alone.
LEMMA Quiet ==
  ASSUME Inv, UNCHANGED <<n, of, st, gate, gateRuns, earned>>,
         ckpt' \in [att : Nat, step : Nat, pending : BOOLEAN], reg \subseteq reg'
  PROVE  Frame
BY DEF Inv, Types, Planning, Claims, SuccessEarned, Frame

\* Reports that are bound to an attempt, and new ones.
LEMMA SetAttempt ==
  ASSUME NEW rep \in Reports, NEW i \in Attempts
  PROVE  LET new == [rep EXCEPT !.att = i, !.key = 0] IN new \in Reports /\ new.att = i
<1>1. i \in 0..MaxAttempts
  BY StepRunnerAssumption DEF Attempts
<1>. QED
  BY <1>1 DEF Reports

LEMMA ResumedReport ==
  ASSUME NEW rep \in Reports, NEW i \in Attempts
  PROVE  LET new == [rep EXCEPT !.att = i] IN new \in Reports /\ new.att = i
<1>1. i \in 0..MaxAttempts
  BY StepRunnerAssumption DEF Attempts
<1>. QED
  BY <1>1 DEF Reports

LEMMA NewReport ==
  ASSUME NEW kind \in {"chain", "step", "resume"}, NEW s \in Steps, NEW eng \in BOOLEAN
  PROVE  Report(kind, s, eng) \in Reports
BY StepRunnerAssumption DEF Report, Reports, Steps

\* What the invariant says of the process that takes a step.
LEMMA Here ==
  ASSUME Inv, NEW p \in Procs
  PROVE  /\ r[p] \in Reports /\ pc[p] \in Points
         /\ pc[p] \in Working => r[p].att \in Attempts
         /\ pc[p] \in Noted => r[p].missing \/ r[p].unregistered \/ r[p].att \in reg
         /\ pc[p] \in {"deliberate", "finish"} =>
              ~r[p].eng \/ r[p].failed \/ gate[r[p].att] = "passed"
BY DEF Inv, Types, Bounded, Registered, Gated

-----------------------------------------------------------------------------
(* The steps of a run up to the agent.                                     *)

LEMMA BeginInv == ASSUME Inv, NEW p \in Procs, Begin(p) PROVE Inv'
<1>1. Frame
  BY Quiet DEF Begin, ticket, disk, history, Inv, Types
<1>2. PICK rep \in Reports : Set(p, rep)
  <2>1. CASE Set(p, Report("chain", 1, FALSE))
    <3>1. 1 \in Steps /\ "chain" \in {"chain", "step", "resume"} /\ FALSE \in BOOLEAN
      BY StepRunnerAssumption DEF Steps
    <3>2. Report("chain", 1, FALSE) \in Reports
      BY <3>1, NewReport
    <3>. QED
      BY <2>1, <3>2
  <2>2. ASSUME NEW s \in Steps, NEW policy \in BOOLEAN,
               Set(p, Report("step", s, policy /\ s \in Engineering))
        PROVE  \E rep \in Reports : Set(p, rep)
    <3>1. (policy /\ s \in Engineering) \in BOOLEAN
      OBVIOUS
    <3>. QED
      BY <2>2, <3>1, NewReport
  <2>. QED
    BY <2>1, <2>2 DEF Begin
<1>3. Fit("observe", rep)
  BY DEF Fit, Points, Working, Noted
<1>. QED
  BY <1>1, <1>2, <1>3, MoveInv DEF Begin

LEMMA ObserveInv == ASSUME Inv, NEW p \in Procs, Observe(p) PROVE Inv'
<1>1. Frame
  BY Quiet DEF Observe, ticket, disk, history, Inv, Types
<1>2. CASE Leave(p)
  BY <1>1, <1>2, LeaveInv
<1>3. ASSUME NEW k \in Nat, NEW to \in {"enter", "start"}, Go(p, to),
             Set(p, [r[p] EXCEPT !.key = k])
      PROVE  Inv'
  <2>. DEFINE rep == [r[p] EXCEPT !.key = k]
  <2>1. rep \in Reports
    BY Here DEF Reports
  <2>. HIDE DEF rep
  <2>2. Fit(to, rep)
    BY <2>1 DEF Fit, Points, Working, Noted
  <2>3. Set(p, rep)
    BY <1>3 DEF rep
  <2>. QED
    BY <1>1, <1>3, <2>2, <2>3, MoveInv
<1>4. \A s, hidden : StartKey(s, hidden) \in Nat
  <2>. SUFFICES ASSUME NEW s, NEW hidden PROVE StartKey(s, hidden) \in Nat
    OBVIOUS
  <2>. DEFINE seen == {i \in Attempts : i > hidden /\ i <= n /\ of[i] = s}
  <2>1. IsFiniteSet(Attempts)
    BY FS_Interval, StepRunnerAssumption DEF Attempts
  <2>2. Cardinality(seen) \in Nat
    BY <2>1, FS_Subset, FS_CardinalityType
  <2>. QED
    BY <2>2 DEF StartKey
<1>. QED
  BY <1>2, <1>3, <1>4 DEF Observe

LEMMA EnterInv == ASSUME Inv, NEW p \in Procs, Enter(p) PROVE Inv'
<1>1. Frame
  BY Quiet DEF Enter, disk, history, Inv, Types
<1>2. CASE Leave(p)
  BY <1>1, <1>2, LeaveInv
<1>3. CASE Go(p, "start") /\ UNCHANGED r
  <2>1. Fit("start", r[p])
    BY Here DEF Fit, Points, Working, Noted
  <2>. QED
    BY <1>1, <1>3, <2>1, StayInv
<1>. QED
  BY <1>2, <1>3 DEF Enter

LEMMA MarkInv == ASSUME Inv, NEW p \in Procs, Mark(p) PROVE Inv'
<1>1. r[p] \in Reports /\ r[p].att \in Attempts
  BY Here DEF Mark, At, Working
<1>2. ckpt' \in [att : Nat, step : Nat, pending : BOOLEAN]
  <2>1. r[p].att \in Nat
    BY <1>1, StepRunnerAssumption DEF Attempts
  <2>2. r[p].step \in 0..NSteps
    BY <1>1 DEF Reports
  <2>. QED
    BY <2>1, <2>2, StepRunnerAssumption DEF Mark
<1>3. Frame
  BY <1>2, Quiet DEF Mark, ticket, history, Inv, Types
<1>4. Fit("check", r[p])
  BY <1>1 DEF Fit, Points, Working, Noted
<1>. QED
  BY <1>3, <1>4, StayInv DEF Mark

LEMMA CheckInv == ASSUME Inv, NEW p \in Procs, Check(p) PROVE Inv'
<1>1. Frame
  BY Quiet DEF Check, ticket, disk, history, Inv, Types
<1>2. CASE Leave(p)
  BY <1>1, <1>2, LeaveInv
<1>3. CASE At(p, "check") /\ Go(p, "agent") /\ UNCHANGED r
  <2>1. Fit("agent", r[p])
    BY <1>3, Here DEF Fit, At, Points, Working, Noted
  <2>. QED
    BY <1>1, <1>3, <2>1, StayInv
<1>4. CASE At(p, "checks") /\ Go(p, "persist") /\ UNCHANGED r
  <2>1. Fit("persist", r[p])
    BY <1>1, <1>4, Here DEF Fit, Frame, At, Points, Working, Noted
  <2>. QED
    BY <1>1, <1>4, <2>1, StayInv
<1>. QED
  BY <1>2, <1>3, <1>4 DEF Check

\* step_start: a new attempt is open, so nothing is claimed of it.
LEMMA StartInv == ASSUME Inv, NEW p \in Procs, Start(p) PROVE Inv'
<1>. DEFINE s == r[p].step
<1>1. s \in 0..NSteps
  BY Here DEF Reports
<1>2. Frame
  <2>1. CASE UNCHANGED ticket
    BY <2>1, Quiet DEF Start, ticket, disk, history, Inv, Types
  <2>2. CASE /\ n < MaxAttempts /\ n' = n + 1
             /\ of' = [of EXCEPT ![n + 1] = s]
             /\ st' = [st EXCEPT ![n + 1] = "open"]
             /\ UNCHANGED <<reached, reg, gate, effects>>
    <3>1. n' \in 0..MaxAttempts
      BY <2>2, StepRunnerAssumption DEF Inv, Types
    <3>2. /\ of' \in [Attempts -> 0..NSteps]
          /\ st' \in [Attempts -> {"none", "open", "success", "failure"}]
      BY <1>1, <2>2 DEF Inv, Types
    <3>3. \A i \in Attempts : st'[i] = "success" => st[i] = "success"
      BY <2>2 DEF Inv, Types
    <3>4. Claims'
      BY <2>2, <3>3 DEF Start, history, Inv, Claims, SuccessEarned
    <3>. QED
      BY <2>2, <3>1, <3>2, <3>4 DEF Start, disk, history, Inv, Types, Planning, Frame
  <2>. QED
    BY <2>1, <2>2 DEF Start
<1>3. CASE Leave(p)
  BY <1>2, <1>3, LeaveInv
<1>4. ASSUME NEW i \in Attempts, NEW to \in {"mark", "check"}, Go(p, to),
             Set(p, [r[p] EXCEPT !.att = i, !.key = 0])
      PROVE  Inv'
  <2>. DEFINE rep == [r[p] EXCEPT !.att = i, !.key = 0]
  <2>1. rep \in Reports /\ rep.att = i
    BY Here, SetAttempt
  <2>. HIDE DEF rep
  <2>2. Fit(to, rep)
    BY <2>1 DEF Fit, Points, Working, Noted
  <2>3. Set(p, rep)
    BY <1>4 DEF rep
  <2>. QED
    BY <1>2, <1>4, <2>2, <2>3, MoveInv
<1>5. n < MaxAttempts => n + 1 \in Attempts
  BY StepRunnerAssumption DEF Inv, Types, Attempts
<1>6. 1..n \subseteq Attempts
  BY StepRunnerAssumption DEF Inv, Types, Attempts
<1>. QED
  BY <1>3, <1>4, <1>5, <1>6 DEF Start
-----------------------------------------------------------------------------
(* The agent and the outputs.                                              *)

LEMMA TurnInv == ASSUME Inv, NEW p \in Procs, Turn(p) PROVE Inv'
<1>1. r[p] \in Reports /\ r[p].att \in Attempts /\ pc[p] = "agent"
  BY Here DEF Turn, At, Working
<1>2. ckpt' \in [att : Nat, step : Nat, pending : BOOLEAN]
  <2>1. r[p].att \in Nat
    BY <1>1, StepRunnerAssumption DEF Attempts
  <2>2. r[p].eng \in BOOLEAN /\ r[p].step \in 0..NSteps
    BY <1>1 DEF Reports
  <2>. QED
    BY <2>1, <2>2, StepRunnerAssumption DEF Turn
<1>3. Frame
  BY <1>2, Quiet DEF Turn, history
<1>4. Go(p, "agent")
  BY <1>1 DEF Turn, Go, Inv, Types
<1>5. CASE UNCHANGED r
  <2>1. Fit("agent", r[p])
    BY <1>1 DEF Fit, Points, Working, Noted
  <2>. QED
    BY <1>3, <1>4, <1>5, <2>1, StayInv
<1>6. ASSUME NEW b \in BOOLEAN, Set(p, [r[p] EXCEPT !.acting = b])
      PROVE  Inv'
  <2>. DEFINE rep == [r[p] EXCEPT !.acting = b]
  <2>1. rep \in Reports /\ rep.att = r[p].att
    BY <1>1 DEF Reports
  <2>. HIDE DEF rep
  <2>2. Fit("agent", rep)
    BY <1>1, <2>1 DEF Fit, Points, Working, Noted
  <2>3. Set(p, rep)
    BY <1>6 DEF rep
  <2>. QED
    BY <1>3, <1>4, <2>2, <2>3, MoveInv
<1>. QED
  BY <1>5, <1>6 DEF Turn

LEMMA AgentEndsInv == ASSUME Inv, NEW p \in Procs, AgentEnds(p) PROVE Inv'
<1>1. r[p] \in Reports /\ r[p].att \in Attempts
  BY Here DEF AgentEnds, At, Working
<1>2. Frame
  BY Quiet DEF AgentEnds, ticket, disk, history, Inv, Types
<1>3. CASE Leave(p)
  BY <1>2, <1>3, LeaveInv
<1>4. ASSUME NEW to \in {"register", "stop"}, Go(p, to),
             Set(p, [r[p] EXCEPT !.acting = FALSE])
      PROVE  Inv'
  <2>. DEFINE rep == [r[p] EXCEPT !.acting = FALSE]
  <2>1. rep \in Reports /\ rep.att = r[p].att
    BY <1>1 DEF Reports
  <2>. HIDE DEF rep
  <2>2. Fit(to, rep)
    BY <1>1, <2>1 DEF Fit, Points, Working, Noted
  <2>3. Set(p, rep)
    BY <1>4 DEF rep
  <2>. QED
    BY <1>2, <1>4, <2>2, <2>3, MoveInv
<1>. QED
  BY <1>3, <1>4 DEF AgentEnds

\* A registration that ends at a point where the gate was not passed yet: its
\* rows are clean only if the attempt is registered.
LEMMA RegisterInv ==
  ASSUME Inv, NEW p \in Procs, pc[p] \in {"register", "reregister"},
         NEW to \in {"gate", "deliberate", "repair", "checks"},
         to = "deliberate" => ~r[p].eng,
         Register(p, to), UNCHANGED <<n, of, st, gate, ckpt, gateRuns, earned>>
  PROVE  Inv'
<1>1. r[p] \in Reports /\ r[p].att \in Attempts
  BY Here DEF Working
<1>2. Frame
  BY Quiet DEF Register, Inv, Types
<1>3. CASE Leave(p)
  BY <1>2, <1>3, LeaveInv
<1>4. ASSUME NEW b \in BOOLEAN, NEW c \in BOOLEAN, Go(p, to),
             Set(p, [r[p] EXCEPT !.missing = b, !.unregistered = c]),
             b \/ c \/ r[p].att \in reg'
      PROVE  Inv'
  <2>. DEFINE rep == [r[p] EXCEPT !.missing = b, !.unregistered = c]
  <2>1. /\ rep \in Reports /\ rep.att = r[p].att /\ rep.eng = r[p].eng
        /\ rep.missing = b /\ rep.unregistered = c
    BY <1>1 DEF Reports
  <2>. HIDE DEF rep
  <2>2. Fit(to, rep)
    BY <1>1, <1>4, <2>1 DEF Fit, Points, Working, Noted
  <2>3. Set(p, rep)
    BY <1>4 DEF rep
  <2>. QED
    BY <1>2, <1>4, <2>2, <2>3, MoveInv
<1>. QED
  BY <1>3, <1>4 DEF Register

LEMMA FirstRegisterInv == ASSUME Inv, NEW p \in Procs, FirstRegister(p) PROVE Inv'
<1>. DEFINE to == IF r[p].kind = "resume" THEN AfterOutputs(p)
                  ELSE IF r[p].repaired THEN "checks" ELSE "repair"
<1>1. /\ to \in {"gate", "deliberate", "repair", "checks"}
      /\ to = "deliberate" => ~r[p].eng
  BY DEF AfterOutputs
<1>2. pc[p] \in {"register", "reregister"} /\ Register(p, to)
  BY DEF FirstRegister, At
<1>3. UNCHANGED <<n, of, st, gate, ckpt, gateRuns, earned>>
  BY DEF FirstRegister, disk, history
<1>. HIDE DEF to
<1>. QED
  BY <1>1, <1>2, <1>3, RegisterInv

LEMMA ReregisterInv == ASSUME Inv, NEW p \in Procs, Reregister(p) PROVE Inv'
<1>1. /\ AfterOutputs(p) \in {"gate", "deliberate", "repair", "checks"}
      /\ AfterOutputs(p) = "deliberate" => ~r[p].eng
  BY DEF AfterOutputs
<1>2. pc[p] \in {"register", "reregister"} /\ Register(p, AfterOutputs(p))
  BY DEF Reregister, At
<1>3. UNCHANGED <<n, of, st, gate, ckpt, gateRuns, earned>>
  BY DEF Reregister, disk, history
<1>. QED
  BY <1>1, <1>2, <1>3, RegisterInv

LEMMA RepairInv == ASSUME Inv, NEW p \in Procs, Repair(p) PROVE Inv'
<1>1. /\ r[p] \in Reports /\ r[p].att \in Attempts
      /\ r[p].missing \/ r[p].unregistered \/ r[p].att \in reg
  BY Here DEF Repair, At, Working, Noted
<1>2. Frame
  BY Quiet DEF Repair, ticket, disk, history, Inv, Types
<1>. DEFINE rep == [r[p] EXCEPT !.repaired = TRUE]
<1>3. /\ rep \in Reports /\ rep.att = r[p].att
      /\ rep.missing = r[p].missing /\ rep.unregistered = r[p].unregistered
  BY <1>1 DEF Reports
<1>4. Set(p, rep)
  BY DEF Repair
<1>. HIDE DEF rep
<1>5. PICK to \in {"agent", "checks"} : Go(p, to)
  BY DEF Repair
<1>6. Fit(to, rep)
  BY <1>1, <1>2, <1>3 DEF Fit, Frame, Points, Working, Noted
<1>. QED
  BY <1>2, <1>4, <1>5, <1>6, MoveInv

LEMMA PersistInv == ASSUME Inv, NEW p \in Procs, Persist(p) PROVE Inv'
<1>1. /\ r[p] \in Reports /\ r[p].att \in Attempts
      /\ r[p].missing \/ r[p].unregistered \/ r[p].att \in reg
  BY Here DEF Persist, At, Working, Noted
<1>2. Frame
  BY Quiet DEF Persist, ticket, history, Inv, Types
<1>3. PICK to \in {"reregister", "gate", "deliberate"} :
        Go(p, to) /\ (to = "deliberate" => ~r[p].eng)
  BY DEF Persist, AfterOutputs
<1>4. Fit(to, r[p])
  BY <1>1, <1>2, <1>3 DEF Fit, Frame, Points, Working, Noted
<1>. QED
  BY <1>2, <1>3, <1>4, StayInv DEF Persist
-----------------------------------------------------------------------------
(* The engineering gate.                                                   *)

\* A refusal goes to a finish that can only claim a failure.
LEMMA FailInv ==
  ASSUME Inv, Frame, NEW p \in Procs, pc[p] \in {"gate", "review"}, Fail(p)
  PROVE  Inv'
<1>1. /\ r[p] \in Reports /\ r[p].att \in Attempts
      /\ r[p].missing \/ r[p].unregistered \/ r[p].att \in reg
  BY Here DEF Working, Noted
<1>. DEFINE rep == [r[p] EXCEPT !.failed = TRUE, !.final = FALSE]
<1>2. /\ rep \in Reports /\ rep.att = r[p].att /\ rep.failed
      /\ rep.missing = r[p].missing /\ rep.unregistered = r[p].unregistered
  BY <1>1 DEF Reports
<1>3. Set(p, rep) /\ Go(p, "finish")
  BY DEF Fail
<1>. HIDE DEF rep
<1>4. Fit("finish", rep)
  BY <1>1, <1>2 DEF Fit, Frame, Points, Working, Noted
<1>. QED
  BY <1>3, <1>4, MoveInv

\* The one who opens the operation finds the plan not executed, and nobody
\* else about to execute it.
LEMMA GateInv == ASSUME Inv, NEW p \in Procs, Gate(p) PROVE Inv'
<1>. DEFINE i == r[p].att
<1>1. /\ pc[p] = "gate" /\ r[p] \in Reports /\ i \in Attempts
      /\ r[p].missing \/ r[p].unregistered \/ i \in reg
  BY Here DEF Gate, At, Working, Noted
<1>2. Frame
  <2>1. CASE UNCHANGED gate
    BY <2>1, Quiet DEF Gate, disk, history, Inv, Types
  <2>2. CASE gate[i] = "none" /\ gate' = [gate EXCEPT ![i] = "open"]
    <3>1. gate' \in [Attempts -> {"none", "open", "closed", "passed"}]
      BY <2>2 DEF Inv, Types
    <3>2. \A j \in Attempts : /\ gate[j] = "passed" => gate'[j] = "passed"
                              /\ gate'[j] = "none" => gate[j] = "none"
                              /\ gate'[j] = "passed" => gate[j] = "passed"
      BY <1>1, <2>2 DEF Inv, Types
    <3>3. UNCHANGED <<n, of, st, ckpt, reg, gateRuns, earned>>
      BY DEF Gate, disk, history
    <3>4. Claims'
      BY <3>2, <3>3 DEF Inv, Claims, SuccessEarned
    <3>5. \A j \in Attempts : gate'[j] = "passed" => gateRuns[j] = 1
      BY <3>2 DEF Inv, Planning
    <3>. QED
      BY <3>1, <3>2, <3>3, <3>4, <3>5 DEF Inv, Types, Frame
  <2>. QED
    BY <2>1, <2>2 DEF Gate
<1>3. CASE Fail(p)
  BY <1>1, <1>2, <1>3, FailInv
<1>4. CASE Go(p, "stop") /\ UNCHANGED r
  <2>1. Fit("stop", r[p])
    BY <1>1 DEF Fit, Points, Working, Noted
  <2>. QED
    BY <1>2, <1>4, <2>1, StayInv
<1>5. CASE /\ gate[i] = "none" /\ gate' = [gate EXCEPT ![i] = "open"]
           /\ Go(p, "plan") /\ UNCHANGED r
  <2>1. /\ pc'[p] = "plan" /\ pc' \in [Procs -> Points]
        /\ \A q \in Procs : q # p => pc'[q] = pc[q]
    BY <1>5 DEF Go, Inv, Types, Points
  <2>2. Types'
    BY <1>2, <1>5, <2>1 DEF Inv, Types, Frame
  <2>3. Bounded' /\ Registered'
    BY <1>1, <1>2, <1>5, <2>1 DEF Inv, Bounded, Registered, Frame
  <2>4. Gated'
    BY <1>2, <1>5, <2>1 DEF Inv, Bounded, Gated, Working, Frame
  <2>5. /\ gate'[i] # "none" /\ gateRuns' = gateRuns /\ gateRuns[i] = 0
        /\ \A q \in Procs : pc[q] = "plan" => r[q].att # i
    BY <1>1, <1>2, <1>5 DEF Inv, Types, Planning, Frame
  <2>6. Planning'
    BY <1>1, <1>2, <1>5, <2>1, <2>5 DEF Inv, Bounded, Working, Planning, Frame
  <2>. QED
    BY <1>2, <2>2, <2>3, <2>4, <2>5, <2>6 DEF Inv, PlanRunsOnce, Frame
<1>. QED
  BY <1>3, <1>4, <1>5 DEF Gate

\* The plan was not executed for this attempt, and nobody else is about to.
LEMMA PlanInv == ASSUME Inv, NEW p \in Procs, Plan(p) PROVE Inv'
<1>. DEFINE i == r[p].att
<1>1. /\ pc[p] = "plan" /\ r[p] \in Reports /\ i \in Attempts
      /\ r[p].missing \/ r[p].unregistered \/ i \in reg
  BY Here DEF Plan, At, Working, Noted
<1>2. /\ gate[i] \notin {"none", "passed"} /\ gateRuns[i] = 0
      /\ \A q \in Procs : pc[q] = "plan" /\ r[q].att = i => q = p
      /\ \A q \in Procs : pc[q] = "review" => r[q].att # i
  BY <1>1 DEF Inv, Planning
<1>3. /\ gateRuns' \in [Attempts -> Nat] /\ gateRuns'[i] = 1
      /\ \A j \in Attempts : j # i => gateRuns'[j] = gateRuns[j]
  BY <1>1, <1>2 DEF Plan, Inv, Types
<1>4. gate' \in {gate, [gate EXCEPT ![i] = "closed"]}
  BY DEF Plan
<1>5. /\ gate' \in [Attempts -> {"none", "open", "closed", "passed"}]
      /\ gate'[i] \notin {"none", "passed"}
      /\ \A j \in Attempts : j # i => gate'[j] = gate[j]
  BY <1>1, <1>2, <1>4 DEF Inv, Types
<1>6. UNCHANGED <<n, of, st, reg, ckpt, earned>>
  BY DEF Plan, disk
<1>7. PICK to \in {"review", "finish", "idle"}, rep \in Reports :
        /\ Go(p, to) /\ Set(p, rep)
        /\ to # "idle" => /\ rep.att = i
                          /\ rep.missing \/ rep.unregistered \/ i \in reg
        /\ to = "finish" => rep.failed
  <2>1. CASE Go(p, "review") /\ UNCHANGED r
    <3>1. Set(p, r[p])
      BY <2>1 DEF Set, Inv, Types
    <3>. QED
      BY <1>1, <2>1, <3>1
  <2>2. CASE Fail(p)
    <3>. DEFINE rep == [r[p] EXCEPT !.failed = TRUE, !.final = FALSE]
    <3>1. /\ rep \in Reports /\ rep.att = r[p].att /\ rep.failed
          /\ rep.missing = r[p].missing /\ rep.unregistered = r[p].unregistered
      BY <1>1 DEF Reports
    <3>2. Set(p, rep) /\ Go(p, "finish")
      BY <2>2 DEF Fail
    <3>. HIDE DEF rep
    <3>. QED
      BY <1>1, <3>1, <3>2
  <2>3. CASE Leave(p)
    BY <2>3, IdleReport DEF Leave
  <2>. QED
    BY <2>1, <2>2, <2>3 DEF Plan
<1>8. /\ pc'[p] = to /\ r'[p] = rep
      /\ \A q \in Procs : q # p => pc'[q] = pc[q] /\ r'[q] = r[q]
      /\ pc' \in [Procs -> Points] /\ r' \in [Procs -> Reports]
  BY <1>7, Moved DEF Inv, Points
<1>9. Types' /\ Bounded' /\ Registered'
  <2>1. Types'
    BY <1>3, <1>5, <1>6, <1>8 DEF Inv, Types
  <2>2. Bounded' /\ Registered'
    BY <1>1, <1>6, <1>7, <1>8 DEF Inv, Bounded, Registered, Working, Noted
  <2>. QED
    BY <2>1, <2>2
<1>10. Gated'
  BY <1>2, <1>5, <1>7, <1>8 DEF Inv, Gated, Bounded, Working
<1>11. Planning'
  BY <1>1, <1>2, <1>3, <1>5, <1>7, <1>8 DEF Inv, Planning, Bounded, Working
<1>12. Claims'
  BY <1>2, <1>5, <1>6 DEF Inv, Claims, SuccessEarned
<1>13. PlanRunsOnce'
  BY <1>3 DEF Inv, PlanRunsOnce
<1>. QED
  BY <1>9, <1>10, <1>11, <1>12, <1>13 DEF Inv

LEMMA ReviewInv == ASSUME Inv, NEW p \in Procs, Review(p) PROVE Inv'
<1>. DEFINE i == r[p].att
<1>1. /\ pc[p] = "review" /\ r[p] \in Reports /\ i \in Attempts
      /\ r[p].missing \/ r[p].unregistered \/ i \in reg
  BY Here DEF Review, At, Working, Noted
<1>2. Frame
  <2>1. CASE UNCHANGED gate
    BY <2>1, Quiet DEF Review, disk, history, Inv, Types
  <2>2. CASE gate' = [gate EXCEPT ![i] = "passed"]
    <3>1. gate' \in [Attempts -> {"none", "open", "closed", "passed"}]
      BY <2>2 DEF Inv, Types
    <3>2. \A j \in Attempts : /\ gate[j] = "passed" => gate'[j] = "passed"
                              /\ gate'[j] = "none" => gate[j] = "none"
                              /\ gate'[j] = "passed" => j = i \/ gate[j] = "passed"
      BY <1>1, <2>2 DEF Inv, Types
    <3>3. UNCHANGED <<n, of, st, ckpt, reg, gateRuns, earned>>
      BY DEF Review, disk, history
    <3>4. Claims'
      BY <3>2, <3>3 DEF Inv, Claims, SuccessEarned
    <3>5. gateRuns[i] = 1
      BY <1>1 DEF Inv, Planning
    <3>6. \A j \in Attempts : gate'[j] = "passed" => gateRuns[j] = 1
      BY <3>2, <3>5 DEF Inv, Planning
    <3>. QED
      BY <3>1, <3>2, <3>3, <3>4, <3>6 DEF Inv, Types, Frame
  <2>. QED
    BY <2>1, <2>2 DEF Review
<1>3. CASE Fail(p)
  BY <1>1, <1>2, <1>3, FailInv
<1>4. CASE Go(p, "stop") /\ UNCHANGED r
  <2>1. Fit("stop", r[p])
    BY <1>1 DEF Fit, Points, Working, Noted
  <2>. QED
    BY <1>2, <1>4, <2>1, StayInv
<1>5. CASE Leave(p)
  BY <1>2, <1>5, LeaveInv
<1>6. CASE /\ gate' = [gate EXCEPT ![i] = "passed"]
           /\ Go(p, "deliberate") /\ UNCHANGED r
  <2>1. gate'[i] = "passed"
    BY <1>1, <1>6 DEF Inv, Types
  <2>2. Fit("deliberate", r[p])
    BY <1>1, <1>2, <2>1 DEF Fit, Frame, Points, Working, Noted
  <2>. QED
    BY <1>2, <1>6, <2>2, StayInv
<1>. QED
  BY <1>3, <1>4, <1>5, <1>6 DEF Review
-----------------------------------------------------------------------------
(* The end of a step.                                                      *)

LEMMA DeliberateInv == ASSUME Inv, NEW p \in Procs, Deliberate(p) PROVE Inv'
<1>1. /\ r[p] \in Reports /\ r[p].att \in Attempts
      /\ r[p].missing \/ r[p].unregistered \/ r[p].att \in reg
      /\ ~r[p].eng \/ r[p].failed \/ gate[r[p].att] = "passed"
  BY Here DEF Deliberate, At, Working, Noted
<1>2. Frame
  BY Quiet DEF Deliberate, ticket, disk, history, Inv, Types
<1>3. CASE Leave(p)
  BY <1>2, <1>3, LeaveInv
<1>4. CASE Go(p, "stop") /\ UNCHANGED r
  <2>1. Fit("stop", r[p])
    BY <1>1 DEF Fit, Points, Working, Noted
  <2>. QED
    BY <1>2, <1>4, <2>1, StayInv
<1>5. ASSUME NEW bad \in BOOLEAN, Go(p, "finish"),
             Set(p, [r[p] EXCEPT !.failed = @ \/ bad \/ (r[p].eng /\ ~Bound(p))])
      PROVE  Inv'
  <2>. DEFINE b == r[p].failed \/ bad \/ (r[p].eng /\ ~Bound(p))
              rep == [r[p] EXCEPT !.failed = b]
  <2>1. b \in BOOLEAN /\ (r[p].failed => b)
    OBVIOUS
  <2>2. Set(p, rep)
    BY <1>5
  <2>. HIDE DEF b
  <2>3. /\ rep \in Reports /\ rep.att = r[p].att /\ rep.eng = r[p].eng /\ rep.failed = b
        /\ rep.missing = r[p].missing /\ rep.unregistered = r[p].unregistered
    BY <1>1, <2>1 DEF Reports
  <2>. HIDE DEF rep
  <2>4. Fit("finish", rep)
    BY <1>1, <1>2, <2>1, <2>3 DEF Fit, Frame, Points, Working, Noted
  <2>. QED
    BY <1>2, <1>5, <2>2, <2>4, MoveInv
<1>. QED
  BY <1>3, <1>4, <1>5 DEF Deliberate

\* A process that goes on to a point past the finish.
LEMMA PastInv ==
  ASSUME Inv, Frame, NEW p \in Procs, NEW to \in {"clear", "advance", "conclude"},
         NEW rep \in Reports, Go(p, to), Set(p, rep)
  PROVE  Inv'
<1>1. Fit(to, rep)
  BY DEF Fit, Points, Working, Noted
<1>. QED
  BY <1>1, MoveInv

LEMMA FinishedInv ==
  ASSUME Inv, Frame, NEW p \in Procs, NEW outcome \in {"success", "failure"},
         Accepted(p, outcome) \/ Unaccepted(p)
  PROVE  Inv'
<1>1. r[p] \in Reports
  BY Here
<1>2. CASE Leave(p)
  BY <1>2, LeaveInv
<1>3. /\ [r[p] EXCEPT !.finish = outcome] \in Reports
      /\ [r[p] EXCEPT !.failed = TRUE] \in Reports
  BY <1>1 DEF Reports
<1>. QED
  BY <1>2, <1>3, PastInv DEF Accepted, Unaccepted

\* Only a report without a complaint claims success, and what it stands for is
\* in the control plane.
LEMMA FinishStepInv == ASSUME Inv, NEW p \in Procs, FinishStep(p) PROVE Inv'
<1>. DEFINE i == r[p].att
<1>1. /\ r[p] \in Reports /\ i \in Attempts
      /\ r[p].missing \/ r[p].unregistered \/ i \in reg
      /\ ~r[p].eng \/ r[p].failed \/ gate[i] = "passed"
  BY Here DEF FinishStep, At, Working, Noted
<1>2. Outcome(p) \in {"success", "failure"}
  BY DEF Outcome
<1>3. Outcome(p) = "success" => i \in reg /\ (r[p].eng => gate[i] = "passed")
  BY <1>1 DEF Outcome
<1>4. UNCHANGED <<n, of, reg, gate, ckpt, gateRuns>>
  BY DEF FinishStep, disk
<1>5. Frame
  <2>1. CASE UNCHANGED <<st, earned>>
    BY <1>4, <2>1, Quiet DEF Inv, Types
  <2>2. CASE /\ st' = [st EXCEPT ![i] = Outcome(p)]
             /\ earned' = IF Outcome(p) = "success" /\ r[p].eng
                          THEN earned \cup {i} ELSE earned
    <3>1. /\ st' \in [Attempts -> {"none", "open", "success", "failure"}]
          /\ st'[i] = Outcome(p)
          /\ \A j \in Attempts : j # i => st'[j] = st[j]
      BY <1>1, <1>2, <2>2 DEF Inv, Types
    <3>2. \A j \in Attempts : j \in earned' => gate[j] = "passed"
      BY <1>3, <2>2 DEF Inv, Claims
    <3>3. Claims'
      BY <1>3, <1>4, <3>1, <3>2 DEF Inv, Claims, SuccessEarned
    <3>. QED
      BY <1>4, <3>1, <3>3 DEF Inv, Types, Planning, Frame
  <2>. QED
    BY <2>1, <2>2 DEF FinishStep
<1>. QED
  BY <1>2, <1>5, FinishedInv DEF FinishStep

LEMMA BudgetStopInv == ASSUME Inv, NEW p \in Procs, BudgetStop(p) PROVE Inv'
<1>. DEFINE i == r[p].att
<1>1. UNCHANGED <<n, of, reg, gate, ckpt, gateRuns, earned>> /\ Leave(p)
  BY DEF BudgetStop, disk, history
<1>2. CASE UNCHANGED st
  BY <1>1, <1>2, Quiet, LeaveInv DEF Inv, Types
<1>3. CASE st' = [st EXCEPT ![i] = "failure"]
  <2>1. /\ st' \in [Attempts -> {"none", "open", "success", "failure"}]
        /\ \A j \in Attempts : st'[j] = "success" => st[j] = "success"
    BY <1>3 DEF Inv, Types
  <2>2. Claims'
    BY <1>1, <2>1 DEF Inv, Claims, SuccessEarned
  <2>3. Frame
    BY <1>1, <2>1, <2>2 DEF Inv, Types, Planning, Frame
  <2>. QED
    BY <1>1, <2>3, LeaveInv
<1>. QED
  BY <1>2, <1>3 DEF BudgetStop

LEMMA ClearInv == ASSUME Inv, NEW p \in Procs, Clear(p) PROVE Inv'
<1>1. Frame
  BY Quiet DEF Clear, NoFile, ticket, history
<1>2. Set(p, r[p]) /\ r[p] \in Reports
  BY DEF Clear, Set, Inv, Types
<1>. QED
  BY <1>1, <1>2, PastInv DEF Clear

LEMMA AdvanceInv == ASSUME Inv, NEW p \in Procs, Advance(p) PROVE Inv'
<1>1. r[p] \in Reports
  BY Here
<1>2. Frame
  BY Quiet DEF Advance, disk, history, Inv, Types
<1>3. CASE Leave(p)
  BY <1>2, <1>3, LeaveInv
<1>4. /\ [r[p] EXCEPT !.advance = "advanced"] \in Reports
      /\ [r[p] EXCEPT !.advance = "blocked"] \in Reports
      /\ [r[p] EXCEPT !.failed = TRUE] \in Reports
  BY <1>1 DEF Reports
<1>5. ASSUME NEW rep \in Reports, Set(p, rep), Go(p, "conclude")
      PROVE  Inv'
  BY <1>2, <1>5, PastInv
<1>. QED
  BY <1>1, <1>3, <1>4, <1>5 DEF Advance

LEMMA ConcludeInv == ASSUME Inv, NEW p \in Procs, Conclude(p) PROVE Inv'
<1>1. Frame
  BY Quiet DEF Conclude, ticket, disk, history, Inv, Types
<1>2. CASE Leave(p)
  BY <1>1, <1>2, LeaveInv
<1>3. CASE /\ r[p].step < NSteps
           /\ Set(p, Report("chain", r[p].step + 1, FALSE)) /\ Go(p, "observe")
  <2>1. r[p].step \in 0..NSteps
    BY Here DEF Reports
  <2>2. r[p].step + 1 \in Steps /\ "chain" \in {"chain", "step", "resume"} /\ FALSE \in BOOLEAN
    BY <1>3, <2>1, StepRunnerAssumption DEF Steps
  <2>3. Report("chain", r[p].step + 1, FALSE) \in Reports
    BY <2>2, NewReport
  <2>4. Fit("observe", Report("chain", r[p].step + 1, FALSE))
    BY <2>3 DEF Fit, Points, Working, Noted
  <2>. QED
    BY <1>1, <1>3, <2>4, MoveInv
<1>. QED
  BY <1>2, <1>3 DEF Conclude
-----------------------------------------------------------------------------
(* Resumption, recovery and crashes.                                       *)

LEMMA AnalyzedType == ASSUME Inv PROVE Analyzed \in [att : Nat, step : Nat, pending : BOOLEAN]
BY DEF Inv, Types, Analyzed, NoFile

\* A resumption works on one attempt.
LEMMA ResumedAttempt ==
  ASSUME NEW p \in Procs, Resume(p)
  PROVE  \E s \in Steps, eng \in BOOLEAN, i \in Attempts :
           Set(p, [Report("resume", s, eng) EXCEPT !.att = i])
<1>1. PICK s \in Steps, policy \in BOOLEAN :
        \E i \in (IF Analyzed.att # 0 THEN {Analyzed.att} ELSE Open) :
          Set(p, [Report("resume", s, s \in Engineering /\ (ckpt.pending \/ policy))
                    EXCEPT !.att = i])
  BY DEF Resume
<1>2. (IF Analyzed.att # 0 THEN {Analyzed.att} ELSE Open) \subseteq Attempts
  BY DEF Analyzed, NoFile, Open
<1>3. (s \in Engineering /\ (ckpt.pending \/ policy)) \in BOOLEAN
  OBVIOUS
<1>. QED
  BY <1>1, <1>2, <1>3

LEMMA ResumeInv == ASSUME Inv, NEW p \in Procs, Resume(p) PROVE Inv'
<1>1. ckpt' = Analyzed /\ Go(p, "agent")
  BY DEF Resume
<1>2. Frame
  BY <1>1, AnalyzedType, Quiet DEF Resume, ticket, history
<1>3. PICK s \in Steps, eng \in BOOLEAN, i \in Attempts :
        Set(p, [Report("resume", s, eng) EXCEPT !.att = i])
  BY ResumedAttempt
<1>. DEFINE rep == [Report("resume", s, eng) EXCEPT !.att = i]
<1>4. rep \in Reports /\ rep.att = i
  <2>1. "resume" \in {"chain", "step", "resume"}
    OBVIOUS
  <2>2. Report("resume", s, eng) \in Reports
    BY <2>1, NewReport
  <2>. QED
    BY <2>2, ResumedReport
<1>5. Set(p, rep)
  BY <1>3
<1>. HIDE DEF rep
<1>6. Fit("agent", rep)
  BY <1>4 DEF Fit, Points, Working, Noted
<1>. QED
  BY <1>1, <1>2, <1>5, <1>6, MoveInv

\* A step that moves no process.
LEMMA StillInv ==
  ASSUME Inv, Frame, UNCHANGED <<pc, r>>
  PROVE  Inv'
<1>1. Types' /\ Bounded'
  BY DEF Inv, Types, Bounded, Frame
<1>2. Registered'
  BY DEF Inv, Registered, Frame
<1>3. Gated'
  BY DEF Inv, Gated, Bounded, Working, Frame
<1>4. Planning'
  BY DEF Inv, Planning, Bounded, Working, Frame
<1>. QED
  BY <1>1, <1>2, <1>3, <1>4 DEF Inv, PlanRunsOnce, Frame

LEMMA RecoverInv == ASSUME Inv, Recover PROVE Inv'
<1>1. Frame
  BY AnalyzedType, Quiet DEF Recover, ticket, history
<1>. QED
  BY <1>1, StillInv DEF Recover

\* Only an operation that is open is closed.
LEMMA ResolveInv == ASSUME Inv, NEW i \in Attempts, Resolve(i) PROVE Inv'
<1>1. UNCHANGED <<n, of, st, ckpt, reg, gateRuns, earned, pc, r>>
  BY DEF Resolve, disk, history
<1>2. /\ gate' \in [Attempts -> {"none", "open", "closed", "passed"}]
      /\ \A j \in Attempts :
           /\ gate[j] = "passed" => gate'[j] = "passed"
           /\ gate'[j] = "none" => gate[j] = "none"
           /\ gate'[j] = "passed" => gate[j] = "passed"
  BY DEF Resolve, Inv, Types
<1>3. Claims'
  BY <1>1, <1>2 DEF Inv, Claims, SuccessEarned
<1>4. \A j \in Attempts : gate'[j] = "passed" => gateRuns[j] = 1
  BY <1>2 DEF Inv, Planning
<1>5. Frame
  BY <1>1, <1>2, <1>3, <1>4 DEF Inv, Types, Frame
<1>. QED
  BY <1>1, <1>5, StillInv

LEMMA CrashInv == ASSUME Inv, NEW p \in Procs, Crash(p) PROVE Inv'
<1>1. Frame
  BY Quiet DEF Crash, ticket, disk, history, Inv, Types
<1>. QED
  BY <1>1, LeaveInv DEF Crash

LEMMA NextInv == Inv /\ [Next]_vars => Inv'
<1>. SUFFICES ASSUME Inv, [Next]_vars PROVE Inv'
  OBVIOUS
<1>1. CASE UNCHANGED vars
  <2>1. Frame /\ UNCHANGED <<pc, r>>
    BY <1>1, Quiet DEF vars, ticket, disk, history, Inv, Types
  <2>. QED
    BY <2>1, StillInv
<1>2. CASE Next
  BY <1>2, BeginInv, ResumeInv, ObserveInv, EnterInv, StartInv, MarkInv, CheckInv,
     TurnInv, AgentEndsInv, FirstRegisterInv, RepairInv, PersistInv, ReregisterInv,
     GateInv, PlanInv, ReviewInv, DeliberateInv, FinishStepInv, BudgetStopInv,
     ClearInv, AdvanceInv, ConcludeInv, CrashInv, ResolveInv, RecoverInv DEF Next
<1>. QED
  BY <1>1, <1>2

(* Whatever is repaired, persisted, lost, interrupted or resumed, and      *)
(* however many processes work on the ticket: _finish_step claims success  *)
(* only for an attempt whose outputs are registered, and after a gate that *)
(* this attempt passed.                                                    *)
THEOREM SuccessIsEarned == Spec => []SuccessEarned
<1>1. Inv => SuccessEarned
  BY DEF Inv, Claims
<1>. QED
  BY InitInv, NextInv, <1>1, PTL DEF Spec

(* The verification plan of an attempt is executed at most once, by any    *)
(* number of processes, resumptions and crashes.                           *)
THEOREM PlanExecutedOnce == Spec => []PlanRunsOnce
<1>1. Inv => PlanRunsOnce
  BY DEF Inv
<1>. QED
  BY InitInv, NextInv, <1>1, PTL DEF Spec
-----------------------------------------------------------------------------
(***************************************************************************)
(* Delivery.  A report that claims a success stands for an attempt of its  *)
(* step that succeeded, until its status is advanced; after that the done  *)
(* status stands for it, and a chain that has come to a step has every     *)
(* step before it done.                                                    *)
(***************************************************************************)
Closing == {"clear", "advance", "conclude"}
Passed(rep) == rep.finish = "success" /\ ~rep.failed
Succeeded(i, s) == i \in Attempts /\ of[i] = s /\ st[i] = "success"
DoneBefore(k) == \A s \in Steps : s < k => Done(s) \in reached

\* What a process may be at a control point with a report.
Earns(here, rep) ==
  /\ here \in {"clear", "advance"} /\ Passed(rep) => Succeeded(rep.att, rep.step)
  /\ here = "conclude" /\ Passed(rep) /\ rep.advance # "blocked" => Done(rep.step) \in reached
  /\ rep.kind = "chain" => DoneBefore(rep.step)

Delivery ==
  /\ \A i \in Attempts : i > n => st[i] = "none"
  /\ \A p \in Procs : Earns(pc[p], r[p])
  /\ DeliveryEarned

\* What a new report says of its kind and step.
LEMMA ReportOf ==
  /\ Idle.kind = "none"
  /\ \A kind, s, eng : Report(kind, s, eng).kind = kind /\ Report(kind, s, eng).step = s
BY DEF Idle, Report

LEMMA InitDelivery == Init => Delivery
<1>. SUFFICES ASSUME Init PROVE Delivery
  OBVIOUS
<1>1. \A i \in Attempts : i > n => st[i] = "none"
  <2>1. n \in Nat /\ st = [i \in Attempts |-> IF i <= n THEN "failure" ELSE "none"]
    BY StepRunnerAssumption DEF Init
  <2>. QED
    BY <2>1 DEF Attempts
<1>2. \A p \in Procs : pc[p] = "idle" /\ r[p].kind = "none"
  BY ReportOf DEF Init
<1>2a. \A p \in Procs : Earns(pc[p], r[p])
  BY <1>2 DEF Earns
<1>3. \A s \in Steps : Done(s) \notin reached
  BY DEF Init, In, Done
<1>. QED
  BY <1>1, <1>2a, <1>3 DEF Init, Delivery, DeliveryEarned

\* Statuses that were reached and attempts that succeeded stay.
Kept ==
  /\ reached \subseteq reached'
  /\ \A i \in Attempts : st[i] = "success" => st'[i] = "success" /\ of'[i] = of[i]
  /\ \A i \in Attempts : i > n' => st'[i] = "none"

\* The whole invariant after a step of one process.
LEMMA MoveDelivery ==
  ASSUME Inv, Delivery, Kept, NEW p \in Procs,
         \A q \in Procs : q # p => pc'[q] = pc[q] /\ r'[q] = r[q],
         Earns(pc[p], r[p])', DeliveryEarned'
  PROVE  Delivery'
<1>1. \A q \in Procs : Earns(pc[q], r[q])'
  <2>1. SUFFICES ASSUME NEW q \in Procs, q # p PROVE Earns(pc[q], r[q])'
    OBVIOUS
  <2>2. pc'[q] = pc[q] /\ r'[q] = r[q] /\ Earns(pc[q], r[q]) /\ r[q] \in Reports
    BY <2>1, Here DEF Delivery
  <2>3. r[q].kind = "chain" => DoneBefore(r[q].step)'
    BY <2>2 DEF Kept, Earns, DoneBefore
  <2>4. Succeeded(r[q].att, r[q].step) => Succeeded(r[q].att, r[q].step)'
    BY <2>2 DEF Kept, Succeeded
  <2>5. Passed(r[q])' <=> Passed(r[q])
    BY <2>2 DEF Passed
  <2>6. Done(r[q].step) \in reached => (Done(r[q].step) \in reached)'
    BY <2>2 DEF Kept, Done
  <2>. QED
    BY <2>2, <2>3, <2>4, <2>5, <2>6 DEF Earns
<1>. QED
  BY <1>1 DEF Delivery, Kept
(* A step that leaves the ticket's attempts alone, adds no done status and *)
(* ends before the accepted finish.                                        *)
Works(p) ==
  /\ UNCHANGED <<n, of, st>> /\ delivered' \subseteq delivered /\ reached \subseteq reached'
  /\ \A s \in Steps : Done(s) \in reached' => Done(s) \in reached
  /\ \A q \in Procs : q # p => pc'[q] = pc[q] /\ r'[q] = r[q]
  /\ pc'[p] \notin Closing
  /\ r'[p].kind = "chain" => r'[p].step = 1 \/ (r[p].kind = "chain" /\ r'[p].step = r[p].step)

LEMMA WorksDelivery == ASSUME Inv, Delivery, NEW p \in Procs, Works(p) PROVE Delivery'
<1>1. Kept
  BY DEF Works, Kept, Delivery
<1>2. r[p].kind = "chain" => DoneBefore(r[p].step)
  BY DEF Delivery, Earns
<1>3. r'[p].kind = "chain" => DoneBefore(r[p].step)'
  <2>1. CASE r'[p].step = 1
    BY <2>1 DEF DoneBefore, Steps
  <2>2. CASE r[p].kind = "chain" /\ r'[p].step = r[p].step
    BY <1>2, <2>2 DEF DoneBefore, Works
  <2>. QED
    BY <2>1, <2>2 DEF Works
<1>4. Earns(pc[p], r[p])'
  BY <1>3 DEF Works, Earns, Closing
<1>5. DeliveryEarned'
  BY DEF Works, Delivery, DeliveryEarned
<1>. QED
  BY <1>1, <1>4, <1>5, MoveDelivery DEF Works

LEMMA LeaveWorks ==
  ASSUME Inv, NEW p \in Procs, Leave(p), UNCHANGED <<reached, n, of, st>>,
         delivered' \subseteq delivered
  PROVE  Works(p)
<1>1. /\ pc'[p] = "idle" /\ r'[p] = Idle
      /\ \A q \in Procs : q # p => pc'[q] = pc[q] /\ r'[q] = r[q]
  BY DEF Inv, Types, Leave, Go, Set
<1>2. r'[p].kind # "chain" /\ pc'[p] \notin Closing
  BY <1>1, ReportOf DEF Closing
<1>. QED
  BY <1>1, <1>2 DEF Works

\* The same report, or one that keeps its kind and step, at another point.
LEMMA KeepsWorks ==
  ASSUME Inv, NEW p \in Procs, NEW to, NEW rep, Go(p, to), Set(p, rep),
         rep.kind = r[p].kind, rep.step = r[p].step, to \notin Closing,
         UNCHANGED <<reached, n, of, st>>, delivered' \subseteq delivered
  PROVE  Works(p)
BY DEF Inv, Types, Go, Set, Works

LEMMA StaysWorks ==
  ASSUME Inv, NEW p \in Procs, NEW to, Go(p, to), UNCHANGED r, to \notin Closing,
         UNCHANGED <<reached, n, of, st>>, delivered' \subseteq delivered
  PROVE  Works(p)
BY DEF Inv, Types, Go, Works

\* A report whose flags change keeps its kind and step.
LEMMA SameReport ==
  ASSUME NEW rep \in Reports, NEW a, NEW b
  PROVE  /\ LET new == [rep EXCEPT !.key = a] IN new.kind = rep.kind /\ new.step = rep.step
         /\ LET new == [rep EXCEPT !.acting = a] IN new.kind = rep.kind /\ new.step = rep.step
         /\ LET new == [rep EXCEPT !.repaired = a] IN new.kind = rep.kind /\ new.step = rep.step
         /\ LET new == [rep EXCEPT !.failed = a] IN new.kind = rep.kind /\ new.step = rep.step
         /\ LET new == [rep EXCEPT !.att = a, !.key = b] IN new.kind = rep.kind /\ new.step = rep.step
<1>1. LET new == [rep EXCEPT !.key = a] IN new.kind = rep.kind /\ new.step = rep.step
  BY Zenon DEF Reports
<1>2. LET new == [rep EXCEPT !.acting = a] IN new.kind = rep.kind /\ new.step = rep.step
  BY Zenon DEF Reports
<1>3. LET new == [rep EXCEPT !.repaired = a] IN new.kind = rep.kind /\ new.step = rep.step
  BY Zenon DEF Reports
<1>4. LET new == [rep EXCEPT !.failed = a] IN new.kind = rep.kind /\ new.step = rep.step
  BY Zenon DEF Reports
<1>5. LET new == [rep EXCEPT !.att = a, !.key = b] IN new.kind = rep.kind /\ new.step = rep.step
  BY Zenon DEF Reports
<1>. QED
  BY <1>1, <1>2, <1>3, <1>4, <1>5

LEMMA ObserveWorks == ASSUME Inv, NEW p \in Procs, Observe(p) PROVE Works(p)
<1>1. UNCHANGED <<reached, n, of, st>> /\ delivered' \subseteq delivered /\ r[p] \in Reports
  BY Here DEF Observe, ticket
<1>2. CASE Leave(p)
  BY <1>1, <1>2, LeaveWorks
<1>3. ASSUME NEW to \in {"enter", "start"}, NEW k, Go(p, to), Set(p, [r[p] EXCEPT !.key = k])
      PROVE  Works(p)
  <2>1. to \notin Closing
    BY <1>3 DEF Closing
  <2>. QED
    BY <1>1, <1>3, <2>1, SameReport, KeepsWorks
<1>. QED
  BY <1>2, <1>3 DEF Observe

\* Entering a step adds a status, but no done status.
LEMMA EnterWorks == ASSUME Inv, NEW p \in Procs, Enter(p) PROVE Works(p)
<1>1. UNCHANGED <<n, of, st, delivered>> /\ reached \subseteq reached'
  BY DEF Enter
<1>2. \A s \in Steps : Done(s) \in reached' => Done(s) \in reached
  BY DEF Enter, In, Done
<1>3. CASE Leave(p)
  <2>1. /\ pc'[p] = "idle" /\ r'[p] = Idle
        /\ \A q \in Procs : q # p => pc'[q] = pc[q] /\ r'[q] = r[q]
    BY <1>3 DEF Inv, Types, Leave, Go, Set
  <2>. QED
    BY <1>1, <1>2, <2>1, ReportOf DEF Works, Closing
<1>4. CASE Go(p, "start") /\ UNCHANGED r
  BY <1>1, <1>2, <1>4 DEF Inv, Types, Go, Works, Closing
<1>. QED
  BY <1>3, <1>4 DEF Enter

LEMMA MarkWorks == ASSUME Inv, NEW p \in Procs, Mark(p) PROVE Works(p)
<1>1. Go(p, "check") /\ UNCHANGED <<r, reached, n, of, st, delivered>> /\ "check" \notin Closing
  BY DEF Mark, ticket, Closing
<1>. QED
  BY <1>1, StaysWorks

LEMMA CheckWorks == ASSUME Inv, NEW p \in Procs, Check(p) PROVE Works(p)
<1>1. UNCHANGED <<reached, n, of, st, delivered>> /\ "agent" \notin Closing /\ "persist" \notin Closing
  BY DEF Check, ticket, Closing
<1>2. CASE Leave(p)
  BY <1>1, <1>2, LeaveWorks
<1>3. ASSUME NEW to \in {"agent", "persist"}, Go(p, to), UNCHANGED r PROVE Works(p)
  BY <1>1, <1>3, StaysWorks
<1>. QED
  BY <1>2, <1>3 DEF Check

LEMMA TurnWorks == ASSUME Inv, NEW p \in Procs, Turn(p) PROVE Works(p)
<1>1. UNCHANGED <<reached, n, of, st, delivered, pc>> /\ r[p] \in Reports /\ pc[p] = "agent"
  BY Here DEF Turn, At
<1>2. /\ pc'[p] \notin Closing
      /\ \A q \in Procs : q # p => pc'[q] = pc[q]
  BY <1>1 DEF Closing
<1>3. /\ r'[p].kind = r[p].kind /\ r'[p].step = r[p].step
      /\ \A q \in Procs : q # p => r'[q] = r[q]
  <2>1. CASE UNCHANGED r
    BY <2>1
  <2>2. ASSUME NEW b, Set(p, [r[p] EXCEPT !.acting = b]) PROVE <1>3!:
    BY <1>1, <2>2, SameReport DEF Set, Inv, Types
  <2>. QED
    BY <2>1, <2>2 DEF Turn
<1>. QED
  BY <1>1, <1>2, <1>3 DEF Works

LEMMA BeginWorks == ASSUME Inv, NEW p \in Procs, Begin(p) PROVE Works(p)
<1>1. UNCHANGED <<reached, n, of, st>> /\ delivered' \subseteq delivered
  BY DEF Begin, ticket
<1>2. /\ pc'[p] \notin Closing
      /\ \A q \in Procs : q # p => pc'[q] = pc[q]
  BY DEF Begin, Go, Inv, Types, Closing
<1>3. PICK rep : Set(p, rep) /\ (rep.kind # "chain" \/ rep.step = 1)
  <2>1. CASE Set(p, Report("chain", 1, FALSE))
    <3>1. Report("chain", 1, FALSE).step = 1
      BY Zenon DEF Report
    <3>. QED
      BY <2>1, <3>1
  <2>2. ASSUME NEW s \in Steps, NEW eng, Set(p, Report("step", s, eng))
        PROVE  \E rep : Set(p, rep) /\ (rep.kind # "chain" \/ rep.step = 1)
    <3>1. Report("step", s, eng).kind # "chain"
      BY ReportOf
    <3>. QED
      BY <2>2, <3>1
  <2>. QED
    BY <2>1, <2>2 DEF Begin
<1>4. r'[p] = rep /\ \A q \in Procs : q # p => r'[q] = r[q]
  BY <1>3 DEF Set, Inv, Types
<1>. QED
  BY <1>1, <1>2, <1>3, <1>4 DEF Works

LEMMA ResumeWorks == ASSUME Inv, NEW p \in Procs, Resume(p) PROVE Works(p)
<1>1. UNCHANGED <<reached, n, of, st>> /\ delivered' \subseteq delivered
  BY DEF Resume, ticket
<1>2. /\ pc'[p] \notin Closing
      /\ \A q \in Procs : q # p => pc'[q] = pc[q]
  BY DEF Resume, Go, Inv, Types, Closing
<1>3. PICK s \in Steps, eng \in BOOLEAN, i \in Attempts :
        Set(p, [Report("resume", s, eng) EXCEPT !.att = i])
  BY ResumedAttempt
<1>4. Report("resume", s, eng) \in Reports
  BY NewReport
<1>5. [Report("resume", s, eng) EXCEPT !.att = i].kind = "resume"
  <2>1. \A rep \in Reports : [rep EXCEPT !.att = i].kind = rep.kind
    BY Zenon DEF Reports
  <2>. QED
    BY <1>4, <2>1, ReportOf
<1>6. r'[p].kind = "resume" /\ \A q \in Procs : q # p => r'[q] = r[q]
  BY <1>3, <1>5 DEF Set, Inv, Types
<1>. QED
  BY <1>1, <1>2, <1>6 DEF Works

LEMMA AgentEndsWorks == ASSUME Inv, NEW p \in Procs, AgentEnds(p) PROVE Works(p)
<1>1. UNCHANGED <<reached, n, of, st>> /\ delivered' \subseteq delivered /\ r[p] \in Reports
  BY Here DEF AgentEnds, ticket
<1>2. CASE Leave(p)
  BY <1>1, <1>2, LeaveWorks
<1>3. ASSUME NEW to \in {"register", "stop"}, Go(p, to), Set(p, [r[p] EXCEPT !.acting = FALSE])
      PROVE  Works(p)
  <2>1. to \notin Closing
    BY <1>3 DEF Closing
  <2>. QED
    BY <1>1, <1>3, <2>1, SameReport, KeepsWorks
<1>. QED
  BY <1>2, <1>3 DEF AgentEnds

LEMMA RegisterWorks ==
  ASSUME Inv, NEW p \in Procs, NEW to, Register(p, to), to \notin Closing,
         UNCHANGED <<reached, n, of, st, delivered>>
  PROVE  Works(p)
<1>1. CASE Leave(p)
  BY <1>1, LeaveWorks
<1>2. CASE ~Leave(p)
  <2>1. PICK b, c : Go(p, to) /\ Set(p, [r[p] EXCEPT !.missing = b, !.unregistered = c])
    BY <1>2, Zenon DEF Register
  <2>. DEFINE rep == [r[p] EXCEPT !.missing = b, !.unregistered = c]
  <2>2. r[p] \in Reports
    BY Here
  <2>3. /\ rep.kind = r[p].kind
        /\ rep.step = r[p].step
    BY <2>2, ZenonT(30) DEF Reports
  <2>4. Go(p, to) /\ Set(p, rep)
    BY <2>1
  <2>. HIDE DEF rep
  <2>. QED
    BY <2>3, <2>4, KeepsWorks
<1>. QED
  BY <1>1, <1>2

LEMMA FirstRegisterWorks == ASSUME Inv, NEW p \in Procs, FirstRegister(p) PROVE Works(p)
<1>. DEFINE to == IF r[p].kind = "resume" THEN AfterOutputs(p)
                  ELSE IF r[p].repaired THEN "checks" ELSE "repair"
<1>1. to \notin Closing
  BY DEF Closing, AfterOutputs
<1>2. Register(p, to) /\ UNCHANGED <<reached, n, of, st, delivered>>
  BY DEF FirstRegister
<1>. HIDE DEF to
<1>. QED
  BY <1>1, <1>2, RegisterWorks

LEMMA ReregisterWorks == ASSUME Inv, NEW p \in Procs, Reregister(p) PROVE Works(p)
<1>1. AfterOutputs(p) \notin Closing
  BY DEF Closing, AfterOutputs
<1>. QED
  BY <1>1, RegisterWorks DEF Reregister

LEMMA RepairWorks == ASSUME Inv, NEW p \in Procs, Repair(p) PROVE Works(p)
<1>1. UNCHANGED <<reached, n, of, st, delivered>> /\ r[p] \in Reports
  BY Here DEF Repair, ticket
<1>2. PICK to \in {"agent", "checks"} : Go(p, to)
  BY DEF Repair
<1>3. to \notin Closing /\ Set(p, [r[p] EXCEPT !.repaired = TRUE])
  BY DEF Repair, Closing
<1>. QED
  BY <1>1, <1>2, <1>3, SameReport, KeepsWorks

LEMMA PersistWorks == ASSUME Inv, NEW p \in Procs, Persist(p) PROVE Works(p)
<1>1. UNCHANGED <<reached, n, of, st, delivered, r>>
  BY DEF Persist, ticket
<1>2. PICK to \in {"reregister", "gate", "deliberate"} : Go(p, to)
  BY DEF Persist, AfterOutputs
<1>3. to \notin Closing
  BY DEF Closing
<1>. QED
  BY <1>1, <1>2, <1>3, StaysWorks

LEMMA FailWorks ==
  ASSUME Inv, NEW p \in Procs, Fail(p), UNCHANGED <<reached, n, of, st, delivered>>
  PROVE  Works(p)
<1>. DEFINE rep == [r[p] EXCEPT !.failed = TRUE, !.final = FALSE]
<1>1. r[p] \in Reports /\ "finish" \notin Closing
  BY Here DEF Closing
<1>2. rep.kind = r[p].kind /\ rep.step = r[p].step
  BY <1>1, ZenonT(30) DEF Reports
<1>3. Set(p, rep) /\ Go(p, "finish")
  BY DEF Fail
<1>. HIDE DEF rep
<1>. QED
  BY <1>1, <1>2, <1>3, KeepsWorks

LEMMA GateWorks == ASSUME Inv, NEW p \in Procs, Gate(p) PROVE Works(p)
<1>1. UNCHANGED <<reached, n, of, st, delivered>> /\ "plan" \notin Closing /\ "stop" \notin Closing
  BY DEF Gate, Closing
<1>2. CASE Fail(p)
  BY <1>1, <1>2, FailWorks
<1>3. ASSUME NEW to \in {"plan", "stop"}, Go(p, to), UNCHANGED r PROVE Works(p)
  BY <1>1, <1>3, StaysWorks
<1>. QED
  BY <1>2, <1>3 DEF Gate

LEMMA PlanWorks == ASSUME Inv, NEW p \in Procs, Plan(p) PROVE Works(p)
<1>1. UNCHANGED <<reached, n, of, st>> /\ delivered' \subseteq delivered /\ "review" \notin Closing
  BY DEF Plan, Closing
<1>2. CASE Fail(p)
  BY <1>1, <1>2, FailWorks DEF Plan
<1>3. CASE Leave(p)
  BY <1>1, <1>3, LeaveWorks
<1>4. CASE Go(p, "review") /\ UNCHANGED r
  BY <1>1, <1>4, StaysWorks
<1>. QED
  BY <1>2, <1>3, <1>4 DEF Plan

LEMMA ReviewWorks == ASSUME Inv, NEW p \in Procs, Review(p) PROVE Works(p)
<1>1. UNCHANGED <<reached, n, of, st, delivered>> /\ "deliberate" \notin Closing /\ "stop" \notin Closing
  BY DEF Review, Closing
<1>2. CASE Fail(p)
  BY <1>1, <1>2, FailWorks
<1>3. CASE Leave(p)
  BY <1>1, <1>3, LeaveWorks
<1>4. ASSUME NEW to \in {"deliberate", "stop"}, Go(p, to), UNCHANGED r PROVE Works(p)
  BY <1>1, <1>4, StaysWorks
<1>. QED
  BY <1>2, <1>3, <1>4 DEF Review

LEMMA DeliberateWorks == ASSUME Inv, NEW p \in Procs, Deliberate(p) PROVE Works(p)
<1>1. UNCHANGED <<reached, n, of, st, delivered>> /\ r[p] \in Reports
      /\ "finish" \notin Closing /\ "stop" \notin Closing
  BY Here DEF Deliberate, ticket, Closing
<1>2. CASE Leave(p)
  BY <1>1, <1>2, LeaveWorks
<1>3. CASE Go(p, "stop") /\ UNCHANGED r
  BY <1>1, <1>3, StaysWorks
<1>4. ASSUME NEW a, Go(p, "finish"), Set(p, [r[p] EXCEPT !.failed = a]) PROVE Works(p)
  BY <1>1, <1>4, SameReport, KeepsWorks
<1>. QED
  BY <1>2, <1>3, <1>4 DEF Deliberate

LEMMA CrashWorks == ASSUME Inv, NEW p \in Procs, Crash(p) PROVE Works(p)
<1>1. Leave(p) /\ UNCHANGED <<reached, n, of, st>> /\ delivered' \subseteq delivered
  BY DEF Crash, ticket
<1>. QED
  BY <1>1, LeaveWorks

-----------------------------------------------------------------------------
(* The steps that close an attempt, advance its status or end the report.  *)

LEMMA StartDelivery == ASSUME Inv, Delivery, NEW p \in Procs, Start(p) PROVE Delivery'
<1>1. /\ n \in Nat /\ r[p] \in Reports
      /\ n < MaxAttempts => n + 1 \in Attempts
  BY Here, StepRunnerAssumption DEF Inv, Types, Attempts
<1>6. /\ delivered' = delivered
      /\ \/ UNCHANGED ticket
         \/ /\ n < MaxAttempts /\ n' = n + 1
            /\ of' = [of EXCEPT ![n + 1] = r[p].step]
            /\ st' = [st EXCEPT ![n + 1] = "open"]
            /\ UNCHANGED <<reached, reg, gate, effects>>
  BY Zenon DEF Start
<1>7. reached' = reached
  BY <1>6 DEF ticket
<1>8. \/ Leave(p)
      \/ \E i, to : /\ to \in {"mark", "check"}
                    /\ Go(p, to) /\ Set(p, [r[p] EXCEPT !.att = i, !.key = 0])
  BY Zenon DEF Start
<1>2. Kept /\ (\A i \in Attempts : st[i] = "success" => of'[i] = of[i])
  <2>1. CASE UNCHANGED ticket
    BY <2>1 DEF ticket, Kept, Delivery
  <2>2. CASE /\ n < MaxAttempts /\ n' = n + 1
             /\ of' = [of EXCEPT ![n + 1] = r[p].step]
             /\ st' = [st EXCEPT ![n + 1] = "open"]
             /\ UNCHANGED <<reached, reg, gate, effects>>
    <3>1. n + 1 \in Attempts /\ st[n + 1] = "none"
      BY <1>1, <2>2, StepRunnerAssumption DEF Attempts, Delivery
    <3>2. \A i \in Attempts : i # n + 1 => st'[i] = st[i] /\ of'[i] = of[i]
      BY <2>2 DEF Inv, Types
    <3>3. \A i \in Attempts : i > n' => i > n /\ i # n + 1
      BY <1>1, <2>2 DEF Attempts
    <3>. QED
      BY <1>1, <1>7, <3>1, <3>2, <3>3 DEF Kept, Delivery
  <2>. QED
    BY <2>1, <2>2, <1>6
<1>3. /\ pc'[p] \notin Closing
      /\ r'[p].kind = "chain" => r[p].kind = "chain" /\ r'[p].step = r[p].step
      /\ \A q \in Procs : q # p => pc'[q] = pc[q] /\ r'[q] = r[q]
  <2>1. CASE Leave(p)
    BY <2>1, ReportOf DEF Leave, Go, Set, Inv, Types, Closing
  <2>2. CASE ~Leave(p)
    <3>1. PICK i, to : /\ to \in {"mark", "check"}
                       /\ Go(p, to) /\ Set(p, [r[p] EXCEPT !.att = i, !.key = 0])
      BY <1>8, <2>2, Zenon
    <3>2. /\ [r[p] EXCEPT !.att = i, !.key = 0].kind = r[p].kind
          /\ [r[p] EXCEPT !.att = i, !.key = 0].step = r[p].step
      BY <1>1, SameReport
    <3>. QED
      BY <3>1, <3>2 DEF Go, Set, Inv, Types, Closing
  <2>. QED
    BY <2>1, <2>2
<1>4. Earns(pc[p], r[p])'
  BY <1>7, <1>3 DEF Earns, Closing, Delivery, DoneBefore
<1>5. DeliveryEarned'
  BY <1>6, <1>7, <1>2 DEF Kept, Delivery, DeliveryEarned
<1>. QED
  BY <1>2, <1>3, <1>4, <1>5, MoveDelivery

LEMMA BudgetStopDelivery == ASSUME Inv, Delivery, NEW p \in Procs, BudgetStop(p) PROVE Delivery'
<1>1. /\ UNCHANGED <<reached, n, of, delivered>> /\ Leave(p)
      /\ \A i \in Attempts : st[i] # "open" => st'[i] = st[i]
      /\ \A i \in Attempts : st[i] = "success" => st'[i] = "success"
  BY DEF BudgetStop, Inv, Types
<1>2. Kept
  BY <1>1 DEF Kept, Delivery
<1>3. /\ pc'[p] = "idle" /\ r'[p] = Idle
      /\ \A q \in Procs : q # p => pc'[q] = pc[q] /\ r'[q] = r[q]
  BY <1>1 DEF Inv, Types, Leave, Go, Set
<1>4. Earns(pc[p], r[p])'
  BY <1>3, ReportOf DEF Earns
<1>5. DeliveryEarned'
  BY <1>1, <1>2 DEF Kept, Delivery, DeliveryEarned
<1>. QED
  BY <1>2, <1>3, <1>4, <1>5, MoveDelivery

LEMMA ClearDelivery == ASSUME Inv, Delivery, NEW p \in Procs, Clear(p) PROVE Delivery'
<1>1. /\ UNCHANGED <<reached, n, of, st, r, delivered>>
      /\ pc[p] = "clear" /\ pc'[p] = "advance"
      /\ \A q \in Procs : q # p => pc'[q] = pc[q]
  BY DEF Clear, ticket, At, Go, Inv, Types
<1>2. Kept /\ DeliveryEarned'
  BY <1>1 DEF Kept, Delivery, DeliveryEarned
<1>3. Earns(pc[p], r[p])'
  BY <1>1 DEF Delivery, Earns, Passed, Succeeded, DoneBefore
<1>. QED
  BY <1>1, <1>2, <1>3, MoveDelivery

\* The first finish of an attempt is the one that counts: a success stays one.
LEMMA FinishStepDelivery == ASSUME Inv, Delivery, NEW p \in Procs, FinishStep(p) PROVE Delivery'
<1>. DEFINE i == r[p].att
<1>1. /\ UNCHANGED <<reached, n, of, delivered>> /\ r[p] \in Reports /\ i \in Attempts
      /\ pc[p] = "finish"
  BY Here DEF FinishStep, At, Working
<1>2. \/ st' = st
      \/ st[i] = "open" /\ \E outcome : st' = [st EXCEPT ![i] = outcome]
  BY Zenon DEF FinishStep
<1>3. Kept
  <2>1. \A j \in Attempts : st[j] = "success" => st'[j] = "success"
    BY <1>1, <1>2 DEF Inv, Types
  <2>2. \A j \in Attempts : st[j] = "none" => st'[j] = "none"
    BY <1>1, <1>2 DEF Inv, Types
  <2>. QED
    BY <1>1, <2>1, <2>2 DEF Kept, Delivery
<1>4. CASE Unaccepted(p)
  <2>1. PICK to, rep : /\ Go(p, to) /\ Set(p, rep) /\ rep.kind \in {r[p].kind, "none"}
                       /\ rep.step = r[p].step \/ rep.kind = "none"
                       /\ to = "idle" \/ (to = "advance" /\ rep.failed)
    <3>1. /\ [r[p] EXCEPT !.failed = TRUE].kind = r[p].kind
          /\ [r[p] EXCEPT !.failed = TRUE].step = r[p].step
      BY <1>1, SameReport
    <3>2. [r[p] EXCEPT !.failed = TRUE].failed
      BY <1>1, Zenon DEF Reports
    <3>. QED
      BY <1>4, <3>1, <3>2, ReportOf DEF Unaccepted, Leave
  <2>2. /\ pc'[p] = to /\ r'[p] = rep
        /\ \A q \in Procs : q # p => pc'[q] = pc[q] /\ r'[q] = r[q]
    BY <2>1 DEF Inv, Types, Go, Set
  <2>3. Earns(pc[p], r[p])'
    BY <1>1, <2>1, <2>2 DEF Earns, Passed, Delivery, DoneBefore
  <2>4. DeliveryEarned'
    BY <1>1, <1>3 DEF Kept, Delivery, DeliveryEarned
  <2>. QED
    BY <1>3, <2>2, <2>3, <2>4, MoveDelivery
<1>5. ASSUME NEW outcome, Accepted(p, outcome), of[i] = r[p].step, st'[i] = outcome,
             outcome \in {"failure", "success"}
      PROVE  Delivery'
  <2>1. CASE Leave(p)
    <3>1. /\ pc'[p] = "idle" /\ r'[p] = Idle
          /\ \A q \in Procs : q # p => pc'[q] = pc[q] /\ r'[q] = r[q]
      BY <2>1 DEF Inv, Types, Leave, Go, Set
    <3>2. Earns(pc[p], r[p])'
      BY <3>1, ReportOf DEF Earns
    <3>3. DeliveryEarned'
      BY <1>1, <1>3 DEF Kept, Delivery, DeliveryEarned
    <3>. QED
      BY <1>3, <3>1, <3>2, <3>3, MoveDelivery
  <2>2. CASE ~Leave(p)
    <3>0. PICK rep : rep = [r[p] EXCEPT !.finish = outcome]
      OBVIOUS
    <3>1. PICK to : /\ Go(p, to) /\ Set(p, rep)
                    /\ to \in {"clear", "advance"}
      BY <1>5, <2>2, <3>0, Zenon DEF Accepted
    <3>2. /\ rep.kind = r[p].kind
          /\ rep.step = r[p].step
      BY <1>1, <3>0, Zenon DEF Reports
    <3>3. /\ rep.att = r[p].att
          /\ rep.finish = outcome
      BY <1>1, <3>0, Zenon DEF Reports
    <3>4. /\ pc'[p] = to /\ r'[p] = rep
          /\ \A q \in Procs : q # p => pc'[q] = pc[q] /\ r'[q] = r[q]
      BY <3>1 DEF Inv, Types, Go, Set
    <3>5. Passed(rep) => Succeeded(rep.att, rep.step)'
      BY <1>1, <1>5, <3>2, <3>3 DEF Passed, Succeeded
    <3>6. rep.kind = "chain" => DoneBefore(rep.step)'
      BY <1>1, <3>2 DEF Delivery, Earns, DoneBefore
    <3>7. Earns(pc[p], r[p])'
      <4>1. Earns(to, rep)'
        BY <3>1, <3>5, <3>6 DEF Earns, Passed, Succeeded
      <4>. QED
        BY <3>4, <4>1 DEF Earns, Passed, Succeeded, DoneBefore
    <3>8. DeliveryEarned'
      BY <1>1, <1>3 DEF Kept, Delivery, DeliveryEarned
    <3>. QED
      BY <1>3, <3>4, <3>7, <3>8, MoveDelivery
  <2>. QED
    BY <2>1, <2>2
<1>6. Outcome(p) \in {"failure", "success"}
  BY DEF Outcome
<1>7. \/ Unaccepted(p)
      \/ Accepted(p, Outcome(p)) /\ of[i] = r[p].step /\ st'[i] = Outcome(p)
  BY <1>1 DEF FinishStep, Inv, Types
<1>. QED
  BY <1>4, <1>5, <1>6, <1>7

LEMMA AdvanceDelivery == ASSUME Inv, Delivery, NEW p \in Procs, Advance(p) PROVE Delivery'
<1>. DEFINE s == r[p].step
            ready == Passed(r[p])
<1>1. /\ UNCHANGED <<n, of, st, delivered>> /\ r[p] \in Reports
      /\ pc[p] = "advance" /\ reached \subseteq reached'
  BY Here DEF Advance, At
<1>2. Kept
  BY <1>1 DEF Kept, Delivery
<1>3. ready => Succeeded(r[p].att, s)
  BY <1>1 DEF Delivery, Earns
<1>4. (\A t : Done(t) \in reached' => Done(t) \in reached) \/ (ready /\ reached' = reached \cup {Done(s)})
  BY DEF Advance, Passed
<1>5. DeliveryEarned'
  <2>1. ASSUME NEW t \in Steps, Done(t) \in reached'
        PROVE  \E i \in Attempts : Succeeded(i, t)
    <3>1. CASE Done(t) \in reached
      BY <3>1 DEF Delivery, DeliveryEarned, Succeeded
    <3>2. CASE ready /\ Done(t) = Done(s)
      BY <1>3, <3>2 DEF Done, Succeeded
    <3>. QED
      BY <1>4, <2>1, <3>1, <3>2
  <2>2. delivered' # {} => \A t \in Steps : Done(t) \in reached'
    BY <1>1 DEF Delivery, DeliveryEarned
  <2>. QED
    BY <1>1, <2>1, <2>2 DEF DeliveryEarned, Succeeded
<1>6. r[p].kind = "chain" => \A t \in Steps : t < s => Done(t) \in reached'
  BY <1>1 DEF Delivery, Earns, DoneBefore
<1>7. CASE Leave(p)
  <2>1. /\ pc'[p] = "idle" /\ r'[p] = Idle
        /\ \A q \in Procs : q # p => pc'[q] = pc[q] /\ r'[q] = r[q]
    BY <1>7 DEF Inv, Types, Leave, Go, Set
  <2>2. Earns(pc[p], r[p])'
    BY <2>1, ReportOf DEF Earns
  <2>. QED
    BY <1>2, <1>5, <2>1, <2>2, MoveDelivery
<1>8. ASSUME NEW rep, Go(p, "conclude"), Set(p, rep), rep.kind = r[p].kind, rep.step = s,
             Passed(rep) /\ rep.advance # "blocked" => Done(s) \in reached'
      PROVE  Delivery'
  <2>1. /\ pc'[p] = "conclude" /\ r'[p] = rep
        /\ \A q \in Procs : q # p => pc'[q] = pc[q] /\ r'[q] = r[q]
    BY <1>8 DEF Inv, Types, Go, Set
  <2>2. Earns(pc[p], r[p])'
    BY <1>6, <1>8, <2>1 DEF Earns, Passed, Done, DoneBefore
  <2>. QED
    BY <1>2, <1>5, <2>1, <2>2, MoveDelivery
<1>9. CASE ready /\ reached' = reached \cup {Done(s)} /\ Go(p, "conclude")
           /\ Set(p, [r[p] EXCEPT !.advance = "advanced"])
  <2>1. /\ [r[p] EXCEPT !.advance = "advanced"].kind = r[p].kind
        /\ [r[p] EXCEPT !.advance = "advanced"].step = s
    BY <1>1, Zenon DEF Reports
  <2>. QED
    BY <1>8, <1>9, <2>1
<1>10. CASE Go(p, "conclude") /\ Set(p, [r[p] EXCEPT !.advance = "blocked"])
  <2>1. /\ [r[p] EXCEPT !.advance = "blocked"].kind = r[p].kind
        /\ [r[p] EXCEPT !.advance = "blocked"].step = s
    BY <1>1, Zenon DEF Reports
  <2>2. [r[p] EXCEPT !.advance = "blocked"].advance = "blocked"
    BY <1>1, Zenon DEF Reports
  <2>. QED
    BY <1>8, <1>10, <2>1, <2>2
<1>11. CASE Go(p, "conclude") /\ Set(p, [r[p] EXCEPT !.failed = TRUE])
  <2>1. /\ [r[p] EXCEPT !.failed = TRUE].kind = r[p].kind
        /\ [r[p] EXCEPT !.failed = TRUE].step = s
    BY <1>1, SameReport
  <2>2. [r[p] EXCEPT !.failed = TRUE].failed
    BY <1>1, Zenon DEF Reports
  <2>. QED
    BY <1>8, <1>11, <2>1, <2>2 DEF Passed
<1>12. CASE ~ready /\ Go(p, "conclude") /\ Set(p, r[p])
  BY <1>8, <1>12
<1>. QED
  <2>1. \/ Leave(p)
        \/ ready /\ reached' = reached \cup {Done(s)} /\ Go(p, "conclude")
           /\ Set(p, [r[p] EXCEPT !.advance = "advanced"])
        \/ Go(p, "conclude") /\ Set(p, [r[p] EXCEPT !.advance = "blocked"])
        \/ Go(p, "conclude") /\ Set(p, [r[p] EXCEPT !.failed = TRUE])
        \/ ~ready /\ Go(p, "conclude") /\ Set(p, r[p])
    BY Zenon DEF Advance, Passed
  <2>. QED
    BY <1>7, <1>9, <1>10, <1>11, <1>12, <2>1

\* The chain goes on to the next step after the status of this one is reached.
LEMMA ConcludeDelivery == ASSUME Inv, Delivery, NEW p \in Procs, Conclude(p) PROVE Delivery'
<1>. DEFINE s == r[p].step
<1>1. /\ UNCHANGED <<reached, n, of, st>> /\ pc[p] = "conclude"
      /\ s \in 0..NSteps
  <2>1. s \in 0..NSteps
    BY Here, Zenon DEF Reports
  <2>. QED
    BY <2>1 DEF Conclude, At, ticket
<1>2. Kept
  BY <1>1 DEF Kept, Delivery
<1>3. /\ Passed(r[p]) /\ r[p].advance # "blocked" => Done(s) \in reached
      /\ r[p].kind = "chain" => DoneBefore(s)
  BY <1>1 DEF Delivery, Earns
<1>4. \A t \in Steps : t < s + 1 => t < s \/ t = s
  BY <1>1 DEF Steps
<1>5. CASE /\ Passed(r[p]) /\ r[p].kind = "chain" /\ r[p].advance # "blocked"
           /\ Set(p, Report("chain", s + 1, FALSE)) /\ Go(p, "observe")
           /\ UNCHANGED delivered
  <2>1. PICK rep : rep = Report("chain", s + 1, FALSE)
    OBVIOUS
  <2>2. /\ pc'[p] = "observe" /\ r'[p] = rep
        /\ \A q \in Procs : q # p => pc'[q] = pc[q] /\ r'[q] = r[q]
    BY <1>5, <2>1 DEF Inv, Types, Go, Set
  <2>3. rep.step = s + 1
    BY <2>1, Zenon DEF Report
  <2>4. \A t \in Steps : t < rep.step => Done(t) \in reached'
    BY <1>1, <1>3, <1>4, <1>5, <2>3 DEF DoneBefore
  <2>5. Earns(pc[p], r[p])'
    BY <2>2, <2>4 DEF Earns, DoneBefore
  <2>6. DeliveryEarned'
    BY <1>1, <1>5 DEF Delivery, DeliveryEarned
  <2>. QED
    BY <1>2, <2>2, <2>5, <2>6, MoveDelivery
<1>6. CASE /\ Leave(p)
           /\ \/ delivered' = delivered
              \/ Passed(r[p]) /\ r[p].kind = "chain" /\ r[p].advance # "blocked" /\ s = NSteps
  <2>1. /\ pc'[p] = "idle" /\ r'[p] = Idle
        /\ \A q \in Procs : q # p => pc'[q] = pc[q] /\ r'[q] = r[q]
    BY <1>6 DEF Inv, Types, Leave, Go, Set
  <2>2. Earns(pc[p], r[p])'
    BY <2>1, ReportOf DEF Earns
  <2>3. DeliveryEarned'
    <3>1. \A t \in Steps : t < s \/ t = s \/ s # NSteps
      BY <1>1, StepRunnerAssumption DEF Steps
    <3>2. delivered' # {} => \A t \in Steps : Done(t) \in reached
      BY <1>3, <1>6, <3>1 DEF DoneBefore, Delivery, DeliveryEarned
    <3>. QED
      BY <1>1, <3>2 DEF Delivery, DeliveryEarned
  <2>. QED
    BY <1>2, <2>1, <2>2, <2>3, MoveDelivery
<1>. QED
  BY <1>5, <1>6 DEF Conclude, Passed

LEMMA NextDelivery == Inv /\ Delivery /\ [Next]_vars => Delivery'
<1>. SUFFICES ASSUME Inv, Delivery, [Next]_vars PROVE Delivery'
  OBVIOUS
<1>1. CASE UNCHANGED <<reached, n, of, st, pc, r, delivered>>
  BY <1>1 DEF Delivery, DeliveryEarned, Earns, Passed, Succeeded, DoneBefore
<1>2. CASE UNCHANGED vars \/ Recover \/ \E i \in Attempts : Resolve(i)
  BY <1>1, <1>2 DEF vars, ticket, Recover, Resolve
<1>3. ASSUME NEW p \in Procs, Works(p) PROVE Delivery'
  BY <1>3, WorksDelivery
<1>4. CASE Next
  BY <1>2, <1>3, <1>4, BeginWorks, ResumeWorks, ObserveWorks, EnterWorks, StartDelivery,
     MarkWorks, CheckWorks, TurnWorks, AgentEndsWorks, FirstRegisterWorks, RepairWorks,
     PersistWorks, ReregisterWorks, GateWorks, PlanWorks, ReviewWorks, DeliberateWorks,
     FinishStepDelivery, BudgetStopDelivery, ClearDelivery, AdvanceDelivery,
     ConcludeDelivery, CrashWorks DEF Next
<1>. QED
  BY <1>2, <1>4

(* A step is done in the control plane only on the word of an attempt that *)
(* succeeded, and run_chain reports delivery only when every step is done: *)
(* for any processes at work on the ticket, lost answers and crashes.      *)
THEOREM DeliveriesEarned == Spec => []DeliveryEarned
<1>1. Inv /\ Delivery /\ [Next]_vars => (Inv /\ Delivery)'
  BY NextInv, NextDelivery
<1>2. Delivery => DeliveryEarned
  BY DEF Delivery
<1>. QED
  BY InitInv, InitDelivery, <1>1, <1>2, PTL DEF Spec
=============================================================================
