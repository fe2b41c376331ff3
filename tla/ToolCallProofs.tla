--------------------------- MODULE ToolCallProofs ---------------------------
(***************************************************************************)
(* The composition, for any loops, tools, approvals and handlers.  A loop  *)
(* uses its recorder as Operations specifies, so the results about         *)
(* receipts carry over; no action runs without the approval it needs; the  *)
(* policy a command runs under only loses authority, and the command keeps *)
(* to it; what the host says of its own checks and of the cleanup of a     *)
(* sandbox is true; what it hears from a runner was said; and what it      *)
(* reads of a work tree was there.                                         *)
(***************************************************************************)
EXTENDS ToolCall, Isolation, Verification, WindowsSandbox, RunnerPipe, WorktreeWalk,
        FiniteSetTheorems, SequenceTheorems, TLAPS

-----------------------------------------------------------------------------
(***************************************************************************)
(* No blind replay, for any recorders, names, inputs and attempts.         *)
(*                                                                         *)
(* ExecutedOnce needs to know that an admitted attempt has not run yet and *)
(* that no two recorders were admitted under the same one; OneInFlight     *)
(* needs in addition that of each name at most one attempt is open.        *)
(***************************************************************************)

InFlight(c) == pc[c] \in {"admitted", "executed"}

Shape ==
  /\ started \subseteq Attempts /\ open \subseteq started
  /\ DOMAIN key = Attempts /\ DOMAIN payload = Attempts
  /\ pc \in [Recorders -> {"idle", "admitted", "executed", "gone"}]
  /\ attempt \in [Recorders -> Attempts \cup {None}]
  /\ runs \in [Attempts -> Nat]

\* What is in flight is open; only one recorder is in flight under an attempt.
Flights ==
  /\ \A c \in Recorders : InFlight(c) => attempt[c] \in open
  /\ \A c, d \in Recorders : InFlight(c) /\ InFlight(d) /\ attempt[c] = attempt[d] => c = d

Counts ==
  /\ \A a \in Attempts \ started : runs[a] = 0
  /\ \A c \in Recorders : pc[c] = "admitted" => runs[attempt[c]] = 0
  /\ \A c \in Recorders : pc[c] = "executed" => runs[attempt[c]] = 1
  /\ ExecutedOnce

OneOpen == \A a, b \in open : key[a][2] = key[b][2] => a = b

Inv == Shape /\ Flights /\ Counts /\ OneOpen /\ ClosedWasExecuted

LEMMA InitInv == Init => Inv
  BY OperationsAssumption
  DEF Init, Inv, Shape, Flights, InFlight, Counts, OneOpen, ExecutedOnce, ClosedWasExecuted

\* What the control plane does for a start it answers as new.
LEMMA NewAttempt ==
  ASSUME NEW k, NEW p, NEW a \in Attempts \ started, Admission(k, p) = "new",
         Shape, OneOpen,
         open' = open \cup {a}, key' = [key EXCEPT ![a] = k]
  PROVE  OneOpen'
<1>1. \A b \in open : key[b][2] # k[2]
  BY DEF Admission
<1>2. \A b \in open : b # a /\ key'[b] = key[b]
  BY DEF Shape
<1>3. key'[a] = k
  BY DEF Shape
<1> QED  BY <1>1, <1>2, <1>3 DEF OneOpen

LEMMA StartInv ==
  ASSUME Inv, NEW c \in Recorders, NEW n \in Names, NEW p \in Payloads, NEW a \in Attempts,
         Start(c, n, p, a)
  PROVE  Inv'
<1> USE OperationsAssumption DEF Inv
<1> DEFINE admitted == Admission(Key(c, n), p)
<1>1. CASE admitted = "new"
  <2>1. /\ a \in Attempts \ started
        /\ pc[c] = "idle" /\ pc' = [pc EXCEPT ![c] = "admitted"]
        /\ started' = started \cup {a} /\ open' = open \cup {a}
        /\ key' = [key EXCEPT ![a] = Key(c, n)] /\ payload' = [payload EXCEPT ![a] = p]
        /\ runs' = runs
    BY <1>1 DEF Start, AfterStart, CanExecute
  <2>2. attempt' = [attempt EXCEPT ![c] = a]
    <3>1. {b \in started : key[b] = Key(c, n)} = {}
      BY <1>1 DEF Admission
    <3> QED  BY <1>1, <3>1 DEF Start, AfterStart, CanExecute, Answered
  <2>3. OneOpen'
    BY <1>1, <2>1, NewAttempt
  <2>4. Shape'
    BY <2>1, <2>2 DEF Shape
  <2>5. Flights'
    BY <2>1, <2>2 DEF Shape, Flights, InFlight
  <2>6. Counts'
    BY <2>1, <2>2 DEF Shape, Counts, Flights, InFlight, ExecutedOnce
  <2>7. ClosedWasExecuted'
    BY <2>1 DEF ClosedWasExecuted, Shape
  <2> QED  BY <2>3, <2>4, <2>5, <2>6, <2>7
<1>2. CASE admitted # "new"
  <2>1. /\ pc[c] = "idle" /\ pc' = [pc EXCEPT ![c] = "idle"]
        /\ attempt' = [attempt EXCEPT ![c] = None]
        /\ UNCHANGED <<started, open, key, payload, runs>>
    BY <1>2 DEF Start, AfterStart, CanExecute, logVars
  <2> QED
    BY <2>1 DEF Shape, Flights, InFlight, Counts, OneOpen, ExecutedOnce, ClosedWasExecuted
<1> QED  BY <1>1, <1>2

LEMMA StartLostInv ==
  ASSUME Inv, NEW c \in Recorders, NEW n \in Names, NEW p \in Payloads, NEW a \in Attempts,
         StartLost(c, n, p, a)
  PROVE  Inv'
<1> USE OperationsAssumption DEF Inv
<1>1. PICK next \in {"idle", "gone"} : pc' = [pc EXCEPT ![c] = next]
  BY DEF StartLost
<1>2. /\ a \in Attempts \ started /\ pc[c] = "idle"
      /\ started' = started \cup {a} /\ open' = open \cup {a}
      /\ key' = [key EXCEPT ![a] = Key(c, n)] /\ payload' = [payload EXCEPT ![a] = p]
      /\ attempt' = attempt /\ runs' = runs
      /\ Admission(Key(c, n), p) = "new"
  BY DEF StartLost
<1>3. OneOpen'
  BY <1>2, NewAttempt
<1>4. Shape'
  BY <1>1, <1>2 DEF Shape
<1>5. Flights'
  BY <1>1, <1>2 DEF Shape, Flights, InFlight
<1>6. Counts'
  BY <1>1, <1>2 DEF Shape, Counts, Flights, InFlight, ExecutedOnce
<1>7. ClosedWasExecuted'
  BY <1>2 DEF ClosedWasExecuted, Shape
<1> QED  BY <1>3, <1>4, <1>5, <1>6, <1>7

LEMMA ExecuteInv ==
  ASSUME Inv, NEW c \in Recorders, Execute(c)
  PROVE  Inv'
<1> USE OperationsAssumption DEF Inv, Execute, logVars
<1>1. attempt[c] \in Attempts /\ attempt[c] \in open
  BY DEF Flights, InFlight, Shape
<1>2. Shape' /\ OneOpen'
  BY <1>1 DEF Shape, OneOpen
<1>3. Flights'
  BY DEF Shape, Flights, InFlight
<1>4. Counts'
  BY <1>1 DEF Shape, Counts, Flights, InFlight, ExecutedOnce
<1>5. ClosedWasExecuted'
  BY <1>1 DEF Shape, ClosedWasExecuted
<1> QED  BY <1>2, <1>3, <1>4, <1>5

LEMMA EndInv ==
  ASSUME Inv, NEW c \in Recorders, Leave(c) \/ \E applied \in BOOLEAN : Finish(c, applied)
  PROVE  Inv'
<1> USE OperationsAssumption DEF Inv
<1>1. CASE Leave(c)
  BY <1>1 DEF Leave, logVars, Shape, Flights, InFlight, Counts, OneOpen, ExecutedOnce,
     ClosedWasExecuted
<1>2. CASE \E applied \in BOOLEAN : Finish(c, applied)
  <2>1. /\ pc[c] = "executed" /\ pc' = [pc EXCEPT ![c] = "idle"]
        /\ attempt' = [attempt EXCEPT ![c] = None]
        /\ open' = open \/ open' = open \ {attempt[c]}
        /\ UNCHANGED <<started, key, payload, runs>>
    BY <1>2 DEF Finish
  <2>2. Shape' /\ OneOpen'
    BY <2>1 DEF Shape, OneOpen
  <2>3. Flights'
    BY <2>1 DEF Shape, Flights, InFlight
  <2>4. Counts'
    BY <2>1 DEF Shape, Counts, ExecutedOnce
  <2>5. ClosedWasExecuted'
    BY <2>1 DEF ClosedWasExecuted, Counts
  <2> QED  BY <2>2, <2>3, <2>4, <2>5
<1> QED  BY <1>1, <1>2

LEMMA NextInv == Inv /\ [Next]_vars => Inv'
<1> SUFFICES ASSUME Inv, [Next]_vars PROVE Inv'  OBVIOUS
<1>1. CASE UNCHANGED vars
  BY <1>1 DEF vars, logVars, Inv, Shape, Flights, InFlight, Counts, OneOpen, ExecutedOnce,
     ClosedWasExecuted
<1> QED  BY <1>1, StartInv, StartLostInv, ExecuteInv, EndInv DEF Next

\* The invariant the results below follow from: a recorder in flight has an
\* open attempt of its own, executed as often as its place says, and no two
\* open attempts have the same name.
THEOREM InvHolds == Spec => []Inv
  BY InitInv, NextInv, PTL DEF Spec

\* can_execute admits each attempt for one execution, whatever restarts, lost
\* answers and repeated keys there are.
THEOREM AttemptsExecutedOnce == Spec => []ExecutedOnce
<1>1. Inv => ExecutedOnce  BY DEF Inv, Counts
<1> QED  BY <1>1, InvHolds, PTL

\* One action of a name at a time, none beside an open one.
THEOREM SingleFlight == Spec => []OneInFlight
<1>1. Inv => OneInFlight  BY DEF Inv, OneInFlight, Flights, InFlight, OneOpen
<1> QED  BY <1>1, InvHolds, PTL

\* finish is only ever applied to what was executed.
THEOREM OnlyExecutedIsClosed == Spec => []ClosedWasExecuted
<1>1. Inv => ClosedWasExecuted  BY DEF Inv
<1> QED  BY <1>1, InvHolds, PTL

-----------------------------------------------------------------------------
(* The composition.                                                        *)
CallTypes ==
  /\ at \in [Recorders -> {"idle", "asking", "start", "started"}]
  /\ call \in [Recorders -> Calls \cup {None}]
  /\ item \in [Recorders -> Items \cup {None}]
  /\ \A c \in Recorders : at[c] \in {"asking", "start"} => call[c] \in Calls
  /\ \A c \in Recorders : at[c] = "asking" => item[c] \in Items

LEMMA CallTypesInit == CallInit => CallTypes
BY DEF CallInit, CallTypes

LEMMA ReturnedTypes ==
  ASSUME CallTypes, NEW c \in Recorders, Returned(c)
  PROVE  CallTypes'
BY DEF Returned, CallTypes

LEMMA CallTypesNext == CallTypes /\ [CallNext]_allVars => CallTypes'
<1>. SUFFICES ASSUME CallTypes, [CallNext]_allVars PROVE CallTypes'
  OBVIOUS
<1>1. CASE UNCHANGED callVars
  BY <1>1 DEF callVars, CallTypes
<1>2. ASSUME NEW c \in Recorders, Allowed(c) PROVE CallTypes'
  BY <1>2 DEF Allowed, CallTypes
<1>3. ASSUME NEW c \in Recorders, RequireApproval(c) PROVE CallTypes'
  BY <1>3 DEF RequireApproval, CallTypes
<1>4. ASSUME NEW c \in Recorders, Asked(c) PROVE CallTypes'
  <2>1. CASE at' = [at EXCEPT ![c] = "start"] /\ UNCHANGED <<call, item>>
    BY <1>4, <2>1 DEF Asked, CallTypes
  <2>. QED
    BY <1>4, <2>1, ReturnedTypes DEF Asked
<1>5. ASSUME NEW c \in Recorders, StartOperation(c) PROVE CallTypes'
  <2>1. CASE at' = [at EXCEPT ![c] = "started"] /\ UNCHANGED <<call, item>>
    BY <1>5, <2>1 DEF CallTypes
  <2>. QED
    BY <1>5, <2>1, ReturnedTypes DEF StartOperation
<1>6. ASSUME NEW c \in Recorders, FinishOperation(c) \/ LeaveLoop(c) PROVE CallTypes'
  BY <1>6, ReturnedTypes DEF FinishOperation, LeaveLoop
<1>. QED
  BY <1>1, <1>2, <1>3, <1>4, <1>5, <1>6
  DEF CallNext, allVars, ExecuteTool, AskStep, PostStep, ResolveStep

LEMMA CallNextIsNext == CallTypes /\ [CallNext]_allVars => [Next]_vars
<1>. SUFFICES ASSUME CallTypes, [CallNext]_allVars PROVE [Next]_vars
  OBVIOUS
<1>1. ASSUME NEW c \in Recorders, StartOperation(c) PROVE Next
  <2>1. (CHOOSE x \in Fresh : TRUE) \in Attempts
    BY <1>1 DEF StartOperation, Fresh
  <2>2. call[c][1] \in Names /\ call[c][2] \in Payloads
    BY <1>1 DEF StartOperation, CallTypes, Calls
  <2>. QED
    BY <1>1, <2>1, <2>2 DEF StartOperation, Next
<1>. QED
  BY <1>1
  DEF CallNext, allVars, Allowed, RequireApproval, Asked, ExecuteTool, FinishOperation,
      LeaveLoop, AskStep, PostStep, ResolveStep, Next

(* So no admission of the control plane is executed twice by any tool call. *)
THEOREM CallsExecutedOnce == CallSpec => []ExecutedOnce
<1>1. CallSpec => Spec
  <2>1. CallInit => Init
    BY DEF CallInit
  <2>. QED
    BY <2>1, CallTypesInit, CallTypesNext, CallNextIsNext, PTL DEF CallSpec, Spec
<1>. QED
  BY <1>1, AttemptsExecutedOnce, PTL
-----------------------------------------------------------------------------
(* What the registry knows of the human.                                   *)

ApprovalTypes ==
  /\ granted \in [Items -> BOOLEAN]
  /\ asking \in [Items -> {"new", "waiting", "expired", "denying", "returned"}]
  /\ answer \in [Items -> BOOLEAN \cup {Nil}]
  /\ stage \in [Resolvers -> {"idle", "decide", "signal", "log"}]
  /\ target \in [Resolvers -> Items \cup {Nil}]
  /\ decision \in [Resolvers -> Decisions]
  /\ pending \subseteq Items
  /\ \A t \in Resolvers : stage[t] # "idle" => target[t] \in Items

Approved(i) == <<i, "approve">> \in clicked /\ <<i, "deny">> \notin clicked

\* Nobody has decided an item that is new or pending.
Untouched(i) ==
  /\ <<i, "approve">> \notin clicked /\ <<i, "deny">> \notin clicked
  /\ ~granted[i]
  /\ \A t \in Resolvers : stage[t] # "idle" => target[t] # i

Decided ==
  /\ \A i \in Items : asking[i] = "new" => i \notin pending
  /\ \A i \in Items : asking[i] = "new" \/ i \in pending => Untouched(i)
  /\ \A t \in Resolvers :
       stage[t] = "decide" /\ decision[t] = "approve" => Approved(target[t])
  /\ \A i \in Items : granted[i] => Approved(i)

\* A returned ask has nothing left to do, and True is never taken back.
Answers ==
  /\ \A i \in Items : stage[i] # "idle" => asking[i] = "denying"
  /\ \A i \in Items : asking[i] = "returned" => answer[i] \in BOOLEAN
  /\ \A i \in Items : answer[i] = TRUE => Approved(i) /\ asking[i] = "returned" /\ i \notin pending

Human == ApprovalTypes /\ Decided /\ Answers

LEMMA HumanInit == CallInit => Human
<1>. SUFFICES ASSUME ApprovalInit PROVE Human
  BY DEF CallInit
<1>1. ApprovalTypes
  BY DEF ApprovalInit, ApprovalTypes, Decisions
<1>2. Decided
  BY DEF ApprovalInit, Decided, Untouched
<1>3. Answers
  BY WebApprovalAssumption DEF ApprovalInit, Answers, Resolvers
<1>. QED
  BY <1>1, <1>2, <1>3 DEF Human

\* What loops rely on.
Kept ==
  /\ \A i \in Items : answer[i] = TRUE => answer'[i] = TRUE
  /\ \A i \in Items : asking[i] # "new" => asking'[i] # "new"

LEMMA AddHuman == ASSUME Human, NEW i \in Items, Add(i) PROVE Human' /\ Kept
BY WebApprovalAssumption
DEF Add, Human, ApprovalTypes, Decided, Untouched, Approved, Answers, Kept, Resolvers

LEMMA WakeHuman == ASSUME Human, NEW i \in Items, Wake(i) PROVE Human' /\ Kept
<1>1. ApprovalTypes'
  BY DEF Wake, Human, ApprovalTypes
<1>2. Decided'
  BY DEF Wake, Human, ApprovalTypes, Decided, Untouched, Approved
<1>3. /\ asking[i] = "waiting" /\ asking'[i] = "returned" /\ answer'[i] = granted[i]
      /\ \A j \in Items : j # i => answer'[j] = answer[j] /\ asking'[j] = asking[j]
  BY DEF Wake, Human, ApprovalTypes
<1>4. granted[i] => Approved(i) /\ i \notin pending
  BY DEF Human, Decided, Untouched
<1>5. Answers'
  BY <1>3, <1>4 DEF Wake, Human, ApprovalTypes, Answers, Approved
<1>6. Kept
  BY <1>3 DEF Human, Answers, Kept
<1>. QED
  BY <1>1, <1>2, <1>5, <1>6 DEF Human

LEMMA TimeOutHuman == ASSUME Human, NEW i \in Items, TimeOut(i) PROVE Human' /\ Kept
BY WebApprovalAssumption
DEF TimeOut, Human, ApprovalTypes, Decided, Untouched, Approved, Answers, Kept, Resolvers

LEMMA ExpireHuman == ASSUME Human, NEW i \in Items, Expire(i) PROVE Human' /\ Kept
<1>. i \in Resolvers
  BY DEF Resolvers
<1>1. CASE i \in pending
  <2>1. /\ Pop(i, i, "deny") /\ asking' = [asking EXCEPT ![i] = "denying"]
        /\ UNCHANGED <<answer, granted, clicked>> /\ asking[i] = "expired"
    BY <1>1 DEF Expire
  <2>2. ApprovalTypes'
    BY <2>1 DEF Pop, Popped, Human, ApprovalTypes, Decisions
  <2>3. Decided'
    BY <2>1 DEF Pop, Popped, Human, ApprovalTypes, Decided, Untouched, Approved
  <2>4. Answers' /\ Kept
    BY <2>1 DEF Pop, Popped, Human, ApprovalTypes, Answers, Approved, Kept, Resolvers
  <2>. QED
    BY <2>2, <2>3, <2>4 DEF Human
<1>2. CASE i \notin pending
  <2>1. /\ asking' = [asking EXCEPT ![i] = "returned"] /\ asking[i] = "expired"
        /\ answer' = [answer EXCEPT ![i] = FALSE]
        /\ UNCHANGED <<pending, stage, target, decision, granted, clicked>>
    BY <1>2 DEF Expire, ExpiredAnswer
  <2>2. ApprovalTypes'
    BY <2>1 DEF Human, ApprovalTypes
  <2>3. Decided'
    BY <2>1 DEF Human, ApprovalTypes, Decided, Untouched, Approved
  <2>4. Answers' /\ Kept
    BY <2>1 DEF Human, ApprovalTypes, Answers, Approved, Kept, Resolvers
  <2>. QED
    BY <2>2, <2>3, <2>4 DEF Human
<1>. QED
  BY <1>1, <1>2

LEMMA PostHuman ==
  ASSUME Human, NEW h \in Handlers, NEW i \in Items, NEW d \in Decisions, Post(h, i, d)
  PROVE  Human' /\ Kept
BY WebApprovalAssumption
DEF Post, Pop, Popped, Human, ApprovalTypes, Decided, Untouched, Approved,
    Answers, Kept, Resolvers, Decisions

LEMMA ResolveHuman == ASSUME Human, NEW t \in Resolvers, Resolve(t) PROVE Human' /\ Kept
<1>1. CASE Decide(t)
  BY <1>1, WebApprovalAssumption
  DEF Decide, Human, ApprovalTypes, Decided, Untouched, Approved, Answers, Kept, Resolvers
<1>2. CASE Signal(t)
  BY <1>2, WebApprovalAssumption
  DEF Signal, Human, ApprovalTypes, Decided, Untouched, Approved, Answers, Kept, Resolvers
<1>3. CASE Log(t)
  <2>1. /\ stage[t] = "log" /\ stage' = [stage EXCEPT ![t] = "idle"]
        /\ target' = [target EXCEPT ![t] = Nil]
        /\ UNCHANGED <<pending, granted, decision, clicked>>
    BY <1>3 DEF Log
  <2>2. CASE t \in Items
    <3>1. /\ asking' = [asking EXCEPT ![t] = "returned"] /\ asking[t] = "denying"
          /\ answer' = [answer EXCEPT ![t] = FALSE]
      BY <1>3, <2>1, <2>2 DEF Log, ExpiredAnswer, Human, Answers
    <3>2. ApprovalTypes'
      BY <2>1, <2>2, <3>1 DEF Human, ApprovalTypes
    <3>3. Decided'
      BY <2>1, <2>2, <3>1 DEF Human, ApprovalTypes, Decided, Untouched, Approved
    <3>4. Answers' /\ Kept
      BY <2>1, <2>2, <3>1 DEF Human, ApprovalTypes, Answers, Approved, Kept, Resolvers
    <3>. QED
      BY <3>2, <3>3, <3>4 DEF Human
  <2>3. CASE t \notin Items
    <3>1. UNCHANGED <<asking, answer>>
      BY <1>3, <2>3 DEF Log
    <3>2. ApprovalTypes' /\ Decided'
      BY <2>1, <3>1 DEF Human, ApprovalTypes, Decided, Untouched, Approved
    <3>3. Answers' /\ Kept
      BY <2>1, <2>3, <3>1 DEF Human, ApprovalTypes, Answers, Approved, Kept, Resolvers
    <3>. QED
      BY <3>2, <3>3 DEF Human
  <2>. QED
    BY <2>2, <2>3
<1>. QED
  BY <1>1, <1>2, <1>3 DEF Resolve

LEMMA UntouchedRegistry == ASSUME Human, UNCHANGED approvalVars PROVE Human' /\ Kept
BY DEF approvalVars, Human, ApprovalTypes, Decided, Untouched, Approved, Answers, Kept

LEMMA HumanNext == ASSUME Human, [CallNext]_allVars PROVE Human' /\ Kept
<1>1. ASSUME NEW c \in Recorders, RequireApproval(c) PROVE Human' /\ Kept
  BY <1>1, AddHuman DEF RequireApproval
<1>2. ASSUME NEW i \in Items, AskStep(i) PROVE Human' /\ Kept
  BY <1>2, WakeHuman, TimeOutHuman, ExpireHuman DEF AskStep, Ask
<1>3. ASSUME NEW h \in Handlers, PostStep(h) PROVE Human' /\ Kept
  BY <1>3, PostHuman DEF PostStep
<1>4. ASSUME NEW t \in Resolvers, ResolveStep(t) PROVE Human' /\ Kept
  BY <1>4, ResolveHuman DEF ResolveStep
<1>5. CASE UNCHANGED approvalVars
  BY <1>5, UntouchedRegistry
<1>. QED
  BY <1>1, <1>2, <1>3, <1>4, <1>5
  DEF CallNext, allVars, Allowed, Asked, StartOperation, ExecuteTool, FinishOperation, LeaveLoop
-----------------------------------------------------------------------------
(* What a loop does with an answer.                                        *)

\* An approval belongs to one call, which goes on only with True; once an
\* action ran under it, its loop has nothing left to start.
Uses ==
  /\ \A c \in Recorders : item[c] \in Items => asking[item[c]] # "new"
  /\ \A c, d \in Recorders : item[c] \in Items /\ item[c] = item[d] => c = d
  /\ \A c \in Recorders : item[c] \in Items /\ at[c] \in {"start", "started"} =>
       answer[item[c]] = TRUE
  /\ \A c \in Recorders : at[c] = "idle" => item[c] = None
  /\ \A c \in Recorders : InFlight(c) => at[c] = "started"
  /\ \A c \in Recorders : at[c] = "started" => InFlight(c)

Spent ==
  /\ under \in [Items -> SUBSET Attempts]
  /\ \A i \in Items : under[i] # {} =>
       /\ answer[i] = TRUE /\ asking[i] # "new"
       /\ \E a \in Attempts : under[i] = {a}
       /\ \A c \in Recorders : item[c] = i => pc[c] = "executed"

CallInv == Inv /\ CallTypes /\ Human /\ Uses /\ Spent

LEMMA CallInvInit == CallInit => CallInv
<1>. SUFFICES ASSUME CallInit PROVE CallInv
  OBVIOUS
<1>1. Uses /\ Spent
  BY ToolCallAssumption DEF CallInit, Init, Uses, Spent, InFlight
<1>. QED
  BY <1>1, InitInv, CallTypesInit, HumanInit DEF CallInit, CallInv

\* The steps of the registry, the browser and the handlers.
LEMMA OthersUses ==
  ASSUME CallInv, Kept, UNCHANGED <<pc, callVars, under>>
  PROVE  Uses' /\ Spent'
<1>1. Uses'
  BY DEF CallInv, Uses, Kept, callVars, InFlight
<1>2. Spent'
  BY DEF CallInv, Spent, Kept, callVars
<1>. QED
  BY <1>1, <1>2

LEMMA ReturnedUses ==
  ASSUME CallInv, Kept, NEW c \in Recorders, Returned(c), UNCHANGED under,
         pc' \in [Recorders -> {"idle", "admitted", "executed", "gone"}],
         ~InFlight(c)', \A d \in Recorders : d # c => pc'[d] = pc[d]
  PROVE  Uses' /\ Spent'
<1>1. /\ at'[c] = "idle" /\ item'[c] = None /\ None \notin Items
      /\ \A d \in Recorders : d # c => at'[d] = at[d] /\ item'[d] = item[d]
  BY ToolCallAssumption DEF Returned, CallInv, CallTypes
<1>2. Uses'
  BY <1>1 DEF CallInv, Uses, Kept, InFlight
<1>3. Spent'
  BY <1>1 DEF CallInv, Spent, Kept
<1>. QED
  BY <1>2, <1>3

LEMMA AllowedUses ==
  ASSUME CallInv, Kept, NEW c \in Recorders, Allowed(c)
  PROVE  Uses' /\ Spent'
<1>1. /\ at'[c] = "start" /\ item[c] = None /\ None \notin Items
      /\ pc[c] = "idle" /\ UNCHANGED <<pc, item, under>>
      /\ \A d \in Recorders : d # c => at'[d] = at[d]
  BY ToolCallAssumption DEF Allowed, CallInv, CallTypes, Uses, vars
<1>2. Uses'
  BY <1>1 DEF CallInv, Uses, Kept, InFlight
<1>3. Spent'
  BY <1>1 DEF CallInv, Spent, Kept
<1>. QED
  BY <1>2, <1>3

\* A new approval has let nothing through.
LEMMA RequireUses ==
  ASSUME CallInv, Kept, NEW c \in Recorders, RequireApproval(c)
  PROVE  Uses' /\ Spent'
<1>1. PICK i \in Items : Add(i) /\ item' = [item EXCEPT ![c] = i]
  BY DEF RequireApproval
<1>2. /\ at'[c] = "asking" /\ item'[c] = i /\ asking[i] = "new" /\ asking'[i] # "new"
      /\ pc[c] = "idle" /\ UNCHANGED <<pc, under>>
      /\ \A d \in Recorders : d # c => at'[d] = at[d] /\ item'[d] = item[d]
  BY <1>1 DEF RequireApproval, Add, CallInv, CallTypes, Human, ApprovalTypes, vars
<1>3. Uses'
  BY <1>2 DEF CallInv, Uses, Kept, InFlight
<1>4. Spent'
  BY <1>2 DEF CallInv, Spent, Kept
<1>. QED
  BY <1>3, <1>4

LEMMA AskedUses ==
  ASSUME CallInv, Kept, NEW c \in Recorders, Asked(c)
  PROVE  Uses' /\ Spent'
<1>1. UNCHANGED <<pc, under>> /\ at[c] = "asking" /\ item[c] \in Items
  BY DEF Asked, CallInv, CallTypes, vars
<1>2. answer[item[c]] \in BOOLEAN
  BY <1>1 DEF Asked, CallInv, Human, Answers
<1>3. CASE answer[item[c]]
  <2>1. /\ at'[c] = "start" /\ UNCHANGED item
        /\ \A d \in Recorders : d # c => at'[d] = at[d]
    BY <1>3 DEF Asked, CallInv, CallTypes
  <2>2. Uses'
    BY <1>1, <1>2, <1>3, <2>1 DEF CallInv, Uses, Kept, InFlight
  <2>3. Spent'
    BY <1>1, <2>1 DEF CallInv, Spent, Kept
  <2>. QED
    BY <2>2, <2>3
<1>4. CASE ~answer[item[c]]
  <2>1. Returned(c)
    BY <1>4 DEF Asked
  <2>2. ~InFlight(c)' /\ pc' \in [Recorders -> {"idle", "admitted", "executed", "gone"}]
    BY <1>1 DEF CallInv, Uses, InFlight, Inv, Shape
  <2>. QED
    BY <1>1, <2>1, <2>2, ReturnedUses
<1>. QED
  BY <1>3, <1>4

\* A call that is admitted keeps its approval; any other answer ends it.
LEMMA StartUses ==
  ASSUME CallInv, Kept, NEW c \in Recorders, StartOperation(c)
  PROVE  Uses' /\ Spent'
<1>1. PICK a : Start(c, call[c][1], call[c][2], a) \/ StartLost(c, call[c][1], call[c][2], a)
  BY DEF StartOperation
<1>2. PICK next \in {"idle", "admitted", "gone"} : pc' = [pc EXCEPT ![c] = next]
  BY <1>1 DEF Start, StartLost, AfterStart
<1>3. /\ at[c] = "start" /\ pc[c] = "idle" /\ UNCHANGED under
      /\ pc' \in [Recorders -> {"idle", "admitted", "executed", "gone"}]
      /\ pc'[c] = next /\ \A d \in Recorders : d # c => pc'[d] = pc[d]
  BY <1>1, <1>2 DEF StartOperation, Start, StartLost, CallInv, Inv, Shape
<1>4. CASE next = "admitted"
  <2>1. /\ at'[c] = "started" /\ UNCHANGED item
        /\ \A d \in Recorders : d # c => at'[d] = at[d]
    BY <1>3, <1>4 DEF StartOperation, CallInv, CallTypes
  <2>2. Uses'
    BY <1>3, <1>4, <2>1 DEF CallInv, Uses, Kept, InFlight
  <2>3. Spent'
    BY <1>3, <2>1 DEF CallInv, Spent, Kept
  <2>. QED
    BY <2>2, <2>3
<1>5. CASE next # "admitted"
  <2>1. Returned(c) /\ ~InFlight(c)'
    BY <1>3, <1>5 DEF StartOperation, InFlight
  <2>. QED
    BY <1>3, <2>1, ReturnedUses
<1>. QED
  BY <1>4, <1>5

\* The one execution under an approval.
LEMMA ExecuteUses ==
  ASSUME CallInv, Kept, NEW c \in Recorders, ExecuteTool(c)
  PROVE  Uses' /\ Spent'
<1>1. /\ pc[c] = "admitted" /\ pc'[c] = "executed" /\ UNCHANGED <<at, item>>
      /\ \A d \in Recorders : d # c => pc'[d] = pc[d]
  BY DEF ExecuteTool, Execute, callVars, CallInv, Inv, Shape
<1>2. Uses'
  BY <1>1 DEF CallInv, Uses, Kept, InFlight
<1>3. CASE item[c] = None
  <2>1. UNCHANGED under /\ \A i \in Items : item[c] # i
    BY <1>3, ToolCallAssumption DEF ExecuteTool
  <2>2. Spent'
    BY <1>1, <2>1 DEF CallInv, Spent, Kept
  <2>. QED
    BY <1>2, <2>2
<1>4. CASE item[c] # None
  <2>. DEFINE i == item[c]
  <2>1. i \in Items /\ answer'[i] = TRUE /\ asking'[i] # "new"
    BY <1>1, <1>4 DEF CallInv, CallTypes, Uses, InFlight, Kept
  <2>2. attempt[c] \in Attempts
    BY <1>1 DEF CallInv, Inv, Shape, Flights, InFlight
  <2>3. under[i] = {}
    BY <1>1, <2>1 DEF CallInv, Spent
  <2>4. /\ under' = [under EXCEPT ![i] = {attempt[c]}]
        /\ under' \in [Items -> SUBSET Attempts]
        /\ under'[i] = {attempt[c]} /\ \A j \in Items : j # i => under'[j] = under[j]
    BY <1>4, <2>1, <2>2, <2>3 DEF ExecuteTool, CallInv, Spent
  <2>5. \A d \in Recorders : item'[d] = i => pc'[d] = "executed"
    BY <1>1, <2>1 DEF CallInv, Uses
  <2>6. Spent'
    BY <1>1, <2>1, <2>2, <2>4, <2>5 DEF CallInv, Spent, Kept
  <2>. QED
    BY <1>2, <2>6
<1>. QED
  BY <1>2, <1>3, <1>4

LEMMA EndUses ==
  ASSUME CallInv, Kept, NEW c \in Recorders, FinishOperation(c) \/ LeaveLoop(c)
  PROVE  Uses' /\ Spent'
<1>1. PICK next \in {"idle", "gone"} : pc' = [pc EXCEPT ![c] = next]
  BY DEF FinishOperation, LeaveLoop, Finish, Leave
<1>2. Returned(c) /\ UNCHANGED under
  BY DEF FinishOperation, LeaveLoop
<1>3. /\ pc' \in [Recorders -> {"idle", "admitted", "executed", "gone"}]
      /\ ~InFlight(c)' /\ \A d \in Recorders : d # c => pc'[d] = pc[d]
  BY <1>1 DEF CallInv, Inv, Shape, InFlight
<1>. QED
  BY <1>2, <1>3, ReturnedUses

LEMMA CallInvNext == CallInv /\ [CallNext]_allVars => CallInv'
<1>. SUFFICES ASSUME CallInv, [CallNext]_allVars PROVE CallInv'
  OBVIOUS
<1>1. Inv' /\ CallTypes'
  BY CallTypesNext, CallNextIsNext, NextInv DEF CallInv
<1>2. Human' /\ Kept
  BY HumanNext DEF CallInv
<1>3. Uses' /\ Spent'
  BY <1>2, OthersUses, AllowedUses, RequireUses, AskedUses, StartUses, ExecuteUses, EndUses
  DEF CallNext, allVars, vars, AskStep, PostStep, ResolveStep
<1>. QED
  BY <1>1, <1>2, <1>3 DEF CallInv

(* For any number of loops, approvals and handlers: an action that needed  *)
(* an approval ran only if the browser approved this call, and one         *)
(* approval lets one action through.                                       *)
THEOREM ActionsApproved == CallSpec => []ActionApproved
<1>1. CallInv => ActionApproved
  <2>. SUFFICES ASSUME CallInv, NEW i \in Items, under[i] # {}
                PROVE  Approved(i) /\ Cardinality(under[i]) = 1
    BY DEF ActionApproved, Approved
  <2>1. answer[i] = TRUE /\ \E a \in Attempts : under[i] = {a}
    BY DEF CallInv, Spent
  <2>2. Approved(i)
    BY <2>1 DEF CallInv, Human, Answers
  <2>3. Cardinality(under[i]) = 1
    BY <2>1, FS_Singleton
  <2>. QED
    BY <2>2, <2>3
<1>. QED
  BY <1>1, CallInvInit, CallInvNext, PTL DEF CallSpec

-----------------------------------------------------------------------------
(***************************************************************************)
(* The policy of a command, for any policies, paths and proposals of hooks. *)
(***************************************************************************)

LEMMA WithinTransitive ==
  ASSUME NEW p \in Seq(STRING), NEW q \in Seq(STRING), NEW r \in Seq(STRING), Within(p, q), Within(q, r)
  PROVE  Within(p, r)
  <1>1. Len(p) \in Nat /\ Len(q) \in Nat /\ Len(r) \in Nat
    OBVIOUS
  <1>2. \A i \in 1 .. Len(r) : i \in 1 .. Len(q)
    BY <1>1 DEF Within
  <1> QED
    BY <1>1, <1>2 DEF Within

LEMMA CoveredByBroader ==
  ASSUME NEW p \in Seq(STRING), NEW a \in Roots, NEW b \in Roots, NoBroader(a, b), Covered(p, a)
  PROVE  Covered(p, b)
  BY WithinTransitive, PolicyAssumption DEF Covered, NoBroader, Roots

\* A policy that tightens another allows no access, no domain and no more than it, and protects what it protected.
LEMMA TighteningNarrows ==
  ASSUME NEW base \in Policies, NEW candidate \in Policies, Tightens(base, candidate)
  PROVE  AllowsNoMore(candidate, base)
  <1>1. /\ base.read \in Roots /\ base.write \in Roots /\ base.denyRead \in Roots /\ base.denyWrite \in Roots
        /\ base.protected \in Roots /\ candidate.read \in Roots /\ candidate.write \in Roots
        /\ candidate.denyRead \in Roots /\ candidate.denyWrite \in Roots
    BY DEF Policies
  <1>2. ASSUME NEW path \in Seq(STRING), MayReadPath(candidate, path) PROVE MayReadPath(base, path)
    <2>1. Covered(path, base.read)
      BY <1>1, <1>2, CoveredByBroader DEF MayReadPath, Tightens
    <2>2. ~Covered(path, base.denyRead)
      BY <1>1, <1>2, CoveredByBroader DEF MayReadPath, Tightens, DeniesPreserved, NoBroader
    <2> QED
      BY <2>1, <2>2 DEF MayReadPath
  <1>3. ASSUME NEW path \in Seq(STRING), MayWritePath(candidate, path) PROVE MayWritePath(base, path)
    <2>1. Covered(path, base.write)
      BY <1>1, <1>3, CoveredByBroader DEF MayWritePath, Tightens
    <2>2. ~Covered(path, base.denyWrite)
      BY <1>1, <1>3, CoveredByBroader DEF MayWritePath, Tightens, DeniesPreserved, NoBroader
    <2> QED
      BY <2>1, <2>2 DEF MayWritePath
  <1>4. \A path \in base.protected : ~MayWritePath(candidate, path)
    BY DEF Tightens, Valid, MayWritePath
  <1>5. \A path \in Paths : path \in Seq(STRING)
    BY PolicyAssumption
  <1> QED
    BY <1>2, <1>3, <1>4, <1>5 DEF AllowsNoMore, Tightens

LEMMA LedgerTyped == Ledger \in Paths
  BY IsolationAssumption DEF Ledger

\* Whoever narrows a policy, it was checked to tighten the one before.
LEMMA PolicyTightens ==
  ASSUME policy \in Policies, [IsoNext]_isoVars
  PROVE  policy' \in Policies /\ (policy' # policy => Tightens(policy, policy'))
  <1>1. ASSUME NEW candidate \in Proposals, HookTightens(candidate)
        PROVE  policy' \in Policies /\ (policy' # policy => Tightens(policy, policy'))
    BY <1>1, IsolationAssumption DEF HookTightens
  <1>2. ASSUME NEW region \in Paths, ConvergeToRegion(region)
        PROVE  policy' \in Policies /\ Tightens(policy, policy')
    <2>2. policy' = [policy EXCEPT !.write = {region}]
      BY <1>2 DEF ConvergeToRegion, Converged
    <2>3. policy' \in Policies
      BY <2>2 DEF Policies, Roots
    <2> QED
      BY <1>2, <2>3 DEF ConvergeToRegion, RegionMay
  <1>3. ASSUME NEW readOnly \in BOOLEAN, NEW bound \in BOOLEAN, NEW session, NewContext(readOnly, bound, session)
        PROVE  policy' \in Policies /\ (policy' # policy => Tightens(policy, policy'))
    <2>1. policy' = policy \/ (policy' = ReadOnly(policy, {Ledger}) /\ Tightens(policy, policy'))
      BY <1>3 DEF NewContext, ReviewerMay
    <2>2. ReadOnly(policy, {Ledger}) \in Policies
      BY LedgerTyped DEF ReadOnly, Policies, Roots
    <2> QED
      BY <2>1, <2>2
  <1>4. ASSUME UNCHANGED policy PROVE policy' \in Policies /\ (policy' # policy => Tightens(policy, policy'))
    BY <1>4
  <1>5. UNCHANGED isoVars => UNCHANGED policy
    BY DEF isoVars
  <1>6. ASSUME NEW preference, SelectSandbox(preference) PROVE UNCHANGED policy
    BY <1>6, Zenon DEF SelectSandbox
  <1>7. UseBundledHelper \/ Swap \/ PinWorkspace \/ WrapCommand => UNCHANGED policy
    BY DEF UseBundledHelper, Swap, PinWorkspace, WrapCommand
  <1>8. Launch => UNCHANGED policy
    BY Zenon DEF Launch
  <1>9. ASSUME NEW o, NEW dir, Read(o) \/ Write(o) \/ Move(o, dir) PROVE UNCHANGED policy
    BY <1>9 DEF Read, Write, Move
  <1> QED
    BY <1>1, <1>2, <1>3, <1>4, <1>5, <1>6, <1>7, <1>8, <1>9 DEF IsoNext

\* Whatever hooks, regions and roles do to the policy of a step, for any policies and paths, it only loses authority.
THEOREM TighteningOnlyNarrows == IsoSpec => TightenNarrows
  <1>1. IsoInit => policy \in Policies
    BY IsolationAssumption DEF IsoInit
  <1>2. policy \in Policies /\ [IsoNext]_isoVars => (policy \in Policies)'
    BY PolicyTightens
  <1>3. policy \in Policies /\ [IsoNext]_isoVars => [policy' # policy => AllowsNoMore(policy', policy)]_policy
    BY PolicyTightens, TighteningNarrows
  <1> QED
    BY <1>1, <1>2, <1>3, PTL DEF IsoSpec, TightenNarrows

-----------------------------------------------------------------------------
(***************************************************************************)
(* A command under its sandbox.  Before it is wrapped only the policy, the *)
(* backend and the pin matter (BeforeWrap).  A wrapper then stands for     *)
(* what it denies: a mount for the directory it shows and hides (MountIs), *)
(* a profile for the paths it lets be written, with every directory above  *)
(* a denied one as an anchor (ProfileIs).  While the command runs, what is *)
(* at the top of the file system is not renamed (PlacesAre), so a path     *)
(* that is still the workspace's leads to the task's directories alone;    *)
(* and what was denied cannot be carried to another path, since whatever   *)
(* is above it is an anchor or denied itself (GuardedStays).               *)
(***************************************************************************)

\* The names a path is made of.
PathNames == STRING \cup {"w", "v", "u", "l", "s", "k", "z"}

AsContext(c) == [state |-> c.state, readOnly |-> c.readOnly, bound |-> c.bound, session |-> c.session]

Launched == ctx.state = "running"
WrappedUp == ctx.state \in {"wrapped", "running", "failed"}
PathKept == cmd.fd # "none" \/ swaps = 0

\* What is settled before the command: policy, backend, session and pin.
BeforeWrap ==
  /\ policy \in Policies /\ Valid(policy) /\ policy.workspace = Root
  /\ swaps \in Nat
  /\ ctx = AsContext(ctx) /\ ctx.readOnly \in BOOLEAN /\ ctx.bound \in BOOLEAN
  /\ ctx.session \in {"none", "ws"} /\ (ctx.session # "none" => ~ctx.readOnly)
  /\ backend \in {"bwrap", "sandbox-exec"} => backend \in host.works
  /\ ctx.state # "new" => backend # "unset"
  /\ pin \in {"none", "ws", "alt"}
  /\ ~WrappedUp => cmd = NoCommand /\ guarded = {}
  /\ ~Launched => cage = NoCage /\ wrote = {} /\ seen = {}

\* What each wrapper stands for.
CommandIs ==
  WrappedUp =>
    /\ cmd.by \in {"mount", "landlock", "profile", "bare"}
    /\ cmd.fd \in {"none", "ws", "alt"}
    /\ ctx.readOnly => ~cmd.writable /\ cmd.write = {} /\ cmd.by # "bare"
    /\ cmd.by = "bare" => backend \in {"none", "wsl"} /\ ~ctx.bound
    /\ ~ctx.bound => guarded = {}
    /\ guarded \subseteq Objects
MountIs ==
  WrappedUp /\ cmd.by \in {"mount", "landlock"} =>
    /\ cmd.writable /\ cmd.fd # "none" => cmd.fd = "ws"
    /\ ctx.readOnly => Ledger \in cmd.hidden
    /\ cmd.writable /\ PathKept => guarded \cap Task = {}
ProfileIs ==
  WrappedUp /\ cmd.by = "profile" =>
    /\ cmd.fd = "none"
    /\ cmd.write \subseteq Seq(PathNames) /\ cmd.denyWrite \subseteq Seq(PathNames)
    /\ \A root \in cmd.write : Within(root, Root)
    /\ ctx.readOnly => cmd.read = {Root} \cup System /\ Ledger \in cmd.denyRead
    /\ guarded # {} => \A path \in cmd.denyWrite : \A dir \in Parents(path) : Covered(dir, cmd.write) => dir \in cmd.anchors
    /\ swaps = 0 => \A o \in guarded : Covered(location[o], cmd.denyWrite)

\* The cage is what was wrapped; a shownTree that was not exchanged is the workspace.
CageIs ==
  Launched =>
    /\ cage.by = cmd.by
    /\ cage.by \in {"mount", "landlock"} =>
         /\ cage.tree \in {"ws", "alt"}
         /\ cmd.fd # "none" => cage.tree = cmd.fd
         /\ cmd.fd = "none" /\ swaps = 0 => cage.tree = "ws"
         /\ ctx.readOnly /\ cage.tree = "ws" => "ledger" \in cage.hidden

\* Where the directories are, unless a command runs without a sandbox: the two that
\* may be exchanged and the system stay at the top, and what is in the workspace stays
\* below it while nothing can be renamed.
Caged == Launched => cmd.by # "bare"
PlacesAre ==
  Caged =>
    /\ location \in [Objects -> Seq(PathNames)]
    /\ \/ location["ws"] = Root /\ location["alt"] = Elsewhere
       \/ location["ws"] = Elsewhere /\ location["alt"] = Root
    /\ swaps = 0 => location["ws"] = Root
    /\ location["usr"] = <<"u">>
    /\ \A o \in {"src", "key", "ledger"} : Len(location[o]) >= 2
TaskInside ==
  ~Launched \/ ctx.readOnly =>
    /\ \A o \in Task : Within(location[o], location["ws"])
    /\ Len(location["ledger"]) = 2 /\ location["ledger"][2] = "l"

\* What the command did.
Effects ==
  /\ ctx.readOnly => wrote = {} /\ "ledger" \notin seen
  /\ Caged /\ PathKept => wrote \subseteq Task /\ wrote \cap guarded = {}

IsoInv ==
  /\ BeforeWrap /\ CommandIs /\ MountIs /\ ProfileIs /\ CageIs /\ PlacesAre /\ TaskInside /\ Effects

\* The paths in use, and what it is to be below one.
LEMMA PathsNamed ==
  /\ Paths \subseteq Seq(PathNames) /\ FreeName \in PathNames
  /\ \A a \in PathNames : <<a>> \in Seq(PathNames) /\ Len(<<a>>) = 1 /\ <<a>>[1] = a
  /\ \A a, b \in PathNames : <<a, b>> \in Seq(PathNames) /\ Len(<<a, b>>) = 2 /\ <<a, b>>[1] = a /\ <<a, b>>[2] = b
<1>1. ASSUME NEW S, NEW T, S \subseteq T PROVE Seq(S) \subseteq Seq(T)
  BY <1>1
<1>2. ASSUME NEW S, NEW a \in S, NEW b \in S
      PROVE  /\ <<a>> \in Seq(S) /\ Len(<<a>>) = 1 /\ <<a>>[1] = a
             /\ <<a, b>> \in Seq(S) /\ Len(<<a, b>>) = 2 /\ <<a, b>>[1] = a /\ <<a, b>>[2] = b
  OBVIOUS
<1>3. Seq(STRING) \subseteq Seq(PathNames)
  BY <1>1 DEF PathNames
<1>4. FreeName \in PathNames
  BY DEF FreeName, PathNames
<1> QED BY <1>2, <1>3, <1>4, PolicyAssumption

\* The names at the top, and the ledger.
LEMMA RootsAre ==
  /\ Root \in Seq(PathNames) /\ Len(Root) = 1 /\ Root[1] = "w"
  /\ Elsewhere \in Seq(PathNames) /\ Len(Elsewhere) = 1 /\ Elsewhere[1] = "v"
  /\ <<"u">> \in Seq(PathNames) /\ Len(<<"u">>) = 1 /\ <<"u">>[1] = "u"
  /\ Ledger \in Seq(PathNames) /\ Len(Ledger) = 2 /\ Ledger[1] = "w" /\ Ledger[2] = "l"
<1>1. "w" \in PathNames /\ "v" \in PathNames /\ "u" \in PathNames /\ "l" \in PathNames
  BY DEF PathNames
<1>2. ASSUME NEW S, NEW a \in S, NEW b \in S
      PROVE  /\ <<a>> \in Seq(S) /\ Len(<<a>>) = 1 /\ <<a>>[1] = a
             /\ <<a, b>> \in Seq(S) /\ Len(<<a, b>>) = 2 /\ <<a, b>>[1] = a /\ <<a, b>>[2] = b
  OBVIOUS
<1>3. Root \in Seq(PathNames) /\ Len(Root) = 1 /\ Root[1] = "w"
  BY <1>1, <1>2 DEF Root
<1>4. Elsewhere \in Seq(PathNames) /\ Len(Elsewhere) = 1 /\ Elsewhere[1] = "v"
  BY <1>1, <1>2 DEF Elsewhere
<1>5. Ledger \in Seq(PathNames) /\ Len(Ledger) = 2 /\ Ledger[1] = "w" /\ Ledger[2] = "l"
  BY <1>1, <1>2 DEF Ledger
<1> QED BY <1>1, <1>2, <1>3, <1>4, <1>5

\* To be below a path of one name is to begin with it.
LEMMA WithinTop ==
  ASSUME NEW p \in Seq(PathNames), NEW q \in Seq(PathNames), Len(q) = 1
  PROVE  Within(p, q) <=> Len(p) >= 1 /\ p[1] = q[1]
BY LenProperties DEF Within

\* Every path is within itself.
LEMMA WithinItself == ASSUME NEW p \in Seq(PathNames) PROVE Within(p, p)
BY LenProperties DEF Within

\* Of two directories above one path, one is above the other.
LEMMA Comparable ==
  ASSUME NEW p \in Seq(PathNames), NEW a \in Seq(PathNames), NEW b \in Seq(PathNames), Within(p, a), Within(p, b)
  PROVE  Within(a, b) \/ (Within(b, a) /\ Len(a) < Len(b))
<1>1. Len(a) \in Nat /\ Len(b) \in Nat /\ Len(p) \in Nat
  BY LenProperties
<1> QED BY <1>1 DEF Within

\* A path that lies below another directory now.
LEMMA RelocatedIs ==
  ASSUME NEW path \in Seq(PathNames), NEW from \in Seq(PathNames), NEW to \in Seq(PathNames), Within(path, from)
  PROVE  /\ Relocated(path, from, to) \in Seq(PathNames)
         /\ Len(Relocated(path, from, to)) = Len(to) + (Len(path) - Len(from)) /\ Len(path) - Len(from) \in Nat
         /\ Within(Relocated(path, from, to), to)
         /\ \A i \in 1..(Len(path) - Len(from)) : Relocated(path, from, to)[Len(to) + i] = path[Len(from) + i]
<1> DEFINE m == Len(from) + 1
           n == Len(path)
           s == SubSeq(path, m, n)
<1>1. Len(path) \in Nat /\ Len(from) \in Nat /\ Len(to) \in Nat /\ Len(from) <= Len(path)
  BY LenProperties DEF Within
<1>2. \A i \in m..n : path[i] \in PathNames
  <2>1. \A i \in m..n : i \in 1..Len(path)
    BY <1>1
  <2> QED BY <2>1, ElementOfSeq
<1>3. m \in Int /\ n \in Int
  BY <1>1
<1> HIDE DEF m, n
<1>4. s \in Seq(PathNames) /\ Len(s) = (IF m <= n THEN n - m + 1 ELSE 0) /\ \A i \in 1..n - m + 1 : s[i] = path[m + i - 1]
  BY <1>2, <1>3, SubSeqProperties
<1>5. Len(s) = Len(path) - Len(from) /\ \A i \in 1..(Len(path) - Len(from)) : s[i] = path[Len(from) + i]
  <2>1. n - m + 1 = Len(path) - Len(from)
    BY <1>1 DEF m, n
  <2>2. \A i \in 1..(Len(path) - Len(from)) : m + i - 1 = Len(from) + i
    BY <1>1 DEF m
  <2>3. Len(s) = Len(path) - Len(from)
    BY <1>1, <1>3, <1>4, <2>1
  <2> QED BY <1>4, <2>1, <2>2, <2>3
<1> HIDE DEF s
<1>6. to \o s \in Seq(PathNames) /\ Len(to \o s) = Len(to) + Len(s)
      /\ \A i \in 1..Len(to) + Len(s) : (to \o s)[i] = IF i <= Len(to) THEN to[i] ELSE s[i - Len(to)]
  BY <1>4, ConcatProperties
<1>7. Relocated(path, from, to) = to \o s
  BY DEF Relocated, s, m, n
<1>8. \A i \in 1..Len(to) : (to \o s)[i] = to[i]
  <2>1. \A i \in 1..Len(to) : i \in 1..Len(to) + Len(s) /\ i <= Len(to)
    BY <1>1, <1>5
  <2> QED BY <1>6, <2>1
<1>9. \A i \in 1..(Len(path) - Len(from)) : (to \o s)[Len(to) + i] = path[Len(from) + i]
  <2>1. \A i \in 1..(Len(path) - Len(from)) : Len(to) + i \in 1..Len(to) + Len(s) /\ ~(Len(to) + i <= Len(to)) /\ (Len(to) + i) - Len(to) = i
    BY <1>1, <1>5
  <2>2. \A i \in 1..(Len(path) - Len(from)) : (to \o s)[Len(to) + i] = s[(Len(to) + i) - Len(to)]
    BY <1>6, <2>1
  <2> QED BY <1>5, <2>1, <2>2
<1> HIDE DEF Relocated
<1>10. PICK r \in Seq(PathNames) :
         /\ r = Relocated(path, from, to) /\ Len(r) = Len(to) + (Len(path) - Len(from))
         /\ \A i \in 1..Len(to) : r[i] = to[i]
         /\ \A i \in 1..(Len(path) - Len(from)) : r[Len(to) + i] = path[Len(from) + i]
  <2>1. Len(to \o s) = Len(to) + (Len(path) - Len(from))
    BY <1>5, <1>6
  <2> QED BY <1>6, <1>7, <1>8, <1>9, <2>1
<1>11. Len(path) - Len(from) \in Nat /\ Len(to) <= Len(to) + (Len(path) - Len(from))
  BY <1>1
<1>12. Within(r, to)
  BY <1>10, <1>11 DEF Within
<1> QED BY <1>10, <1>11, <1>12

\* A policy's roots are paths.
LEMMA PoliciesAre ==
  ASSUME NEW p \in Policies
  PROVE  /\ p.write \subseteq Seq(PathNames) /\ p.denyWrite \subseteq Seq(PathNames) /\ p.denyRead \subseteq Seq(PathNames)
         /\ p.workspace \in Seq(PathNames)
BY PathsNamed DEF Policies, Roots

\* Under a sandbox every directory has a path, and three have one of one name.
LEMMA PlacesTyped ==
  ASSUME PlacesAre, Caged, NEW o \in Objects
  PROVE  /\ location[o] \in Seq(PathNames) /\ Len(location[o]) \in Nat /\ Len(location[o]) >= 1
         /\ o \in {"ws", "alt", "usr"} => Len(location[o]) = 1
<1>1. location[o] \in Seq(PathNames)
  BY DEF PlacesAre
<1>2. CASE o \in {"src", "key", "ledger"}
  BY <1>1, <1>2, LenProperties DEF PlacesAre
<1>3. CASE o \in {"ws", "alt", "usr"}
  <2>1. location[o] = Root \/ location[o] = Elsewhere \/ location[o] = <<"u">>
    BY <1>3 DEF PlacesAre
  <2>2. Len(location[o]) = 1
    BY <2>1, RootsAre
  <2> QED BY <1>1, <1>3, <2>2
<1> QED BY <1>2, <1>3 DEF Objects

\* Only the directories of the task are below the workspace.
LEMMA OnlyTask ==
  ASSUME PlacesAre, Caged, NEW o \in Objects, Within(location[o], location["ws"])
  PROVE  o \in Task
<1>1. location["ws"] \in Seq(PathNames) /\ Len(location["ws"]) = 1 /\ location[o] \in Seq(PathNames)
  BY PlacesTyped DEF Objects
<1>2. location[o][1] = location["ws"][1]
  BY <1>1, WithinTop
<1>3. o # "alt" /\ o # "usr"
  BY <1>2, RootsAre DEF PlacesAre
<1> QED BY <1>3 DEF Objects, Task

-----------------------------------------------------------------------------

\* Before a command is wrapped nothing is claimed of it.
LEMMA QuietKeeps ==
  ASSUME IsoInv, BeforeWrap', ~WrappedUp, ~WrappedUp', UNCHANGED <<location, swaps, wrote, seen>>
  PROVE  IsoInv'
<1>1. ~Launched /\ ~Launched' /\ wrote = {} /\ seen = {}
  BY DEF IsoInv, BeforeWrap, WrappedUp, Launched
<1>2. CommandIs' /\ MountIs' /\ ProfileIs' /\ CageIs'
  BY <1>1 DEF CommandIs, MountIs, ProfileIs, CageIs
<1>3. PlacesAre' /\ TaskInside'
  BY <1>1 DEF IsoInv, PlacesAre, TaskInside, Caged
<1>4. Effects'
  BY <1>1 DEF Effects
<1> QED BY <1>2, <1>3, <1>4 DEF IsoInv

\* A narrower policy keeps the workspace.
LEMMA PolicyKeeps ==
  ASSUME IsoInv, ctx.state = "new", Tightens(policy, policy') \/ policy' = policy, policy' \in Policies,
         UNCHANGED <<host, ctx, backend, pin, cmd, guarded, location, swaps, cage, wrote, seen>>
  PROVE  IsoInv'
<1>1. Valid(policy') /\ policy'.workspace = Root
  BY DEF IsoInv, BeforeWrap, Tightens
<1>2. BeforeWrap'
  BY <1>1 DEF IsoInv, BeforeWrap, WrappedUp, Launched
<1>3. ~WrappedUp /\ ~WrappedUp'
  BY DEF WrappedUp
<1> QED BY <1>2, <1>3, QuietKeeps

\* A native backend is selected only when its probe passed (probe_capabilities).
LEMMA SelectKeeps ==
  ASSUME IsoInv, UseBundledHelper \/ \E preference \in Preferences : SelectSandbox(preference)
  PROVE  IsoInv'
<1>1. backend = "unset" /\ UNCHANGED <<host, policy, hooks, ctx, pin, cmd, guarded, location, swaps, cage, wrote, seen>>
  BY Zenon DEF UseBundledHelper, SelectSandbox, Run
<1>2. backend' \in {"bwrap", "sandbox-exec"} => backend' \in host.works
  <2>1. Available("bwrap") => "bwrap" \in host.works
    BY DEF Available, ProbePasses
  <2>2. Available("sandbox-exec") => "sandbox-exec" \in host.works
    BY DEF Available, ProbePasses
  <2>3. UseBundledHelper => backend' = "landlock"
    BY DEF UseBundledHelper
  <2>4. FirstAvailable \in {"bwrap", "sandbox-exec"} => Available(FirstAvailable)
    <3>1. CASE \E i \in 1..Len(Ranking) : Available(Ranking[i])
      <4> DEFINE P(i) == Available(Ranking[i]) /\ \A j \in 1..(i - 1) : ~Available(Ranking[j])
      <4>1. \E i \in 1..Len(Ranking) : P(i)
        <5>1. Len(Ranking) = 4
          BY DEF Ranking
        <5> QED BY <3>1, <5>1
      <4>2. P(CHOOSE i \in 1..Len(Ranking) : P(i))
        BY <4>1
      <4> QED BY <3>1, <4>2 DEF FirstAvailable
    <3>2. CASE ~\E i \in 1..Len(Ranking) : Available(Ranking[i])
      BY <3>2 DEF FirstAvailable
    <3> QED BY <3>1, <3>2
  <2>5. ASSUME NEW preference \in Preferences, SelectSandbox(preference), backend' \in {"bwrap", "sandbox-exec"}
        PROVE  Available(backend')
    BY <2>4, <2>5 DEF SelectSandbox, Preferences
  <2> QED BY <2>1, <2>2, <2>3, <2>5
<1>3. ctx.state = "new"
  BY <1>1 DEF IsoInv, BeforeWrap
<1>4. BeforeWrap'
  BY <1>1, <1>2, <1>3 DEF IsoInv, BeforeWrap, WrappedUp, Launched
<1>5. ~WrappedUp /\ ~WrappedUp'
  BY <1>1, <1>3 DEF WrappedUp
<1> QED BY <1>1, <1>4, <1>5, QuietKeeps

\* The context of a step or an agent, with its policy narrowed for a role that does not write.
LEMMA ContextKeeps ==
  ASSUME IsoInv, NEW readOnly \in BOOLEAN, NEW bound \in BOOLEAN, NEW session \in {"none", "ws"},
         NewContext(readOnly, bound, session)
  PROVE  IsoInv'
<1>1. ctx.state = "new" /\ backend # "unset" /\ UNCHANGED <<host, hooks, backend, pin, location, swaps, cmd, guarded, cage, wrote, seen>>
      /\ (session # "none" => ~readOnly)
  BY DEF NewContext, Run
<1>2. policy' \in Policies /\ (policy' # policy => Tightens(policy, policy'))
  <2>1. [IsoNext]_isoVars
    BY DEF IsoNext
  <2> QED BY <2>1, PolicyTightens DEF IsoInv, BeforeWrap
<1>3. Valid(policy') /\ policy'.workspace = Root
  BY <1>2 DEF IsoInv, BeforeWrap, Tightens
<1>4. \/ ctx' = [ctx EXCEPT !.state = "refused"]
      \/ ctx' = [state |-> "open", readOnly |-> readOnly, bound |-> bound, session |-> session]
  BY Zenon DEF NewContext
<1>5. /\ ctx' = AsContext(ctx') /\ ctx'.readOnly \in BOOLEAN /\ ctx'.bound \in BOOLEAN /\ ctx'.session \in {"none", "ws"}
      /\ (ctx'.session # "none" => ~ctx'.readOnly) /\ ctx'.state \in {"refused", "open"}
  <2>1. CASE ctx' = [ctx EXCEPT !.state = "refused"]
    BY <2>1 DEF IsoInv, BeforeWrap, AsContext
  <2>2. CASE ctx' = [state |-> "open", readOnly |-> readOnly, bound |-> bound, session |-> session]
    BY <1>1, <2>2 DEF AsContext
  <2> QED BY <1>4, <2>1, <2>2
<1>6. ~WrappedUp /\ ~WrappedUp' /\ ~Launched /\ ~Launched'
  BY <1>1, <1>5 DEF WrappedUp, Launched
<1>7. BeforeWrap'
  BY <1>1, <1>2, <1>3, <1>5, <1>6 DEF IsoInv, BeforeWrap
<1> QED BY <1>1, <1>6, <1>7, QuietKeeps

\* The directory at the workspace's path is one of the two that may be there.
LEMMA AtTheRoot ==
  ASSUME PlacesAre, Caged
  PROVE  /\ \A o \in At(Root) : o \in {"ws", "alt"} /\ (swaps = 0 => o = "ws")
         /\ At(Root) # {}
<1>1. ASSUME NEW o \in Objects, location[o] = Root PROVE o \in {"ws", "alt"} /\ (swaps = 0 => o = "ws")
  <2>1. o # "usr"
    BY <1>1, RootsAre DEF PlacesAre
  <2>2. o \notin {"src", "key", "ledger"}
    <3>1. SUFFICES ASSUME o \in {"src", "key", "ledger"} PROVE FALSE
      OBVIOUS
    <3>2. Len(location[o]) = 1
      BY <1>1, RootsAre
    <3>3. Len(location[o]) >= 2
      BY <3>1 DEF PlacesAre
    <3> QED BY <3>2, <3>3
  <2>3. swaps = 0 => o # "alt"
    BY <1>1, RootsAre DEF PlacesAre
  <2> QED BY <2>1, <2>2, <2>3 DEF Objects
<1>2. "ws" \in Objects /\ "alt" \in Objects /\ (location["ws"] = Root \/ location["alt"] = Root)
  BY DEF PlacesAre, Objects
<1> QED BY <1>1, <1>2 DEF At

\* Pinning takes hold of the directory that is at the path (pin_read_only_workspace).
LEMMA PinKeeps == ASSUME IsoInv, PinWorkspace PROVE IsoInv'
<1>1. ctx.state = "open" /\ UNCHANGED <<host, policy, hooks, backend, location, swaps, cmd, guarded, cage, wrote, seen>>
      /\ ctx' = [ctx EXCEPT !.state = "ready"] /\ (pin' \in At(Root) \/ pin' = "none")
  BY DEF PinWorkspace, Run
<1>2. ~WrappedUp /\ ~WrappedUp' /\ ~Launched /\ ~Launched'
  BY <1>1 DEF WrappedUp, Launched, IsoInv, BeforeWrap, AsContext
<1>3. \A o \in At(Root) : o \in {"ws", "alt"}
  BY <1>2, AtTheRoot DEF IsoInv, Caged
<1>4. BeforeWrap'
  BY <1>1, <1>2, <1>3 DEF IsoInv, BeforeWrap, AsContext
<1> QED BY <1>1, <1>2, <1>4, QuietKeeps

-----------------------------------------------------------------------------

\* The two directories change places; what is in them goes along.
LEMMA ExchangeIs ==
  ASSUME PlacesAre, Caged, Swap, NEW o \in Objects
  PROVE  /\ location'[o] \in Seq(PathNames) /\ Len(location'[o]) = Len(location[o])
         /\ \A i \in 2..Len(location[o]) : location'[o][i] = location[o][i]
         /\ Within(location[o], Root) => Within(location'[o], Elsewhere)
         /\ Within(location[o], Elsewhere) => Within(location'[o], Root)
         /\ ~Within(location[o], Root) /\ ~Within(location[o], Elsewhere) => location'[o] = location[o]
<1>1. location[o] \in Seq(PathNames) /\ Len(location[o]) \in Nat
  BY PlacesTyped
<1>2. location'[o] = CASE Within(location[o], Root) -> Relocated(location[o], Root, Elsewhere)
                    [] Within(location[o], Elsewhere) -> Relocated(location[o], Elsewhere, Root)
                    [] OTHER -> location[o]
  BY Zenon DEF Swap
<1>3. Within(location[o], Root) => ~Within(location[o], Elsewhere)
  BY <1>1, RootsAre, WithinTop
<1>4. \A i \in 2..Len(location[o]) : i - 1 \in 1..(Len(location[o]) - 1) /\ 1 + (i - 1) = i
  BY <1>1
<1>5. CASE Within(location[o], Root)
  <2>1. location'[o] = Relocated(location[o], Root, Elsewhere)
    BY <1>2, <1>3, <1>5
  <2>2. /\ location'[o] \in Seq(PathNames) /\ Len(location'[o]) = Len(Elsewhere) + (Len(location[o]) - Len(Root))
        /\ Within(location'[o], Elsewhere)
        /\ \A i \in 1..(Len(location[o]) - Len(Root)) : location'[o][Len(Elsewhere) + i] = location[o][Len(Root) + i]
    <3>1. Root \in Seq(PathNames) /\ Elsewhere \in Seq(PathNames)
      BY RootsAre
    <3>2. /\ Relocated(location[o], Root, Elsewhere) \in Seq(PathNames)
          /\ Len(Relocated(location[o], Root, Elsewhere)) = Len(Elsewhere) + (Len(location[o]) - Len(Root))
          /\ Within(Relocated(location[o], Root, Elsewhere), Elsewhere)
          /\ \A i \in 1..(Len(location[o]) - Len(Root)) :
               Relocated(location[o], Root, Elsewhere)[Len(Elsewhere) + i] = location[o][Len(Root) + i]
      BY <1>1, <1>5, <3>1, RelocatedIs
    <3> QED BY <2>1, <3>2
  <2>3. Len(location'[o]) = Len(location[o])
    BY <1>1, <2>2, RootsAre
  <2>4. \A i \in 2..Len(location[o]) : location'[o][i] = location[o][i]
    BY <1>4, <2>2, RootsAre
  <2> QED BY <1>3, <1>5, <2>2, <2>3, <2>4
<1>6. CASE Within(location[o], Elsewhere)
  <2>1. location'[o] = Relocated(location[o], Elsewhere, Root)
    BY <1>2, <1>3, <1>6
  <2>2. /\ location'[o] \in Seq(PathNames) /\ Len(location'[o]) = Len(Root) + (Len(location[o]) - Len(Elsewhere))
        /\ Within(location'[o], Root)
        /\ \A i \in 1..(Len(location[o]) - Len(Elsewhere)) : location'[o][Len(Root) + i] = location[o][Len(Elsewhere) + i]
    <3>1. Elsewhere \in Seq(PathNames) /\ Root \in Seq(PathNames)
      BY RootsAre
    <3>2. /\ Relocated(location[o], Elsewhere, Root) \in Seq(PathNames)
          /\ Len(Relocated(location[o], Elsewhere, Root)) = Len(Root) + (Len(location[o]) - Len(Elsewhere))
          /\ Within(Relocated(location[o], Elsewhere, Root), Root)
          /\ \A i \in 1..(Len(location[o]) - Len(Elsewhere)) :
               Relocated(location[o], Elsewhere, Root)[Len(Root) + i] = location[o][Len(Elsewhere) + i]
      BY <1>1, <1>6, <3>1, RelocatedIs
    <3> QED BY <2>1, <3>2
  <2>3. Len(location'[o]) = Len(location[o])
    BY <1>1, <2>2, RootsAre
  <2>4. \A i \in 2..Len(location[o]) : location'[o][i] = location[o][i]
    BY <1>4, <2>2, RootsAre
  <2> QED BY <1>3, <1>6, <2>2, <2>3, <2>4
<1>7. CASE ~Within(location[o], Root) /\ ~Within(location[o], Elsewhere)
  BY <1>1, <1>2, <1>7
<1> QED BY <1>5, <1>6, <1>7

\* An exchange counts, and moves what is in the two directories as a whole.
LEMMA SwapKeeps == ASSUME IsoInv, Swap PROVE IsoInv'
<1>1. UNCHANGED <<host, policy, hooks, ctx, backend, pin, cmd, guarded, cage, wrote, seen>> /\ swaps' = swaps + 1
      /\ location' = [o \in Objects |-> location'[o]] /\ swaps \in Nat
  BY DEF Swap, Run, IsoInv, BeforeWrap
<1>2. swaps' # 0 /\ swaps' \in Nat
  BY <1>1
<1>3. BeforeWrap'
  BY <1>1, <1>2 DEF IsoInv, BeforeWrap, WrappedUp, Launched
<1>4. CommandIs' /\ MountIs' /\ CageIs'
  BY <1>1, <1>2 DEF IsoInv, CommandIs, MountIs, CageIs, WrappedUp, Launched, PathKept
<1>5. ProfileIs'
  BY <1>1, <1>2 DEF IsoInv, ProfileIs, WrappedUp
<1>6. Effects'
  BY <1>1, <1>2 DEF IsoInv, Effects, Caged, Launched, PathKept
<1>7. ASSUME Caged, PlacesAre PROVE PlacesAre' /\ ("ws" \in Objects /\ location'["ws"] = IF location["ws"] = Root THEN Elsewhere ELSE Root)
  <2>1. \A o \in Objects : /\ location'[o] \in Seq(PathNames) /\ Len(location'[o]) = Len(location[o])
                           /\ Within(location[o], Root) => Within(location'[o], Elsewhere)
                           /\ Within(location[o], Elsewhere) => Within(location'[o], Root)
                           /\ ~Within(location[o], Root) /\ ~Within(location[o], Elsewhere) => location'[o] = location[o]
    BY <1>7, ExchangeIs
  <2>2. \A o \in Objects : location[o] = Root => location'[o] = Elsewhere
    <3>1. SUFFICES ASSUME NEW o \in Objects, location[o] = Root PROVE location'[o] = Elsewhere
      OBVIOUS
    <3>2. location'[o] \in Seq(PathNames) /\ Len(location'[o]) = 1 /\ Within(location'[o], Elsewhere)
      BY <2>1, <3>1, RootsAre, WithinItself
    <3>3. location'[o][1] = Elsewhere[1]
      BY <3>2, RootsAre, WithinTop
    <3>4. \A i \in 1..Len(location'[o]) : location'[o][i] = Elsewhere[i]
      BY <3>2, <3>3
    <3> QED BY <3>2, <3>4, RootsAre, SeqEqual
  <2>3. \A o \in Objects : location[o] = Elsewhere => location'[o] = Root
    <3>1. SUFFICES ASSUME NEW o \in Objects, location[o] = Elsewhere PROVE location'[o] = Root
      OBVIOUS
    <3>2. location'[o] \in Seq(PathNames) /\ Len(location'[o]) = 1 /\ Within(location'[o], Root)
      BY <2>1, <3>1, RootsAre, WithinItself
    <3>3. location'[o][1] = Root[1]
      BY <3>2, RootsAre, WithinTop
    <3>4. \A i \in 1..Len(location'[o]) : location'[o][i] = Root[i]
      BY <3>2, <3>3
    <3> QED BY <3>2, <3>4, RootsAre, SeqEqual
  <2>4. location'["usr"] = <<"u">>
    <3>1. ~Within(<<"u">>, Root) /\ ~Within(<<"u">>, Elsewhere)
      BY RootsAre, WithinTop
    <3> QED BY <1>7, <2>1, <3>1 DEF PlacesAre, Objects
  <2>5. location' \in [Objects -> Seq(PathNames)]
    BY <1>1, <2>1
  <2>6. \A o \in {"src", "key", "ledger"} : Len(location'[o]) >= 2
    BY <1>7, <2>1 DEF PlacesAre, Objects
  <2>7. \/ location["ws"] = Root /\ location'["ws"] = Elsewhere /\ location'["alt"] = Root
        \/ location["ws"] = Elsewhere /\ location'["ws"] = Root /\ location'["alt"] = Elsewhere
    BY <1>7, <2>2, <2>3 DEF PlacesAre, Objects
  <2>8. Root # Elsewhere
    BY RootsAre
  <2> QED BY <1>2, <2>4, <2>5, <2>6, <2>7, <2>8 DEF PlacesAre, Objects
<1>8. PlacesAre'
  BY <1>1, <1>7 DEF IsoInv, PlacesAre, Caged, Launched
<1>9. TaskInside'
  <2>1. SUFFICES ASSUME ~Launched \/ ctx.readOnly
                 PROVE  /\ \A o \in Task : Within(location'[o], location'["ws"])
                        /\ Len(location'["ledger"]) = 2 /\ location'["ledger"][2] = "l"
    BY <1>1 DEF TaskInside, Launched
  <2>2. Caged /\ PlacesAre /\ Task \subseteq Objects
    BY <2>1 DEF IsoInv, CommandIs, Caged, Launched, WrappedUp, Task, Objects
  <2>3. ASSUME NEW o \in Task PROVE Within(location'[o], location'["ws"])
    <3>1. Within(location[o], location["ws"])
      BY <2>1, <2>3 DEF IsoInv, TaskInside
    <3>2. (Within(location[o], Root) => Within(location'[o], Elsewhere)) /\ (Within(location[o], Elsewhere) => Within(location'[o], Root))
      BY <2>2, <2>3, ExchangeIs
    <3>3. location'["ws"] = IF location["ws"] = Root THEN Elsewhere ELSE Root
      BY <1>7, <2>2
    <3> QED BY <2>2, <3>1, <3>2, <3>3 DEF PlacesAre
  <2>4. Len(location["ledger"]) = 2 /\ location["ledger"][2] = "l"
    BY <2>1 DEF IsoInv, TaskInside
  <2>5. Len(location'["ledger"]) = 2 /\ location'["ledger"][2] = "l"
    <3>1. "ledger" \in Objects /\ 2 \in 2..2
      BY DEF Objects
    <3>2. Len(location'["ledger"]) = Len(location["ledger"]) /\ \A i \in 2..Len(location["ledger"]) : location'["ledger"][i] = location["ledger"][i]
      BY <2>2, <3>1, ExchangeIs
    <3> QED BY <2>4, <3>1, <3>2
  <2> QED BY <2>3, <2>5
<1> QED BY <1>3, <1>4, <1>5, <1>6, <1>8, <1>9 DEF IsoInv

-----------------------------------------------------------------------------

\* No other hidden directory hides the ledger.
LEMMA LedgerMinimal ==
  ASSUME NEW hidden \in SUBSET Seq(PathNames), Ledger \in hidden,
         \A path \in hidden : Within(path, Root) /\ path # Root
  PROVE  Ledger \in Minimal(hidden)
<1>1. SUFFICES ASSUME NEW other \in hidden \ {Ledger}, Within(Ledger, other) PROVE FALSE
  BY DEF Minimal
<1>2. other \in Seq(PathNames) /\ Within(other, Root) /\ other # Root /\ other # Ledger
  BY <1>1
<1>3. Len(other) \in Nat /\ Len(other) <= 2 /\ \A i \in 1..Len(other) : other[i] = Ledger[i]
  BY <1>1, <1>2, RootsAre, LenProperties DEF Within
<1>4. Len(other) >= 1 /\ other[1] = "w"
  BY <1>2, RootsAre, WithinTop
<1>5. CASE Len(other) = 1
  <2>1. \A i \in 1..Len(other) : other[i] = Root[i]
    BY <1>4, <1>5, RootsAre
  <2> QED BY <1>2, <1>5, <2>1, RootsAre, SeqEqual
<1>6. CASE Len(other) = 2
  BY <1>2, <1>3, <1>6, RootsAre, SeqEqual
<1>7. \A n \in Nat : n <= 2 /\ n >= 1 => n = 1 \/ n = 2
  OBVIOUS
<1> QED BY <1>3, <1>4, <1>5, <1>6, <1>7

\* A Reviewer's command can write nothing and does not get at the ledger.
LEMMA ReviewersAre ==
  ASSUME IsoInv, ctx.readOnly, NEW c \in Commands
  PROVE  \/ \E fd \in {"none", "ws", "alt"}, hidden \in SUBSET Seq(PathNames) :
              Ledger \in hidden /\ c = Wrapped("mount", fd, FALSE, hidden)
         \/ c = Profile(FALSE, {Ledger}) /\ ~ctx.bound
<1>1. pin \in {"none", "ws", "alt"} /\ ctx.bound \in BOOLEAN /\ policy \in Policies
  BY DEF IsoInv, BeforeWrap
<1>2. policy.denyRead \in SUBSET Seq(PathNames) /\ {Ledger} \in SUBSET Seq(PathNames)
  BY <1>1, PoliciesAre, RootsAre
<1>3. CASE ctx.bound
  <2>1. c \in ReviewerPolicyCommands
    BY <1>3, Zenon DEF Commands
  <2>2. /\ c = Wrapped("mount", pin, FALSE, Minimal(policy.denyRead))
        /\ Ledger \in policy.denyRead /\ ExclusionsHold(policy.denyRead, pin)
    BY <2>1 DEF ReviewerPolicyCommands
  <2>3. Ledger \in Minimal(policy.denyRead)
    BY <1>2, <2>2, LedgerMinimal DEF ExclusionsHold
  <2>4. Minimal(policy.denyRead) \in SUBSET Seq(PathNames)
    BY <1>2 DEF Minimal
  <2> QED BY <1>1, <2>2, <2>3, <2>4
<1>4. CASE ~ctx.bound
  <2>1. c \in ReviewerCommands
    BY <1>4, Zenon DEF Commands
  <2>2. c = Wrapped("mount", pin, FALSE, {Ledger}) \/ c = Wrapped("mount", "none", FALSE, {Ledger}) \/ c = Profile(FALSE, {Ledger})
    BY <2>1 DEF ReviewerCommands
  <2> QED BY <1>1, <1>2, <1>4, <2>2
<1> QED BY <1>1, <1>3, <1>4

\* A command that may write, under a policy or under none.
LEMMA WritersAre ==
  ASSUME IsoInv, ~ctx.readOnly, NEW c \in Commands
  PROVE  \/ ctx.bound /\ c = Wrapped("landlock", ctx.session, TRUE, {}) /\ LandlockExpresses(policy)
               /\ (ctx.session # "none" => location["ws"] = Root)
         \/ ctx.bound /\ c = PolicyProfile(policy)
         \/ ~ctx.bound /\ c = Wrapped("bare", "none", TRUE, {}) /\ backend \in {"none", "wsl"}
         \/ ~ctx.bound /\ (c = Wrapped("landlock", "none", TRUE, {}) \/ c = Wrapped("mount", "none", TRUE, {}))
         \/ ~ctx.bound /\ c = Profile(TRUE, {})
<1>1. ctx.session \in {"none", "ws"} /\ ctx.bound \in BOOLEAN
  BY DEF IsoInv, BeforeWrap
<1>2. CASE ctx.bound
  <2>1. c \in PolicyCommands \/ c \in ProfileCommands
    BY <1>2, Zenon DEF Commands
  <2>2. c \in ProfileCommands => c = PolicyProfile(policy)
    BY DEF ProfileCommands
  <2>3. c \in PolicyCommands => c = Wrapped("landlock", ctx.session, TRUE, {}) /\ LandlockExpresses(policy)
                                  /\ (ctx.session # "none" => SameObject(ctx.session))
    BY DEF PolicyCommands
  <2>4. SameObject("ws") => location["ws"] = Root
    BY DEF SameObject, At
  <2> QED BY <1>1, <1>2, <2>1, <2>2, <2>3, <2>4
<1>3. CASE ~ctx.bound
  <2>1. c \in OrdinaryCommands
    BY <1>3, Zenon DEF Commands
  <2> QED BY <1>3, <2>1 DEF OrdinaryCommands
<1> QED BY <1>1, <1>2, <1>3

\* A command under Landlock may write nothing that the policy denies in its workspace.
LEMMA LandlockSpares ==
  ASSUME IsoInv, ~Launched, LandlockExpresses(policy), location["ws"] = Root, NEW o \in Task
  PROVE  ~Covered(location[o], policy.denyWrite)
<1>1. SUFFICES ASSUME NEW path \in policy.denyWrite, Within(location[o], path) PROVE FALSE
  BY DEF Covered
<1>2. PlacesAre /\ Caged /\ o \in Objects
  BY DEF IsoInv, Caged, Launched, Task, Objects
<1>3. location[o] \in Seq(PathNames) /\ path \in Seq(PathNames) /\ Root \in Seq(PathNames)
  BY <1>2, PlacesTyped, PoliciesAre, RootsAre DEF IsoInv, BeforeWrap
<1>4. Within(location[o], Root)
  BY DEF IsoInv, TaskInside
<1>5. Within(path, Root) \/ Within(Root, path)
  BY <1>1, <1>3, <1>4, Comparable
<1>6. ~Overlap(path, Root)
  BY DEF LandlockExpresses, IsoInv, BeforeWrap
<1> QED BY <1>5, <1>6 DEF Overlap

\* Wrapping makes one of these commands, or refuses (wrap_command).
LEMMA WrapKeeps == ASSUME IsoInv, WrapCommand PROVE IsoInv'
<1>1. ctx.state = "ready" /\ UNCHANGED <<host, policy, hooks, backend, pin, location, swaps, moves, cage, wrote, seen>>
  BY DEF WrapCommand
<1>2. ctx = AsContext(ctx) /\ ctx.readOnly \in BOOLEAN /\ ctx.bound \in BOOLEAN /\ ctx.session \in {"none", "ws"}
      /\ policy \in Policies /\ Valid(policy) /\ policy.workspace = Root
  BY DEF IsoInv, BeforeWrap
<1>3. ~WrappedUp /\ ~Launched /\ Caged
  BY <1>1 DEF WrappedUp, Launched, Caged
<1>4. CASE Commands = {}
  <2>1. ctx' = [ctx EXCEPT !.state = "refused"] /\ UNCHANGED <<cmd, guarded>>
    BY <1>4 DEF WrapCommand
  <2>2. ~WrappedUp' /\ ~Launched'
    BY <1>2, <2>1 DEF WrappedUp, Launched, AsContext
  <2>3. ctx' = AsContext(ctx') /\ ctx'.readOnly = ctx.readOnly /\ ctx'.bound = ctx.bound /\ ctx'.session = ctx.session
    BY <1>2, <2>1 DEF AsContext
  <2>4. BeforeWrap'
    BY <1>1, <1>3, <2>1, <2>2, <2>3 DEF IsoInv, BeforeWrap
  <2> QED BY <1>1, <1>3, <2>2, <2>4, QuietKeeps
<1>5. CASE Commands # {}
  <2>1. ctx' = [ctx EXCEPT !.state = "wrapped"] /\ cmd' \in Commands
        /\ guarded' = IF ctx.bound THEN {o \in Objects : Covered(location[o], policy.denyWrite)} ELSE {}
    BY <1>5 DEF WrapCommand
  <2>2. WrappedUp' /\ ~Launched' /\ ctx'.readOnly = ctx.readOnly /\ ctx'.bound = ctx.bound /\ ctx'.session = ctx.session
        /\ ctx' = AsContext(ctx') /\ ctx'.state = "wrapped"
    BY <1>2, <2>1 DEF WrappedUp, Launched, AsContext
  <2>3. PICK c \in Commands : cmd' = c
    BY <2>1
  <2>4. BeforeWrap'
    BY <1>1, <1>3, <2>2 DEF IsoInv, BeforeWrap
  <2>5. PlacesAre' /\ TaskInside'
    BY <1>1, <1>3, <2>2 DEF IsoInv, PlacesAre, TaskInside, Caged, Launched
  <2>6. CageIs' /\ Effects'
    BY <1>1, <1>3, <2>2 DEF IsoInv, CageIs, Effects, BeforeWrap
  <2>7. (~ctx.bound => guarded' = {}) /\ guarded' \subseteq Objects
    BY <2>1
  <2>8. CASE ctx.readOnly
    <3>1. CASE \E fd \in {"none", "ws", "alt"}, hidden \in SUBSET Seq(PathNames) :
                 Ledger \in hidden /\ c = Wrapped("mount", fd, FALSE, hidden)
      <4>1. PICK fd \in {"none", "ws", "alt"}, hidden \in SUBSET Seq(PathNames) :
              Ledger \in hidden /\ c = Wrapped("mount", fd, FALSE, hidden)
        BY <3>1
      <4>2. cmd'.by = "mount" /\ cmd'.fd = fd /\ cmd'.writable = FALSE /\ cmd'.hidden = hidden /\ cmd'.write = {}
        BY <2>3, <4>1 DEF Wrapped, NoCommand
      <4>3. CommandIs' /\ MountIs' /\ ProfileIs'
        BY <1>2, <2>2, <2>7, <4>1, <4>2 DEF CommandIs, MountIs, ProfileIs
      <4> QED BY <2>4, <2>5, <2>6, <4>3 DEF IsoInv
    <3>2. CASE c = Profile(FALSE, {Ledger}) /\ ~ctx.bound
      <4>1. cmd'.by = "profile" /\ cmd'.fd = "none" /\ cmd'.writable = FALSE /\ cmd'.read = {Root} \cup System
            /\ cmd'.write = {} /\ cmd'.denyRead = {Ledger} /\ cmd'.denyWrite = {}
        BY <2>3, <3>2 DEF Profile, Wrapped, NoCommand
      <4>2. CommandIs' /\ MountIs' /\ ProfileIs'
        BY <1>2, <2>2, <2>7, <3>2, <4>1 DEF CommandIs, MountIs, ProfileIs
      <4> QED BY <2>4, <2>5, <2>6, <4>2 DEF IsoInv
    <3> QED BY <2>8, <3>1, <3>2, ReviewersAre
  <2>9. CASE ~ctx.readOnly
    <3>1. CASE ctx.bound /\ c = Wrapped("landlock", ctx.session, TRUE, {}) /\ LandlockExpresses(policy)
               /\ (ctx.session # "none" => location["ws"] = Root)
      <4>1. cmd'.by = "landlock" /\ cmd'.fd = ctx.session
        BY <2>3, <3>1 DEF Wrapped, NoCommand
      <4>2. CommandIs' /\ ProfileIs'
        BY <1>2, <2>2, <2>7, <2>9, <3>1, <4>1 DEF CommandIs, ProfileIs
      <4>3. PathKept' => guarded' \cap Task = {}
        <5>1. SUFFICES ASSUME PathKept' PROVE guarded' \cap Task = {}
          OBVIOUS
        <5>2. location["ws"] = Root
          BY <1>1, <1>3, <3>1, <4>1, <5>1 DEF PathKept, IsoInv, PlacesAre
        <5> QED BY <1>3, <2>1, <3>1, <5>2, LandlockSpares
      <4>4. MountIs'
        BY <1>2, <2>2, <2>9, <4>1, <4>3 DEF MountIs
      <4> QED BY <2>4, <2>5, <2>6, <4>2, <4>4 DEF IsoInv
    <3>2. CASE ctx.bound /\ c = PolicyProfile(policy)
      <4>1. cmd'.by = "profile" /\ cmd'.fd = "none" /\ cmd'.write = policy.write /\ cmd'.denyWrite = policy.denyWrite
            /\ cmd'.anchors = Anchors(policy)
        BY <2>3, <3>2 DEF PolicyProfile, Wrapped, NoCommand
      <4>2. CommandIs' /\ MountIs'
        BY <2>2, <2>7, <2>9, <3>2, <4>1 DEF CommandIs, MountIs
      <4>3. cmd'.write \subseteq Seq(PathNames) /\ cmd'.denyWrite \subseteq Seq(PathNames)
        BY <1>2, <4>1, PoliciesAre
      <4>4. \A root \in cmd'.write : Within(root, Root)
        BY <1>2, <4>1 DEF Valid
      <4>5. \A path \in cmd'.denyWrite : \A dir \in Parents(path) : Covered(dir, cmd'.write) => dir \in cmd'.anchors
        BY <4>1 DEF Anchors
      <4>6. \A o \in guarded' : Covered(location'[o], cmd'.denyWrite)
        BY <1>1, <2>1, <3>2, <4>1
      <4>7. ProfileIs'
        BY <2>2, <2>9, <4>1, <4>3, <4>4, <4>5, <4>6 DEF ProfileIs
      <4> QED BY <2>4, <2>5, <2>6, <4>2, <4>7 DEF IsoInv
    <3>3. CASE ~ctx.bound /\ c = Wrapped("bare", "none", TRUE, {}) /\ backend \in {"none", "wsl"}
      <4>1. cmd'.by = "bare" /\ cmd'.fd = "none"
        BY <2>3, <3>3 DEF Wrapped, NoCommand
      <4>2. CommandIs' /\ MountIs' /\ ProfileIs'
        BY <1>1, <2>2, <2>7, <2>9, <3>3, <4>1 DEF CommandIs, MountIs, ProfileIs
      <4> QED BY <2>4, <2>5, <2>6, <4>2 DEF IsoInv
    <3>4. CASE ~ctx.bound /\ (c = Wrapped("landlock", "none", TRUE, {}) \/ c = Wrapped("mount", "none", TRUE, {}))
      <4>1. cmd'.by \in {"landlock", "mount"} /\ cmd'.fd = "none"
        BY <2>3, <3>4 DEF Wrapped, NoCommand
      <4>2. CommandIs' /\ MountIs' /\ ProfileIs'
        BY <2>2, <2>7, <2>9, <3>4, <4>1 DEF CommandIs, MountIs, ProfileIs
      <4> QED BY <2>4, <2>5, <2>6, <4>2 DEF IsoInv
    <3>5. CASE ~ctx.bound /\ c = Profile(TRUE, {})
      <4>1. cmd'.by = "profile" /\ cmd'.fd = "none" /\ cmd'.write = {Root} /\ cmd'.denyWrite = {}
        BY <2>3, <3>5 DEF Profile, Wrapped, NoCommand
      <4>2. Within(Root, Root) /\ Root \in Seq(PathNames)
        BY RootsAre, WithinItself
      <4>3. CommandIs' /\ MountIs' /\ ProfileIs'
        BY <2>2, <2>7, <2>9, <3>5, <4>1, <4>2 DEF CommandIs, MountIs, ProfileIs
      <4> QED BY <2>4, <2>5, <2>6, <4>3 DEF IsoInv
    <3> QED BY <2>9, <3>1, <3>2, <3>3, <3>4, <3>5, WritersAre
  <2> QED BY <1>2, <2>8, <2>9
<1> QED BY <1>4, <1>5

\* A Reviewer's sandbox hides the ledger of the workspace it shows.
LEMMA LedgerHidden ==
  ASSUME IsoInv, ~Launched, Ledger \in cmd.hidden
  PROVE  "ledger" \in HiddenIn("ws")
<1>1. PlacesAre /\ Caged
  BY DEF IsoInv, Caged
<1>2. location["ws"] \in Seq(PathNames) /\ Len(location["ws"]) = 1 /\ location["ledger"] \in Seq(PathNames) /\ "ledger" \in Objects
  BY <1>1, PlacesTyped DEF Objects
<1>3. Within(location["ledger"], location["ws"]) /\ Len(location["ledger"]) = 2 /\ location["ledger"][2] = "l"
  BY DEF IsoInv, TaskInside, Task
<1>4. Within(Ledger, Root) /\ Ledger \in Seq(PathNames) /\ Root \in Seq(PathNames)
  BY RootsAre, WithinTop
<1>5. /\ Relocated(Ledger, Root, location["ws"]) \in Seq(PathNames)
      /\ Len(Relocated(Ledger, Root, location["ws"])) = Len(location["ws"]) + (Len(Ledger) - Len(Root))
      /\ Within(Relocated(Ledger, Root, location["ws"]), location["ws"])
      /\ \A i \in 1..(Len(Ledger) - Len(Root)) :
           Relocated(Ledger, Root, location["ws"])[Len(location["ws"]) + i] = Ledger[Len(Root) + i]
  BY <1>2, <1>4, RelocatedIs
<1>6. PICK r \in Seq(PathNames) :
        /\ r = Relocated(Ledger, Root, location["ws"])
        /\ Len(r) = Len(location["ws"]) + (Len(Ledger) - Len(Root)) /\ Within(r, location["ws"])
        /\ \A i \in 1..(Len(Ledger) - Len(Root)) : r[Len(location["ws"]) + i] = Ledger[Len(Root) + i]
  BY <1>5
<1>7. Len(r) = 2 /\ r[2] = "l"
  <2>1. Len(r) = 2
    BY <1>2, <1>6, RootsAre
  <2>2. 1 \in 1..(Len(Ledger) - Len(Root)) /\ Len(location["ws"]) + 1 = 2 /\ Len(Root) + 1 = 2
    BY <1>2, RootsAre
  <2> QED BY <1>6, <2>1, <2>2, RootsAre
<1>8. r[1] = location["ws"][1] /\ location["ledger"][1] = location["ws"][1]
  BY <1>2, <1>3, <1>6, WithinTop
<1>9. location["ledger"] = r
  <2>1. \A i \in 1..Len(r) : i = 1 \/ i = 2
    BY <1>7
  <2>2. \A i \in 1..Len(r) : location["ledger"][i] = r[i]
    BY <1>3, <1>7, <1>8, <2>1
  <2> QED BY <1>2, <1>3, <1>6, <1>7, <2>2, SeqEqual
<1> QED BY <1>2, <1>6, <1>9 DEF HiddenIn

\* The cage is of the directory the command holds, or of the one at the path.
LEMMA CommandLaunchKeeps == ASSUME IsoInv, Launch PROVE IsoInv'
<1> DEFINE shownTree == CHOOSE o \in Objects : IF cmd.fd # "none" THEN o = cmd.fd ELSE o \in At(Root)
<1>1. ctx.state = "wrapped" /\ UNCHANGED <<host, policy, hooks, backend, pin, cmd, guarded, location, swaps, moves, wrote, seen>>
  BY Zenon DEF Launch
<1>2. WrappedUp /\ ~Launched /\ Caged /\ PlacesAre /\ wrote = {} /\ seen = {}
  BY <1>1 DEF WrappedUp, Launched, Caged, IsoInv, BeforeWrap
<1>3. /\ cmd.by \in {"mount", "landlock", "profile", "bare"} /\ cmd.fd \in {"none", "ws", "alt"}
      /\ ctx.readOnly => cmd.by # "bare"
      /\ ctx.readOnly /\ cmd.by \in {"mount", "landlock"} => Ledger \in cmd.hidden
  BY <1>2 DEF IsoInv, CommandIs, MountIs
<1>4. Isolates <=> cmd.by # "bare"
  BY DEF Isolates, IsoInv, BeforeWrap
<1>5. ctx = AsContext(ctx)
  BY DEF IsoInv, BeforeWrap
<1>6. ASSUME NEW s \in {"running", "failed"}, ctx' = [ctx EXCEPT !.state = s]
      PROVE  /\ WrappedUp' /\ (Launched' <=> s = "running") /\ ctx' = AsContext(ctx') /\ ctx'.state # "new"
             /\ ctx'.readOnly = ctx.readOnly /\ ctx'.bound = ctx.bound /\ ctx'.session = ctx.session
  BY <1>5, <1>6 DEF WrappedUp, Launched, AsContext
<1>7. shownTree \in {"ws", "alt"} /\ (cmd.fd # "none" => shownTree = cmd.fd) /\ (cmd.fd = "none" /\ swaps = 0 => shownTree = "ws")
  <2>1. CASE cmd.fd # "none"
    <3>1. cmd.fd \in Objects
      BY <1>3, <2>1 DEF Objects
    <3> QED BY <1>3, <2>1, <3>1
  <2>2. CASE cmd.fd = "none"
    <3>1. At(Root) # {} /\ At(Root) \subseteq Objects
      BY <1>2, AtTheRoot DEF At
    <3>2. shownTree \in At(Root)
      BY <2>2, <3>1
    <3> QED BY <1>2, <2>2, <3>2, AtTheRoot
  <2> QED BY <2>1, <2>2
<1> HIDE DEF shownTree
\* what the two outcomes have in common
<1>8. ASSUME NEW s \in {"running", "failed"}, ctx' = [ctx EXCEPT !.state = s],
             s = "failed" => cage' = cage, CageIs'
      PROVE  IsoInv'
  <2>1. WrappedUp' /\ ctx'.readOnly = ctx.readOnly /\ ctx'.bound = ctx.bound /\ ctx'.session = ctx.session
        /\ ctx' = AsContext(ctx') /\ (Launched' <=> s = "running") /\ ctx'.state # "new"
    BY <1>6, <1>8
  <2>2. BeforeWrap'
    BY <1>1, <1>2, <1>8, <2>1 DEF IsoInv, BeforeWrap
  <2>3. CommandIs' /\ MountIs' /\ ProfileIs'
    BY <1>1, <1>2, <2>1 DEF IsoInv, CommandIs, MountIs, ProfileIs, PathKept
  <2>4. PlacesAre' /\ TaskInside'
    BY <1>1, <1>2, <2>1 DEF IsoInv, PlacesAre, TaskInside
  <2>5. Effects'
    BY <1>1, <1>2 DEF Effects
  <2> QED BY <1>8, <2>2, <2>3, <2>4, <2>5 DEF IsoInv
<1>9. CASE cmd.by = "bare"
  <2>1. ctx' = [ctx EXCEPT !.state = "running"] /\ cage' = [NoCage EXCEPT !.by = "bare"]
    BY <1>4, <1>9, Zenon DEF Launch
  <2>2. cage'.by = "bare"
    BY <2>1 DEF NoCage
  <2>3. CageIs'
    BY <1>1, <1>9, <2>2 DEF CageIs
  <2> QED BY <1>8, <2>1, <2>3
<1>10. CASE cmd.by = "profile"
  <2>1. ctx' = [ctx EXCEPT !.state = "running"] /\ cage' = [NoCage EXCEPT !.by = "profile"]
    BY <1>4, <1>10 DEF Launch
  <2>2. cage'.by = "profile"
    BY <2>1 DEF NoCage
  <2>3. CageIs'
    BY <1>1, <1>10, <2>2 DEF CageIs
  <2> QED BY <1>8, <2>1, <2>3
<1>11. CASE cmd.by \in {"mount", "landlock"}
  <2>1. \/ ctx' = [ctx EXCEPT !.state = "running"] /\ cage' = [by |-> cmd.by, tree |-> shownTree, hidden |-> HiddenIn(shownTree)]
        \/ ctx' = [ctx EXCEPT !.state = "failed"] /\ cage' = cage
    BY <1>4, <1>11 DEF Launch, shownTree
  <2>2. CASE ctx' = [ctx EXCEPT !.state = "running"] /\ cage' = [by |-> cmd.by, tree |-> shownTree, hidden |-> HiddenIn(shownTree)]
    <3>1. ctx'.readOnly = ctx.readOnly
      BY <1>6, <2>2
    <3>2. cage'.by = cmd.by /\ cage'.tree = shownTree /\ cage'.hidden = HiddenIn(shownTree)
      BY <2>2
    <3>3. ctx.readOnly /\ shownTree = "ws" => "ledger" \in HiddenIn(shownTree)
      BY <1>2, <1>3, <1>11, LedgerHidden
    <3>4. CageIs'
      BY <1>1, <1>7, <3>1, <3>2, <3>3 DEF CageIs
    <3> QED BY <1>8, <2>2, <3>4
  <2>3. CASE ctx' = [ctx EXCEPT !.state = "failed"] /\ cage' = cage
    <3>1. ~Launched'
      BY <1>6, <2>3
    <3>2. CageIs'
      BY <3>1 DEF CageIs
    <3> QED BY <1>8, <2>3, <3>2
  <2> QED BY <2>1, <2>2, <2>3
<1> QED BY <1>3, <1>9, <1>10, <1>11

-----------------------------------------------------------------------------

\* What a profile lets be written is below the workspace's path.
LEMMA ProfileWithinRoot ==
  ASSUME IsoInv, WrappedUp, cmd.by = "profile", NEW path \in Seq(PathNames), PathWritable(path)
  PROVE  Len(path) >= 1 /\ path[1] = "w" /\ ~ctx.readOnly
<1>1. PICK root \in cmd.write : Within(path, root)
  BY DEF PathWritable, Covered
<1>2. root \in Seq(PathNames) /\ Within(root, Root)
  BY DEF IsoInv, ProfileIs
<1>3. Len(root) >= 1 /\ root[1] = "w" /\ Len(root) \in Nat /\ Len(path) \in Nat
  BY <1>2, RootsAre, WithinTop, LenProperties
<1>4. Len(path) >= 1 /\ path[1] = root[1]
  BY <1>1, <1>3 DEF Within
<1>5. ctx.readOnly => cmd.write = {}
  BY DEF IsoInv, CommandIs
<1> QED BY <1>1, <1>3, <1>4, <1>5

\* Under a sandbox nothing at the top is renamed.
LEMMA OnlyLowMoves ==
  ASSUME IsoInv, Launched, Caged, NEW o \in Objects, NEW dir \in Objects, ~Beneath(dir, o), MayMove(o, dir, FreeName)
  PROVE  o \in {"src", "key", "ledger"} /\ ~ctx.readOnly
<1>1. PlacesAre /\ WrappedUp /\ cage.by = cmd.by /\ cmd.by \in {"mount", "landlock", "profile"}
  BY DEF IsoInv, CageIs, CommandIs, Caged, WrappedUp, Launched
<1>2. location[o] \in Seq(PathNames) /\ location[dir] \in Seq(PathNames) /\ Len(location[o]) \in Nat /\ Len(location[dir]) \in Nat
      /\ Len(location[dir]) >= 1 /\ (o \in {"ws", "alt", "usr"} => Len(location[o]) = 1)
  BY <1>1, PlacesTyped
<1>3. CASE cmd.by = "profile"
  <2>1. PathWritable(location[o]) /\ PathWritable(Append(location[dir], FreeName))
    BY <1>1, <1>3 DEF MayMove
  <2>2. Append(location[dir], FreeName) \in Seq(PathNames) /\ Append(location[dir], FreeName)[1] = location[dir][1]
    <3>1. FreeName \in PathNames /\ 1 \in 1..Len(location[dir])
      BY <1>2, PathsNamed
    <3> QED BY <1>2, <3>1, AppendProperties
  <2>3. location[o][1] = "w" /\ location[dir][1] = "w" /\ ~ctx.readOnly
    BY <1>1, <1>2, <1>3, <2>1, <2>2, ProfileWithinRoot
  <2>4. o \notin {"ws", "alt", "usr"}
    <3>1. SUFFICES ASSUME o \in {"ws", "alt", "usr"} PROVE FALSE
      OBVIOUS
    <3>2. Within(location[dir], location[o])
      BY <1>2, <2>3, <3>1, WithinTop
    <3> QED BY <3>2 DEF Beneath
  <2> QED BY <2>3, <2>4 DEF Objects
<1>4. CASE cmd.by \in {"mount", "landlock"}
  <2>1. cmd.writable /\ Beneath(o, cage.tree) /\ o # cage.tree /\ cage.tree \in {"ws", "alt"}
    BY <1>1, <1>4 DEF MayMove, Reaches, IsoInv, CageIs
  <2>2. ~ctx.readOnly
    BY <1>1, <2>1 DEF IsoInv, CommandIs
  <2>3. location[cage.tree] \in Seq(PathNames) /\ Len(location[cage.tree]) = 1
    BY <1>1, <2>1, PlacesTyped DEF Objects
  <2>4. location[o][1] = location[cage.tree][1]
    BY <1>2, <2>1, <2>3, WithinTop DEF Beneath
  <2>5. location["ws"][1] # location["alt"][1] /\ location["usr"][1] = "u" /\ location["ws"][1] # "u" /\ location["alt"][1] # "u"
    BY <1>1, RootsAre DEF PlacesAre
  <2> QED BY <2>1, <2>2, <2>4, <2>5 DEF Objects
<1> QED BY <1>1, <1>3, <1>4

\* What the policy of a profile denied is neither renamed nor taken along.
LEMMA GuardedStays ==
  ASSUME IsoInv, Launched, cmd.by = "profile", swaps = 0, NEW x \in guarded, NEW o \in Objects,
         PathWritable(location[o]), location[o] \notin cmd.anchors
  PROVE  ~Beneath(x, o)
<1>1. PlacesAre /\ WrappedUp /\ Caged /\ x \in Objects
  BY DEF IsoInv, CommandIs, WrappedUp, Launched, Caged
<1>2. location[x] \in Seq(PathNames) /\ location[o] \in Seq(PathNames) /\ Len(location[o]) \in Nat /\ Len(location[o]) >= 1
  BY <1>1, PlacesTyped
<1>3. PICK q \in cmd.denyWrite : Within(location[x], q)
  BY <1>1 DEF IsoInv, ProfileIs, Covered
<1>4. q \in Seq(PathNames) /\ \A dir \in Parents(q) : Covered(dir, cmd.write) => dir \in cmd.anchors
  BY <1>1 DEF IsoInv, ProfileIs
<1>5. ~Within(location[o], q) /\ Covered(location[o], cmd.write)
  BY DEF PathWritable, Covered
<1>6. SUFFICES ASSUME Within(location[x], location[o]) PROVE FALSE
  BY DEF Beneath
<1>7. Within(q, location[o]) /\ Len(location[o]) < Len(q) /\ Len(q) \in Nat
  BY <1>2, <1>3, <1>4, <1>5, <1>6, Comparable, LenProperties
<1>8. location[o] = SubSeq(q, 1, Len(location[o]))
  <2>1. \A i \in 1..Len(location[o]) : q[i] \in PathNames
    BY <1>4, <1>7, <1>2, ElementOfSeq
  <2>2. /\ SubSeq(q, 1, Len(location[o])) \in Seq(PathNames) /\ Len(SubSeq(q, 1, Len(location[o]))) = Len(location[o])
        /\ \A i \in 1..Len(location[o]) : SubSeq(q, 1, Len(location[o]))[i] = q[i]
    BY <1>2, <1>4, <1>7, <2>1, SubSeqProperties
  <2>3. \A i \in 1..Len(location[o]) : location[o][i] = SubSeq(q, 1, Len(location[o]))[i]
    BY <1>7, <2>2 DEF Within
  <2> QED BY <1>2, <2>2, <2>3, SeqEqual
<1>9. location[o] \in Parents(q)
  <2>1. Len(location[o]) \in 1..(Len(q) - 1)
    BY <1>2, <1>7
  <2> QED BY <1>8, <2>1 DEF Parents
<1> QED BY <1>4, <1>5, <1>9

\* A rename under a sandbox is of a directory below the top that no denied one goes along with.
LEMMA MoveKeeps ==
  ASSUME IsoInv, NEW o \in Objects, NEW dir \in Objects, Move(o, dir)
  PROVE  IsoInv'
<1>1. Launched /\ ~Beneath(dir, o) /\ MayMove(o, dir, FreeName)
      /\ UNCHANGED <<host, policy, hooks, ctx, backend, pin, cmd, guarded, swaps, cage, wrote, seen>>
  BY DEF Move, Launched
<1>2. location' = [x \in Objects |->
                  IF Beneath(x, o) THEN Relocated(location[x], location[o], Append(location[dir], FreeName)) ELSE location[x]]
  BY DEF Move
<1>3. BeforeWrap' /\ CommandIs' /\ MountIs' /\ CageIs' /\ Effects'
  BY <1>1 DEF IsoInv, BeforeWrap, CommandIs, MountIs, CageIs, Effects, WrappedUp, Launched, PathKept, Caged
<1>4. CASE ~Caged
  <2>1. cmd.by = "bare" /\ ~ctx.readOnly /\ Launched' /\ ~Caged'
    BY <1>1, <1>4 DEF Caged, IsoInv, CommandIs, WrappedUp, Launched
  <2>2. ProfileIs' /\ PlacesAre' /\ TaskInside'
    BY <1>1, <2>1 DEF ProfileIs, PlacesAre, TaskInside
  <2> QED BY <1>3, <2>2 DEF IsoInv
<1>5. CASE Caged
  <2>1. PlacesAre /\ WrappedUp /\ Launched' /\ o \in {"src", "key", "ledger"} /\ ~ctx.readOnly
    BY <1>1, <1>5, OnlyLowMoves DEF IsoInv, WrappedUp, Launched
  <2>2. Len(location[o]) >= 2 /\ Len(location[o]) \in Nat /\ location[o] \in Seq(PathNames)
    BY <1>5, <2>1, PlacesTyped DEF PlacesAre
  <2> DEFINE new == Append(location[dir], FreeName)
  <2>3. new \in Seq(PathNames) /\ Len(new) \in Nat /\ Len(new) >= 2
    <3>1. location[dir] \in Seq(PathNames) /\ Len(location[dir]) \in Nat /\ Len(location[dir]) >= 1 /\ FreeName \in PathNames
      BY <1>5, <2>1, PlacesTyped, PathsNamed
    <3>2. new \in Seq(PathNames) /\ Len(new) = Len(location[dir]) + 1
      BY <3>1, AppendProperties
    <3> QED BY <3>1, <3>2
  <2>4. ASSUME NEW x \in Objects, Within(location[x], location[o])
        PROVE  location'[x] \in Seq(PathNames) /\ Len(location'[x]) >= 2
    <3>1. location[x] \in Seq(PathNames)
      BY <1>5, <2>1, PlacesTyped
    <3>2. Relocated(location[x], location[o], new) \in Seq(PathNames)
          /\ Len(Relocated(location[x], location[o], new)) = Len(new) + (Len(location[x]) - Len(location[o]))
          /\ Len(location[x]) - Len(location[o]) \in Nat
      BY <2>2, <2>3, <2>4, <3>1, RelocatedIs
    <3>3. location'[x] = Relocated(location[x], location[o], new)
      BY <1>2, <2>4 DEF Beneath
    <3>4. \A n, d \in Nat : n >= 2 => n + d >= 2
      OBVIOUS
    <3>5. Len(new) + (Len(location[x]) - Len(location[o])) >= 2
      BY <2>3, <3>2, <3>4
    <3> HIDE DEF new
    <3> QED BY <3>2, <3>3, <3>5
  <2>5. \A x \in Objects : ~Within(location[x], location[o]) => location'[x] = location[x]
    BY <1>2 DEF Beneath
  <2>6. \A x \in {"ws", "alt", "usr"} : location'[x] = location[x]
    <3>1. SUFFICES ASSUME NEW x \in {"ws", "alt", "usr"} PROVE x \in Objects /\ ~Within(location[x], location[o])
      BY <2>5
    <3>2. x \in Objects /\ Len(location[x]) = 1
      BY <1>5, <2>1, PlacesTyped DEF Objects
    <3> QED BY <2>2, <3>2 DEF Within
  <2>7. location' \in [Objects -> Seq(PathNames)]
    <3>1. \A x \in Objects : location'[x] \in Seq(PathNames)
      BY <1>5, <2>1, <2>4, <2>5, PlacesTyped
    <3>2. location' = [x \in Objects |-> location'[x]]
      BY <1>2
    <3> QED BY <3>1, <3>2
  <2>8. \A x \in {"src", "key", "ledger"} : Len(location'[x]) >= 2
    <3>1. SUFFICES ASSUME NEW x \in {"src", "key", "ledger"} PROVE Len(location'[x]) >= 2
      OBVIOUS
    <3>2. x \in Objects
      BY DEF Objects
    <3>3. CASE Within(location[x], location[o])
      BY <2>4, <3>2, <3>3
    <3>4. CASE ~Within(location[x], location[o])
      BY <1>5, <2>1, <2>5, <3>2, <3>4 DEF PlacesAre
    <3> QED BY <3>3, <3>4
  <2>9. PlacesAre' /\ TaskInside'
    BY <1>1, <1>5, <2>1, <2>6, <2>7, <2>8 DEF PlacesAre, TaskInside
  <2>10. ProfileIs'
    <3>1. ASSUME cmd.by = "profile", swaps = 0, NEW x \in guarded PROVE Covered(location'[x], cmd.denyWrite)
      <4>1. PathWritable(location[o]) /\ location[o] \notin cmd.anchors
        BY <1>1, <3>1 DEF MayMove, IsoInv, CageIs
      <4>2. ~Beneath(x, o) /\ x \in Objects
        BY <1>1, <2>1, <3>1, <4>1, GuardedStays DEF IsoInv, CommandIs
      <4>3. location'[x] = location[x]
        BY <2>5, <4>2 DEF Beneath
      <4>4. Covered(location[x], cmd.denyWrite)
        BY <2>1, <3>1 DEF IsoInv, ProfileIs
      <4> QED BY <4>3, <4>4
    <3> QED BY <1>1, <2>1, <3>1 DEF IsoInv, ProfileIs, WrappedUp
  <2> QED BY <1>3, <2>9, <2>10 DEF IsoInv
<1> QED BY <1>4, <1>5

\* What a command under a sandbox may write.
LEMMA WritesTask ==
  ASSUME IsoInv, Launched, Caged, NEW o \in Objects, MayWrite(o)
  PROVE  ~ctx.readOnly /\ (PathKept => o \in Task /\ o \notin guarded)
<1>1. PlacesAre /\ WrappedUp /\ cage.by = cmd.by /\ cmd.by \in {"mount", "landlock", "profile"} /\ Root \in Seq(PathNames)
  BY RootsAre DEF IsoInv, CageIs, CommandIs, Caged, WrappedUp, Launched
<1>2. location[o] \in Seq(PathNames) /\ Len(location[o]) \in Nat /\ Len(location[o]) >= 1
  BY <1>1, PlacesTyped
<1>3. CASE cmd.by = "profile"
  <2>1. PathWritable(location[o]) /\ ~Covered(location[o], cmd.denyWrite)
    BY <1>1, <1>3 DEF MayWrite, PathWritable
  <2>2. ~ctx.readOnly /\ Within(location[o], Root)
    BY <1>1, <1>2, <1>3, <2>1, ProfileWithinRoot, RootsAre, WithinTop
  <2>3. PathKept => swaps = 0 /\ location["ws"] = Root
    BY <1>1, <1>3 DEF PathKept, IsoInv, ProfileIs, PlacesAre
  <2>4. swaps = 0 => o \notin guarded
    BY <1>1, <1>3, <2>1 DEF IsoInv, ProfileIs
  <2> QED BY <1>1, <2>2, <2>3, <2>4, OnlyTask
<1>4. CASE cmd.by \in {"mount", "landlock"}
  <2>1. cmd.writable /\ Within(location[o], location[cage.tree])
    BY <1>1, <1>4 DEF MayWrite, Reaches, Beneath
  <2>2. ~ctx.readOnly
    BY <1>1, <2>1 DEF IsoInv, CommandIs
  <2>3. PathKept => cage.tree = "ws" /\ guarded \cap Task = {}
    BY <1>1, <1>4, <2>1 DEF PathKept, IsoInv, CageIs, MountIs
  <2>4. PathKept => o \in Task
    BY <1>1, <2>1, <2>3, OnlyTask
  <2> QED BY <2>2, <2>3, <2>4
<1> QED BY <1>1, <1>3, <1>4

\* One write of the command.
LEMMA WriteKeeps == ASSUME IsoInv, NEW o \in Objects, Write(o) PROVE IsoInv'
<1>1. Launched /\ MayWrite(o) /\ wrote' = {o}
      /\ UNCHANGED <<host, policy, hooks, ctx, backend, pin, cmd, guarded, location, swaps, cage, seen>>
  BY DEF Write, Launched
<1>2. BeforeWrap' /\ CommandIs' /\ MountIs' /\ ProfileIs' /\ CageIs'
  BY <1>1 DEF IsoInv, BeforeWrap, CommandIs, MountIs, ProfileIs, CageIs, WrappedUp, Launched, PathKept
<1>3. PlacesAre' /\ TaskInside'
  BY <1>1 DEF IsoInv, PlacesAre, TaskInside, Caged, Launched
<1>4. ctx.readOnly => Caged
  BY <1>1 DEF IsoInv, CommandIs, Caged, WrappedUp, Launched
<1>5. Effects'
  BY <1>1, <1>4, WritesTask DEF IsoInv, Effects, Caged, PathKept, Launched
<1> QED BY <1>2, <1>3, <1>5 DEF IsoInv

\* No Reviewer's command reads the ledger.
LEMMA LedgerUnread ==
  ASSUME IsoInv, Launched, ctx.readOnly
  PROVE  ~MayRead("ledger")
<1>1. WrappedUp /\ Caged /\ cage.by = cmd.by /\ cmd.by \in {"mount", "landlock", "profile"} /\ PlacesAre /\ "ledger" \in Objects
  BY DEF IsoInv, CageIs, CommandIs, PlacesAre, Caged, WrappedUp, Launched, Objects
<1>2. location["ledger"] \in Seq(PathNames) /\ Len(location["ledger"]) = 2 /\ location["ledger"][2] = "l"
      /\ Within(location["ledger"], location["ws"])
  BY <1>1, PlacesTyped DEF IsoInv, TaskInside, Task
<1>3. location["ledger"][1] = location["ws"][1] /\ location["ws"] \in Seq(PathNames) /\ location["alt"] \in Seq(PathNames)
      /\ Len(location["ws"]) = 1 /\ Len(location["alt"]) = 1
  BY <1>1, <1>2, PlacesTyped, WithinTop DEF Objects
<1>4. CASE cmd.by = "profile"
  <2>1. SUFFICES ASSUME Covered(location["ledger"], cmd.read), ~Covered(location["ledger"], cmd.denyRead) PROVE FALSE
    BY <1>1, <1>4 DEF MayRead
  <2>2. cmd.read = {Root} \cup System /\ Ledger \in cmd.denyRead
    BY <1>1, <1>4 DEF IsoInv, ProfileIs
  <2>3. Within(location["ledger"], Root) \/ Within(location["ledger"], <<"u">>)
    BY <2>1, <2>2 DEF Covered, System
  <2>4. location["ledger"][1] = "w" \/ location["ledger"][1] = "u"
    BY <1>2, <2>3, RootsAre, WithinTop
  <2>5. location["ws"][1] = "w" \/ location["ws"][1] = "v"
    BY <1>1, RootsAre DEF PlacesAre
  <2>6. location["ledger"][1] = "w"
    BY <1>3, <2>4, <2>5
  <2>7. \A i \in 1..Len(location["ledger"]) : i = 1 \/ i = 2
    BY <1>2
  <2>8. \A i \in 1..Len(location["ledger"]) : location["ledger"][i] = Ledger[i]
    BY <1>2, <2>6, <2>7, RootsAre
  <2>9. location["ledger"] = Ledger
    BY <1>2, <2>8, RootsAre, SeqEqual
  <2> QED BY <2>1, <2>2, <2>9, RootsAre, WithinItself DEF Covered
<1>5. CASE cmd.by \in {"mount", "landlock"}
  <2>1. SUFFICES ASSUME Reaches("ledger") PROVE FALSE
    BY <1>1, <1>5 DEF MayRead
  <2>2. Within(location["ledger"], location[cage.tree]) /\ \A h \in cage.hidden : ~Within(location["ledger"], location[h])
    BY <2>1 DEF Reaches, Beneath
  <2>3. cage.tree \in {"ws", "alt"} /\ (cage.tree = "ws" => "ledger" \in cage.hidden)
    BY <1>1, <1>5 DEF IsoInv, CageIs
  <2>4. location["ws"][1] # location["alt"][1]
    BY <1>1, RootsAre DEF PlacesAre
  <2>5. cage.tree # "alt"
    BY <1>2, <1>3, <2>2, <2>4, WithinTop
  <2>6. Within(location["ledger"], location["ledger"])
    BY <1>2, WithinItself
  <2> QED BY <2>2, <2>3, <2>5, <2>6
<1> QED BY <1>1, <1>4, <1>5

\* One read of the command.
LEMMA ReadKeeps == ASSUME IsoInv, NEW o \in Objects, Read(o) PROVE IsoInv'
<1>1. Launched /\ MayRead(o) /\ seen' = {o}
      /\ UNCHANGED <<host, policy, hooks, ctx, backend, pin, cmd, guarded, location, swaps, cage, wrote>>
  BY DEF Read, Launched
<1>2. BeforeWrap' /\ CommandIs' /\ MountIs' /\ ProfileIs' /\ CageIs'
  BY <1>1 DEF IsoInv, BeforeWrap, CommandIs, MountIs, ProfileIs, CageIs, WrappedUp, Launched, PathKept
<1>3. PlacesAre' /\ TaskInside'
  BY <1>1 DEF IsoInv, PlacesAre, TaskInside, Caged, Launched
<1>4. Effects'
  BY <1>1, LedgerUnread DEF IsoInv, Effects, Caged, PathKept, Launched
<1> QED BY <1>2, <1>3, <1>4 DEF IsoInv

-----------------------------------------------------------------------------

\* The first state has nothing wrapped and every directory in its place.
LEMMA IsoStarts == IsoInit => IsoInv
<1>1. SUFFICES ASSUME IsoInit PROVE IsoInv
  OBVIOUS
<1>2. policy \in Policies /\ Valid(policy) /\ policy.workspace = Root
  BY <1>1, IsolationAssumption DEF IsoInit
<1>3. ctx = [state |-> "new", readOnly |-> FALSE, bound |-> FALSE, session |-> "none"] /\ swaps = 0
      /\ backend = "unset" /\ pin = "none" /\ cmd = NoCommand /\ guarded = {} /\ cage = NoCage /\ wrote = {} /\ seen = {}
  BY <1>1 DEF IsoInit
<1>4. ~WrappedUp /\ ~Launched /\ ctx = AsContext(ctx)
  BY <1>3 DEF WrappedUp, Launched, AsContext
<1>5. BeforeWrap
  BY <1>2, <1>3, <1>4 DEF BeforeWrap
<1>6. CommandIs /\ MountIs /\ ProfileIs /\ CageIs /\ Effects
  BY <1>3, <1>4 DEF CommandIs, MountIs, ProfileIs, CageIs, Effects
<1>7. location = [ws |-> Root, src |-> <<"w", "s">>, key |-> <<"w", "s", "k">>, ledger |-> Ledger,
               alt |-> Elsewhere, usr |-> <<"u">>]
  BY <1>1 DEF IsoInit
<1>8. /\ location["ws"] = Root /\ location["src"] = <<"w", "s">> /\ location["key"] = <<"w", "s", "k">>
      /\ location["ledger"] = Ledger /\ location["alt"] = Elsewhere /\ location["usr"] = <<"u">>
  BY <1>7
<1>9. /\ <<"w", "s">> \in Seq(PathNames) /\ Len(<<"w", "s">>) = 2 /\ <<"w", "s">>[1] = "w"
      /\ <<"w", "s", "k">> \in Seq(PathNames) /\ Len(<<"w", "s", "k">>) = 3 /\ <<"w", "s", "k">>[1] = "w"
  <2>1. "w" \in PathNames /\ "s" \in PathNames /\ "k" \in PathNames
    BY DEF PathNames
  <2>2. ASSUME NEW S, NEW a \in S, NEW b \in S, NEW d \in S
        PROVE  /\ <<a, b>> \in Seq(S) /\ Len(<<a, b>>) = 2 /\ <<a, b>>[1] = a
               /\ <<a, b, d>> \in Seq(S) /\ Len(<<a, b, d>>) = 3 /\ <<a, b, d>>[1] = a
    OBVIOUS
  <2> QED BY <2>1, <2>2
<1>10. PlacesAre
  <2>1. DOMAIN location = Objects
    BY <1>7 DEF Objects
  <2>2. \A o \in Objects : location[o] \in Seq(PathNames)
    BY <1>8, <1>9, RootsAre DEF Objects
  <2>3. location \in [Objects -> Seq(PathNames)]
    <3>1. location = [o \in DOMAIN location |-> location[o]]
      BY <1>7
    <3> QED BY <2>1, <2>2, <3>1
  <2>4. \A o \in {"src", "key", "ledger"} : Len(location[o]) >= 2
    BY <1>8, <1>9, RootsAre
  <2> QED BY <1>8, <2>3, <2>4 DEF PlacesAre
<1>11. TaskInside
  <2>1. \A o \in Task : location[o] \in Seq(PathNames) /\ Len(location[o]) >= 1 /\ location[o][1] = "w"
    <3>1. /\ \A o \in {"ws"} : location[o] = Root
          /\ \A o \in {"src"} : location[o] = <<"w", "s">>
          /\ \A o \in {"key"} : location[o] = <<"w", "s", "k">>
          /\ \A o \in {"ledger"} : location[o] = Ledger
      BY <1>8
    <3>2. \A path \in {Root, <<"w", "s">>, <<"w", "s", "k">>, Ledger} : path \in Seq(PathNames) /\ Len(path) >= 1 /\ path[1] = "w"
      <4>1. Root \in Seq(PathNames) /\ Len(Root) >= 1 /\ Root[1] = "w"
        BY RootsAre
      <4>2. Ledger \in Seq(PathNames) /\ Len(Ledger) >= 1 /\ Ledger[1] = "w"
        BY RootsAre
      <4>3. <<"w", "s">> \in Seq(PathNames) /\ Len(<<"w", "s">>) >= 1 /\ <<"w", "s">>[1] = "w"
        BY <1>9
      <4>4. <<"w", "s", "k">> \in Seq(PathNames) /\ Len(<<"w", "s", "k">>) >= 1 /\ <<"w", "s", "k">>[1] = "w"
        BY <1>9
      <4> QED BY <4>1, <4>2, <4>3, <4>4
    <3>3. \A o \in Task : location[o] \in {Root, <<"w", "s">>, <<"w", "s", "k">>, Ledger}
      BY <3>1 DEF Task
    <3> QED BY <3>2, <3>3
  <2>2. \A o \in Task : Within(location[o], Root)
    BY <2>1, RootsAre, WithinTop
  <2> QED BY <1>8, <2>2, RootsAre DEF TaskInside
<1> QED BY <1>5, <1>6, <1>10, <1>11 DEF IsoInv

\* Every step keeps the invariant.
LEMMA IsoSteps == IsoInv /\ [IsoNext]_isoVars => IsoInv'
<1>1. SUFFICES ASSUME IsoInv, [IsoNext]_isoVars PROVE IsoInv'
  OBVIOUS
<1>2. ASSUME NEW candidate \in Proposals, HookTightens(candidate) PROVE IsoInv'
  <2>1. /\ ctx.state = "new" /\ UNCHANGED <<host, ctx, backend, pin, cmd, guarded, location, swaps, cage, wrote, seen>>
        /\ policy' = (IF Tightens(policy, candidate) THEN candidate ELSE policy)
    BY <1>2 DEF HookTightens, Run
  <2>2. policy \in Policies /\ candidate \in Policies
    BY <1>1, IsolationAssumption DEF IsoInv, BeforeWrap
  <2> QED BY <1>1, <2>1, <2>2, PolicyKeeps
<1>3. ASSUME NEW region \in Paths, ConvergeToRegion(region) PROVE IsoInv'
  <2>1. /\ ctx.state = "new" /\ UNCHANGED <<host, ctx, backend, pin, cmd, guarded, location, swaps, cage, wrote, seen>>
        /\ policy' = Converged(policy, region) /\ Tightens(policy, Converged(policy, region))
    BY <1>3 DEF ConvergeToRegion, RegionMay, Run
  <2>2. policy' \in Policies
    BY <1>1, PolicyTightens DEF IsoInv, BeforeWrap
  <2>3. Tightens(policy, policy')
    BY <2>1
  <2> QED BY <1>1, <2>1, <2>2, <2>3, PolicyKeeps
<1>4. ASSUME NEW preference \in Preferences, SelectSandbox(preference) PROVE IsoInv'
  BY <1>1, <1>4, SelectKeeps
<1>5. ASSUME UseBundledHelper PROVE IsoInv'
  BY <1>1, <1>5, SelectKeeps
<1>6. ASSUME NEW readOnly \in BOOLEAN, NEW bound \in BOOLEAN, NEW session \in {"none", "ws"},
             NewContext(readOnly, bound, session)
      PROVE  IsoInv'
  BY <1>1, <1>6, ContextKeeps
<1>7. Swap \/ PinWorkspace \/ WrapCommand \/ Launch => IsoInv'
  BY <1>1, SwapKeeps, PinKeeps, WrapKeeps, CommandLaunchKeeps
<1>8. ASSUME NEW o \in Objects, Read(o) \/ Write(o) PROVE IsoInv'
  BY <1>1, <1>8, ReadKeeps, WriteKeeps
<1>9. ASSUME NEW o \in Objects, NEW dir \in Objects, Move(o, dir) PROVE IsoInv'
  BY <1>1, <1>9, MoveKeeps
<1>10. CASE UNCHANGED isoVars
  BY <1>1, <1>10 DEF isoVars, IsoInv, BeforeWrap, CommandIs, MountIs, ProfileIs, CageIs, PlacesAre, TaskInside, Effects,
                     WrappedUp, Launched, PathKept, Caged
<1> QED BY <1>1, <1>2, <1>3, <1>4, <1>5, <1>6, <1>7, <1>8, <1>9, <1>10 DEF IsoNext

\* The invariant holds for every host, every policy and any number of hooks, exchanges and renames.
THEOREM IsoInvariant == IsoSpec => []IsoInv
<1> QED BY IsoStarts, IsoSteps, PTL DEF IsoSpec

\* The invariant says what is confined.
LEMMA IsoImplies == IsoInv => CommandConfined
<1>1. SUFFICES ASSUME IsoInv PROVE CommandConfined
  OBVIOUS
<1>2. ~Launched => wrote = {} /\ seen = {}
  BY <1>1 DEF IsoInv, BeforeWrap
<1>3. Launched => (cmd.by = "bare" => backend \in {"none", "wsl"} /\ ~ctx.bound /\ guarded = {})
  BY <1>1 DEF IsoInv, CommandIs, WrappedUp, Launched
<1> QED BY <1>1, <1>2, <1>3 DEF IsoInv, Effects, Caged, PathKept, CommandConfined, StaysInWorkspace, DeniesHold

\* A wrapped command neither leaves its task's directories nor gets around what its policy

\* denies, whoever takes over the workspace's path and whatever it renames (isolation.py).
THEOREM CommandIsConfined == IsoSpec => []CommandConfined
<1> QED BY IsoInvariant, IsoImplies, PTL

-----------------------------------------------------------------------------
(***************************************************************************)
(* The host's own checks.  The proof follows a check from its start to its *)
(* last breath: where it is tells the platform (Sited), what the host may  *)
(* still signal (Own), who can still write (Silent), what is read          *)
(* (Drained), and what a plan that goes on relies on (Quiet, Attested).    *)
(***************************************************************************)

AsProc(p) ==
  [pc |-> p.pc, leader |-> p.leader, code |-> p.code, attempted |-> p.attempted,
   ok |-> p.ok, timedOut |-> p.timedOut, incomplete |-> p.incomplete, readError |-> p.readError,
   assigned |-> p.assigned, stop |-> p.stop, scoped |-> p.scoped, signals |-> p.signals, result |-> p.result]

AsPlan(p) ==
  [pc |-> p.pc, go |-> p.go, check |-> p.check, status |-> p.status, confirmed |-> p.confirmed, before |-> p.before,
   after |-> p.after, enforced |-> p.enforced, foreign |-> p.foreign, early |-> p.early]

VerShape ==
  /\ plat \in {"linux", "darwin", "windows", "policy"}
  /\ proc = AsProc(proc) /\ plan = AsPlan(plan)
  /\ pipe = [written |-> pipe.written, read |-> pipe.read] /\ pipe.read \in Nat /\ pipe.written \in Nat
  /\ proc.ok \in BOOLEAN /\ proc.code \in BOOLEAN /\ proc.readError \in BOOLEAN /\ proc.incomplete \in BOOLEAN
  /\ proc.timedOut \in BOOLEAN /\ plan.confirmed \in BOOLEAN /\ plan.go \in BOOLEAN /\ plan.early \in BOOLEAN /\ proc.scoped \in BOOLEAN
  /\ held \subseteq live

PosixAt == {"monitor", "loop", "kill", "reap", "kill2", "reap2", "except"}
WindowsAt == {"readers", "assign", "resume", "wait", "empty", "terminate", "cancel", "join", "close"}

\* Where a check is tells the platform, and that one is under way.
Sited ==
  /\ proc.pc \in PosixAt => Posix
  /\ proc.pc \in WindowsAt => plat = "windows"
  /\ proc.pc = "policy" => plat = "policy"
  /\ proc.pc = "finish" => plat # "policy"
  /\ proc.pc # "idle" <=> plan.pc = "running"
  /\ proc.pc = "start" => proc.result = "none" /\ ~proc.scoped /\ ~proc.code /\ ~proc.attempted /\ proc.leader = "none"

\* A leader is reaped only after its group was signalled.
Own ==
  /\ proc.signals \in {0, 1}
  /\ proc.signals = 1 => proc.attempted /\ proc.pc \notin {"kill", "kill2"}
  /\ Posix /\ proc.leader = "reaped" => proc.attempted /\ proc.signals = 1
  /\ proc.pc \in {"reap", "reap2"} => proc.signals = 1
  /\ proc.pc \in {"kill", "kill2"} => proc.leader # "reaped"
  /\ Posix /\ proc.code => proc.leader = "reaped"
  /\ proc.pc \in {"monitor", "loop"} /\ proc.attempted => proc.code
  /\ proc.pc \in {"kill", "reap", "kill2", "reap2"} => proc.attempted

\* What the host may conclude from a signal that worked, a job, or a scope.
Silent ==
  /\ Posix /\ proc.ok /\ (proc.pc \in {"reap", "reap2"} \/ proc.code) => live \cap Group = {}
  /\ Posix /\ (proc.pc = "finish" \/ proc.result = "ok") => proc.code
  /\ Posix /\ proc.result = "ok" => proc.ok
  /\ plat = "windows" /\ proc.pc \in {"resume", "wait", "empty", "join", "finish"} => proc.assigned
  /\ plat = "windows" /\ proc.pc \in {"join", "finish"} => live = {}
  /\ ~Posix /\ proc.result = "ok" => live = {}
  /\ proc.scoped => live = {}

\* The output is whole from the end of the pipe on.
Drained ==
  plat # "policy" =>
    /\ proc.pc = "finish" /\ ~proc.incomplete /\ ~proc.readError => pipe.read = pipe.written /\ held = {}
    /\ proc.result = "ok" => pipe.read = pipe.written /\ held = {} /\ pipe.read <= Limit

\* Where the plan is, and who may be alive then.
Quiet ==
  /\ plan.pc \in {"running", "observe"} => plan.status = "passed"
  /\ plan.pc = "observe" => proc.result = "ok"
  /\ plan.pc # "running" /\ plan.status = "passed" /\ ~Posix => live = {}
  /\ plan.go /\ plan.confirmed /\ plan.pc \notin {"running", "returned", "bound"} => live = {}
  /\ plan.pc \in {"remove", "rmdir"} => plan.go
  /\ plan.pc = "rmdir" => plan.confirmed /\ cache = "owned"

Attested ==
  /\ plan.pc = "compare" /\ plan.status = "passed" /\ ~Posix => source = plan.after
  /\ plan.pc \in {"returned", "bound"} /\ plan.status = "passed" =>
       plan.before = plan.after /\ (~Posix => source = plan.before)
  /\ receipt.passed => plan.pc = "bound" /\ receipt.tested = plan.before

VerInv == VerShape /\ Sited /\ Own /\ Silent /\ Drained /\ Quiet /\ Attested /\ CacheAfterWriters

LEMMA VerSound == VerInv => VerificationSound
  BY DEF VerInv, VerShape, Sited, Own, Silent, Drained, Quiet, Attested, CacheAfterWriters, VerificationSound, SignalledBeforeReaped,
         OutputWhole, SourceAttested, Posix, Group

LEMMA VerStarts == VerifyInit => VerInv
  BY DEF VerifyInit, NoProc, NoPipe, NoReceipt, AsProc, AsPlan, VerInv, VerShape, Sited, Own, Silent, Drained, Quiet, Attested,
         CacheAfterWriters, Posix, PosixAt, WindowsAt, Group

\* While a check is under way, the plan waits.
LEMMA CheckKeeps ==
  ASSUME VerInv, plan.pc = "running", UNCHANGED <<plat, planned, source>>, VerShape', Sited', Own', Silent', Drained'
  PROVE  VerInv'
  BY DEF VerInv, planned, Quiet, Attested, CacheAfterWriters

LEMMA StartPosixKeeps == ASSUME VerInv, StartPosix PROVE VerInv'
  <1>1. VerShape'
    BY DEF StartPosix, Fault, NoPipe, Spared, payloadVars, planned, VerInv, VerShape, AsProc, AsPlan
  <1>2. Sited'
    BY DEF StartPosix, Fault, NoPipe, Spared, payloadVars, planned, VerInv, Sited, VerShape, AsProc, AsPlan, Posix,
       PosixAt, WindowsAt
  <1>3. Own'
    BY DEF StartPosix, Fault, NoPipe, Spared, payloadVars, planned, VerInv, Own, VerShape, AsProc, Sited, Posix,
       PosixAt, WindowsAt
  <1>4. Silent'
    BY DEF StartPosix, Fault, NoPipe, Spared, payloadVars, planned, VerInv, Silent, VerShape, AsProc, Own, Sited,
       Posix, PosixAt, WindowsAt, Group
  <1>5. Drained'
    BY DEF StartPosix, Fault, NoPipe, Spared, payloadVars, planned, VerInv, Drained, VerShape, AsProc, Silent, Sited,
       Posix, PosixAt, WindowsAt, Group
  <1>6. plan.pc = "running" /\ UNCHANGED <<plat, planned, source>>
    BY DEF StartPosix, VerInv, Sited, planned
  <1> QED
    BY <1>1, <1>2, <1>3, <1>4, <1>5, <1>6, CheckKeeps

LEMMA StartMonitorKeeps == ASSUME VerInv, StartMonitor PROVE VerInv'
  <1>1. VerShape'
    BY DEF StartMonitor, Fault, Spared, payloadVars, planned, VerInv, VerShape, AsProc, AsPlan
  <1>2. Sited'
    BY DEF StartMonitor, Fault, Spared, payloadVars, planned, VerInv, Sited, VerShape, AsProc, AsPlan, Posix, PosixAt,
       WindowsAt
  <1>3. Own'
    BY DEF StartMonitor, Fault, Spared, payloadVars, planned, VerInv, Own, VerShape, AsProc, Sited, Posix, PosixAt,
       WindowsAt
  <1>4. Silent'
    BY DEF StartMonitor, Fault, Spared, payloadVars, planned, VerInv, Silent, VerShape, AsProc, Own, Sited, Posix,
       PosixAt, WindowsAt, Group
  <1>5. Drained'
    BY DEF StartMonitor, Fault, Spared, payloadVars, planned, VerInv, Drained, VerShape, AsProc, Silent, Sited, Posix,
       PosixAt, WindowsAt, Group
  <1>6. plan.pc = "running" /\ UNCHANGED <<plat, planned, source>>
    BY DEF StartMonitor, VerInv, Sited, planned
  <1> QED
    BY <1>1, <1>2, <1>3, <1>4, <1>5, <1>6, CheckKeeps

LEMMA ObserveExitKeeps == ASSUME VerInv, ObserveExit PROVE VerInv'
  <1>1. /\ proc.pc = "loop" /\ Posix /\ ~proc.code /\ UNCHANGED <<plat, payloadVars, pipe, planned, source>>
        /\ VerShape /\ Sited /\ Own /\ Silent /\ Drained
    BY DEF VerInv, ObserveExit, planned
  <1>2. CASE proc' = [proc EXCEPT !.pc = "except", !.result = "error"]
    BY <1>1, <1>2, CheckKeeps DEF VerShape, AsProc, AsPlan, Sited, Own, Silent, Drained, Posix, PosixAt, WindowsAt, Group,
       planned, payloadVars
  <1>3. ASSUME NEW late \in BOOLEAN, proc' = [proc EXCEPT !.pc = "kill", !.attempted = TRUE, !.timedOut = late]
        PROVE  VerInv'
    <2>1. /\ proc' = AsProc(proc') /\ proc' = [AsProc(proc) EXCEPT !.pc = "kill", !.attempted = TRUE, !.timedOut = late]
      BY <1>1, <1>3 DEF VerShape, AsProc
    <2>2. VerShape' /\ Sited'
      BY <1>1, <2>1 DEF VerShape, AsProc, AsPlan, Sited, Posix, PosixAt, WindowsAt, planned, payloadVars
    <2>3. Own'
      BY <1>1, <2>1 DEF Own, AsProc, Posix
    <2>4. Silent' /\ Drained'
      BY <1>1, <2>1 DEF Silent, Drained, AsProc, Posix, Group, payloadVars
    <2> QED
      BY <1>1, <2>2, <2>3, <2>4, CheckKeeps DEF Sited, PosixAt
  <1>4. \/ proc' = [proc EXCEPT !.pc = "except", !.result = "error"]
        \/ \E late \in BOOLEAN : proc' = [proc EXCEPT !.pc = "kill", !.attempted = TRUE, !.timedOut = late]
    <2>1. PICK late : late = proc.timedOut
      OBVIOUS
    <2>2. late \in BOOLEAN /\ [proc EXCEPT !.pc = "kill", !.attempted = TRUE]
                               = [proc EXCEPT !.pc = "kill", !.attempted = TRUE, !.timedOut = late]
      BY <1>1, <2>1 DEF VerShape, AsProc
    <2> QED
      BY <1>1, <2>2 DEF ObserveExit
  <1> QED
    BY <1>2, <1>3, <1>4

\* What a signal to the group does: if it counts as delivered, the group is dead.
KillNext == IF proc.pc = "kill" THEN "reap" ELSE "reap2"

LEMMA GroupSignalled ==
  ASSUME VerShape, KillGroup
  PROVE  \E leader, fine :
           /\ proc' = [proc EXCEPT !.pc = KillNext, !.signals = @ + 1, !.ok = fine, !.leader = leader]
           /\ leader \in {proc.leader, Gone(proc)} /\ fine \in BOOLEAN
           /\ live' \subseteq live /\ held' = held \cap live'
           /\ fine => live' \cap Group = {}
  <1> DEFINE exited == proc.pc = "kill" /\ ~proc.timedOut
             signalled == [proc EXCEPT !.pc = KillNext, !.signals = @ + 1]
  <1>1. proc = AsProc(proc) /\ proc.ok \in BOOLEAN /\ held \subseteq live
    BY DEF VerShape
  <1>2. CASE Killed({"stray"}) /\ proc' = [signalled EXCEPT !.leader = Gone(proc)]
    <2>1. proc' = [proc EXCEPT !.pc = KillNext, !.signals = @ + 1, !.ok = proc.ok, !.leader = Gone(proc)]
      BY <1>1, <1>2 DEF AsProc
    <2>2. live' \subseteq live /\ held' = held \cap live' /\ live' \cap Group = {}
      BY <1>1, <1>2 DEF Killed, Group
    <2> QED
      BY <1>1, <2>1, <2>2
  <1>3. ASSUME NEW kill \in BOOLEAN,
               Killed(IF kill /\ ~exited THEN live \ {"leader"} ELSE live),
               proc' = [signalled EXCEPT !.ok = exited /\ AuditClean,
                                         !.leader = IF kill /\ ~exited THEN Gone(proc) ELSE @]
        PROVE  \E leader, fine :
           /\ proc' = [proc EXCEPT !.pc = KillNext, !.signals = @ + 1, !.ok = fine, !.leader = leader]
           /\ leader \in {proc.leader, Gone(proc)} /\ fine \in BOOLEAN
           /\ live' \subseteq live /\ held' = held \cap live'
           /\ fine => live' \cap Group = {}
    <2>1. PICK leader, fine : /\ leader = IF kill /\ ~exited THEN Gone(proc) ELSE proc.leader
                              /\ fine = (exited /\ AuditClean)
      OBVIOUS
    <2>2. proc' = [proc EXCEPT !.pc = KillNext, !.signals = @ + 1, !.ok = fine, !.leader = leader]
      BY <1>1, <1>3, <2>1 DEF AsProc
    <2>3. live' \subseteq live /\ held' = held \cap live'
      BY <1>1, <1>3 DEF Killed
    <2>4. fine \in BOOLEAN /\ (fine => live' \cap Group = {})
      BY <1>3, <2>1 DEF AuditClean, Killed
    <2> QED
      BY <2>1, <2>2, <2>3, <2>4
  <1>4. \/ Killed({"stray"}) /\ proc' = [signalled EXCEPT !.leader = Gone(proc)]
        \/ \E kill \in BOOLEAN :
             /\ Killed(IF kill /\ ~exited THEN live \ {"leader"} ELSE live)
             /\ proc' = [signalled EXCEPT !.ok = exited /\ AuditClean,
                                          !.leader = IF kill /\ ~exited THEN Gone(proc) ELSE @]
    BY Zenon DEF KillGroup, KillNext
  <1> QED
    BY <1>2, <1>3, <1>4

LEMMA KillGroupKeeps == ASSUME VerInv, KillGroup PROVE VerInv'
  <1>1. /\ proc.pc \in {"kill", "kill2"} /\ Posix /\ UNCHANGED <<plat, pipe, planned, source>>
        /\ VerShape /\ Sited /\ Own /\ Silent /\ Drained /\ plan.pc = "running"
    BY DEF VerInv, KillGroup, planned, Sited, PosixAt
  <1>2. PICK leader, fine :
          /\ proc' = [proc EXCEPT !.pc = KillNext, !.signals = @ + 1, !.ok = fine, !.leader = leader]
          /\ leader \in {proc.leader, Gone(proc)} /\ fine \in BOOLEAN
          /\ live' \subseteq live /\ held' = held \cap live'
          /\ fine => live' \cap Group = {}
    BY <1>1, GroupSignalled
  <1>a. proc.signals + 1 = 1
    BY <1>1 DEF Own
  <1>3. /\ proc' = [AsProc(proc) EXCEPT !.pc = KillNext, !.signals = 1, !.ok = fine, !.leader = leader]
        /\ proc' = AsProc(proc') /\ leader # "reaped" /\ KillNext \in {"reap", "reap2"}
    BY <1>1, <1>2, <1>a DEF VerShape, AsProc, Own, Gone, KillNext
  <1>4. VerShape'
    BY <1>1, <1>2, <1>3 DEF VerShape, AsProc, AsPlan, planned
  <1>5. Sited' /\ Own'
    BY <1>1, <1>3 DEF Sited, Own, AsProc, Posix, PosixAt, WindowsAt, planned
  <1>6. Silent'
    BY <1>1, <1>2, <1>3 DEF Own, Silent, AsProc, Posix
  <1>7. Drained'
    BY <1>1, <1>2, <1>3 DEF Drained, AsProc
  <1> QED
    BY <1>1, <1>4, <1>5, <1>6, <1>7, CheckKeeps

LEMMA ReapKeeps == ASSUME VerInv, Reap PROVE VerInv'
  <1>1. VerShape'
    BY DEF Reap, payloadVars, planned, VerInv, VerShape, AsProc, AsPlan
  <1>2. Sited'
    BY DEF Reap, payloadVars, planned, VerInv, Sited, VerShape, AsProc, AsPlan, Posix, PosixAt, WindowsAt
  <1>3. Own'
    BY DEF Reap, payloadVars, planned, VerInv, Own, VerShape, AsProc, Sited, Posix, PosixAt, WindowsAt
  <1>4. Silent'
    BY DEF Reap, payloadVars, planned, VerInv, Silent, VerShape, AsProc, Own, Sited, Posix, PosixAt, WindowsAt, Group
  <1>5. Drained'
    BY DEF Reap, payloadVars, planned, VerInv, Drained, VerShape, AsProc, Silent, Sited, Posix, PosixAt, WindowsAt,
       Group
  <1>6. plan.pc = "running" /\ UNCHANGED <<plat, planned, source>>
    BY DEF Reap, VerInv, Sited, planned
  <1> QED
    BY <1>1, <1>2, <1>3, <1>4, <1>5, <1>6, CheckKeeps

LEMMA EndLoopKeeps == ASSUME VerInv, EndLoop PROVE VerInv'
  <1>1. VerShape'
    BY DEF EndLoop, Eof, payloadVars, planned, VerInv, VerShape, AsProc, AsPlan
  <1>2. Sited'
    BY DEF EndLoop, Eof, payloadVars, planned, VerInv, Sited, VerShape, AsProc, AsPlan, Posix, PosixAt, WindowsAt
  <1>3. Own'
    BY DEF EndLoop, Eof, payloadVars, planned, VerInv, Own, VerShape, AsProc, Sited, Posix, PosixAt, WindowsAt
  <1>4. Silent'
    BY DEF EndLoop, Eof, payloadVars, planned, VerInv, Silent, VerShape, AsProc, Own, Sited, Posix, PosixAt,
       WindowsAt, Group
  <1>5. Drained'
    BY DEF EndLoop, Eof, payloadVars, planned, VerInv, Drained, VerShape, AsProc, Silent, Sited, Posix, PosixAt,
       WindowsAt, Group
  <1>6. plan.pc = "running" /\ UNCHANGED <<plat, planned, source>>
    BY DEF EndLoop, VerInv, Sited, planned
  <1> QED
    BY <1>1, <1>2, <1>3, <1>4, <1>5, <1>6, CheckKeeps

\* The reasons to refuse a result, in their order; an "ok" excludes them all.
LEMMA VerdictOk ==
  ASSUME VerShape, Verdict = "ok"
  PROVE  proc.ok /\ ~proc.incomplete /\ ~proc.readError /\ pipe.read <= Limit
  BY VerificationAssumption DEF Verdict, VerShape

LEMMA FinishCheckKeeps == ASSUME VerInv, FinishCheck PROVE VerInv'
  <1>1. /\ proc.pc = "finish" /\ plan.pc = "running" /\ UNCHANGED <<plat, payloadVars, pipe, planned, source>>
        /\ VerShape /\ Sited /\ Own /\ Silent /\ Drained
    BY DEF VerInv, FinishCheck, planned, Sited
  <1>2. PICK result, next :
          /\ result = Verdict /\ proc' = [proc EXCEPT !.result = result, !.pc = next]
          /\ next \in IF Posix THEN {"returned", "except"} ELSE {"close"}
    BY DEF FinishCheck
  <1>3. proc' = [AsProc(proc) EXCEPT !.result = result, !.pc = next] /\ proc' = AsProc(proc')
    BY <1>1, <1>2 DEF VerShape, AsProc
  <1>4. result = "ok" => proc.ok /\ ~proc.incomplete /\ ~proc.readError /\ pipe.read <= Limit
    BY <1>1, <1>2, VerdictOk
  <1>5. VerShape'
    BY <1>1, <1>3 DEF VerShape, AsProc, AsPlan, planned, payloadVars
  <1>6. Sited' /\ Own'
    BY <1>1, <1>2, <1>3 DEF VerShape, Sited, Own, AsProc, Posix, PosixAt, WindowsAt, planned
  <1>7. Silent'
    BY <1>1, <1>2, <1>3, <1>4 DEF VerShape, Sited, Silent, AsProc, Posix, payloadVars
  <1>8. Drained'
    BY <1>1, <1>2, <1>3, <1>4 DEF Drained, AsProc, Posix, payloadVars
  <1> QED
    BY <1>1, <1>5, <1>6, <1>7, <1>8, CheckKeeps

LEMMA StartPolicyKeeps == ASSUME VerInv, StartPolicy PROVE VerInv'
  <1>1. VerShape'
    BY DEF StartPolicy, planned, VerInv, VerShape, AsProc, AsPlan
  <1>2. Sited'
    BY DEF StartPolicy, planned, VerInv, Sited, VerShape, AsProc, AsPlan, Posix, PosixAt, WindowsAt
  <1>3. Own'
    BY DEF StartPolicy, planned, VerInv, Own, VerShape, AsProc, Sited, Posix, PosixAt, WindowsAt
  <1>4. Silent'
    BY DEF StartPolicy, planned, VerInv, Silent, VerShape, AsProc, Own, Sited, Posix, PosixAt, WindowsAt, Group
  <1>5. Drained'
    BY DEF StartPolicy, planned, VerInv, Drained, VerShape, AsProc, Silent, Sited, Posix, PosixAt, WindowsAt, Group
  <1>6. plan.pc = "running" /\ UNCHANGED <<plat, planned, source>>
    BY DEF StartPolicy, VerInv, Sited, planned
  <1> QED
    BY <1>1, <1>2, <1>3, <1>4, <1>5, <1>6, CheckKeeps

\* The last resort after an error.
LEMMA PosixEnds ==
  ASSUME VerInv, ExceptPosix \/ ExternalReap
  PROVE  VerInv'
  <1>1. CASE ExceptPosix
    BY <1>1 DEF ExceptPosix, MustStillKill, payloadVars, planned, VerInv, VerShape, AsProc, AsPlan, Sited, Own,
       Silent, Drained, Quiet, Attested, CacheAfterWriters, Group, Posix, PosixAt, WindowsAt
  <1>2. CASE ExternalReap
    BY <1>2 DEF ExternalReap, Fault, payloadVars, planned, VerInv, VerShape, AsProc, AsPlan, Sited, Own, Silent,
       Drained, Quiet, Attested, CacheAfterWriters, Group, Posix, PosixAt, WindowsAt
  <1> QED
    BY <1>1, <1>2

\* A check in a job.
LEMMA WindowsChecks ==
  ASSUME VerInv, StartReaders \/ Assign \/ WaitCheck \/ JobEmpty \/ TerminateTree \/ CancelReaders \/ JoinReaders
  PROVE  VerInv'
  <1>1. CASE StartReaders
    <2>1. VerShape' /\ Sited'
      BY <1>1 DEF StartReaders, Fault, Spared, payloadVars, planned, VerInv, VerShape, AsProc, AsPlan, Sited, Posix, PosixAt, WindowsAt
    <2>2. Own'
      BY <1>1 DEF StartReaders, Fault, Spared, VerInv, VerShape, AsProc, Sited, Own, Posix, PosixAt, WindowsAt
    <2>3. Silent' /\ Drained'
      BY <1>1 DEF StartReaders, Fault, Spared, payloadVars, VerInv, VerShape, AsProc, Sited, Silent, Drained, Posix, PosixAt, WindowsAt,
         Group
    <2>4. plan.pc = "running" /\ UNCHANGED <<plat, planned, source>>
      BY <1>1 DEF StartReaders, VerInv, Sited, planned, WindowsAt
    <2> QED
      BY <2>1, <2>2, <2>3, <2>4, CheckKeeps
  <1>2. CASE Assign
    BY <1>2 DEF Assign, Fault, Spared, payloadVars, planned, VerInv, VerShape, AsProc, AsPlan, Sited, Own, Silent,
       Drained, Quiet, Attested, CacheAfterWriters, Group, Posix, PosixAt, WindowsAt
  <1>3. CASE WaitCheck
    <2>1. VerShape' /\ Sited'
      BY <1>3 DEF WaitCheck, payloadVars, planned, VerInv, VerShape, AsProc, AsPlan, Sited, Posix, PosixAt, WindowsAt
    <2>2. Own'
      BY <1>3 DEF WaitCheck, VerInv, VerShape, AsProc, Sited, Own, Posix, PosixAt, WindowsAt
    <2>3. Silent' /\ Drained'
      BY <1>3 DEF WaitCheck, payloadVars, VerInv, VerShape, AsProc, Sited, Silent, Drained, Posix, PosixAt, WindowsAt,
         Group
    <2>4. plan.pc = "running" /\ UNCHANGED <<plat, planned, source>>
      BY <1>3 DEF WaitCheck, VerInv, Sited, planned, WindowsAt
    <2> QED
      BY <2>1, <2>2, <2>3, <2>4, CheckKeeps
  <1>4. CASE JobEmpty
    BY <1>4 DEF JobEmpty, Fault, JobMembers, Spared, payloadVars, planned, VerInv, VerShape, AsProc, AsPlan, Sited,
       Own, Silent, Drained, Quiet, Attested, CacheAfterWriters, Group, Posix, PosixAt, WindowsAt
  <1>5. CASE TerminateTree
    <2>1. VerShape' /\ Sited'
      BY <1>5 DEF TerminateTree, Fault, Gone, Killed, Spared, payloadVars, planned, VerInv, VerShape, AsProc, AsPlan, Sited, Posix, PosixAt, WindowsAt
    <2>2. Own'
      BY <1>5 DEF TerminateTree, Fault, Gone, Killed, Spared, VerInv, VerShape, AsProc, Sited, Own, Posix, PosixAt, WindowsAt
    <2>3. Silent' /\ Drained'
      BY <1>5 DEF TerminateTree, Fault, Gone, Killed, Spared, payloadVars, VerInv, VerShape, AsProc, Sited, Silent, Drained, Posix, PosixAt, WindowsAt,
         Group
    <2>4. plan.pc = "running" /\ UNCHANGED <<plat, planned, source>>
      BY <1>5 DEF TerminateTree, VerInv, Sited, planned, WindowsAt
    <2> QED
      BY <2>1, <2>2, <2>3, <2>4, CheckKeeps
  <1>6. CASE CancelReaders
    BY <1>6 DEF CancelReaders, payloadVars, planned, VerInv, VerShape, AsProc, AsPlan, Sited, Own, Silent, Drained,
       Quiet, Attested, CacheAfterWriters, Group, Posix, PosixAt, WindowsAt
  <1>7. CASE JoinReaders
    BY <1>7 DEF JoinReaders, Eof, payloadVars, planned, VerInv, VerShape, AsProc, AsPlan, Sited, Own, Silent, Drained,
       Quiet, Attested, CacheAfterWriters, Group, Posix, PosixAt, WindowsAt
  <1> QED
    BY <1>1, <1>2, <1>3, <1>4, <1>5, <1>6, <1>7

LEMMA StartWindowsKeeps == ASSUME VerInv, StartWindows PROVE VerInv'
  <1>1. VerShape'
    BY DEF StartWindows, Fault, NoPipe, Spared, payloadVars, planned, VerInv, VerShape, AsProc, AsPlan
  <1>2. Sited'
    BY DEF StartWindows, Fault, NoPipe, Spared, payloadVars, planned, VerInv, Sited, VerShape, AsProc, AsPlan, Posix,
       PosixAt, WindowsAt
  <1>3. Own'
    BY DEF StartWindows, Fault, NoPipe, Spared, payloadVars, planned, VerInv, Own, VerShape, AsProc, Sited, Posix,
       PosixAt, WindowsAt
  <1>4. Silent'
    BY DEF StartWindows, Fault, NoPipe, Spared, payloadVars, planned, VerInv, Silent, VerShape, AsProc, Own, Sited,
       Posix, PosixAt, WindowsAt, Group
  <1>5. Drained'
    BY DEF StartWindows, Fault, NoPipe, Spared, payloadVars, planned, VerInv, Drained, VerShape, AsProc, Silent,
       Sited, Posix, PosixAt, WindowsAt, Group
  <1>6. plan.pc = "running" /\ UNCHANGED <<plat, planned, source>>
    BY DEF StartWindows, VerInv, Sited, planned
  <1> QED
    BY <1>1, <1>2, <1>3, <1>4, <1>5, <1>6, CheckKeeps

LEMMA ResumeKeeps == ASSUME VerInv, Resume PROVE VerInv'
  <1>1. VerShape'
    BY DEF Resume, Fault, Spared, payloadVars, planned, VerInv, VerShape, AsProc, AsPlan
  <1>2. Sited'
    BY DEF Resume, Fault, Spared, payloadVars, planned, VerInv, Sited, VerShape, AsProc, AsPlan, Posix, PosixAt,
       WindowsAt
  <1>3. Own'
    BY DEF Resume, Fault, Spared, payloadVars, planned, VerInv, Own, VerShape, AsProc, Sited, Posix, PosixAt,
       WindowsAt
  <1>4. Silent'
    BY DEF Resume, Fault, Spared, payloadVars, planned, VerInv, Silent, VerShape, AsProc, Own, Sited, Posix, PosixAt,
       WindowsAt, Group
  <1>5. Drained'
    BY DEF Resume, Fault, Spared, payloadVars, planned, VerInv, Drained, VerShape, AsProc, Silent, Sited, Posix,
       PosixAt, WindowsAt, Group
  <1>6. plan.pc = "running" /\ UNCHANGED <<plat, planned, source>>
    BY DEF Resume, VerInv, Sited, planned
  <1> QED
    BY <1>1, <1>2, <1>3, <1>4, <1>5, <1>6, CheckKeeps

LEMMA CloseTreeKeeps == ASSUME VerInv, CloseTree PROVE VerInv'
  <1>1. VerShape'
    BY DEF CloseTree, Fault, Gone, Killed, Spared, payloadVars, planned, VerInv, VerShape, AsProc, AsPlan
  <1>2. Sited'
    BY DEF CloseTree, Fault, Gone, Killed, Spared, payloadVars, planned, VerInv, Sited, VerShape, AsProc, AsPlan,
       Posix, PosixAt, WindowsAt
  <1>3. Own'
    BY DEF CloseTree, Fault, Gone, Killed, Spared, payloadVars, planned, VerInv, Own, VerShape, AsProc, Sited, Posix,
       PosixAt, WindowsAt
  <1>4. Silent'
    BY DEF CloseTree, Fault, Gone, Killed, Spared, payloadVars, planned, VerInv, Silent, VerShape, AsProc, Own, Sited,
       Posix, PosixAt, WindowsAt, Group
  <1>5. Drained'
    BY DEF CloseTree, Fault, Gone, Killed, Spared, payloadVars, planned, VerInv, Drained, VerShape, AsProc, Silent,
       Sited, Posix, PosixAt, WindowsAt, Group
  <1>6. plan.pc = "running" /\ UNCHANGED <<plat, planned, source>>
    BY DEF CloseTree, VerInv, Sited, planned
  <1> QED
    BY <1>1, <1>2, <1>3, <1>4, <1>5, <1>6, CheckKeeps

LEMMA PolicyReturnsKeeps == ASSUME VerInv, PolicyReturns PROVE VerInv'
  <1>1. /\ proc.pc = "policy" /\ plat = "policy" /\ UNCHANGED <<plat, pipe, planned, source>> /\ held' = {}
        /\ VerShape /\ Sited /\ Own /\ Silent /\ Drained /\ plan.pc = "running"
    BY DEF VerInv, PolicyReturns, planned, Sited
  <1>2. PICK gone, result :
          /\ proc' = [proc EXCEPT !.pc = "returned", !.leader = "reaped", !.scoped = gone, !.result = result]
          /\ result \in {"incomplete", "ok"} /\ gone \in BOOLEAN /\ (gone \/ result = "ok" => live' = {})
    <2>2. proc.scoped => live = {}
      BY <1>1 DEF Silent
    <2>3. \/ \E verdict \in {"incomplete", "ok"} :
               /\ live' = {}
               /\ proc' = [proc EXCEPT !.pc = "returned", !.leader = "reaped", !.scoped = TRUE, !.result = verdict]
          \/ /\ live' \in {live, live \ {"leader"}, {}}
             /\ proc' = [proc EXCEPT !.pc = "returned", !.leader = "reaped", !.result = "incomplete"]
      BY DEF PolicyReturns
    <2>4. [proc EXCEPT !.pc = "returned", !.leader = "reaped", !.result = "incomplete"]
            = [proc EXCEPT !.pc = "returned", !.leader = "reaped", !.scoped = proc.scoped, !.result = "incomplete"]
      BY <1>1 DEF VerShape, AsProc
    <2>5. proc.scoped \in BOOLEAN
      BY <1>1 DEF VerShape
    <2>6. live' \in {live, live \ {"leader"}, {}} => (proc.scoped => live' = {})
      BY <2>2
    <2> QED
      BY <2>3, <2>4, <2>5, <2>6
  <1>3. /\ proc' = [AsProc(proc) EXCEPT !.pc = "returned", !.leader = "reaped", !.scoped = gone, !.result = result]
        /\ proc' = AsProc(proc')
    BY <1>1, <1>2 DEF VerShape, AsProc
  <1>4. VerShape'
    BY <1>1, <1>2, <1>3 DEF VerShape, AsProc, AsPlan, planned
  <1>5. Sited' /\ Own'
    BY <1>1, <1>3 DEF Sited, Own, AsProc, Posix, PosixAt, WindowsAt, planned
  <1>6. Silent' /\ Drained'
    BY <1>1, <1>2, <1>3 DEF Silent, Drained, AsProc, Posix
  <1> QED
    BY <1>1, <1>4, <1>5, <1>6, CheckKeeps

LEMMA AdmitKeeps == ASSUME VerInv, Admit PROVE VerInv'
  <1>1. VerShape'
    BY DEF Admit, Fault, Host, PlanEnds, Spared, payloadVars, VerInv, VerShape, AsProc, AsPlan
  <1>2. Sited'
    BY DEF Admit, Fault, Host, PlanEnds, Spared, payloadVars, VerInv, Sited, VerShape, AsProc, AsPlan, Posix, PosixAt,
       WindowsAt
  <1>3. Own'
    BY DEF Admit, Fault, Host, PlanEnds, Spared, payloadVars, VerInv, Own, VerShape, AsProc, Sited, Posix, PosixAt,
       WindowsAt
  <1>4. Silent'
    BY DEF Admit, Fault, Host, PlanEnds, Spared, payloadVars, VerInv, Silent, VerShape, AsProc, Own, Sited, Posix,
       PosixAt, WindowsAt, Group
  <1>5. Drained'
    BY DEF Admit, Fault, Host, PlanEnds, Spared, payloadVars, VerInv, Drained, VerShape, AsProc, Silent, Sited, Posix,
       PosixAt, WindowsAt, Group
  <1>6. Quiet'
    BY DEF Admit, Fault, Host, PlanEnds, Spared, payloadVars, VerInv, Quiet, VerShape, AsProc, AsPlan, Silent, Sited,
       Posix, PosixAt, WindowsAt
  <1>7. Attested'
    BY DEF Admit, Fault, Host, PlanEnds, Spared, payloadVars, VerInv, Attested, VerShape, AsPlan, Quiet, Sited, Posix
  <1>8. CacheAfterWriters'
    BY DEF Admit, Fault, Host, PlanEnds, Spared, payloadVars, VerInv, CacheAfterWriters, VerShape, AsPlan, Quiet
  <1> QED
    BY <1>1, <1>2, <1>3, <1>4, <1>5, <1>6, <1>7, <1>8 DEF VerInv

LEMMA SnapshotBeforeKeeps == ASSUME VerInv, SnapshotBefore PROVE VerInv'
  <1>1. VerShape'
    BY DEF SnapshotBefore, Fault, Host, PlanEnds, Spared, payloadVars, VerInv, VerShape, AsProc, AsPlan
  <1>2. Sited'
    BY DEF SnapshotBefore, Fault, Host, PlanEnds, Spared, payloadVars, VerInv, Sited, VerShape, AsProc, AsPlan, Posix,
       PosixAt, WindowsAt
  <1>3. Own'
    BY DEF SnapshotBefore, Fault, Host, PlanEnds, Spared, payloadVars, VerInv, Own, VerShape, AsProc, Sited, Posix,
       PosixAt, WindowsAt
  <1>4. Silent'
    BY DEF SnapshotBefore, Fault, Host, PlanEnds, Spared, payloadVars, VerInv, Silent, VerShape, AsProc, Own, Sited,
       Posix, PosixAt, WindowsAt, Group
  <1>5. Drained'
    BY DEF SnapshotBefore, Fault, Host, PlanEnds, Spared, payloadVars, VerInv, Drained, VerShape, AsProc, Silent,
       Sited, Posix, PosixAt, WindowsAt, Group
  <1>6. Quiet'
    BY DEF SnapshotBefore, Fault, Host, PlanEnds, Spared, payloadVars, VerInv, Quiet, VerShape, AsProc, AsPlan,
       Silent, Sited, Posix, PosixAt, WindowsAt
  <1>7. Attested'
    BY DEF SnapshotBefore, Fault, Host, PlanEnds, Spared, payloadVars, VerInv, Attested, VerShape, AsPlan, Quiet,
       Sited, Posix
  <1>8. CacheAfterWriters'
    BY DEF SnapshotBefore, Fault, Host, PlanEnds, Spared, payloadVars, VerInv, CacheAfterWriters, VerShape, AsPlan,
       Quiet
  <1> QED
    BY <1>1, <1>2, <1>3, <1>4, <1>5, <1>6, <1>7, <1>8 DEF VerInv

LEMMA PinCacheKeeps == ASSUME VerInv, PinCache PROVE VerInv'
  <1>1. VerShape'
    BY DEF PinCache, Fault, Host, PlanEnds, Spared, payloadVars, VerInv, VerShape, AsProc, AsPlan
  <1>2. Sited'
    BY DEF PinCache, Fault, Host, PlanEnds, Spared, payloadVars, VerInv, Sited, VerShape, AsProc, AsPlan, Posix,
       PosixAt, WindowsAt
  <1>3. Own'
    BY DEF PinCache, Fault, Host, PlanEnds, Spared, payloadVars, VerInv, Own, VerShape, AsProc, Sited, Posix, PosixAt,
       WindowsAt
  <1>4. Silent'
    BY DEF PinCache, Fault, Host, PlanEnds, Spared, payloadVars, VerInv, Silent, VerShape, AsProc, Own, Sited, Posix,
       PosixAt, WindowsAt, Group
  <1>5. Drained'
    BY DEF PinCache, Fault, Host, PlanEnds, Spared, payloadVars, VerInv, Drained, VerShape, AsProc, Silent, Sited,
       Posix, PosixAt, WindowsAt, Group
  <1>6. Quiet'
    BY DEF PinCache, Fault, Host, PlanEnds, Spared, payloadVars, VerInv, Quiet, VerShape, AsProc, AsPlan, Silent,
       Sited, Posix, PosixAt, WindowsAt
  <1>7. Attested'
    BY DEF PinCache, Fault, Host, PlanEnds, Spared, payloadVars, VerInv, Attested, VerShape, AsPlan, Quiet, Sited,
       Posix
  <1>8. CacheAfterWriters'
    BY DEF PinCache, Fault, Host, PlanEnds, Spared, payloadVars, VerInv, CacheAfterWriters, VerShape, AsPlan, Quiet
  <1> QED
    BY <1>1, <1>2, <1>3, <1>4, <1>5, <1>6, <1>7, <1>8 DEF VerInv

LEMMA BeginCheckKeeps == ASSUME VerInv, BeginCheck PROVE VerInv'
  <1>1. VerShape'
    BY DEF BeginCheck, CacheHeld, Fault, Host, NoProc, NotStarted, Spared, payloadVars, VerInv, VerShape, AsProc,
       AsPlan
  <1>2. Sited'
    BY DEF BeginCheck, CacheHeld, Fault, Host, NoProc, NotStarted, Spared, payloadVars, VerInv, Sited, VerShape,
       AsProc, AsPlan, Posix, PosixAt, WindowsAt
  <1>3. Own'
    BY DEF BeginCheck, CacheHeld, Fault, Host, NoProc, NotStarted, Spared, payloadVars, VerInv, Own, VerShape, AsProc,
       Sited, Posix, PosixAt, WindowsAt
  <1>4. Silent'
    BY DEF BeginCheck, CacheHeld, Fault, Host, NoProc, NotStarted, Spared, payloadVars, VerInv, Silent, VerShape,
       AsProc, Own, Sited, Posix, PosixAt, WindowsAt, Group
  <1>5. Drained'
    BY DEF BeginCheck, CacheHeld, Fault, Host, NoProc, NotStarted, Spared, payloadVars, VerInv, Drained, VerShape,
       AsProc, Silent, Sited, Posix, PosixAt, WindowsAt, Group
  <1>6. Quiet'
    BY DEF BeginCheck, CacheHeld, Fault, Host, NoProc, NotStarted, Spared, payloadVars, VerInv, Quiet, VerShape,
       AsProc, AsPlan, Silent, Sited, Posix, PosixAt, WindowsAt
  <1>7. Attested'
    BY DEF BeginCheck, CacheHeld, Fault, Host, NoProc, NotStarted, Spared, payloadVars, VerInv, Attested, VerShape,
       AsPlan, Quiet, Sited, Posix
  <1>8. CacheAfterWriters'
    BY DEF BeginCheck, CacheHeld, Fault, Host, NoProc, NotStarted, Spared, payloadVars, VerInv, CacheAfterWriters,
       VerShape, AsPlan, Quiet
  <1> QED
    BY <1>1, <1>2, <1>3, <1>4, <1>5, <1>6, <1>7, <1>8 DEF VerInv

LEMMA EndCheckKeeps == ASSUME VerInv, EndCheck PROVE VerInv'
  <1>1. VerShape'
    BY DEF EndCheck, Fault, Host, OwnerConfirmed, PlanEnds, Spared, payloadVars, VerInv, VerShape, AsProc, AsPlan
  <1>2. Sited'
    BY DEF EndCheck, Fault, Host, OwnerConfirmed, PlanEnds, Spared, payloadVars, VerInv, Sited, VerShape, AsProc,
       AsPlan, Posix, PosixAt, WindowsAt
  <1>3. Own'
    BY DEF EndCheck, Fault, Host, OwnerConfirmed, PlanEnds, Spared, payloadVars, VerInv, Own, VerShape, AsProc, Sited,
       Posix, PosixAt, WindowsAt
  <1>4. Silent'
    BY DEF EndCheck, Fault, Host, OwnerConfirmed, PlanEnds, Spared, payloadVars, VerInv, Silent, VerShape, AsProc,
       Own, Sited, Posix, PosixAt, WindowsAt, Group
  <1>5. Drained'
    BY DEF EndCheck, Fault, Host, OwnerConfirmed, PlanEnds, Spared, payloadVars, VerInv, Drained, VerShape, AsProc,
       Silent, Sited, Posix, PosixAt, WindowsAt, Group
  <1>6. Quiet'
    BY DEF EndCheck, Fault, Host, OwnerConfirmed, PlanEnds, Spared, payloadVars, VerInv, Quiet, VerShape, AsProc,
       AsPlan, Silent, Sited, Posix, PosixAt, WindowsAt
  <1>7. Attested'
    BY DEF EndCheck, Fault, Host, OwnerConfirmed, PlanEnds, Spared, payloadVars, VerInv, Attested, VerShape, AsPlan,
       Quiet, Sited, Posix
  <1>8. CacheAfterWriters'
    BY DEF EndCheck, Fault, Host, OwnerConfirmed, PlanEnds, Spared, payloadVars, VerInv, CacheAfterWriters, VerShape,
       AsPlan, Quiet
  <1> QED
    BY <1>1, <1>2, <1>3, <1>4, <1>5, <1>6, <1>7, <1>8 DEF VerInv

LEMMA ObserveSourceKeeps == ASSUME VerInv, ObserveSource PROVE VerInv'
  <1>1. VerShape'
    BY DEF ObserveSource, CacheHeld, Fault, Host, Spared, payloadVars, VerInv, VerShape, AsProc, AsPlan
  <1>2. Sited'
    BY DEF ObserveSource, CacheHeld, Fault, Host, Spared, payloadVars, VerInv, Sited, VerShape, AsProc, AsPlan, Posix,
       PosixAt, WindowsAt
  <1>3. Own'
    BY DEF ObserveSource, CacheHeld, Fault, Host, Spared, payloadVars, VerInv, Own, VerShape, AsProc, Sited, Posix,
       PosixAt, WindowsAt
  <1>4. Silent'
    BY DEF ObserveSource, CacheHeld, Fault, Host, Spared, payloadVars, VerInv, Silent, VerShape, AsProc, Own, Sited,
       Posix, PosixAt, WindowsAt, Group
  <1>5. Drained'
    BY DEF ObserveSource, CacheHeld, Fault, Host, Spared, payloadVars, VerInv, Drained, VerShape, AsProc, Silent,
       Sited, Posix, PosixAt, WindowsAt, Group
  <1>6. Quiet'
    BY DEF ObserveSource, CacheHeld, Fault, Host, Spared, payloadVars, VerInv, Quiet, VerShape, AsProc, AsPlan,
       Silent, Sited, Posix, PosixAt, WindowsAt
  <1>7. Attested'
    BY DEF ObserveSource, CacheHeld, Fault, Host, Spared, payloadVars, VerInv, Attested, VerShape, AsPlan, Quiet,
       Sited, Posix
  <1>8. CacheAfterWriters'
    BY DEF ObserveSource, CacheHeld, Fault, Host, Spared, payloadVars, VerInv, CacheAfterWriters, VerShape, AsPlan,
       Quiet
  <1> QED
    BY <1>1, <1>2, <1>3, <1>4, <1>5, <1>6, <1>7, <1>8 DEF VerInv

\* After the last check.
LEMMA ChecksEnd ==
  ASSUME VerInv, ChecksOver \/ BindEvidence
  PROVE  VerInv'
  <1>1. CASE ChecksOver
    BY <1>1 DEF ChecksOver, Host, payloadVars, VerInv, VerShape, AsProc, AsPlan, Sited, Own, Silent, Drained, Quiet,
       Attested, CacheAfterWriters, Group, Posix, PosixAt, WindowsAt
  <1>2. CASE BindEvidence
    BY <1>2 DEF BindEvidence, Host, NoReceipt, payloadVars, VerInv, VerShape, AsProc, AsPlan, Sited, Own, Silent,
       Drained, Quiet, Attested, CacheAfterWriters, Group, Posix, PosixAt, WindowsAt
  <1> QED
    BY <1>1, <1>2

LEMMA EmptyCacheKeeps == ASSUME VerInv, EmptyCache PROVE VerInv'
  <1>1. VerShape'
    BY DEF EmptyCache, Fault, Host, Spared, payloadVars, VerInv, VerShape, AsProc, AsPlan
  <1>2. Sited'
    BY DEF EmptyCache, Fault, Host, Spared, payloadVars, VerInv, Sited, VerShape, AsProc, AsPlan, Posix, PosixAt,
       WindowsAt
  <1>3. Own'
    BY DEF EmptyCache, Fault, Host, Spared, payloadVars, VerInv, Own, VerShape, AsProc, Sited, Posix, PosixAt,
       WindowsAt
  <1>4. Silent'
    BY DEF EmptyCache, Fault, Host, Spared, payloadVars, VerInv, Silent, VerShape, AsProc, Own, Sited, Posix, PosixAt,
       WindowsAt, Group
  <1>5. Drained'
    BY DEF EmptyCache, Fault, Host, Spared, payloadVars, VerInv, Drained, VerShape, AsProc, Silent, Sited, Posix,
       PosixAt, WindowsAt, Group
  <1>6. Quiet'
    BY DEF EmptyCache, Fault, Host, Spared, payloadVars, VerInv, Quiet, VerShape, AsProc, AsPlan, Silent, Sited,
       Posix, PosixAt, WindowsAt
  <1>7. Attested'
    BY DEF EmptyCache, Fault, Host, Spared, payloadVars, VerInv, Attested, VerShape, AsPlan, Quiet, Sited, Posix
  <1>8. CacheAfterWriters'
    BY DEF EmptyCache, Fault, Host, Spared, payloadVars, VerInv, CacheAfterWriters, VerShape, AsPlan, Quiet
  <1> QED
    BY <1>1, <1>2, <1>3, <1>4, <1>5, <1>6, <1>7, <1>8 DEF VerInv

LEMMA RemoveCacheKeeps == ASSUME VerInv, RemoveCache PROVE VerInv'
  <1>1. VerShape'
    BY DEF RemoveCache, Fault, Host, Spared, payloadVars, VerInv, VerShape, AsProc, AsPlan
  <1>2. Sited'
    BY DEF RemoveCache, Fault, Host, Spared, payloadVars, VerInv, Sited, VerShape, AsProc, AsPlan, Posix, PosixAt,
       WindowsAt
  <1>3. Own'
    BY DEF RemoveCache, Fault, Host, Spared, payloadVars, VerInv, Own, VerShape, AsProc, Sited, Posix, PosixAt,
       WindowsAt
  <1>4. Silent'
    BY DEF RemoveCache, Fault, Host, Spared, payloadVars, VerInv, Silent, VerShape, AsProc, Own, Sited, Posix,
       PosixAt, WindowsAt, Group
  <1>5. Drained'
    BY DEF RemoveCache, Fault, Host, Spared, payloadVars, VerInv, Drained, VerShape, AsProc, Silent, Sited, Posix,
       PosixAt, WindowsAt, Group
  <1>6. Quiet'
    BY DEF RemoveCache, Fault, Host, Spared, payloadVars, VerInv, Quiet, VerShape, AsProc, AsPlan, Silent, Sited,
       Posix, PosixAt, WindowsAt
  <1>7. Attested'
    BY DEF RemoveCache, Fault, Host, Spared, payloadVars, VerInv, Attested, VerShape, AsPlan, Quiet, Sited, Posix
  <1>8. CacheAfterWriters'
    BY DEF RemoveCache, Fault, Host, Spared, payloadVars, VerInv, CacheAfterWriters, VerShape, AsPlan, Quiet
  <1> QED
    BY <1>1, <1>2, <1>3, <1>4, <1>5, <1>6, <1>7, <1>8 DEF VerInv

LEMMA SnapshotAfterKeeps == ASSUME VerInv, SnapshotAfter PROVE VerInv'
  <1>1. VerShape'
    BY DEF SnapshotAfter, Fault, Host, PlanEnds, Spared, payloadVars, VerInv, VerShape, AsProc, AsPlan
  <1>2. Sited'
    BY DEF SnapshotAfter, Fault, Host, PlanEnds, Spared, payloadVars, VerInv, Sited, VerShape, AsProc, AsPlan, Posix,
       PosixAt, WindowsAt
  <1>3. Own'
    BY DEF SnapshotAfter, Fault, Host, PlanEnds, Spared, payloadVars, VerInv, Own, VerShape, AsProc, Sited, Posix,
       PosixAt, WindowsAt
  <1>4. Silent'
    BY DEF SnapshotAfter, Fault, Host, PlanEnds, Spared, payloadVars, VerInv, Silent, VerShape, AsProc, Own, Sited,
       Posix, PosixAt, WindowsAt, Group
  <1>5. Drained'
    BY DEF SnapshotAfter, Fault, Host, PlanEnds, Spared, payloadVars, VerInv, Drained, VerShape, AsProc, Silent,
       Sited, Posix, PosixAt, WindowsAt, Group
  <1>6. Quiet'
    BY DEF SnapshotAfter, Fault, Host, PlanEnds, Spared, payloadVars, VerInv, Quiet, VerShape, AsProc, AsPlan, Silent,
       Sited, Posix, PosixAt, WindowsAt
  <1>7. Attested'
    BY DEF SnapshotAfter, Fault, Host, PlanEnds, Spared, payloadVars, VerInv, Attested, VerShape, AsPlan, Quiet,
       Sited, Posix
  <1>8. CacheAfterWriters'
    BY DEF SnapshotAfter, Fault, Host, PlanEnds, Spared, payloadVars, VerInv, CacheAfterWriters, VerShape, AsPlan,
       Quiet
  <1> QED
    BY <1>1, <1>2, <1>3, <1>4, <1>5, <1>6, <1>7, <1>8 DEF VerInv

LEMMA CompareKeeps == ASSUME VerInv, Compare PROVE VerInv'
  <1>1. VerShape'
    BY DEF Compare, Fault, Host, PlanEnds, Spared, payloadVars, VerInv, VerShape, AsProc, AsPlan
  <1>2. Sited'
    BY DEF Compare, Fault, Host, PlanEnds, Spared, payloadVars, VerInv, Sited, VerShape, AsProc, AsPlan, Posix,
       PosixAt, WindowsAt
  <1>3. Own'
    BY DEF Compare, Fault, Host, PlanEnds, Spared, payloadVars, VerInv, Own, VerShape, AsProc, Sited, Posix, PosixAt,
       WindowsAt
  <1>4. Silent'
    BY DEF Compare, Fault, Host, PlanEnds, Spared, payloadVars, VerInv, Silent, VerShape, AsProc, Own, Sited, Posix,
       PosixAt, WindowsAt, Group
  <1>5. Drained'
    BY DEF Compare, Fault, Host, PlanEnds, Spared, payloadVars, VerInv, Drained, VerShape, AsProc, Silent, Sited,
       Posix, PosixAt, WindowsAt, Group
  <1>6. Quiet'
    BY DEF Compare, Fault, Host, PlanEnds, Spared, payloadVars, VerInv, Quiet, VerShape, AsProc, AsPlan, Silent,
       Sited, Posix, PosixAt, WindowsAt
  <1>7. Attested'
    BY DEF Compare, Fault, Host, PlanEnds, Spared, payloadVars, VerInv, Attested, VerShape, AsPlan, Quiet, Sited,
       Posix
  <1>8. CacheAfterWriters'
    BY DEF Compare, Fault, Host, PlanEnds, Spared, payloadVars, VerInv, CacheAfterWriters, VerShape, AsPlan, Quiet
  <1> QED
    BY <1>1, <1>2, <1>3, <1>4, <1>5, <1>6, <1>7, <1>8 DEF VerInv

LEMMA ReadFailsKeeps == ASSUME VerInv, ReadFails PROVE VerInv'
  <1>1. VerShape'
    BY DEF ReadFails, Fault, payloadVars, planned, VerInv, VerShape, AsProc, AsPlan
  <1>2. Sited'
    BY DEF ReadFails, Fault, payloadVars, planned, VerInv, Sited, VerShape, AsProc, AsPlan, Posix, PosixAt, WindowsAt
  <1>3. Own'
    BY DEF ReadFails, Fault, payloadVars, planned, VerInv, Own, VerShape, AsProc, Sited, Posix, PosixAt, WindowsAt
  <1>4. Silent'
    BY DEF ReadFails, Fault, payloadVars, planned, VerInv, Silent, VerShape, AsProc, Own, Sited, Posix, PosixAt,
       WindowsAt, Group
  <1>5. Drained'
    BY DEF ReadFails, Fault, payloadVars, planned, VerInv, Drained, VerShape, AsProc, Silent, Sited, Posix, PosixAt,
       WindowsAt, Group
  <1>6. Quiet'
    BY DEF ReadFails, Fault, payloadVars, planned, VerInv, Quiet, VerShape, AsProc, AsPlan, Silent, Sited, Posix,
       PosixAt, WindowsAt
  <1>7. Attested'
    BY DEF ReadFails, Fault, payloadVars, planned, VerInv, Attested, VerShape, AsPlan, Quiet, Sited, Posix
  <1>8. CacheAfterWriters'
    BY DEF ReadFails, Fault, payloadVars, planned, VerInv, CacheAfterWriters, VerShape, AsPlan, Quiet
  <1> QED
    BY <1>1, <1>2, <1>3, <1>4, <1>5, <1>6, <1>7, <1>8 DEF VerInv

\* The payload, the reader and the clock.
LEMMA OthersKeep ==
  ASSUME VerInv, PayloadWrites \/ PayloadEdits \/ PayloadReplacesCache \/ ReadChunk \/ DeadlinePasses
  PROVE  VerInv'
  <1>1. CASE PayloadWrites
    BY <1>1 DEF PayloadWrites, payloadVars, planned, VerInv, VerShape, AsProc, AsPlan, Sited, Own, Silent, Drained,
       Quiet, Attested, CacheAfterWriters, Group, Posix, PosixAt, WindowsAt
  <1>2. CASE PayloadEdits
    BY <1>2 DEF PayloadEdits, payloadVars, planned, VerInv, VerShape, AsProc, AsPlan, Sited, Own, Silent, Drained,
       Quiet, Attested, CacheAfterWriters, Group, Posix, PosixAt, WindowsAt
  <1>3. CASE PayloadReplacesCache
    BY <1>3 DEF PayloadReplacesCache, payloadVars, VerInv, VerShape, AsProc, AsPlan, Sited, Own, Silent, Drained,
       Quiet, Attested, CacheAfterWriters, Group, Posix, PosixAt, WindowsAt
  <1>4. CASE ReadChunk
    BY <1>4 DEF ReadChunk, payloadVars, planned, VerInv, VerShape, AsProc, AsPlan, Sited, Own, Silent, Drained, Quiet,
       Attested, CacheAfterWriters, Group, Posix, PosixAt, WindowsAt
  <1>5. CASE DeadlinePasses
    BY <1>5 DEF DeadlinePasses, payloadVars, planned, VerInv, VerShape, AsProc, AsPlan, Sited, Own, Silent, Drained,
       Quiet, Attested, CacheAfterWriters, Group, Posix, PosixAt, WindowsAt
  <1> QED
    BY <1>1, <1>2, <1>3, <1>4, <1>5

LEMMA PayloadForksKeeps == ASSUME NEW p, VerInv, PayloadForks(p) PROVE VerInv'
  BY DEF PayloadForks, Running, planned, VerInv, VerShape, AsProc, AsPlan, Sited, Own, Silent, Drained, Quiet,
     Attested, CacheAfterWriters, Group, Posix, PosixAt, WindowsAt

LEMMA PayloadClosesKeeps == ASSUME NEW p, VerInv, PayloadCloses(p) PROVE VerInv'
  BY DEF PayloadCloses, planned, VerInv, VerShape, AsProc, AsPlan, Sited, Own, Silent, Drained, Quiet, Attested,
     CacheAfterWriters, Group, Posix, PosixAt, WindowsAt

LEMMA PayloadExitsKeeps == ASSUME NEW p, VerInv, PayloadExits(p) PROVE VerInv'
  BY DEF PayloadExits, Running, planned, VerInv, VerShape, AsProc, AsPlan, Sited, Own, Silent, Drained, Quiet,
     Attested, CacheAfterWriters, Group, Posix, PosixAt, WindowsAt

\* Whatever the payload of a check does, on every platform: the host signals a
\* group once, before it reaps its leader; output that is returned is all the
\* payload wrote, and nothing of the check goes on; a plan that passed on Windows or under a policy is
\* about the source as it still is and its evidence names that source; the cache is
\* emptied after its writers are gone and nothing foreign is removed
\* (verification_process.py, windows_process_tree.py, engineering_verification.py).
THEOREM VerificationIsSound == VerifySpec => []VerificationSound
  <1>1. VerInv /\ [VerifyNext]_verifyVars => VerInv'
    <2>1. VerInv /\ UNCHANGED verifyVars => VerInv'
      BY DEF verifyVars, VerInv, VerShape, AsProc, AsPlan, Sited, Own, Silent, Drained, Quiet, Attested, CacheAfterWriters, Posix
    <2> QED
      BY <2>1, StartPosixKeeps, StartWindowsKeeps, StartPolicyKeeps, StartMonitorKeeps, ResumeKeeps, ObserveExitKeeps, KillGroupKeeps, ReapKeeps, EndLoopKeeps, FinishCheckKeeps,
         PosixEnds, WindowsChecks, CloseTreeKeeps, PolicyReturnsKeeps, AdmitKeeps, SnapshotBeforeKeeps, PinCacheKeeps,
         BeginCheckKeeps, EndCheckKeeps, ObserveSourceKeeps, ChecksEnd, EmptyCacheKeeps, RemoveCacheKeeps, SnapshotAfterKeeps,
         CompareKeeps, ReadFailsKeeps, OthersKeep, PayloadForksKeeps, PayloadClosesKeeps, PayloadExitsKeeps
      DEF VerifyNext, Check, Plan, Payload
  <1> QED
    BY VerStarts, VerSound, <1>1, PTL DEF VerifySpec

-----------------------------------------------------------------------------
(***************************************************************************)
(* The AppContainer.  What cleanup_ok says is built up along the call: who *)
(* may be alive (InJob, Reaped), which directories may still name the SID  *)
(* (WorkKept, WorkOut, RuntimeOut, ReviewOut) and what is left of the      *)
(* profile (Unlisted), each from the place on where it was taken away.     *)
(* Frame lemmas (BodyMoves, RaiseKeeps, JobGoesOn, ReturnKeeps, Finishes)  *)
(* leave to each action what it changes.                                   *)
(***************************************************************************)

AsCall(c) ==
  [pc |-> c.pc, created |-> c.created, sid |-> c.sid, dacl |-> c.dacl, local |-> c.local, main |-> c.main,
   clean |-> c.clean, jobClean |-> c.jobClean, ran |-> c.ran, second |-> c.second]
AsResult(m) == [executed |-> m.executed, clean |-> m.clean, error |-> m.error]
AsJob(j) ==
  [pc |-> j.pc, kind |-> j.kind, created |-> j.created, assigned |-> j.assigned, error |-> j.error,
   clean |-> j.clean, released |-> j.released]

CallShape ==
  /\ appCall = AsCall(appCall) /\ appCall.main = AsResult(appCall.main)
  /\ appCall.clean \in BOOLEAN /\ appCall.main.clean \in BOOLEAN /\ appCall.created \in BOOLEAN
  /\ appCall.dacl \in BOOLEAN /\ appCall.local \in BOOLEAN /\ appCall.jobClean \in BOOLEAN

JobShape ==
  /\ winJob = AsJob(winJob)
  /\ winJob.assigned \in BOOLEAN /\ winJob.created \in BOOLEAN /\ winJob.clean \in BOOLEAN /\ winJob.released \in BOOLEAN

ProcShape == winProc = [main |-> winProc.main, child |-> winProc.child]

AclShape ==
  /\ acl \in [Dirs -> SUBSET {"root", "child"}]
  /\ skipped \in SUBSET Dirs /\ dacl \in [Dirs -> Nat] /\ taken \in [Dirs -> Nat \cup {NoVersion}]
  /\ appProfile = [listed |-> appProfile.listed, dir |-> appProfile.dir]

SandShape == CallShape /\ JobShape /\ ProcShape /\ AclShape

Body == {"preflight", "profile", "grantWork", "normalize", "snapRuntime", "grantRuntime", "snapReview", "grantReview",
         "local", "launch"}
AfterWork == {"revoke", "revoked", "delete", "free"}
AfterRuntime == {"restoreWork", "checkWork", "revoke", "revoked", "delete", "free"}
AfterReview == {"restoreRuntime", "verifyRuntime", "restoreWork", "checkWork", "revoke", "revoked", "delete", "free"}

\* The Job of a call that has one, and what may be alive before it has a process.
InJob ==
  /\ winJob.pc # "idle" <=> CallAt("job")
  /\ winJob.pc \in {"create", "setup", "process", "assign"} => ~winJob.assigned
  /\ winJob.pc \in {"token", "resume", "wait", "query"} => winJob.assigned
  /\ winJob.assigned => winJob.created
  /\ winJob.pc \in {"create", "setup", "process"} => ~winJob.created
  /\ winJob.pc \in {"assign", "token", "resume", "wait", "query"} => winJob.created
  /\ CallAt("job") => winJob.kind \in {"main", "baseline", "candidate", "revoke"}
  /\ ~CallAt("job") => winJob = NoJob
  /\ CallAt("job") /\ ~winJob.created => Alive = {}
  /\ winJob.clean => winJob.pc = "close" /\ Alive = {}

\* Who may be alive when the call has no Job.
Reaped ==
  /\ appCall.pc \in Body => Alive = {}
  /\ appCall.pc \in {"restoreReview", "verifyReview", "restoreRuntime", "verifyRuntime", "restoreWork", "checkWork",
                    "revoke", "done"} =>
       (appCall.main.clean => Alive = {})
  /\ appCall.pc \in {"revoked", "delete", "free"} => (appCall.main.clean /\ appCall.clean => Alive = {})

Revoking == CallAt("job") /\ winJob.kind = "revoke"

\* Which directories may still name the SID: the workspace only if the call knows
\* its old DACL or the grant has reported an error,
WorkKept ==
  /\ appCall.pc \in Body \/ (CallAt("job") /\ ~Revoking) => (~appCall.dacl => Off("work"))
  /\ ~appCall.dacl /\ appCall.main.error # "grant" => Off("work")

\* and no more when it was put back and nothing has failed;
WorkOut ==
  /\ appCall.pc \in AfterWork \/ Revoking => (appCall.clean /\ appCall.main.error # "grant" => Off("work"))
  /\ CallAt("done") => (appCall.main.clean /\ appCall.main.error # "grant" => Off("work"))
  /\ CallAt("preflight") => Off("work")

\* a runtime's root only once it is in the transaction, and until it is back.
RuntimeOut ==
  /\ taken["runtime"] = NoVersion => Off("runtime")
  /\ appCall.pc \in AfterRuntime \/ Revoking => (appCall.clean => Off("runtime"))
  /\ CallAt("done") => (appCall.main.clean => Off("runtime"))
  /\ CallAt("preflight") => Off("runtime")

ReviewOut ==
  /\ taken["review"] = NoVersion => Off("review")
  /\ appCall.pc \in AfterReview \/ Revoking => (appCall.clean => Off("review"))
  /\ CallAt("done") => (appCall.main.clean => Off("review"))
  /\ CallAt("preflight") => Off("review")

\* What is left of the profile.
Unlisted ==
  /\ ~appCall.created => ~appProfile.listed /\ ~appProfile.dir
  /\ CallAt("preflight") => ~appCall.created
  /\ CallAt("free") /\ appCall.clean => ~appProfile.listed /\ (appCall.local => ~appProfile.dir)
  /\ CallAt("done") /\ appCall.main.clean => ~appProfile.listed /\ (appCall.local => ~appProfile.dir)

SandInv == SandShape /\ InJob /\ RunsInJob /\ Reaped /\ WorkKept /\ WorkOut /\ RuntimeOut /\ ReviewOut /\ Unlisted

LEMMA SandInvSound == SandInv => SandboxSound
  BY DEF Off, SandInv, SandShape, AclShape, Reaped, WorkKept, WorkOut, RuntimeOut, ReviewOut, Unlisted, CleanIsTrue, SandboxSound, CallAt, Dirs

LEMMA SandStarts == SandInit => SandInv
  <1> SUFFICES ASSUME SandInit PROVE SandInv
    OBVIOUS
  <1>1. SandShape
    BY DEF SandInit, SandShape, CallShape, JobShape, ProcShape, AclShape, AsCall, AsResult, AsJob, NoJob, NoResult, NoProcess, NoVersion
  <1>2. Alive = {} /\ RunsInJob
    BY DEF SandInit, NoProcess, Alive, RunsInJob
  <1>3. InJob /\ Reaped /\ Unlisted
    BY <1>2 DEF SandInit, NoJob, InJob, Reaped, Unlisted, CallAt
  <1>4. WorkKept /\ WorkOut /\ RuntimeOut /\ ReviewOut
    BY DEF Off, SandInit, WorkKept, WorkOut, RuntimeOut, ReviewOut, AfterWork, AfterRuntime, AfterReview, NoJob, CallAt, Revoking, Dirs
  <1> QED
    BY <1>1, <1>2, <1>3, <1>4 DEF SandInv

\* What a step of the call leaves alone.
SameBut(c) ==
  /\ c.created = appCall.created /\ c.dacl = appCall.dacl /\ c.local = appCall.local /\ c.clean = appCall.clean
  /\ c.jobClean = appCall.jobClean

LEMMA Goes ==
  ASSUME CallShape, NEW place, CallGoto(place)
  PROVE  CallShape' /\ appCall'.pc = place /\ appCall'.main = appCall.main /\ SameBut(appCall')
  BY DEF CallShape, AsCall, AsResult, CallGoto, SameBut

LEMMA Raises ==
  ASSUME CallShape, NEW error, CallRaises(error)
  PROVE  /\ CallShape' /\ appCall'.pc = "restoreReview" /\ SameBut(appCall')
         /\ appCall'.main.error = error /\ appCall'.main.clean = appCall.jobClean
  BY DEF CallShape, AsCall, AsResult, CallRaises, SameBut

LEMMA SandEnds ==
  ASSUME CallShape, NEW clean \in BOOLEAN,
         \/ appCall' = [appCall EXCEPT !.pc = "done", !.main.clean = clean]
         \/ appCall' = [appCall EXCEPT !.pc = "done", !.main.clean = clean, !.sid = FALSE]
  PROVE  /\ CallShape' /\ appCall'.pc = "done" /\ SameBut(appCall')
         /\ appCall'.main.error = appCall.main.error /\ appCall'.main.clean = clean
  <1>1. PICK m : m = [appCall.main EXCEPT !.clean = clean]
    OBVIOUS
  <1>2. m = AsResult(m) /\ m.clean = clean /\ m.error = appCall.main.error
    BY <1>1 DEF CallShape, AsResult
  <1>3. \/ appCall' = [appCall EXCEPT !.pc = "done", !.main = m]
        \/ appCall' = [appCall EXCEPT !.pc = "done", !.main = m, !.sid = FALSE]
    BY <1>1
  <1> QED
    BY <1>2, <1>3 DEF CallShape, AsCall, SameBut

\* What a Job gives back, by its kind.
LEMMA Returns ==
  ASSUME CallShape, NEW executed \in BOOLEAN, NEW clean \in BOOLEAN, NEW error, JobReturns(executed, clean, error)
  PROVE  /\ CallShape'
         /\ appCall'.created = appCall.created /\ appCall'.dacl = appCall.dacl /\ appCall'.local = appCall.local
         /\ \/ /\ winJob.kind \in {"main", "candidate"} /\ appCall'.pc = "restoreReview"
               /\ appCall'.main.clean = clean /\ appCall'.main.error = error
            \/ winJob.kind = "baseline" /\ clean /\ appCall'.pc = "launch" /\ appCall'.main = appCall.main
            \/ /\ winJob.kind = "baseline" /\ appCall'.pc = "restoreReview"
               /\ ~appCall'.main.clean /\ appCall'.main.error = "setup"
            \/ /\ winJob.kind = "revoke" /\ appCall'.pc = "revoked" /\ appCall'.main = appCall.main
               /\ appCall'.clean => appCall.clean /\ clean
  <1>1. PICK m : m = [executed |-> executed, clean |-> clean, error |-> error]
    OBVIOUS
  <1>2. m = AsResult(m) /\ m.clean = clean /\ m.error = error
    BY <1>1 DEF AsResult
  <1>3. PICK c : c = [appCall EXCEPT !.pc = "restoreReview", !.main = m, !.jobClean = clean]
    OBVIOUS
  <1>4. /\ c = AsCall(c) /\ c.main = m /\ c.pc = "restoreReview" /\ c.created = appCall.created
        /\ c.dacl = appCall.dacl /\ c.local = appCall.local /\ c.clean = appCall.clean /\ c.jobClean = clean
    BY <1>3 DEF CallShape, AsCall
  <1>5. CASE winJob.kind = "main" /\ appCall' = c
    BY <1>2, <1>4, <1>5 DEF CallShape, AsCall
  <1>6. CASE /\ winJob.kind = "baseline"
             /\ appCall' = [appCall EXCEPT !.pc = IF clean THEN "launch" ELSE "restoreReview",
                                  !.second = TRUE, !.ran = executed, !.jobClean = clean, !.clean = clean,
                                  !.main = IF clean THEN appCall.main
                                           ELSE [executed |-> FALSE, clean |-> FALSE, error |-> "setup"]]
    BY <1>6 DEF CallShape, AsCall, AsResult
  <1>7. CASE /\ winJob.kind = "candidate"
             /\ appCall' = [c EXCEPT !.clean = c.clean /\ clean, !.ran = c.ran \/ executed]
    BY <1>2, <1>4, <1>7 DEF CallShape, AsCall
  <1>8. CASE /\ winJob.kind = "revoke"
             /\ appCall' = [appCall EXCEPT !.pc = "revoked", !.clean = appCall.clean /\ executed /\ clean]
    BY <1>8 DEF CallShape, AsCall
  <1> QED
    BY <1>1, <1>3, <1>5, <1>6, <1>7, <1>8 DEF JobReturns

\* A step of the call that leaves the processes alone.
LEMMA CallMoves ==
  ASSUME SandInv, ~CallAt("job"), ~CallAt("job")', UNCHANGED <<winJob, winProc>>, CallShape', AclShape', Reaped',
         WorkKept', WorkOut', RuntimeOut', ReviewOut', Unlisted'
  PROVE  SandInv'
  <1>1. JobShape' /\ ProcShape' /\ RunsInJob'
    BY DEF SandInv, SandShape, JobShape, ProcShape, RunsInJob
  <1>2. InJob'
    BY DEF SandInv, InJob, CallAt, Alive
  <1> QED
    BY <1>1, <1>2 DEF SandInv, SandShape

\* One before the command has ended: it goes on, or raises.
LEMMA BodyMoves ==
  ASSUME SandInv, appCall.pc \in Body, appCall'.pc \in Body \ {"preflight"}, UNCHANGED <<winJob, winProc>>, CallShape', AclShape',
         WorkKept', Unlisted', \A d \in {"runtime", "review"} : taken'[d] = NoVersion => Off(d)'
  PROVE  SandInv'
  <1>1. ~CallAt("job") /\ ~CallAt("job")' /\ winJob' = NoJob
    BY DEF SandInv, InJob, CallAt, Body
  <1>2. Reaped'
    BY DEF SandInv, Reaped, Body, Alive
  <1>3. WorkOut' /\ RuntimeOut' /\ ReviewOut'
    BY <1>1 DEF Off, WorkOut, RuntimeOut, ReviewOut, Revoking, CallAt, Body, AfterWork, AfterRuntime, AfterReview
  <1> QED
    BY <1>1, <1>2, <1>3, CallMoves

LEMMA RaiseKeeps ==
  ASSUME SandInv, appCall.pc \in Body \/ (CallAt("job") /\ ~winJob.created /\ ~Revoking), NEW error, CallRaises(error),
         winJob' = NoJob, winProc' = winProc, AclShape', UNCHANGED appProfile,
         error # "grant" => (Off("work") => Off("work")'),
         \A d \in {"runtime", "review"} : taken'[d] = NoVersion => Off(d)'
  PROVE  SandInv'
  <1>1. CallShape' /\ appCall'.pc = "restoreReview" /\ SameBut(appCall') /\ appCall'.main.error = error
    BY Raises DEF SandInv, SandShape
  <1>2. Alive = {} /\ Alive' = {} /\ JobShape' /\ ProcShape'
    BY DEF SandInv, SandShape, Reaped, InJob, Alive, JobShape, AsJob, NoJob, ProcShape
  <1>3. InJob' /\ RunsInJob'
    BY <1>1, <1>2 DEF SandInv, InJob, RunsInJob, NoJob, CallAt, Alive
  <1>4. Reaped'
    BY <1>1, <1>2 DEF Reaped, Body
  <1>5. WorkKept' /\ WorkOut'
    BY <1>1 DEF Off, SandInv, WorkKept, WorkOut, SameBut, CallAt, Revoking, Body, AfterWork
  <1>6. RuntimeOut' /\ ReviewOut'
    BY <1>1 DEF Off, RuntimeOut, ReviewOut, CallAt, Revoking, AfterRuntime, AfterReview
  <1>7. Unlisted'
    BY <1>1 DEF SandInv, Unlisted, SameBut, CallAt
  <1> QED
    BY <1>1, <1>2, <1>3, <1>4, <1>5, <1>6, <1>7 DEF SandInv, SandShape

\* A step within a Job.
LEMMA JobMoves ==
  ASSUME SandInv, CallAt("job"), UNCHANGED <<appCall, acl, skipped, dacl, taken, appProfile>>, winJob'.kind = winJob.kind,
         JobShape', ProcShape', InJob', RunsInJob'
  PROVE  SandInv'
  <1>1. CallShape' /\ AclShape' /\ Unlisted'
    BY DEF SandInv, SandShape, CallShape, AclShape, Unlisted, CallAt
  <1>2. Reaped'
    BY DEF Reaped, CallAt, Body
  <1>3. WorkKept' /\ WorkOut' /\ RuntimeOut' /\ ReviewOut'
    BY DEF Off, SandInv, WorkKept, WorkOut, RuntimeOut, ReviewOut, Revoking, CallAt
  <1> QED
    BY <1>1, <1>2, <1>3 DEF SandInv, SandShape

\* The end of a Job: what it calls clean is dead.
LEMMA ReturnKeeps ==
  ASSUME SandInv, CallAt("job"), NEW executed \in BOOLEAN, NEW clean \in BOOLEAN, NEW error,
         JobReturns(executed, clean, error), winJob' = NoJob, UNCHANGED <<acl, skipped, dacl, taken, appProfile>>,
         ProcShape', RunsInJob', clean => Alive' = {}
  PROVE  SandInv'
  <1>1. /\ CallShape'
        /\ appCall'.created = appCall.created /\ appCall'.dacl = appCall.dacl /\ appCall'.local = appCall.local
    BY Returns DEF SandInv, SandShape
  <1>2. JobShape' /\ AclShape'
    BY DEF SandInv, SandShape, JobShape, AsJob, NoJob, AclShape
  <1>3. InJob'
    BY <1>1, Returns DEF SandInv, SandShape, InJob, NoJob, CallAt
  <1>4. Reaped'
    BY <1>1, Returns DEF SandInv, SandShape, Reaped, Body
  <1>5. WorkKept'
    BY <1>1, Returns DEF Off, SandInv, SandShape, WorkKept, Revoking, CallAt, Body, NoJob
  <1>6. WorkOut' /\ RuntimeOut' /\ ReviewOut'
    BY <1>1, Returns DEF Off, SandInv, SandShape, WorkOut, RuntimeOut, ReviewOut, AfterWork, AfterRuntime, AfterReview,
       Revoking, CallAt, NoJob
  <1>7. Unlisted'
    BY <1>1, Returns DEF SandInv, SandShape, Unlisted, CallAt
  <1> QED
    BY <1>1, <1>2, <1>3, <1>4, <1>5, <1>6, <1>7 DEF SandInv, SandShape

LEMMA PreflightKeeps == ASSUME SandInv, Preflight PROVE SandInv'
  <1>1. CASE CallGoto("profile")
    <2>1. CallShape' /\ appCall'.pc = "profile" /\ SameBut(appCall') /\ appCall'.main = appCall.main
      BY <1>1, Goes DEF SandInv, SandShape
    <2>2. AclShape' /\ WorkKept' /\ Unlisted'
      BY <2>1 DEF Off, SandInv, SandShape, Preflight, Acls, AclShape, WorkKept, Unlisted, SameBut, CallAt, Revoking, Body
    <2> QED
      BY <2>1, <2>2, BodyMoves DEF Off, SandInv, RuntimeOut, ReviewOut, Preflight, Acls, CallAt, Body
  <1>2. ASSUME NEW clean \in BOOLEAN, appCall' = [appCall EXCEPT !.pc = "done", !.main.clean = clean]
        PROVE  SandInv'
    <2>1. CallShape' /\ appCall'.pc = "done" /\ SameBut(appCall') /\ appCall'.main.error = appCall.main.error
      BY <1>2, SandEnds DEF SandInv, SandShape
    <2>2. AclShape' /\ Reaped'
      BY <2>1 DEF SandInv, SandShape, Preflight, Acls, AclShape, Reaped, CallAt, Alive, Body
    <2>3. WorkKept' /\ WorkOut' /\ RuntimeOut' /\ ReviewOut' /\ Unlisted'
      BY <2>1 DEF Off, SandInv, Preflight, Acls, WorkKept, WorkOut, RuntimeOut, ReviewOut, Unlisted, SameBut, CallAt, Revoking,
         Body, AfterWork, AfterRuntime, AfterReview
    <2> QED
      BY <2>1, <2>2, <2>3, CallMoves DEF Preflight, CallAt
  <1> QED
    BY <1>1, <1>2 DEF Preflight, OptionRefusals, CommandRefusals, WorkspaceRefusals, RootRefusals

LEMMA CreateProfileKeeps == ASSUME SandInv, CreateProfile PROVE SandInv'
  <1>1. CASE /\ appProfile' = [listed |-> TRUE, dir |-> TRUE]
             /\ appCall' = [appCall EXCEPT !.pc = "grantWork", !.created = TRUE, !.sid = TRUE]
    <2>1. CallShape' /\ AclShape' /\ WorkKept' /\ Unlisted' /\ appCall'.pc = "grantWork"
      BY <1>1 DEF Off, SandInv, SandShape, CreateProfile, Acls, CallShape, AsCall, AclShape, WorkKept, Unlisted, CallAt,
         Revoking, Body
    <2> QED
      BY <2>1, BodyMoves DEF Off, SandInv, RuntimeOut, ReviewOut, CreateProfile, Acls, CallAt, Body
  <1>2. CASE UNCHANGED appProfile /\ CallRaises("setup")
    BY <1>2, RaiseKeeps DEF Off, SandInv, SandShape, InJob, AclShape, RuntimeOut, ReviewOut, CreateProfile, Acls, CallAt, Body
  <1>3. CASE /\ appProfile' = [listed |-> TRUE, dir |-> TRUE]
             /\ appCall' = [appCall EXCEPT !.pc = "restoreReview", !.created = TRUE, !.sid = TRUE,
                                  !.main = [executed |-> FALSE, clean |-> TRUE, error |-> "setup"]]
    <2>1. PICK m : m = [executed |-> FALSE, clean |-> TRUE, error |-> "setup"]
      OBVIOUS
    <2>2. m = AsResult(m) /\ m.clean /\ m.error = "setup"
      BY <2>1 DEF AsResult
    <2>3. /\ CallShape' /\ appCall'.main = m /\ appCall'.dacl = appCall.dacl /\ appCall'.clean = appCall.clean
          /\ appCall'.pc = "restoreReview" /\ appCall'.created /\ appCall'.local = appCall.local
      BY <1>3, <2>1, <2>2 DEF SandInv, SandShape, CallShape, AsCall
    <2>4. AclShape' /\ Reaped' /\ Unlisted'
      BY <1>3, <2>3 DEF SandInv, SandShape, CreateProfile, Acls, AclShape, Reaped, Unlisted, CallAt, Alive, Body
    <2>5. WorkKept' /\ WorkOut' /\ RuntimeOut' /\ ReviewOut'
      BY <2>2, <2>3 DEF Off, SandInv, CreateProfile, Acls, WorkKept, WorkOut, RuntimeOut, ReviewOut, CallAt, Revoking, Body,
         AfterWork, AfterRuntime, AfterReview
    <2> QED
      BY <2>3, <2>4, <2>5, CallMoves DEF CreateProfile, CallAt
  <1> QED
    BY <1>1, <1>2, <1>3 DEF CreateProfile

LEMMA GrantWorkspaceKeeps == ASSUME SandInv, GrantWorkspace PROVE SandInv'
  <1>1. /\ winJob' = winJob /\ winJob = NoJob /\ winProc' = winProc /\ UNCHANGED <<dacl, taken, skipped, appProfile>>
        /\ appCall.pc = "grantWork"
    BY DEF Off, SandInv, InJob, GrantWorkspace, CallAt
  <1>2. ASSUME acl' \in {acl, [acl EXCEPT !["work"] = @ \cup {"root"}]}
        PROVE  /\ AclShape' /\ acl'["runtime"] = acl["runtime"] /\ acl'["review"] = acl["review"]
               /\ \A d \in {"runtime", "review"} : taken'[d] = NoVersion => Off(d)'
    <2>1. AclShape' /\ acl'["runtime"] = acl["runtime"] /\ acl'["review"] = acl["review"]
      BY <1>1, <1>2 DEF SandInv, SandShape, AclShape, Dirs
    <2> QED
      BY <1>1, <2>1 DEF Off, SandInv, RuntimeOut, ReviewOut
  <1>3. CASE /\ acl' = [acl EXCEPT !["work"] = @ \cup {"root"}]
             /\ appCall' = [appCall EXCEPT !.pc = AfterGrant, !.dacl = TRUE]
    <2>1. /\ CallShape' /\ appCall'.dacl /\ appCall'.created = appCall.created
          /\ appCall'.pc \in {"normalize", "snapRuntime", "local"}
      BY <1>3 DEF SandInv, SandShape, CallShape, AsCall, AfterGrant
    <2>2. WorkKept' /\ Unlisted'
      BY <1>1, <2>1 DEF Off, SandInv, WorkKept, Unlisted, CallAt
    <2> QED
      BY <1>1, <1>2, <1>3, <2>1, <2>2, BodyMoves DEF Body
  <1>4. CASE UNCHANGED <<acl, skipped>> /\ CallRaises("setup")
    BY <1>1, <1>2, <1>4, RaiseKeeps DEF Off, Body
  <1>5. CASE acl' = [acl EXCEPT !["work"] = @ \cup {"root"}] /\ CallRaises("grant")
    BY <1>1, <1>2, <1>5, RaiseKeeps DEF Body
  <1> QED
    BY <1>3, <1>4, <1>5 DEF Off, GrantWorkspace

\* A step that only goes on in the body, or raises.
LEMMA OnwardKeeps ==
  ASSUME SandInv, appCall.pc \in Body \ {"preflight"}, NEW place \in Body \ {"preflight"},
         CallGoto(place) \/ CallRaises("setup"), UNCHANGED <<winJob, winProc, appProfile>>, AclShape',
         (Off("work") => Off("work")'), \A d \in {"runtime", "review"} : taken'[d] = NoVersion => Off(d)'
  PROVE  SandInv'
  <1>1. CASE CallGoto(place)
    <2>1. CallShape' /\ appCall'.pc = place /\ SameBut(appCall') /\ appCall'.main = appCall.main
      BY <1>1, Goes DEF SandInv, SandShape
    <2>2. WorkKept' /\ Unlisted'
      BY <2>1 DEF Off, SandInv, WorkKept, Unlisted, SameBut, CallAt, Revoking, Body
    <2> QED
      BY <2>1, <2>2, BodyMoves
  <1>2. CASE CallRaises("setup")
    BY <1>2, RaiseKeeps DEF SandInv, InJob, CallAt, Body
  <1> QED
    BY <1>1, <1>2

LEMMA NormalizeKeeps == ASSUME SandInv, Normalize PROVE SandInv'
  BY OnwardKeeps DEF Off, Normalize, Acls, SandInv, SandShape, AclShape, RuntimeOut, ReviewOut, CallAt, Body

LEMMA SnapshotKeeps ==
  ASSUME SandInv, NEW d \in {"runtime", "review"}, NEW here \in Body \ {"preflight"}, NEW next \in Body \ {"preflight"},
         SnapshotRoots(d, here, next)
  PROVE  SandInv'
  <1>1. /\ taken' \in {taken, [taken EXCEPT ![d] = dacl[d]]} /\ skipped' \in {skipped, skipped \cup {d}}
        /\ UNCHANGED <<acl, dacl, winJob, winProc, appProfile>>
    BY DEF SnapshotRoots
  <1>2. AclShape' /\ taken'[d] \in {taken[d], dacl[d]} /\ \A e \in Dirs \ {d} : taken'[e] = taken[e]
    BY <1>1 DEF SandInv, SandShape, AclShape, Dirs
  <1>3. \A e \in Dirs : Off(e) => Off(e)'
    BY <1>1 DEF Off
  <1>4. \A e \in {"runtime", "review"} : taken'[e] = NoVersion => Off(e)'
    BY <1>1, <1>2, <1>3 DEF SandInv, SandShape, AclShape, RuntimeOut, ReviewOut, Dirs, NoVersion
  <1> QED
    BY <1>1, <1>2, <1>3, <1>4, OnwardKeeps DEF SnapshotRoots, CallAt, Dirs

LEMMA GrantRuntimeKeeps ==
  ASSUME SandInv, NEW d \in {"runtime", "review"}, NEW here \in Body \ {"preflight"}, NEW next \in Body \ {"preflight"},
         GrantRuntime(d, here, next)
  PROVE  SandInv'
  <1>1. /\ acl' = acl \/ (acl' = [acl EXCEPT ![d] = @ \cup {"root"}] /\ taken[d] # NoVersion)
        /\ UNCHANGED <<dacl, taken, skipped, winJob, winProc, appProfile>>
    BY DEF Off, SandInv, SandShape, AclShape, GrantRuntime, AsTaken, NoVersion, Dirs
  <1>2. AclShape' /\ \A e \in Dirs \ {d} : acl'[e] = acl[e]
    BY <1>1 DEF SandInv, SandShape, AclShape, Dirs
  <1>3. \A e \in Dirs \ {d} : Off(e) => Off(e)'
    BY <1>1, <1>2 DEF Off
  <1>4. \A e \in {"runtime", "review"} : taken'[e] = NoVersion => Off(e)'
    <2>1. taken'[d] = NoVersion => acl' = acl
      BY <1>1
    <2>2. taken[d] = NoVersion => Off(d)
      BY DEF SandInv, RuntimeOut, ReviewOut
    <2> QED
      BY <1>1, <1>3, <2>1, <2>2 DEF Off, SandInv, RuntimeOut, ReviewOut, Dirs
  <1> QED
    BY <1>1, <1>2, <1>3, <1>4, OnwardKeeps DEF GrantRuntime, CallAt, Dirs

LEMMA LocalAppDataKeeps == ASSUME SandInv, LocalAppData PROVE SandInv'
  <1>1. CASE appCall' = [appCall EXCEPT !.pc = "launch", !.local = TRUE]
    <2>1. CallShape' /\ AclShape' /\ WorkKept' /\ Unlisted' /\ appCall'.pc = "launch"
      BY <1>1 DEF Off, SandInv, SandShape, LocalAppData, Acls, CallShape, AsCall, AclShape, WorkKept, Unlisted, CallAt,
         Revoking, Body
    <2> QED
      BY <2>1, BodyMoves DEF Off, SandInv, RuntimeOut, ReviewOut, LocalAppData, Acls, CallAt, Body
  <1>2. CASE CallRaises("setup")
    BY <1>2, RaiseKeeps DEF Off, SandInv, SandShape, InJob, AclShape, RuntimeOut, ReviewOut, LocalAppData, Acls, CallAt, Body
  <1> QED
    BY <1>1, <1>2 DEF LocalAppData

LEMMA JobStarts ==
  ASSUME SandInv, ~CallAt("job"), NEW k \in {"main", "baseline", "candidate", "revoke"}, winProc' = NoProcess,
         winJob' = [NoJob EXCEPT !.pc = "create", !.kind = k], CallShape', CallAt("job")',
         UNCHANGED <<acl, skipped, dacl, taken, appProfile>>, WorkKept', WorkOut', RuntimeOut', ReviewOut', Unlisted'
  PROVE  SandInv'
  <1>1. JobShape' /\ winJob'.pc = "create" /\ winJob'.kind = k /\ ~winJob'.assigned /\ ~winJob'.created /\ ~winJob'.clean
    BY DEF JobShape, AsJob, NoJob
  <1>2. ProcShape' /\ AclShape' /\ RunsInJob' /\ Alive' = {}
    BY DEF SandInv, SandShape, ProcShape, AclShape, RunsInJob, NoProcess, Alive
  <1>3. InJob'
    BY <1>1, <1>2 DEF InJob
  <1>4. Reaped'
    BY <1>2 DEF Reaped
  <1> QED
    BY <1>1, <1>2, <1>3, <1>4 DEF SandInv, SandShape

LEMMA LaunchKeeps == ASSUME SandInv, LaunchContainer PROVE SandInv'
  <1>1. PICK k \in {"main", "baseline", "candidate"} : winJob' = [NoJob EXCEPT !.pc = "create", !.kind = k]
    BY DEF LaunchContainer
  <1>2. winJob'.kind = k
    BY <1>1 DEF NoJob
  <1>3. /\ CallShape' /\ appCall'.pc = "job" /\ appCall'.main = appCall.main /\ appCall'.dacl = appCall.dacl
        /\ appCall'.created = appCall.created /\ appCall'.clean = appCall.clean /\ appCall'.local = appCall.local
    BY DEF SandInv, SandShape, LaunchContainer, CallShape, AsCall, AsResult
  <1>4. WorkKept' /\ WorkOut'
    BY <1>2, <1>3 DEF Off, SandInv, LaunchContainer, Acls, WorkKept, WorkOut, CallAt, Revoking, Body, AfterWork
  <1>5. RuntimeOut' /\ ReviewOut' /\ Unlisted'
    BY <1>2, <1>3 DEF Off, SandInv, LaunchContainer, Acls, RuntimeOut, ReviewOut, Unlisted, CallAt, Revoking, AfterRuntime,
       AfterReview
  <1> QED
    BY <1>1, <1>3, <1>4, <1>5, JobStarts DEF LaunchContainer, Acls, CallAt

LEMMA RevokeKeeps == ASSUME SandInv, Revoke PROVE SandInv'
  <1>1. /\ CallShape' /\ appCall'.pc = "job" /\ appCall'.main = appCall.main /\ SameBut(appCall')
    BY Goes DEF SandInv, SandShape, Revoke
  <1>2. WorkKept' /\ WorkOut'
    BY <1>1 DEF Off, SandInv, Revoke, Acls, WorkKept, WorkOut, SameBut, NoJob, CallAt, Revoking, Body, AfterWork
  <1>3. RuntimeOut' /\ ReviewOut' /\ Unlisted'
    BY <1>1 DEF Off, SandInv, Revoke, Acls, RuntimeOut, ReviewOut, Unlisted, SameBut, CallAt, Revoking, AfterWork, AfterRuntime,
       AfterReview
  <1> QED
    BY <1>1, <1>2, <1>3, JobStarts DEF Revoke, Acls, CallAt

LEMMA CreateJobKeeps == ASSUME SandInv, CreateJob PROVE SandInv'
  <1>1. /\ CallAt("job") /\ winJob.pc = "create" /\ winProc' = winProc /\ UNCHANGED <<acl, skipped, dacl, taken, appProfile>>
        /\ ProcShape' /\ Alive = {} /\ Alive' = {} /\ RunsInJob' /\ JobShape /\ InJob
    BY DEF SandInv, SandShape, CreateJob, Acls, JobAt, CallAt, InJob, ProcShape, Alive, RunsInJob
  <1>2. CASE winJob' = [winJob EXCEPT !.pc = "setup"] /\ UNCHANGED appCall
    <2>1. /\ JobShape' /\ winJob'.pc = "setup" /\ winJob'.kind = winJob.kind /\ winJob'.assigned = winJob.assigned
          /\ winJob'.created = winJob.created
          /\ winJob'.clean = winJob.clean
      BY <1>1, <1>2 DEF JobShape, AsJob
    <2>2. InJob'
      BY <1>1, <1>2, <2>1 DEF InJob, CallAt
    <2> QED
      BY <1>1, <1>2, <2>1, <2>2, JobMoves
  <1>3. CASE winJob' = NoJob /\ JobRefused
    BY <1>1, <1>3, ReturnKeeps DEF JobRefused
  <1> QED
    BY <1>2, <1>3 DEF CreateJob

LEMMA SetUpJobKeeps == ASSUME SandInv, SetUpJob PROVE SandInv'
  <1>1. /\ CallAt("job") /\ winJob.pc = "setup" /\ winProc' = winProc /\ UNCHANGED <<acl, skipped, dacl, taken, appProfile>>
        /\ ProcShape' /\ Alive = {} /\ Alive' = {} /\ RunsInJob' /\ JobShape /\ InJob /\ AclShape'
    BY DEF SandInv, SandShape, SetUpJob, Acls, JobAt, CallAt, InJob, ProcShape, Alive, RunsInJob, AclShape
  <1>2. CASE winJob' \in {[winJob EXCEPT !.pc = "process"], Except} /\ UNCHANGED appCall
    <2>1. /\ JobShape' /\ winJob'.pc \in {"process", "finally"} /\ winJob'.kind = winJob.kind
          /\ winJob'.assigned = winJob.assigned /\ winJob'.created = winJob.created /\ winJob'.clean = winJob.clean
      BY <1>1, <1>2 DEF JobShape, AsJob, Except
    <2>2. InJob'
      BY <1>1, <1>2, <2>1 DEF InJob, CallAt
    <2> QED
      BY <1>1, <1>2, <2>1, <2>2, JobMoves
  <1>3. CASE winJob' = NoJob /\ winJob.kind = "revoke" /\ appCall' = [appCall EXCEPT !.pc = "revoked", !.clean = FALSE]
    <2>1. /\ CallShape' /\ appCall'.pc = "revoked" /\ ~appCall'.clean /\ appCall'.main = appCall.main
          /\ appCall'.dacl = appCall.dacl /\ appCall'.created = appCall.created
      BY <1>3 DEF SandInv, SandShape, CallShape, AsCall
    <2>2. JobShape' /\ InJob' /\ Reaped'
      BY <1>1, <1>3, <2>1 DEF JobShape, AsJob, NoJob, InJob, Reaped, CallAt, Body
    <2>3. WorkKept' /\ WorkOut' /\ RuntimeOut' /\ ReviewOut' /\ Unlisted'
      BY <1>1, <1>3, <2>1 DEF Off, SandInv, WorkKept, WorkOut, RuntimeOut, ReviewOut, Unlisted, CallAt, Revoking, NoJob, Body,
         AfterWork, AfterRuntime, AfterReview
    <2> QED
      BY <1>1, <2>1, <2>2, <2>3 DEF SandInv, SandShape
  <1>4. CASE winJob' = NoJob /\ winJob.kind # "revoke" /\ CallRaises("setup")
    BY <1>1, <1>4, RaiseKeeps DEF Off, SandInv, InJob, RuntimeOut, ReviewOut, Revoking
  <1> QED
    BY <1>2, <1>3, <1>4 DEF SetUpJob

LEMMA CreateProcessKeeps == ASSUME SandInv, CreateProcess PROVE SandInv'
  <1>1. /\ CallAt("job") /\ winJob.pc = "process" /\ UNCHANGED <<appCall, acl, skipped, dacl, taken, appProfile>>
        /\ ProcShape /\ JobShape /\ InJob /\ RunsInJob
    BY DEF SandInv, SandShape, CreateProcess, Acls, JobAt, CallAt
  <1>2. /\ JobShape' /\ winJob'.kind = winJob.kind /\ winJob'.assigned = winJob.assigned
        /\ winJob'.pc \in {"assign", "finally"} /\ (winJob'.created \/ (winProc' = winProc /\ ~winJob'.created))
        /\ (winJob'.pc = "assign" => winJob'.created) /\ winJob'.clean = winJob.clean
    BY <1>1 DEF CreateProcess, JobShape, AsJob, Except, InJob
  <1>3. ProcShape' /\ RunsInJob'
    BY <1>1, <1>2 DEF CreateProcess, ProcShape, RunsInJob
  <1>4. InJob'
    BY <1>1, <1>2 DEF InJob, CallAt, Alive
  <1> QED
    BY <1>1, <1>2, <1>3, <1>4, JobMoves

\* From the assignment on, a Job moves along.
LEMMA JobGoesOn ==
  ASSUME SandInv, CallAt("job"), UNCHANGED <<appCall, acl, skipped, dacl, taken, appProfile>>, winJob' = AsJob(winJob'),
         winJob'.kind = winJob.kind, winJob'.created \in BOOLEAN, winJob'.clean \in BOOLEAN, winJob'.released \in BOOLEAN,
         winJob'.assigned \in BOOLEAN, winJob'.pc \in {"token", "resume", "wait", "query", "finally", "close"},
         winJob'.pc \in {"token", "resume", "wait", "query"} => winJob'.assigned, winJob'.assigned => winJob'.created,
         ProcShape', RunsInJob', ~winJob'.created => Alive' = {}, winJob'.clean => winJob'.pc = "close" /\ Alive' = {}
  PROVE  SandInv'
  <1>1. JobShape'
    BY DEF JobShape
  <1>2. InJob'
    BY DEF SandInv, InJob, CallAt
  <1> QED
    BY <1>1, <1>2, JobMoves

LEMMA AssignKeeps == ASSUME SandInv, AssignProcess PROVE SandInv'
  <1>1. /\ CallAt("job") /\ winJob.pc = "assign" /\ UNCHANGED <<appCall, winProc, acl, skipped, dacl, taken, appProfile>>
        /\ ProcShape' /\ JobShape /\ ~winJob.assigned /\ winJob.created /\ winJob.clean = FALSE
    BY DEF SandInv, SandShape, AssignProcess, Acls, JobAt, InJob, ProcShape
  <1>2. /\ winJob' = AsJob(winJob') /\ winJob'.kind = winJob.kind /\ winJob'.created = winJob.created
        /\ winJob'.clean = FALSE /\ winJob'.released = winJob.released
        /\ \/ winJob'.assigned = TRUE /\ winJob'.pc \in {"token", "resume"}
           \/ winJob'.assigned = FALSE /\ winJob'.pc = "finally"
    <2>1. CASE winJob' = Except
      BY <1>1, <2>1 DEF Except, JobShape, AsJob
    <2>2. CASE \E place \in {"token", "resume"} : winJob' = [winJob EXCEPT !.pc = place, !.assigned = TRUE]
      BY <1>1, <2>2 DEF JobShape, AsJob
    <2> QED
      BY <2>1, <2>2 DEF AssignProcess
  <1>3. RunsInJob'
    BY <1>1, <1>2 DEF SandInv, RunsInJob
  <1> QED
    BY <1>1, <1>2, <1>3, JobGoesOn DEF JobShape

LEMMA ReadTokenKeeps == ASSUME SandInv, ReadToken PROVE SandInv'
  <1>1. /\ CallAt("job") /\ winJob.pc = "token" /\ UNCHANGED <<appCall, winProc, acl, skipped, dacl, taken, appProfile>>
        /\ ProcShape' /\ JobShape /\ winJob.assigned /\ winJob.created /\ winJob.clean = FALSE
    BY DEF SandInv, SandShape, ReadToken, Acls, JobAt, InJob, ProcShape
  <1>2. /\ winJob' = AsJob(winJob') /\ winJob'.kind = winJob.kind /\ winJob'.created = TRUE /\ winJob'.assigned = TRUE
        /\ winJob'.clean = FALSE /\ winJob'.released \in BOOLEAN /\ winJob'.pc = "resume"
    BY <1>1 DEF ReadToken, JobShape, AsJob
  <1> QED
    BY <1>1, <1>2, JobGoesOn DEF JobShape, SandInv, RunsInJob

LEMMA ResumeThreadKeeps == ASSUME SandInv, ResumeThread PROVE SandInv'
  <1>1. /\ CallAt("job") /\ winJob.pc = "resume" /\ UNCHANGED <<appCall, acl, skipped, dacl, taken, appProfile>>
        /\ ProcShape' /\ JobShape /\ winJob.assigned /\ winJob.created /\ winJob.clean = FALSE
    BY DEF SandInv, SandShape, ResumeThread, Acls, JobAt, InJob, ProcShape
  <1>2. /\ winJob' = AsJob(winJob') /\ winJob'.kind = winJob.kind /\ winJob'.created = TRUE /\ winJob'.assigned = TRUE
        /\ winJob'.clean = FALSE /\ winJob'.released = winJob.released /\ winJob'.pc \in {"wait", "finally"}
    BY <1>1 DEF ResumeThread, Except, JobShape, AsJob
  <1> QED
    BY <1>1, <1>2, JobGoesOn DEF JobShape, RunsInJob

LEMMA WaitKeeps == ASSUME SandInv, WaitProcess PROVE SandInv'
  <1>1. /\ CallAt("job") /\ winJob.pc = "wait" /\ UNCHANGED <<appCall, winProc, acl, skipped, dacl, taken, appProfile>>
        /\ ProcShape' /\ JobShape /\ winJob.assigned /\ winJob.created /\ winJob.clean = FALSE
    BY DEF SandInv, SandShape, WaitProcess, Acls, JobAt, InJob, ProcShape
  <1>2. /\ winJob' = AsJob(winJob') /\ winJob'.kind = winJob.kind /\ winJob'.created = TRUE /\ winJob'.assigned = TRUE
        /\ winJob'.clean = FALSE /\ winJob'.released = winJob.released /\ winJob'.pc = "finally"
    BY <1>1 DEF WaitProcess, Except, JobShape, AsJob
  <1> QED
    BY <1>1, <1>2, JobGoesOn DEF JobShape, SandInv, RunsInJob

LEMMA DoomedDie ==
  ASSUME ProcShape, winProc' = Doomed
  PROVE  ProcShape' /\ (Alive = {} => Alive' = {}) /\ \A p \in DOMAIN winProc' : winProc'[p] # "running"
  BY DEF ProcShape, Doomed, Alive

LEMMA TerminateKeeps == ASSUME SandInv, Terminate PROVE SandInv'
  <1>1. /\ CallAt("job") /\ winJob.pc = "finally" /\ UNCHANGED <<appCall, acl, skipped, dacl, taken, appProfile>>
        /\ winProc' \in {winProc, Doomed} /\ JobShape /\ ProcShape /\ InJob /\ RunsInJob
    BY DEF SandInv, SandShape, Terminate, Acls, JobAt
  <1>2. /\ winJob' = AsJob(winJob') /\ winJob'.kind = winJob.kind /\ winJob'.created = winJob.created
        /\ winJob'.assigned = winJob.assigned /\ winJob'.released = winJob.released
        /\ \/ winJob'.pc = "query" /\ winJob.assigned /\ winJob'.clean = FALSE
           \/ winJob'.pc = "close" /\ winJob'.clean \in BOOLEAN /\ (winJob'.clean => ~winJob.created)
    <2>1. CASE ~winJob.assigned /\ winJob' = [winJob EXCEPT !.pc = "close", !.clean = ~winJob.created]
      BY <1>1, <2>1 DEF JobShape, AsJob
    <2>2. CASE winJob.assigned /\ winJob' = [winJob EXCEPT !.pc = "query"]
      BY <1>1, <2>2 DEF JobShape, AsJob, InJob
    <2>3. CASE winJob.assigned /\ winJob' = [winJob EXCEPT !.pc = "close", !.error = "cleanup"]
      BY <1>1, <2>3 DEF JobShape, AsJob, InJob
    <2> QED
      BY <2>1, <2>2, <2>3 DEF Terminate
  <1>3. ProcShape' /\ RunsInJob' /\ (Alive = {} => Alive' = {})
    BY <1>1, <1>2, DoomedDie DEF ProcShape, RunsInJob, Alive
  <1> QED
    BY <1>1, <1>2, <1>3, JobGoesOn DEF JobShape, InJob

LEMMA QueryKeeps == ASSUME SandInv, QueryJob PROVE SandInv'
  <1>1. /\ CallAt("job") /\ winJob.pc = "query" /\ UNCHANGED <<appCall, winProc, acl, skipped, dacl, taken, appProfile>>
        /\ ProcShape' /\ JobShape /\ winJob.assigned /\ winJob.created /\ winJob.clean = FALSE
    BY DEF SandInv, SandShape, QueryJob, Acls, JobAt, InJob, ProcShape
  <1>2. /\ winJob' = AsJob(winJob') /\ winJob'.kind = winJob.kind /\ winJob'.created = TRUE /\ winJob'.assigned = TRUE
        /\ winJob'.released = winJob.released /\ winJob'.pc = "close" /\ winJob'.clean \in BOOLEAN
        /\ (winJob'.clean => Alive = {})
    <2>1. CASE Alive = {} /\ winJob' = [winJob EXCEPT !.pc = "close", !.clean = TRUE]
      BY <1>1, <2>1 DEF JobShape, AsJob
    <2>2. CASE winJob' = [winJob EXCEPT !.pc = "close", !.error = "cleanup"]
      BY <1>1, <2>2 DEF JobShape, AsJob
    <2> QED
      BY <2>1, <2>2 DEF QueryJob
  <1> QED
    BY <1>1, <1>2, JobGoesOn DEF JobShape, SandInv, RunsInJob, Alive

LEMMA CloseKeeps == ASSUME SandInv, CloseJob PROVE SandInv'
  <1>1. /\ CallAt("job") /\ winJob.pc = "close" /\ UNCHANGED <<acl, skipped, dacl, taken, appProfile>> /\ winJob' = NoJob
        /\ JobReturns(winJob.created, winJob.clean /\ winJob.released, winJob.error)
        /\ JobShape /\ ProcShape /\ InJob /\ RunsInJob
    BY DEF SandInv, SandShape, CloseJob, Acls, JobAt
  <1>2. ProcShape' /\ RunsInJob' /\ (Alive = {} => Alive' = {})
    BY <1>1, DoomedDie DEF CloseJob, ProcShape, RunsInJob, Alive
  <1>3. winJob.clean /\ winJob.released => Alive' = {}
    BY <1>1, <1>2 DEF InJob
  <1> QED
    BY <1>1, <1>2, <1>3, ReturnKeeps DEF JobShape

\* Others: the command runs in a Job, processes end, the host dies, DACLs change.
LEMMA CommandKeeps == ASSUME SandInv, CommandRuns PROVE SandInv'
  <1>1. ProcShape /\ ProcShape' /\ UNCHANGED <<appCall, winJob, acl, skipped, dacl, taken, appProfile>>
    BY DEF SandInv, SandShape, CommandRuns, Acls, ProcShape
  <1>2. winJob.assigned /\ Alive # {}
    BY <1>1 DEF SandInv, RunsInJob, CommandRuns, ProcShape, Alive
  <1>3. CallAt("job") /\ winJob.created /\ ~winJob.clean
    BY <1>2 DEF SandInv, InJob, NoJob
  <1>4. JobShape' /\ InJob' /\ RunsInJob'
    BY <1>1, <1>2, <1>3 DEF SandInv, SandShape, JobShape, InJob, RunsInJob, CallAt
  <1> QED
    BY <1>1, <1>3, <1>4, JobMoves

LEMMA DiesKeeps == ASSUME SandInv, ProcessDies PROVE SandInv'
  <1>1. ProcShape /\ ProcShape' /\ UNCHANGED <<appCall, winJob, acl, skipped, dacl, taken, appProfile>>
    BY DEF SandInv, SandShape, ProcessDies, Acls, ProcShape
  <1>2. (Alive = {} => Alive' = {}) /\ RunsInJob'
    BY <1>1 DEF SandInv, RunsInJob, ProcessDies, ProcShape, Alive
  <1>3. CallShape' /\ JobShape' /\ AclShape' /\ InJob'
    BY <1>1, <1>2 DEF SandInv, SandShape, CallShape, JobShape, AclShape, InJob, CallAt
  <1>4. Reaped' /\ Unlisted'
    BY <1>1, <1>2 DEF SandInv, Reaped, Unlisted, CallAt
  <1>5. WorkKept' /\ WorkOut' /\ RuntimeOut' /\ ReviewOut'
    BY <1>1 DEF Off, SandInv, WorkKept, WorkOut, RuntimeOut, ReviewOut, Revoking, CallAt
  <1> QED
    BY <1>1, <1>2, <1>3, <1>4, <1>5 DEF SandInv, SandShape

LEMMA HostDiesKeeps == ASSUME SandInv, HostDies PROVE SandInv'
  <1>1. CallShape' /\ appCall'.pc = "dead" /\ SameBut(appCall') /\ appCall'.main = appCall.main
    BY Goes DEF SandInv, SandShape, HostDies
  <1>2. JobShape' /\ AclShape' /\ winJob' = NoJob /\ UNCHANGED <<acl, skipped, taken, appProfile>>
    BY DEF SandInv, SandShape, HostDies, Acls, JobShape, AsJob, NoJob, AclShape
  <1>3. ProcShape' /\ RunsInJob'
    BY DoomedDie DEF SandInv, SandShape, HostDies, ProcShape, RunsInJob, NoJob
  <1>4. InJob' /\ Reaped'
    BY <1>1, <1>2 DEF InJob, Reaped, NoJob, CallAt, Body
  <1>5. WorkKept' /\ WorkOut' /\ RuntimeOut' /\ ReviewOut' /\ Unlisted'
    BY <1>1, <1>2 DEF Off, SandInv, WorkKept, WorkOut, RuntimeOut, ReviewOut, Unlisted, SameBut, Revoking, CallAt, Body,
       AfterWork, AfterRuntime, AfterReview
  <1> QED
    BY <1>1, <1>2, <1>3, <1>4, <1>5 DEF SandInv, SandShape

LEMMA AclsFade ==
  ASSUME SandInv, UNCHANGED <<appCall, winJob, winProc, taken, appProfile>>, AclShape',
         \A e \in Dirs : Off(e) => Off(e)'
  PROVE  SandInv'
  <1>1. CallShape' /\ JobShape' /\ ProcShape' /\ InJob' /\ RunsInJob'
    BY DEF SandInv, SandShape, CallShape, JobShape, ProcShape, InJob, RunsInJob, CallAt, Alive
  <1>2. Reaped' /\ Unlisted'
    BY DEF SandInv, Reaped, Unlisted, CallAt, Alive
  <1>3. WorkKept' /\ WorkOut' /\ RuntimeOut' /\ ReviewOut'
    BY DEF Off, SandInv, WorkKept, WorkOut, RuntimeOut, ReviewOut, Revoking, CallAt, Dirs
  <1> QED
    BY <1>1, <1>2, <1>3 DEF SandInv, SandShape

LEMMA PropagateKeeps == ASSUME SandInv, NEW d \in Dirs, Propagate(d) PROVE SandInv'
  <1>1. AclShape' /\ \A e \in Dirs : Off(e) => Off(e)'
    BY DEF Off, SandInv, SandShape, AclShape, Propagate, Inherited
  <1> QED
    BY <1>1, AclsFade DEF Off, Propagate

LEMMA ForeignKeeps == ASSUME SandInv, NEW d \in {"runtime", "review"}, ForeignEdit(d) PROVE SandInv'
  <1>1. AclShape' /\ \A e \in Dirs : Off(e) => Off(e)'
    BY DEF Off, SandInv, SandShape, AclShape, ForeignEdit, Dirs
  <1> QED
    BY <1>1, AclsFade DEF ForeignEdit

\* In finally the call only loses its trust, and what it goes past was put back.
Rest(c) == c.main = appCall.main /\ c.created = appCall.created /\ c.dacl = appCall.dacl /\ c.local = appCall.local

LEMMA Proceeds ==
  ASSUME CallShape, NEW place, NEW clean \in BOOLEAN, appCall' = [appCall EXCEPT !.pc = place, !.clean = clean]
  PROVE  CallShape' /\ appCall'.pc = place /\ appCall'.clean = clean /\ Rest(appCall')
  BY DEF CallShape, AsCall, Rest

LEMMA Finishes ==
  ASSUME SandInv, appCall.pc \in AfterReview \cup {"restoreReview", "verifyReview"},
         appCall'.pc \in AfterReview \cup {"verifyReview"}, CallShape', Rest(appCall'), appCall'.clean => appCall.clean,
         UNCHANGED <<winJob, winProc, taken>>, AclShape', Unlisted', \A e \in Dirs : Off(e) => Off(e)',
         appCall.pc \in {"revoked", "delete", "free"} => appCall'.pc \in {"revoked", "delete", "free"},
         appCall'.pc \in AfterReview => (appCall'.clean => Off("review")'),
         appCall'.pc \in AfterRuntime => (appCall'.clean => Off("runtime")'),
         appCall'.pc \in AfterWork => (appCall'.clean /\ appCall'.main.error # "grant" => Off("work")')
  PROVE  SandInv'
  <1>1. ~CallAt("job") /\ ~CallAt("job")' /\ ~CallAt("done")' /\ ~CallAt("preflight")' /\ appCall'.pc \notin Body
    BY DEF CallAt, AfterReview, Body
  <1>2. Reaped'
    BY <1>1 DEF SandInv, Reaped, Rest, Alive, CallAt, AfterReview
  <1>3. WorkKept' /\ WorkOut' /\ RuntimeOut' /\ ReviewOut'
    BY <1>1 DEF Off, SandInv, WorkKept, WorkOut, RuntimeOut, ReviewOut, Rest, Revoking, Dirs
  <1> QED
    BY <1>1, <1>2, <1>3, CallMoves

LEMMA Keeps == ASSUME CallShape, NEW place, CallGoto(place) PROVE CallShape' /\ appCall'.pc = place /\ appCall'.clean = appCall.clean /\ Rest(appCall')
  BY Goes DEF SameBut, Rest

LEMMA RestoreReviewKeeps ==
  ASSUME SandInv, RestoreRoots("review", "restoreReview", "verifyReview", "restoreRuntime") PROVE SandInv'
  <1>1. /\ AclShape' /\ UNCHANGED <<winJob, winProc, taken, appProfile>> /\ appCall.pc = "restoreReview"
        /\ \A e \in Dirs : Off(e) => Off(e)'
    BY DEF Off, SandInv, SandShape, AclShape, RestoreRoots, CallAt, Dirs
  <1>2. /\ CallShape' /\ Rest(appCall') /\ (appCall'.clean => appCall.clean)
        /\ \/ appCall'.pc = "verifyReview"
           \/ appCall'.pc = "restoreRuntime" /\ (appCall'.clean => Off("review")')
    <2>1. CASE CallGoto("verifyReview")
      BY <2>1, Keeps DEF SandInv, SandShape
    <2>2. CASE taken["review"] = NoVersion /\ CallGoto("restoreRuntime") /\ UNCHANGED <<acl, skipped>>
      BY <2>2, Keeps DEF Off, SandInv, SandShape, ReviewOut
    <2>3. CASE appCall' = [appCall EXCEPT !.pc = "restoreRuntime", !.clean = FALSE]
      BY <2>3, Proceeds DEF SandInv, SandShape
    <2> QED
      BY <2>1, <2>2, <2>3 DEF Off, RestoreRoots
  <1>3. Unlisted'
    BY <1>1, <1>2 DEF SandInv, Unlisted, Rest, CallAt
  <1> QED
    BY <1>1, <1>2, <1>3, Finishes DEF AfterReview, AfterRuntime, AfterWork

LEMMA RestoreRuntimeKeeps ==
  ASSUME SandInv, RestoreRoots("runtime", "restoreRuntime", "verifyRuntime", "restoreWork") PROVE SandInv'
  <1>1. /\ AclShape' /\ UNCHANGED <<winJob, winProc, taken, appProfile>> /\ appCall.pc = "restoreRuntime"
        /\ \A e \in Dirs : Off(e) => Off(e)'
    BY DEF Off, SandInv, SandShape, AclShape, RestoreRoots, CallAt, Dirs
  <1>2. /\ CallShape' /\ Rest(appCall') /\ (appCall'.clean => appCall.clean)
        /\ \/ appCall'.pc = "verifyRuntime"
           \/ appCall'.pc = "restoreWork" /\ (appCall'.clean => Off("runtime")')
    <2>1. CASE CallGoto("verifyRuntime")
      BY <2>1, Keeps DEF SandInv, SandShape
    <2>2. CASE taken["runtime"] = NoVersion /\ CallGoto("restoreWork") /\ UNCHANGED <<acl, skipped>>
      BY <2>2, Keeps DEF Off, SandInv, SandShape, RuntimeOut
    <2>3. CASE appCall' = [appCall EXCEPT !.pc = "restoreWork", !.clean = FALSE]
      BY <2>3, Proceeds DEF SandInv, SandShape
    <2> QED
      BY <2>1, <2>2, <2>3 DEF Off, RestoreRoots
  <1>3. Unlisted' /\ (appCall'.clean => Off("review")')
    BY <1>1, <1>2 DEF Off, SandInv, Unlisted, ReviewOut, AfterReview, Rest, CallAt, Dirs
  <1> QED
    BY <1>1, <1>2, <1>3, Finishes DEF AfterReview, AfterRuntime, AfterWork

LEMMA VerifyReviewKeeps == ASSUME SandInv, VerifyRoots("review", "verifyReview", "restoreRuntime") PROVE SandInv'
  <1>1. /\ AclShape' /\ UNCHANGED <<winJob, winProc, acl, skipped, taken, appProfile>> /\ appCall.pc = "verifyReview"
    BY DEF Off, SandInv, SandShape, AclShape, VerifyRoots, CallAt
  <1>2. /\ CallShape' /\ Rest(appCall') /\ (appCall'.clean => appCall.clean) /\ appCall'.pc = "restoreRuntime"
        /\ (appCall'.clean => Off("review")')
    <2>1. CASE NamesSeen("review", "review" \in skipped) = {} /\ CallGoto("restoreRuntime")
      <3>1. Off("review")'
        BY <1>1, <2>1 DEF NamesSeen, Off
      <3> QED
        BY <2>1, <3>1, Keeps DEF SandInv, SandShape
    <2>2. CASE appCall' = [appCall EXCEPT !.pc = "restoreRuntime", !.clean = FALSE]
      BY <2>2, Proceeds DEF SandInv, SandShape
    <2> QED
      BY <2>1, <2>2 DEF VerifyRoots
  <1>3. Unlisted'
    BY <1>1, <1>2 DEF SandInv, Unlisted, Rest, CallAt
  <1> QED
    BY <1>1, <1>2, <1>3, Finishes DEF Off, AfterReview, AfterRuntime, AfterWork

LEMMA VerifyRuntimeKeeps == ASSUME SandInv, VerifyRoots("runtime", "verifyRuntime", "restoreWork") PROVE SandInv'
  <1>1. /\ AclShape' /\ UNCHANGED <<winJob, winProc, acl, skipped, taken, appProfile>> /\ appCall.pc = "verifyRuntime"
    BY DEF Off, SandInv, SandShape, AclShape, VerifyRoots, CallAt
  <1>2. /\ CallShape' /\ Rest(appCall') /\ (appCall'.clean => appCall.clean) /\ appCall'.pc = "restoreWork"
        /\ (appCall'.clean => Off("runtime")')
    <2>1. CASE NamesSeen("runtime", "runtime" \in skipped) = {} /\ CallGoto("restoreWork")
      <3>1. Off("runtime")'
        BY <1>1, <2>1 DEF NamesSeen, Off
      <3> QED
        BY <2>1, <3>1, Keeps DEF SandInv, SandShape
    <2>2. CASE appCall' = [appCall EXCEPT !.pc = "restoreWork", !.clean = FALSE]
      BY <2>2, Proceeds DEF SandInv, SandShape
    <2> QED
      BY <2>1, <2>2 DEF VerifyRoots
  <1>3. Unlisted' /\ (appCall'.clean => Off("review")')
    BY <1>1, <1>2 DEF Off, SandInv, Unlisted, ReviewOut, AfterReview, Rest, CallAt, Dirs
  <1> QED
    BY <1>1, <1>2, <1>3, Finishes DEF Off, AfterReview, AfterRuntime, AfterWork

\* What was put back before stays so for the rest of the call.
LEMMA StaysBack ==
  ASSUME SandInv, appCall.pc \in AfterRuntime, appCall'.clean => appCall.clean, \A e \in Dirs : Off(e) => Off(e)'
  PROVE  appCall'.clean => Off("review")' /\ Off("runtime")'
  BY DEF Off, SandInv, ReviewOut, RuntimeOut, AfterReview, AfterRuntime, Dirs

LEMMA RestoreWorkspaceKeeps == ASSUME SandInv, RestoreWorkspace PROVE SandInv'
  <1>1. /\ AclShape' /\ UNCHANGED <<winJob, winProc, taken, appProfile>> /\ appCall.pc = "restoreWork"
        /\ \A e \in Dirs : Off(e) => Off(e)'
    BY DEF Off, SandInv, SandShape, AclShape, RestoreWorkspace, CallAt, Dirs
  <1>2. /\ CallShape' /\ Rest(appCall') /\ (appCall'.clean => appCall.clean)
        /\ \/ appCall'.pc = "checkWork"
           \/ appCall'.pc = "delete" /\ (appCall'.clean /\ appCall'.main.error # "grant" => Off("work")')
    <2>1. CASE CallGoto("checkWork")
      BY <2>1, Keeps DEF SandInv, SandShape
    <2>2. CASE ~appCall.dacl /\ CallGoto("delete") /\ UNCHANGED <<acl, skipped>>
      BY <2>2, Keeps DEF Off, SandInv, SandShape, WorkKept, Rest
    <2>3. CASE appCall' = [appCall EXCEPT !.pc = "delete", !.clean = FALSE]
      BY <2>3, Proceeds DEF SandInv, SandShape
    <2> QED
      BY <2>1, <2>2, <2>3 DEF Off, RestoreWorkspace
  <1>3. Unlisted' /\ appCall.pc \in AfterRuntime /\ appCall.pc \in AfterReview
    BY <1>1, <1>2 DEF SandInv, Unlisted, AfterRuntime, AfterReview, Rest, CallAt
  <1> QED
    BY <1>1, <1>2, <1>3, Finishes, StaysBack DEF AfterReview, AfterWork

LEMMA CheckWorkspaceKeeps == ASSUME SandInv, CheckWorkspace PROVE SandInv'
  <1>1. /\ AclShape' /\ UNCHANGED <<winJob, winProc, acl, taken, appProfile>> /\ appCall.pc = "checkWork"
        /\ \A e \in Dirs : Off(e) => Off(e)'
    BY DEF Off, SandInv, SandShape, AclShape, CheckWorkspace, CallAt, Dirs
  <1>2. PICK place \in {"revoke", "delete"}, restored \in BOOLEAN :
          /\ appCall' = [appCall EXCEPT !.clean = appCall.clean /\ restored, !.pc = place] /\ (restored => Off("work")')
    <2>1. PICK passes \in BOOLEAN, restored \in BOOLEAN, place \in {"revoke", "delete"} :
            /\ restored => NamesSeen("work", passes) = {}
            /\ passes => "work" \in skipped'
            /\ appCall' = [appCall EXCEPT !.clean = appCall.clean /\ restored, !.pc = place]
      BY DEF CheckWorkspace
    <2>2. restored => Off("work")'
      BY <1>1, <2>1 DEF Off, NamesSeen
    <2> QED
      BY <2>1, <2>2
  <1>3. /\ CallShape' /\ Rest(appCall') /\ (appCall'.clean => appCall.clean /\ Off("work")')
        /\ appCall'.pc \in {"revoke", "delete"}
    BY <1>1, <1>2 DEF SandInv, SandShape, CallShape, AsCall, Rest
  <1>4. Unlisted' /\ appCall.pc \in AfterRuntime /\ appCall.pc \in AfterReview
    BY <1>1, <1>3 DEF SandInv, Unlisted, AfterRuntime, AfterReview, Rest, CallAt
  <1> QED
    BY <1>1, <1>3, <1>4, Finishes, StaysBack DEF AfterReview, AfterWork

LEMMA RevokedKeeps == ASSUME SandInv, Revoked PROVE SandInv'
  <1>1. /\ AclShape' /\ UNCHANGED <<winJob, winProc, acl, skipped, taken, appProfile>> /\ appCall.pc = "revoked"
    BY DEF SandInv, SandShape, AclShape, Revoked, Acls, CallAt
  <1>2. CallShape' /\ Rest(appCall') /\ (appCall'.clean => appCall.clean) /\ appCall'.pc = "delete"
    BY <1>1, Keeps, Proceeds DEF SandInv, SandShape, Revoked
  <1>3. /\ Unlisted' /\ appCall.pc \in AfterRuntime /\ appCall.pc \in AfterReview
        /\ (appCall'.clean /\ appCall'.main.error # "grant" => Off("work")')
    BY <1>1, <1>2 DEF Off, SandInv, Unlisted, WorkOut, AfterRuntime, AfterReview, AfterWork, Rest, CallAt
  <1> QED
    BY <1>1, <1>2, <1>3, Finishes, StaysBack DEF Off, AfterReview, AfterWork

LEMMA DeleteKeeps == ASSUME SandInv, DeleteProfile PROVE SandInv'
  <1>1. /\ AclShape' /\ UNCHANGED <<winJob, winProc, acl, skipped, taken>> /\ appCall.pc = "delete"
        /\ appProfile' = [listed |-> appProfile'.listed, dir |-> appProfile'.dir]
    BY DEF SandInv, SandShape, AclShape, DeleteProfile, Acls, CallAt
  <1>2. /\ CallShape' /\ Rest(appCall') /\ (appCall'.clean => appCall.clean) /\ appCall'.pc = "free"
        /\ (appCall'.clean => ~appProfile'.listed /\ (appCall'.local => ~appProfile'.dir))
        /\ (~appProfile.listed /\ ~appProfile.dir => ~appProfile'.listed /\ ~appProfile'.dir)
    <2>1. CASE ~appCall.created /\ CallGoto("free") /\ UNCHANGED appProfile
      BY <2>1, Keeps DEF SandInv, SandShape, Unlisted
    <2>2. CASE /\ appProfile' = [listed |-> FALSE, dir |-> FALSE]
               /\ appCall' = [appCall EXCEPT !.pc = "free", !.clean = @ /\ ~(launch = "network" /\ ~appCall.local)]
      BY <2>2 DEF SandInv, SandShape, CallShape, AsCall, Rest
    <2>3. CASE /\ appProfile' = [appProfile EXCEPT !.listed = FALSE]
               /\ appCall' = [appCall EXCEPT !.pc = "free", !.clean = @ /\ ~appCall.local /\ launch # "network"]
      BY <2>3 DEF SandInv, SandShape, CallShape, AsCall, AclShape, Rest
    <2>4. CASE UNCHANGED appProfile /\ appCall' = [appCall EXCEPT !.pc = "free", !.clean = FALSE]
      BY <2>4, Proceeds DEF SandInv, SandShape
    <2> QED
      BY <2>1, <2>2, <2>3, <2>4 DEF DeleteProfile
  <1>3. /\ Unlisted' /\ appCall.pc \in AfterRuntime /\ appCall.pc \in AfterReview
        /\ (appCall'.clean /\ appCall'.main.error # "grant" => Off("work")')
    BY <1>1, <1>2 DEF Off, SandInv, Unlisted, WorkOut, AfterRuntime, AfterReview, AfterWork, Rest, CallAt
  <1> QED
    BY <1>1, <1>2, <1>3, Finishes, StaysBack DEF Off, AfterReview, AfterWork

LEMMA FreeKeeps == ASSUME SandInv, FreeSid PROVE SandInv'
  <1>1. /\ AclShape' /\ UNCHANGED <<winJob, winProc, acl, skipped, taken, appProfile>> /\ appCall.pc = "free"
    BY DEF SandInv, SandShape, AclShape, FreeSid, Acls, CallAt
  <1>2. /\ CallShape' /\ SameBut(appCall') /\ appCall'.pc = "done" /\ appCall'.main.error = appCall.main.error
        /\ (appCall'.main.clean => appCall.main.clean /\ appCall.clean)
    <2>1. PICK clean \in BOOLEAN :
            /\ clean => appCall.main.clean /\ appCall.clean
            /\ \/ appCall' = [appCall EXCEPT !.pc = "done", !.main.clean = clean]
               \/ appCall' = [appCall EXCEPT !.pc = "done", !.main.clean = clean, !.sid = FALSE]
      BY DEF FreeSid
    <2> QED
      BY <2>1, SandEnds DEF SandInv, SandShape
  <1>3. Reaped' /\ Unlisted'
    BY <1>1, <1>2 DEF SandInv, Reaped, Unlisted, SameBut, CallAt, Alive, Body
  <1>4. WorkKept' /\ WorkOut' /\ RuntimeOut' /\ ReviewOut'
    BY <1>1, <1>2 DEF Off, SandInv, WorkKept, WorkOut, RuntimeOut, ReviewOut, SameBut, CallAt, Revoking, Body, AfterWork,
       AfterRuntime, AfterReview
  <1> QED
    BY <1>1, <1>2, <1>3, <1>4, CallMoves DEF CallAt

LEMMA SandStep == ASSUME SandInv, [SandNext]_sandVars PROVE SandInv'
  <1>1. CASE SetUpStep
    BY <1>1, PreflightKeeps, CreateProfileKeeps, GrantWorkspaceKeeps, NormalizeKeeps, SnapshotKeeps, GrantRuntimeKeeps,
       LocalAppDataKeeps, LaunchKeeps DEF SetUpStep, Body
  <1>2. CASE JobStep
    BY <1>2, CreateJobKeeps, SetUpJobKeeps, CreateProcessKeeps, AssignKeeps, ReadTokenKeeps, ResumeThreadKeeps, WaitKeeps,
       TerminateKeeps, QueryKeeps, CloseKeeps DEF JobStep
  <1>3. CASE FinallyStep
    BY <1>3, RestoreReviewKeeps, VerifyReviewKeeps, RestoreRuntimeKeeps, VerifyRuntimeKeeps, RestoreWorkspaceKeeps,
       CheckWorkspaceKeeps, RevokeKeeps, RevokedKeeps, DeleteKeeps, FreeKeeps DEF FinallyStep
  <1>4. CASE CommandRuns \/ ProcessDies \/ HostDies \/ (\E d \in Dirs : Propagate(d))
             \/ (\E d \in {"runtime", "review"} : ForeignEdit(d))
    BY <1>4, CommandKeeps, DiesKeeps, HostDiesKeeps, PropagateKeeps, ForeignKeeps
  <1>5. CASE UNCHANGED sandVars
    BY <1>5, AclsFade DEF Off, sandVars, SandInv, SandShape, AclShape
  <1> QED
    BY <1>1, <1>2, <1>3, <1>4, <1>5 DEF SandNext, HostStep

\* For any failing calls, edits by others and deaths of the host: a result that says
\* the cleanup succeeded is true of the processes, of every object of the three
\* directories that the walks found and of the profile (unless the grant of the
\* workspace failed part-way), and a process only runs in a Job the host holds
\* (windows_appcontainer.py, windows_job.py).
THEOREM SandboxIsSound == SandSpec => []SandboxSound
  <1>1. SandInit => SandInv
    BY SandStarts
  <1>2. SandInv /\ [SandNext]_sandVars => SandInv'
    BY SandStep
  <1> QED
    BY <1>1, <1>2, SandInvSound, PTL DEF SandSpec

-----------------------------------------------------------------------------
(***************************************************************************)
(* The pipe of the Windows runner.  Two ends take their calls piece by     *)
(* piece, either may block, fail or die, and another process may take the  *)
(* runner's place.  Up the pipe each piece under way belongs to a frame    *)
(* that was begun, none left out, counted from the frames whose header the *)
(* host has read (UpNumbered): that is why what is heard is the beginning  *)
(* of what was said, whatever piece a failure falls on.  Down the pipe the *)
(* pieces keep the one order the two requests may have (DownOrdered), and  *)
(* none is further than what the host has written (DownWritten).           *)
(***************************************************************************)

\* The records have their fields, the streams are sequences of pieces.
MessageKinds == {"none", "spawn_ready", "output", "exit", "cancel_ack", "spawn_request", "cancel_request"}
PipeMessages == [kind : MessageKinds, n : Nat, ours : BOOLEAN]
PipePieces == [part : {"header", "body"}, m : PipeMessages]
AsServer(p) ==
  [connected |-> p.connected, attempted |-> p.attempted, authentic |-> p.authentic, spawn |-> p.spawn,
   cancel |-> p.cancel, ack |-> p.ack, next |-> p.next, terminal |-> p.terminal, failed |-> p.failed,
   open |-> p.open]
AsPipeCall(c) == [kind |-> c.kind, at |-> c.at, m |-> c.m]

ServerShaped ==
  /\ pipeServer = AsServer(pipeServer)
  /\ pipeServer.authentic \in BOOLEAN /\ pipeServer.failed \in BOOLEAN /\ pipeServer.terminal \in BOOLEAN
  /\ pipeServer.spawn \in BOOLEAN /\ pipeServer.cancel \in BOOLEAN /\ pipeServer.attempted \in BOOLEAN
  /\ pipeServer.next \in Nat
CallsShaped ==
  /\ hostCall = AsPipeCall(hostCall) /\ hostCall.kind \in {"idle", "connect", "ready", "receive", "send"}
  /\ hostCall.at \in {"header", "body", "check"} /\ hostCall.m \in PipeMessages
  /\ peerCall = AsPipeCall(peerCall) /\ peerCall.kind \in {"idle", "receive", "send"}
  /\ peerCall.at \in {"header", "body"} /\ peerCall.m \in PipeMessages
EndsShaped == peer = [who |-> peer.who, alive |-> peer.alive] /\ stuck \in [Ends -> BOOLEAN]
StreamsShaped ==
  /\ up \in Seq(PipePieces) /\ down \in Seq(PipePieces) /\ said \in Seq(PipeMessages) /\ heard \in Seq(PipeMessages)
  /\ told \in Seq(Requests)

\* A call is under way only in a session that has not failed; a session is
\* authentic only with the runner, and only then is anything said in it.
InSession ==
  /\ hostCall.kind # "idle" => ~pipeServer.failed /\ ~pipeServer.terminal /\ pipeServer.attempted
  /\ ~pipeServer.attempted => ~pipeServer.failed /\ ~pipeServer.terminal /\ ~pipeServer.authentic
  /\ hostCall.kind \in {"receive", "send"} => pipeServer.authentic
  /\ hostCall.kind \in {"idle", "connect"} => hostCall.at = "header"
  /\ pipeServer.authentic => peer.who = "runner"
  /\ heard # <<>> \/ told # <<>> \/ down # <<>> => pipeServer.authentic
  /\ stuck["host"] => pipeServer.failed

\* What is sent, is one of the two requests, at its time.
Sending ==
  hostCall.kind = "send" =>
    /\ hostCall.at \in {"header", "body"} /\ hostCall.m.kind \in Requests
    /\ ~pipeServer.cancel
    /\ hostCall.m.kind = "spawn_request" => ~pipeServer.spawn

\* What the host has heard is the beginning of what was said; outputs are
\* numbered, and the number of the next one is the field's.
Begins(texts, frames) == Len(texts) <= Len(frames) /\ \A i \in 1..Len(texts) : texts[i] = frames[i]
OutputsIn(texts, n) == {i \in 1..n : texts[i].kind = "output"}
InSequence(texts, next) ==
  /\ \A i \in OutputsIn(texts, Len(texts)) : texts[i].n = Cardinality(OutputsIn(texts, i))
  /\ next = Cardinality(OutputsIn(texts, Len(texts))) + 1
ExitLast(texts, over) ==
  \A i \in 1..Len(texts) : texts[i].kind = "exit" => i = Len(texts) /\ over
HeardSaid == Begins(heard, said)
HeardOutputs == InSequence(heard, pipeServer.next)
HeardExit == ExitLast(heard, pipeServer.terminal)

\* The frames of which the host has read the header.
HeadersRead == Len(heard) + IF HostReads /\ hostCall.at # "header" THEN 1 ELSE 0

\* Each piece under way belongs to a frame that was begun, and the pieces
\* follow each other as their frames were begun, none left out.
FrameNumbers(g, way, frames, begun) ==
  /\ \A i \in 1..Len(way) : way[i].m = frames[g[i]]
  /\ \A i \in 1..Len(way) :
       g[i] = (IF i = 1 THEN begun ELSE g[i - 1]) + (IF way[i].part = "header" THEN 1 ELSE 0)
  /\ (IF way = <<>> THEN begun ELSE g[Len(way)]) = Len(frames)
FramesNumbered(way, frames, begun) == \E g \in [1..Len(way) -> 1..Len(frames)] : FrameNumbers(g, way, frames, begun)

UpNumbered == ~pipeServer.failed => FramesNumbered(up, said, HeadersRead)
HostHolds ==
  HostReads /\ hostCall.at # "header" => HeadersRead <= Len(said) /\ hostCall.m = said[HeadersRead]
PeerHolds ==
  peerCall.kind = "send" /\ peerCall.at = "body" => said # <<>> /\ peerCall.m = said[Len(said)]

\* The pieces the host may ever write, in order.
RequestPlace(kind) == IF kind = "spawn_request" THEN 0 ELSE 2
PieceRank(piece) == RequestPlace(piece.m.kind) + (IF piece.part = "header" THEN 1 ELSE 2)
HostWritten == IF hostCall.kind = "send" /\ hostCall.at = "body" THEN RequestPlace(hostCall.m.kind) + 1
           ELSE IF pipeServer.cancel THEN 4 ELSE IF pipeServer.spawn THEN 2 ELSE 0
PiecesOrdered(way, texts) ==
  /\ \A i, j \in 1..Len(way) : i < j => PieceRank(way[i]) < PieceRank(way[j])
  /\ \A i, j \in 1..Len(texts) : i < j => RequestPlace(texts[i]) < RequestPlace(texts[j])
  /\ \A i \in 1..Len(texts), j \in 1..Len(way) : RequestPlace(texts[i]) + 2 < PieceRank(way[j])
  /\ \A j \in 1..Len(way) : way[j].m.kind \in Requests
PiecesBelow(way, texts, n) ==
  /\ \A i \in 1..Len(texts) : RequestPlace(texts[i]) + 2 <= n
  /\ \A j \in 1..Len(way) : PieceRank(way[j]) <= n
DownOrdered == PiecesOrdered(down, told)
DownWritten == ~pipeServer.failed => PiecesBelow(down, told, HostWritten)

PipeShaped == ServerShaped /\ CallsShaped /\ EndsShaped /\ StreamsShaped
PipeInv ==
  /\ PipeShaped /\ InSession /\ Sending /\ HeardSaid /\ HeardOutputs /\ HeardExit
  /\ UpNumbered /\ HostHolds /\ PeerHolds /\ DownOrdered /\ DownWritten

\* A call that is over rests.
LEMMA RestIs ==
  PipeRest = AsPipeCall(PipeRest) /\ PipeRest.kind = "idle" /\ PipeRest.at = "header" /\ PipeRest.m \in PipeMessages
BY DEF PipeRest, AsPipeCall, NoMessage, Message, PipeMessages, MessageKinds

\* What is sent either way is a message, and its pieces are its own.
LEMMA MessagesAre ==
  /\ \A r \in Requests : Message(r, 0, TRUE) \in PipeMessages /\ Message(r, 0, TRUE).kind = r
  /\ \A m \in Replies : m \in PipeMessages
  /\ \A m \in PipeMessages : Piece("header", m) \in PipePieces /\ Piece("body", m) \in PipePieces
  /\ \A part, m : Piece(part, m).part = part /\ Piece(part, m).m = m
<1>1. \A r \in Requests : Message(r, 0, TRUE) \in PipeMessages /\ Message(r, 0, TRUE).kind = r
  BY DEF Message, PipeMessages, MessageKinds, Requests
<1>2. \A m \in Replies : m \in PipeMessages
  <2>1. \A k \in {"spawn_ready", "exit", "cancel_ack"} : Message(k, 0, TRUE) \in PipeMessages
    BY DEF Message, PipeMessages, MessageKinds
  <2>2. \A n \in 1..2 : Message("output", n, TRUE) \in PipeMessages
    BY DEF Message, PipeMessages, MessageKinds
  <2>3. Message("output", 1, FALSE) \in PipeMessages
    BY DEF Message, PipeMessages, MessageKinds
  <2> QED BY <2>1, <2>2, <2>3 DEF Replies
<1>3. \A m \in PipeMessages : Piece("header", m) \in PipePieces /\ Piece("body", m) \in PipePieces
  BY DEF Piece, PipePieces
<1>4. \A part, m : Piece(part, m).part = part /\ Piece(part, m).m = m
  BY DEF Piece
<1> QED BY <1>1, <1>2, <1>3, <1>4

\* PipePieces and frames are begun at the front and put behind the others.
LEMMA TakeNumbered ==
  ASSUME NEW way \in Seq(PipePieces), NEW frames \in Seq(PipeMessages), NEW begun \in Nat, way # <<>>,
         FramesNumbered(way, frames, begun)
  PROVE  LET now == begun + (IF Head(way).part = "header" THEN 1 ELSE 0)
         IN  FramesNumbered(Tail(way), frames, now) /\ now \in 1..Len(frames) /\ Head(way).m = frames[now]
<1> DEFINE now == begun + (IF Head(way).part = "header" THEN 1 ELSE 0)
<1>1. Len(way) \in Nat /\ Len(way) # 0 /\ Head(way) = way[1] /\ Len(frames) \in Nat
  BY EmptySeq, LenProperties
<1>2. Len(Tail(way)) = Len(way) - 1 /\ \A i \in 1..Len(Tail(way)) : Tail(way)[i] = way[i + 1]
  BY HeadTailProperties
<1>3. PICK g \in [1..Len(way) -> 1..Len(frames)] : FrameNumbers(g, way, frames, begun)
  BY DEF FramesNumbered
<1>4. g[1] = now /\ now \in 1..Len(frames) /\ way[1].m = frames[now]
  BY <1>1, <1>3 DEF FrameNumbers
<1> DEFINE h == [i \in 1..Len(Tail(way)) |-> g[i + 1]]
<1>5. h \in [1..Len(Tail(way)) -> 1..Len(frames)]
  BY <1>1, <1>2, <1>3
<1>6. \A i \in 1..Len(Tail(way)) : Tail(way)[i].m = frames[h[i]]
  BY <1>1, <1>2, <1>3 DEF FrameNumbers
<1>7. \A i \in 1..Len(Tail(way)) :
        h[i] = (IF i = 1 THEN now ELSE h[i - 1]) + (IF Tail(way)[i].part = "header" THEN 1 ELSE 0)
  <2>1. TAKE i \in 1..Len(Tail(way))
  <2>2. i + 1 \in 1..Len(way) /\ i + 1 # 1 /\ h[i] = g[i + 1] /\ (i # 1 => h[i - 1] = g[i]) /\ (i + 1) - 1 = i
    BY <1>1, <1>2
  <2>3. g[i + 1] = g[i] + (IF way[i + 1].part = "header" THEN 1 ELSE 0)
    BY <1>3, <2>2 DEF FrameNumbers
  <2> QED BY <1>2, <1>4, <2>2, <2>3
<1>8. (IF Tail(way) = <<>> THEN now ELSE h[Len(Tail(way))]) = Len(frames)
  <2>1. g[Len(way)] = Len(frames)
    BY <1>1, <1>3 DEF FrameNumbers
  <2>2. CASE Len(way) = 1
    BY <1>1, <1>2, <1>4, <2>1, <2>2, HeadTailProperties, EmptySeq
  <2>3. CASE Len(way) # 1
    <3>1. Len(Tail(way)) \in 1..Len(Tail(way)) /\ Tail(way) # <<>> /\ Len(Tail(way)) + 1 = Len(way)
      BY <1>1, <1>2, <2>3, EmptySeq
    <3> QED BY <2>1, <3>1
  <2> QED BY <2>2, <2>3
<1>9. FrameNumbers(h, Tail(way), frames, now)
  BY <1>6, <1>7, <1>8 DEF FrameNumbers
<1> QED BY <1>1, <1>4, <1>5, <1>9 DEF FramesNumbered

\* A header begins the next frame, a body belongs to the frame that was begun.
LEMMA PutNumbered ==
  ASSUME NEW way \in Seq(PipePieces), NEW frames \in Seq(PipeMessages), NEW more \in Seq(PipeMessages), NEW begun \in Nat,
         FramesNumbered(way, frames, begun), NEW piece \in PipePieces,
         Len(more) = Len(frames) + (IF piece.part = "header" THEN 1 ELSE 0),
         \A i \in 1..Len(frames) : more[i] = frames[i],
         Len(more) # 0, piece.m = more[Len(more)]
  PROVE  FramesNumbered(Append(way, piece), more, begun)
<1> DEFINE new == Append(way, piece)
<1>1. Len(way) \in Nat /\ Len(frames) \in Nat /\ Len(more) \in Nat
  BY LenProperties
<1>2. Len(new) = Len(way) + 1 /\ new[Len(way) + 1] = piece /\ \A i \in 1..Len(way) : new[i] = way[i]
  BY <1>1, AppendProperties
<1>3. new # <<>> /\ (Len(way) = 0 <=> way = <<>>)
  BY <1>1, <1>2, EmptySeq
<1>4. PICK g \in [1..Len(way) -> 1..Len(frames)] : FrameNumbers(g, way, frames, begun)
  BY DEF FramesNumbered
<1> DEFINE h == [i \in 1..Len(new) |-> IF i = Len(new) THEN Len(more) ELSE g[i]]
<1> HIDE DEF new
<1>5. h \in [1..Len(new) -> 1..Len(more)]
  BY <1>1, <1>2, <1>4
<1>6. \A i \in 1..Len(new) : new[i].m = more[h[i]]
  <2>1. TAKE i \in 1..Len(new)
  <2>2. CASE i # Len(new)
    <3>1. i \in 1..Len(way) /\ new[i] = way[i] /\ h[i] = g[i]
      BY <1>1, <1>2, <2>2
    <3>2. way[i].m = frames[g[i]]
      BY <1>4, <3>1 DEF FrameNumbers
    <3>3. g[i] \in 1..Len(frames)
      BY <1>4, <3>1
    <3> QED BY <3>1, <3>2, <3>3
  <2>3. CASE i = Len(new)
    BY <1>2, <2>3
  <2> QED BY <2>2, <2>3
<1>7. \A i \in 1..Len(new) :
        h[i] = (IF i = 1 THEN begun ELSE h[i - 1]) + (IF new[i].part = "header" THEN 1 ELSE 0)
  <2>1. TAKE i \in 1..Len(new)
  <2>2. CASE i # Len(new)
    <3>1. i \in 1..Len(way) /\ (i # 1 => i - 1 \in 1..Len(way)) /\ i - 1 # Len(new)
      BY <1>1, <1>2, <2>2
    <3>2. g[i] = (IF i = 1 THEN begun ELSE g[i - 1]) + (IF way[i].part = "header" THEN 1 ELSE 0)
      BY <1>4, <3>1 DEF FrameNumbers
    <3> QED BY <1>2, <2>2, <3>1, <3>2
  <2>3. CASE i = Len(new)
    <3>1. (IF way = <<>> THEN begun ELSE g[Len(way)]) = Len(frames)
      BY <1>4 DEF FrameNumbers
    <3>2. Len(new) = 1 <=> way = <<>>
      BY <1>1, <1>2, <1>3
    <3>3. way # <<>> => h[Len(new) - 1] = g[Len(way)]
      BY <1>1, <1>2, <1>3
    <3>4. new[i] = piece /\ h[i] = Len(more)
      BY <1>2, <2>3
    <3> QED BY <1>1, <2>3, <3>1, <3>2, <3>3, <3>4
  <2> QED BY <2>2, <2>3
<1>8. h[Len(new)] = Len(more)
  BY <1>1, <1>2
<1>9. FrameNumbers(h, new, more, begun)
  BY <1>3, <1>6, <1>7, <1>8 DEF FrameNumbers
<1> QED BY <1>5, <1>9 DEF FramesNumbered, new

\* The start is asked before the cancel.
LEMMA PlaceIs ==
  /\ RequestPlace("spawn_request") = 0 /\ RequestPlace("cancel_request") = 2
  /\ \A k : RequestPlace(k) \in {0, 2}
BY DEF RequestPlace

\* A piece of a higher rank than any written goes behind them.
LEMMA PutOrdered ==
  ASSUME NEW way \in Seq(PipePieces), NEW texts \in Seq(Requests), NEW piece \in PipePieces, NEW n \in Nat,
         PiecesOrdered(way, texts), PiecesBelow(way, texts, n), piece.m.kind \in Requests, n < PieceRank(piece)
  PROVE  PiecesOrdered(Append(way, piece), texts) /\ PiecesBelow(Append(way, piece), texts, PieceRank(piece))
<1> DEFINE new == Append(way, piece)
<1>1. Len(way) \in Nat /\ Len(texts) \in Nat
  BY LenProperties
<1>2. Len(new) = Len(way) + 1 /\ new[Len(way) + 1] = piece /\ \A i \in 1..Len(way) : new[i] = way[i]
  BY <1>1, AppendProperties
<1>3. \A p : PieceRank(p) \in Nat
  BY DEF PieceRank, RequestPlace
<1>4. \A k : RequestPlace(k) \in Nat
  BY DEF RequestPlace
<1> HIDE DEF new
<1>5. \A i, j \in 1..Len(new) : i < j => PieceRank(new[i]) < PieceRank(new[j])
  <2>1. TAKE i, j \in 1..Len(new)
  <2>2. HAVE i < j
  <2>3. i \in 1..Len(way) /\ new[i] = way[i] /\ PieceRank(way[i]) <= n
    BY <1>1, <1>2, <2>2 DEF PiecesBelow
  <2>4. CASE j # Len(new)
    <3>1. j \in 1..Len(way) /\ new[j] = way[j]
      BY <1>1, <1>2, <2>4
    <3> QED BY <2>2, <2>3, <3>1 DEF PiecesOrdered
  <2>5. CASE j = Len(new)
    BY <1>2, <1>3, <2>3, <2>5
  <2> QED BY <2>4, <2>5
<1>6. \A i \in 1..Len(texts), j \in 1..Len(new) : RequestPlace(texts[i]) + 2 < PieceRank(new[j])
  <2>1. TAKE i \in 1..Len(texts), j \in 1..Len(new)
  <2>2. CASE j # Len(new)
    <3>1. j \in 1..Len(way) /\ new[j] = way[j]
      BY <1>1, <1>2, <2>2
    <3> QED BY <3>1 DEF PiecesOrdered
  <2>3. CASE j = Len(new)
    <3>1. new[j] = piece /\ RequestPlace(texts[i]) + 2 <= n /\ RequestPlace(texts[i]) \in Nat
      BY <1>2, <1>4, <2>3 DEF PiecesBelow
    <3> QED BY <1>3, <3>1
  <2> QED BY <2>2, <2>3
<1>7. \A j \in 1..Len(new) : new[j].m.kind \in Requests /\ PieceRank(new[j]) <= PieceRank(piece)
  <2>1. TAKE j \in 1..Len(new)
  <2>2. CASE j # Len(new)
    <3>1. j \in 1..Len(way) /\ new[j] = way[j]
      BY <1>1, <1>2, <2>2
    <3>2. PieceRank(way[j]) <= n /\ way[j].m.kind \in Requests /\ PieceRank(way[j]) \in Nat
      BY <1>3, <3>1 DEF PiecesOrdered, PiecesBelow
    <3> QED BY <1>3, <3>1, <3>2
  <2>3. CASE j = Len(new)
    BY <1>2, <1>3, <2>3
  <2> QED BY <2>2, <2>3
<1>8. \A i \in 1..Len(texts) : RequestPlace(texts[i]) + 2 <= PieceRank(piece)
  BY <1>3, <1>4 DEF PiecesBelow
<1> QED BY <1>5, <1>6, <1>7, <1>8 DEF PiecesOrdered, PiecesBelow, new

\* What is left behind the first piece keeps its order.
LEMMA TakeOrdered ==
  ASSUME NEW way \in Seq(PipePieces), NEW texts \in Seq(Requests), way # <<>>, PiecesOrdered(way, texts)
  PROVE  /\ PiecesOrdered(Tail(way), texts)
         /\ \A n \in Nat : PiecesBelow(way, texts, n) => PiecesBelow(Tail(way), texts, n)
<1>1. Len(way) \in Nat /\ Len(way) # 0 /\ Len(texts) \in Nat
  BY EmptySeq, LenProperties
<1>2. Len(Tail(way)) = Len(way) - 1 /\ \A i \in 1..Len(Tail(way)) : Tail(way)[i] = way[i + 1]
  BY HeadTailProperties
<1>3. \A i \in 1..Len(Tail(way)) : i + 1 \in 1..Len(way)
  BY <1>1, <1>2
<1>4. PiecesOrdered(Tail(way), texts)
  BY <1>1, <1>2, <1>3 DEF PiecesOrdered
<1>5. \A n \in Nat : PiecesBelow(way, texts, n) => PiecesBelow(Tail(way), texts, n)
  BY <1>2, <1>3 DEF PiecesBelow
<1> QED BY <1>4, <1>5

\* A frame that is read whole is a request behind those already told.
LEMMA TellOrdered ==
  ASSUME NEW way \in Seq(PipePieces), NEW texts \in Seq(Requests), way # <<>>, PiecesOrdered(way, texts),
         Head(way).part = "body"
  PROVE  /\ Head(way).m.kind \in Requests
         /\ PiecesOrdered(Tail(way), Append(texts, Head(way).m.kind))
         /\ \A n \in Nat : PiecesBelow(way, texts, n) => PiecesBelow(Tail(way), Append(texts, Head(way).m.kind), n)
<1> DEFINE kind == Head(way).m.kind
           new == Append(texts, kind)
<1>1. Len(way) \in Nat /\ Len(way) # 0 /\ Len(texts) \in Nat /\ Head(way) = way[1]
  BY EmptySeq, LenProperties
<1>2. Len(Tail(way)) = Len(way) - 1 /\ \A i \in 1..Len(Tail(way)) : Tail(way)[i] = way[i + 1]
  BY HeadTailProperties
<1>3. kind \in Requests /\ PieceRank(way[1]) = RequestPlace(kind) + 2
  BY <1>1 DEF PiecesOrdered, PieceRank
<1>4. Len(new) = Len(texts) + 1 /\ new[Len(texts) + 1] = kind /\ \A i \in 1..Len(texts) : new[i] = texts[i]
  BY <1>1, <1>3, AppendProperties
<1>5. \A p : PieceRank(p) \in Nat
  BY DEF PieceRank, RequestPlace
<1>6. \A k : RequestPlace(k) \in Nat
  BY DEF RequestPlace
<1> HIDE DEF new, kind
<1>7. \A j \in 1..Len(Tail(way)) : RequestPlace(kind) + 2 < PieceRank(Tail(way)[j]) /\ Tail(way)[j].m.kind \in Requests
  BY <1>1, <1>2, <1>3 DEF PiecesOrdered
<1>8. \A i \in 1..Len(texts) : RequestPlace(texts[i]) < RequestPlace(kind)
  BY <1>1, <1>3, <1>6 DEF PiecesOrdered
<1>9. PiecesOrdered(Tail(way), new)
  <2>1. \A i, j \in 1..Len(Tail(way)) : i < j => PieceRank(Tail(way)[i]) < PieceRank(Tail(way)[j])
    BY <1>1, <1>2 DEF PiecesOrdered
  <2>2. \A i, j \in 1..Len(new) : i < j => RequestPlace(new[i]) < RequestPlace(new[j])
    <3>1. TAKE i, j \in 1..Len(new)
    <3>2. HAVE i < j
    <3>3. i \in 1..Len(texts) /\ new[i] = texts[i]
      BY <1>1, <1>4, <3>2
    <3>4. CASE j # Len(new)
      <4>1. j \in 1..Len(texts) /\ new[j] = texts[j]
        BY <1>1, <1>4, <3>4
      <4> QED BY <3>2, <3>3, <4>1 DEF PiecesOrdered
    <3>5. CASE j = Len(new)
      BY <1>4, <1>8, <3>3, <3>5
    <3> QED BY <3>4, <3>5
  <2>3. \A i \in 1..Len(new), j \in 1..Len(Tail(way)) : RequestPlace(new[i]) + 2 < PieceRank(Tail(way)[j])
    <3>1. TAKE i \in 1..Len(new), j \in 1..Len(Tail(way))
    <3>2. j + 1 \in 1..Len(way) /\ Tail(way)[j] = way[j + 1]
      BY <1>1, <1>2
    <3>3. CASE i # Len(new)
      <4>1. i \in 1..Len(texts) /\ new[i] = texts[i]
        BY <1>1, <1>4, <3>3
      <4> QED BY <3>2, <4>1 DEF PiecesOrdered
    <3>4. CASE i = Len(new)
      BY <1>4, <1>7, <3>4
    <3> QED BY <3>3, <3>4
  <2> QED BY <1>7, <2>1, <2>2, <2>3 DEF PiecesOrdered
<1>10. \A n \in Nat : PiecesBelow(way, texts, n) => PiecesBelow(Tail(way), new, n)
  <2>1. SUFFICES ASSUME NEW n \in Nat, PiecesBelow(way, texts, n) PROVE PiecesBelow(Tail(way), new, n)
    OBVIOUS
  <2>2. \A j \in 1..Len(Tail(way)) : PieceRank(Tail(way)[j]) <= n
    <3>1. \A j \in 1..Len(Tail(way)) : j + 1 \in 1..Len(way)
      BY <1>1, <1>2
    <3> QED BY <1>2, <2>1, <3>1 DEF PiecesBelow
  <2>3. RequestPlace(kind) + 2 <= n
    <3>1. 1 \in 1..Len(way)
      BY <1>1
    <3>2. PieceRank(way[1]) <= n
      BY <2>1, <3>1 DEF PiecesBelow
    <3> QED BY <1>3, <3>2
  <2>4. \A i \in 1..Len(new) : RequestPlace(new[i]) + 2 <= n
    <3>1. TAKE i \in 1..Len(new)
    <3>2. CASE i # Len(new)
      <4>1. i \in 1..Len(texts) /\ new[i] = texts[i]
        BY <1>1, <1>4, <3>2
      <4> QED BY <2>1, <4>1 DEF PiecesBelow
    <3>3. CASE i = Len(new)
      BY <1>4, <2>3, <3>3
    <3> QED BY <3>2, <3>3
  <2> QED BY <2>2, <2>4 DEF PiecesBelow
<1> QED BY <1>3, <1>9, <1>10 DEF new, kind

\* Of what was said the next message is heard.
LEMMA HearNext ==
  ASSUME NEW texts \in Seq(PipeMessages), NEW frames \in Seq(PipeMessages), Begins(texts, frames), Len(texts) + 1 <= Len(frames)
  PROVE  LET new == Append(texts, frames[Len(texts) + 1])
         IN  new \in Seq(PipeMessages) /\ Begins(new, frames) /\ Len(new) = Len(texts) + 1
<1>1. Len(texts) \in Nat /\ Len(frames) \in Nat
  BY LenProperties
<1>2. frames[Len(texts) + 1] \in PipeMessages
  BY <1>1, ElementOfSeq
<1> DEFINE m == frames[Len(texts) + 1]
           new == Append(texts, m)
<1>3. new \in Seq(PipeMessages) /\ Len(new) = Len(texts) + 1 /\ new[Len(texts) + 1] = m
      /\ \A i \in 1..Len(texts) : new[i] = texts[i]
  BY <1>1, <1>2, AppendProperties
<1> QED BY <1>1, <1>3 DEF Begins

\* More may be said than is heard.
LEMMA SayNext ==
  ASSUME NEW texts \in Seq(PipeMessages), NEW frames \in Seq(PipeMessages), NEW m \in PipeMessages, Begins(texts, frames)
  PROVE  Begins(texts, Append(frames, m))
<1>1. Len(texts) \in Nat /\ Len(frames) \in Nat
  BY LenProperties
<1>2. Len(Append(frames, m)) = Len(frames) + 1 /\ \A i \in 1..Len(frames) : Append(frames, m)[i] = frames[i]
  BY <1>1, AppendProperties
<1> QED BY <1>1, <1>2 DEF Begins

\* An output with the number expected is the next one.
LEMMA CountNext ==
  ASSUME NEW texts \in Seq(PipeMessages), NEW m \in PipeMessages, NEW next, InSequence(texts, next),
         m.kind = "output" => m.n = next
  PROVE  next \in Nat /\ InSequence(Append(texts, m), IF m.kind = "output" THEN next + 1 ELSE next)
<1> DEFINE new == Append(texts, m)
           n == Len(texts)
<1>1. n \in Nat
  BY LenProperties
<1>2. Len(new) = n + 1 /\ new[n + 1] = m /\ \A i \in 1..n : new[i] = texts[i]
  BY <1>1, AppendProperties
<1> HIDE DEF new, n
<1>3. \A i \in 1..n : OutputsIn(new, i) = OutputsIn(texts, i)
  BY <1>1, <1>2 DEF OutputsIn
<1>4. OutputsIn(new, n) = OutputsIn(texts, n)
  BY <1>1, <1>2 DEF OutputsIn
<1>5. IsFiniteSet(OutputsIn(texts, n))
  <2>1. IsFiniteSet(1..n)
    BY <1>1, FS_Interval
  <2>2. OutputsIn(texts, n) \subseteq 1..n
    BY DEF OutputsIn
  <2> QED BY <2>1, <2>2, FS_Subset
<1>6. Cardinality(OutputsIn(texts, n)) \in Nat
  BY <1>5, FS_CardinalityType
<1>7. next = Cardinality(OutputsIn(texts, n)) + 1
  BY DEF InSequence, n
<1>8. OutputsIn(new, n + 1) = IF m.kind = "output" THEN OutputsIn(texts, n) \cup {n + 1} ELSE OutputsIn(texts, n)
  BY <1>1, <1>2 DEF OutputsIn
<1>9. n + 1 \notin OutputsIn(texts, n)
  BY <1>1 DEF OutputsIn
<1>10. Cardinality(OutputsIn(new, n + 1)) =
         IF m.kind = "output" THEN Cardinality(OutputsIn(texts, n)) + 1 ELSE Cardinality(OutputsIn(texts, n))
  BY <1>5, <1>8, <1>9, FS_AddElement
<1>11. \A i \in OutputsIn(new, Len(new)) : new[i].n = Cardinality(OutputsIn(new, i))
  <2>1. TAKE i \in OutputsIn(new, Len(new))
  <2>2. i \in 1..(n + 1) /\ new[i].kind = "output"
    BY <1>2 DEF OutputsIn
  <2>3. CASE i = n + 1
    BY <1>2, <1>7, <1>10, <2>2, <2>3
  <2>4. CASE i # n + 1
    <3>1. i \in 1..n /\ new[i] = texts[i] /\ i \in OutputsIn(texts, n)
      BY <1>1, <1>2, <2>2, <2>4 DEF OutputsIn
    <3> QED BY <1>3, <3>1 DEF InSequence, n
  <2> QED BY <2>3, <2>4
<1>12. (IF m.kind = "output" THEN next + 1 ELSE next) = Cardinality(OutputsIn(new, Len(new))) + 1
  BY <1>2, <1>6, <1>7, <1>10
<1>13. InSequence(new, IF m.kind = "output" THEN next + 1 ELSE next)
  BY <1>11, <1>12 DEF InSequence
<1> QED BY <1>6, <1>7, <1>13 DEF new

\* After an exit nothing is heard.
LEMMA EndNext ==
  ASSUME NEW texts \in Seq(PipeMessages), NEW m \in PipeMessages, NEW over \in BOOLEAN, ExitLast(texts, FALSE),
         m.kind = "exit" => over
  PROVE  ExitLast(Append(texts, m), over)
<1>1. Len(texts) \in Nat
  BY LenProperties
<1>2. Len(Append(texts, m)) = Len(texts) + 1 /\ Append(texts, m)[Len(texts) + 1] = m
      /\ \A i \in 1..Len(texts) : Append(texts, m)[i] = texts[i]
  BY <1>1, AppendProperties
<1> QED BY <1>1, <1>2 DEF ExitLast

\* Both counts are numbers.
LEMMA CountsAre == ASSUME PipeInv PROVE HeadersRead \in Nat /\ HostWritten \in Nat
BY LenProperties DEF PipeInv, PipeShaped, StreamsShaped, HeadersRead, HostWritten, RequestPlace

\* What a write of the peer puts into the stream.
LEMMA PeerPuts ==
  ASSUME PipeInv, peerCall.kind = "send", Begun, up' = Append(up, Piece(peerCall.at, peerCall.m))
  PROVE  /\ up' \in Seq(PipePieces) /\ said' \in Seq(PipeMessages) /\ Begins(heard, said')
         /\ ~pipeServer.failed => FramesNumbered(up', said', HeadersRead)
         /\ Len(said) <= Len(said') /\ \A i \in 1..Len(said) : said'[i] = said[i]
         /\ said' # <<>> /\ said'[Len(said')] = peerCall.m
<1> DEFINE m == peerCall.m
           piece == Piece(peerCall.at, m)
<1>1. up \in Seq(PipePieces) /\ said \in Seq(PipeMessages) /\ heard \in Seq(PipeMessages) /\ m \in PipeMessages
      /\ peerCall.at \in {"header", "body"}
  BY DEF PipeInv, PipeShaped, StreamsShaped, CallsShaped
<1>2. piece \in PipePieces /\ piece.m = m /\ piece.part = peerCall.at
  BY <1>1, MessagesAre
<1>3. Len(up) \in Nat /\ Len(said) \in Nat
  BY <1>1, LenProperties
<1>4. up' \in Seq(PipePieces) /\ up' # up
  BY <1>1, <1>2, <1>3, AppendProperties
<1>5. CASE peerCall.at = "header"
  <2>1. said' = Append(said, m)
    BY <1>4, <1>5 DEF Begun
  <2>2. said' \in Seq(PipeMessages) /\ Len(said') = Len(said) + 1 /\ said'[Len(said) + 1] = m
        /\ \A i \in 1..Len(said) : said'[i] = said[i]
    BY <1>1, <1>3, <2>1, AppendProperties
  <2>3. Begins(heard, said')
    BY <1>1, <2>1, SayNext DEF PipeInv, HeardSaid
  <2>4. said' # <<>>
    BY <1>3, <2>2, EmptySeq
  <2>5. ~pipeServer.failed => FramesNumbered(up', said', HeadersRead)
    <3>1. Len(said') # 0 /\ said'[Len(said')] = piece.m
          /\ Len(said') = Len(said) + (IF piece.part = "header" THEN 1 ELSE 0)
      BY <1>2, <1>3, <1>5, <2>2
    <3>2. HeadersRead \in Nat /\ (~pipeServer.failed => FramesNumbered(up, said, HeadersRead))
      BY CountsAre DEF PipeInv, UpNumbered
    <3> HIDE DEF piece
    <3> QED BY <1>1, <1>2, <2>2, <3>1, <3>2, PutNumbered DEF piece
  <2> QED BY <1>3, <1>4, <2>2, <2>3, <2>4, <2>5
<1>6. CASE peerCall.at = "body"
  <2>1. said' = said /\ said # <<>> /\ said[Len(said)] = m
    BY <1>6 DEF Begun, PipeInv, PeerHolds
  <2>2. Len(said) # 0
    BY <1>1, <2>1, EmptySeq
  <2>3. ~pipeServer.failed => FramesNumbered(up', said, HeadersRead)
    BY <1>1, <1>2, <1>3, <1>6, <2>1, <2>2, CountsAre, PutNumbered DEF PipeInv, UpNumbered
  <2> QED BY <1>1, <1>3, <1>4, <2>1, <2>3 DEF PipeInv, HeardSaid
<1> QED BY <1>1, <1>5, <1>6

\* What a write of the host puts into the stream.
\* What a write of the host puts into the stream.
LEMMA HostPuts ==
  ASSUME PipeInv, hostCall.kind = "send"
  PROVE  LET piece == Piece(hostCall.at, hostCall.m)
         IN  /\ Append(down, piece) \in Seq(PipePieces) /\ PiecesOrdered(Append(down, piece), told)
             /\ PiecesBelow(Append(down, piece), told, PieceRank(piece))
             /\ PieceRank(piece) = RequestPlace(hostCall.m.kind) + IF hostCall.at = "header" THEN 1 ELSE 2
             /\ hostCall.m.kind \in Requests /\ hostCall.at \in {"header", "body"} /\ pipeServer.authentic
             /\ ~pipeServer.cancel /\ (hostCall.m.kind = "spawn_request" => ~pipeServer.spawn)
<1> DEFINE piece == Piece(hostCall.at, hostCall.m)
<1>1. down \in Seq(PipePieces) /\ told \in Seq(Requests) /\ hostCall.m \in PipeMessages /\ pipeServer.authentic
  BY DEF PipeInv, PipeShaped, StreamsShaped, CallsShaped, InSession
<1>2. hostCall.m.kind \in Requests /\ hostCall.at \in {"header", "body"} /\ ~pipeServer.cancel
      /\ (hostCall.m.kind = "spawn_request" => ~pipeServer.spawn)
  BY DEF PipeInv, Sending
<1>3. piece \in PipePieces /\ piece.m = hostCall.m /\ piece.part = hostCall.at
  BY <1>1, <1>2, MessagesAre
<1>4. PieceRank(piece) = RequestPlace(hostCall.m.kind) + IF hostCall.at = "header" THEN 1 ELSE 2
  BY <1>3 DEF PieceRank
<1>5. HostWritten < PieceRank(piece)
  BY <1>2, <1>4 DEF HostWritten, RequestPlace, Requests
<1>6. PiecesOrdered(down, told) /\ PiecesBelow(down, told, HostWritten)
  BY DEF PipeInv, DownOrdered, DownWritten, InSession
<1>7. PiecesOrdered(Append(down, piece), told) /\ PiecesBelow(Append(down, piece), told, PieceRank(piece))
  BY <1>1, <1>2, <1>3, <1>5, <1>6, CountsAre, PutOrdered
<1>8. Append(down, piece) \in Seq(PipePieces)
  BY <1>1, <1>3, AppendProperties
<1> QED BY <1>1, <1>2, <1>4, <1>7, <1>8

\* The calls of the host: it waits for the runner, connects, begins to receive or to send.
LEMMA StartReadyKeeps == ASSUME PipeInv, StartReady PROVE PipeInv'
<1> USE DEF PipeInv, PipeShaped, ServerShaped, CallsShaped, EndsShaped, AsServer, AsPipeCall, StartReady, History,
     HostIdle
<1>0. PipeRest = AsPipeCall(PipeRest) /\ PipeRest.kind = "idle" /\ PipeRest.at = "header" /\ PipeRest.m \in PipeMessages
  BY RestIs
<1>1. ServerShaped'
BY <1>0
<1>2. CallsShaped'
BY <1>0
<1>3. InSession'
BY <1>0 DEF InSession, Ends
<1>4. Sending'
BY <1>0 DEF Sending, Requests
<1>5. HeardOutputs'
BY <1>0 DEF HeardOutputs
<1>6. HeardExit'
BY <1>0 DEF HeardExit
<1>7. UpNumbered'
BY <1>0 DEF UpNumbered, HeadersRead, HostReads
<1>8. HostHolds'
BY <1>0 DEF HostHolds, HeadersRead, HostReads
<1>9. DownWritten'
BY <1>0 DEF DownWritten, HostWritten, RequestPlace
<1>10. EndsShaped' /\ StreamsShaped' /\ HeardSaid' /\ PeerHolds' /\ DownOrdered'
BY <1>0 DEF StreamsShaped, HeardSaid, PeerHolds, DownOrdered
<1> QED BY <1>1, <1>2, <1>3, <1>4, <1>5, <1>6, <1>7, <1>8, <1>9, <1>10

LEMMA ConnectKeeps == ASSUME PipeInv, Connect PROVE PipeInv'
<1> USE DEF PipeInv, PipeShaped, ServerShaped, CallsShaped, EndsShaped, AsServer, AsPipeCall, Connect, Lapse,
     History, HostRaises
<1>0. PipeRest = AsPipeCall(PipeRest) /\ PipeRest.kind = "idle" /\ PipeRest.at = "header" /\ PipeRest.m \in PipeMessages
  BY RestIs
<1>1. ServerShaped'
BY <1>0
<1>2. CallsShaped'
BY <1>0
<1>3. InSession'
BY <1>0 DEF InSession, Ends
<1>4. Sending'
BY <1>0 DEF Sending, Requests
<1>5. HeardOutputs'
BY <1>0 DEF HeardOutputs
<1>6. HeardExit'
BY <1>0 DEF HeardExit
<1>7. UpNumbered'
BY <1>0 DEF UpNumbered, HeadersRead, HostReads
<1>8. HostHolds'
BY <1>0 DEF HostHolds, HeadersRead, HostReads
<1>9. DownWritten'
BY <1>0 DEF DownWritten, HostWritten, RequestPlace
<1>10. EndsShaped' /\ StreamsShaped' /\ HeardSaid' /\ PeerHolds' /\ DownOrdered'
BY <1>0 DEF StreamsShaped, HeardSaid, PeerHolds, DownOrdered
<1> QED BY <1>1, <1>2, <1>3, <1>4, <1>5, <1>6, <1>7, <1>8, <1>9, <1>10

LEMMA BeginReceiveKeeps == ASSUME PipeInv, BeginReceive PROVE PipeInv'
<1> USE DEF PipeInv, PipeShaped, ServerShaped, CallsShaped, EndsShaped, AsServer, AsPipeCall, BeginReceive,
     History, HostIdle, MayTalk
<1>0. PipeRest = AsPipeCall(PipeRest) /\ PipeRest.kind = "idle" /\ PipeRest.at = "header" /\ PipeRest.m \in PipeMessages
  BY RestIs
<1>1. CallsShaped'
BY <1>0
<1>2. InSession'
BY <1>0 DEF InSession, Ends
<1>3. Sending'
BY <1>0 DEF Sending, Requests
<1>4. UpNumbered'
BY <1>0 DEF UpNumbered, HeadersRead, HostReads
<1>5. HostHolds'
BY <1>0 DEF HostHolds, HeadersRead, HostReads
<1>6. DownWritten'
BY <1>0 DEF DownWritten, HostWritten, RequestPlace
<1>7. ServerShaped' /\ EndsShaped' /\ StreamsShaped' /\ HeardSaid' /\ HeardOutputs' /\ HeardExit' /\
     PeerHolds' /\ DownOrdered'
BY <1>0 DEF StreamsShaped, HeardSaid, HeardOutputs, HeardExit, PeerHolds, DownOrdered
<1> QED BY <1>1, <1>2, <1>3, <1>4, <1>5, <1>6, <1>7

LEMMA StartSendKeeps == ASSUME PipeInv, NEW r \in Requests, StartSend(r) PROVE PipeInv'
<1> USE DEF PipeInv, PipeShaped, ServerShaped, CallsShaped, EndsShaped, AsServer, AsPipeCall, StartSend, HostIdle,
     MayTalk, MaySend
<1>0. PipeRest = AsPipeCall(PipeRest) /\ PipeRest.kind = "idle" /\ PipeRest.at = "header" /\ PipeRest.m \in PipeMessages
  BY RestIs
<1>a. Message(r, 0, TRUE) \in PipeMessages /\ Message(r, 0, TRUE).kind = r
  BY MessagesAre
<1>1. CallsShaped'
BY <1>0, <1>a
<1>2. InSession'
BY <1>0, <1>a DEF InSession, Ends
<1>3. Sending'
BY <1>0, <1>a DEF Sending, Requests
<1>4. UpNumbered'
BY <1>0, <1>a DEF UpNumbered, HeadersRead, HostReads
<1>5. HostHolds'
BY <1>0, <1>a DEF HostHolds, HeadersRead, HostReads
<1>6. DownWritten'
BY <1>0, <1>a DEF DownWritten, HostWritten, RequestPlace
<1>7. ServerShaped' /\ EndsShaped' /\ StreamsShaped' /\ HeardSaid' /\ HeardOutputs' /\ HeardExit' /\
     PeerHolds' /\ DownOrdered'
BY <1>0 DEF StreamsShaped, HeardSaid, HeardOutputs, HeardExit, PeerHolds, DownOrdered
<1> QED BY <1>1, <1>2, <1>3, <1>4, <1>5, <1>6, <1>7

\* The host reads: the header of a frame, then its body, or the read fails.
LEMMA HostReadsPieceKeeps == ASSUME PipeInv, HostReadsPiece PROVE PipeInv'
<1> USE DEF PipeInv, PipeShaped, ServerShaped, CallsShaped, EndsShaped, AsServer, AsPipeCall, HostReadsPiece,
     History, HostRaises, HostReads
<1>0. PipeRest = AsPipeCall(PipeRest) /\ PipeRest.kind = "idle" /\ PipeRest.at = "header" /\ PipeRest.m \in PipeMessages
  BY RestIs
<1>a. Head(up) \in PipePieces /\ Tail(up) \in Seq(PipePieces) /\ Head(up).m \in PipeMessages
  <2>1. up \in Seq(PipePieces)
    BY DEF StreamsShaped
  <2>2. Head(up) \in PipePieces /\ Tail(up) \in Seq(PipePieces)
    BY <2>1, HeadTailProperties
  <2> QED BY <2>2 DEF PipePieces
<1>b. ~pipeServer.failed /\ Len(heard) \in Nat /\ Head(up).part \in {"header", "body"}
  BY <1>a, LenProperties DEF InSession, StreamsShaped, PipePieces
<1>c. LET now == HeadersRead + (IF Head(up).part = "header" THEN 1 ELSE 0)
      IN  FramesNumbered(Tail(up), said, now) /\ now \in 1..Len(said) /\ Head(up).m = said[now]
  BY <1>b, CountsAre, TakeNumbered DEF StreamsShaped, UpNumbered
<1>d. Head(up).part = hostCall.at => HeadersRead' = HeadersRead + (IF Head(up).part = "header" THEN 1 ELSE 0)
  <2>1. HAVE Head(up).part = hostCall.at
  <2>2. hostCall'.kind = hostCall.kind /\ hostCall'.at = (IF hostCall.at = "header" THEN "body" ELSE "check")
        /\ heard' = heard /\ HostReads /\ hostCall.at \in {"header", "body"}
    BY <1>b, <2>1
  <2>3. HostReads' /\ hostCall'.at # "header" /\ Len(heard') = Len(heard)
    BY <2>2
  <2> HIDE DEF HostReadsPiece, PipeInv, HostReads, HostRaises
  <2>4. HeadersRead' = Len(heard) + 1
    BY <2>3 DEF HeadersRead
  <2>5. CASE hostCall.at = "header"
    <3>1. HeadersRead = Len(heard) + 0
      BY <2>5 DEF HeadersRead
    <3> QED BY <1>b, <2>1, <2>4, <2>5, <3>1
  <2>6. CASE hostCall.at = "body"
    <3>1. HeadersRead = Len(heard) + 1
      BY <2>2, <2>6 DEF HeadersRead
    <3> QED BY <1>b, <2>1, <2>4, <2>6, <3>1
  <2> QED BY <2>2, <2>5, <2>6
<1>1. ServerShaped'
BY <1>0, <1>a, <1>b, <1>c, <1>d
<1>2. CallsShaped'
BY <1>0, <1>a, <1>b, <1>c, <1>d
<1>3. StreamsShaped'
BY <1>0, <1>a, <1>b, <1>c, <1>d DEF StreamsShaped
<1>4. InSession'
BY <1>0, <1>a, <1>b, <1>c, <1>d DEF InSession, Ends
<1>5. Sending'
BY <1>0, <1>a, <1>b, <1>c, <1>d DEF Sending, Requests
<1>6. HeardOutputs'
BY <1>0, <1>a, <1>b, <1>c, <1>d DEF HeardOutputs
<1>7. HeardExit'
BY <1>0, <1>a, <1>b, <1>c, <1>d DEF HeardExit
<1>8. UpNumbered'
  <2>1. CASE Head(up).part = hostCall.at
    BY <1>c, <1>d, <2>1 DEF UpNumbered
  <2>2. CASE Head(up).part # hostCall.at
    BY <1>0, <2>2 DEF UpNumbered
  <2> QED BY <2>1, <2>2
<1>9. HostHolds'
  <2>1. CASE Head(up).part = hostCall.at
    <3>1. hostCall'.m = Head(up).m
      BY <2>1
    <3> QED BY <1>c, <1>d, <2>1, <3>1 DEF HostHolds
  <2>2. CASE Head(up).part # hostCall.at
    BY <1>0, <2>2 DEF HostHolds
  <2> QED BY <2>1, <2>2
<1>10. DownWritten'
BY <1>0, <1>a, <1>b, <1>c, <1>d DEF DownWritten, HostWritten, RequestPlace
<1>11. EndsShaped' /\ HeardSaid' /\ PeerHolds' /\ DownOrdered'
BY <1>0 DEF HeardSaid, PeerHolds, DownOrdered
<1> QED BY <1>1, <1>2, <1>3, <1>4, <1>5, <1>6, <1>7, <1>8, <1>9, <1>10, <1>11

LEMMA HostReadFailsKeeps == ASSUME PipeInv, HostReadFails PROVE PipeInv'
<1> USE DEF PipeInv, PipeShaped, ServerShaped, CallsShaped, EndsShaped, AsServer, AsPipeCall, HostReadFails,
     Lapse, History, HostRaises, HostReads
<1>0. PipeRest = AsPipeCall(PipeRest) /\ PipeRest.kind = "idle" /\ PipeRest.at = "header" /\ PipeRest.m \in PipeMessages
  BY RestIs
<1>1. ServerShaped'
BY <1>0
<1>2. CallsShaped'
BY <1>0
<1>3. EndsShaped'
BY <1>0 DEF Ends
<1>4. InSession'
BY <1>0 DEF InSession, Ends
<1>5. Sending'
BY <1>0 DEF Sending, Requests
<1>6. HeardOutputs'
BY <1>0 DEF HeardOutputs
<1>7. HeardExit'
BY <1>0 DEF HeardExit
<1>8. UpNumbered'
BY <1>0 DEF UpNumbered, HeadersRead
<1>9. HostHolds'
BY <1>0 DEF HostHolds, HeadersRead
<1>10. DownWritten'
BY <1>0 DEF DownWritten, HostWritten, RequestPlace
<1>11. StreamsShaped' /\ HeardSaid' /\ PeerHolds' /\ DownOrdered'
BY <1>0 DEF StreamsShaped, HeardSaid, PeerHolds, DownOrdered
<1> QED BY <1>1, <1>2, <1>3, <1>4, <1>5, <1>6, <1>7, <1>8, <1>9, <1>10, <1>11

\* What was read is checked before it counts as heard.
LEMMA CheckReadyKeeps == ASSUME PipeInv, CheckReady PROVE PipeInv'
<1> USE DEF PipeInv, PipeShaped, ServerShaped, CallsShaped, EndsShaped, AsServer, AsPipeCall, CheckReady,
     HostRaises, Authentic
<1>0. PipeRest = AsPipeCall(PipeRest) /\ PipeRest.kind = "idle" /\ PipeRest.at = "header" /\ PipeRest.m \in PipeMessages
  BY RestIs
<1>a. hostCall.m \in PipeMessages /\ Len(heard) + 1 <= Len(said) /\ hostCall.m = said[Len(heard) + 1]
      /\ heard \in Seq(PipeMessages) /\ said \in Seq(PipeMessages) /\ Len(heard) \in Nat
  BY LenProperties DEF StreamsShaped, HostHolds, HostReads, HeadersRead
<1>b. Append(heard, hostCall.m) \in Seq(PipeMessages) /\ Begins(Append(heard, hostCall.m), said)
      /\ Len(Append(heard, hostCall.m)) = Len(heard) + 1
  BY <1>a, HearNext DEF HeardSaid
<1>c. (hostCall.m.kind = "output" => hostCall.m.n = pipeServer.next)
      => InSequence(Append(heard, hostCall.m), IF hostCall.m.kind = "output" THEN pipeServer.next + 1
                                               ELSE pipeServer.next)
  BY <1>a, CountNext DEF HeardOutputs
<1>d. ~pipeServer.terminal /\ ~pipeServer.failed /\ ExitLast(heard, FALSE)
  BY DEF InSession, HeardExit, ExitLast
<1>e. \A over \in BOOLEAN : (hostCall.m.kind = "exit" => over) => ExitLast(Append(heard, hostCall.m), over)
  BY <1>a, <1>d, EndNext
<1>1. ServerShaped'
BY <1>0, <1>a, <1>b, <1>c, <1>d, <1>e
<1>2. CallsShaped'
BY <1>0, <1>a, <1>b, <1>c, <1>d, <1>e
<1>3. StreamsShaped'
BY <1>0, <1>a, <1>b, <1>c, <1>d, <1>e DEF StreamsShaped
<1>4. InSession'
BY <1>0, <1>a, <1>b, <1>c, <1>d, <1>e DEF InSession, Ends
<1>5. Sending'
BY <1>0, <1>a, <1>b, <1>c, <1>d, <1>e DEF Sending, Requests
<1>6. HeardSaid'
BY <1>0, <1>a, <1>b, <1>c, <1>d, <1>e DEF HeardSaid
<1>7. HeardOutputs'
BY <1>0, <1>a, <1>b, <1>c, <1>d, <1>e DEF HeardOutputs
<1>8. HeardExit'
BY <1>0, <1>a, <1>b, <1>c, <1>d, <1>e DEF HeardExit
<1>9. UpNumbered'
BY <1>0, <1>a, <1>b, <1>c, <1>d, <1>e DEF UpNumbered, HeadersRead, HostReads
<1>10. HostHolds'
BY <1>0, <1>a, <1>b, <1>c, <1>d, <1>e DEF HostHolds, HeadersRead, HostReads
<1>11. DownWritten'
BY <1>0, <1>a, <1>b, <1>c, <1>d, <1>e DEF DownWritten, HostWritten, RequestPlace
<1>12. EndsShaped' /\ PeerHolds' /\ DownOrdered'
BY <1>0 DEF PeerHolds, DownOrdered
<1> QED BY <1>1, <1>2, <1>3, <1>4, <1>5, <1>6, <1>7, <1>8, <1>9, <1>10, <1>11, <1>12

LEMMA CheckReceivedKeeps == ASSUME PipeInv, CheckReceived PROVE PipeInv'
<1> USE DEF PipeInv, PipeShaped, ServerShaped, CallsShaped, EndsShaped, AsServer, AsPipeCall, CheckReceived,
     HostRaises
<1>0. PipeRest = AsPipeCall(PipeRest) /\ PipeRest.kind = "idle" /\ PipeRest.at = "header" /\ PipeRest.m \in PipeMessages
  BY RestIs
<1>a. hostCall.m \in PipeMessages /\ Len(heard) + 1 <= Len(said) /\ hostCall.m = said[Len(heard) + 1]
      /\ heard \in Seq(PipeMessages) /\ said \in Seq(PipeMessages) /\ Len(heard) \in Nat
  BY LenProperties DEF StreamsShaped, HostHolds, HostReads, HeadersRead
<1>b. Append(heard, hostCall.m) \in Seq(PipeMessages) /\ Begins(Append(heard, hostCall.m), said)
      /\ Len(Append(heard, hostCall.m)) = Len(heard) + 1
  BY <1>a, HearNext DEF HeardSaid
<1>c. (hostCall.m.kind = "output" => hostCall.m.n = pipeServer.next)
      => InSequence(Append(heard, hostCall.m), IF hostCall.m.kind = "output" THEN pipeServer.next + 1
                                               ELSE pipeServer.next)
  BY <1>a, CountNext DEF HeardOutputs
<1>d. ~pipeServer.terminal /\ ~pipeServer.failed /\ ExitLast(heard, FALSE)
  BY DEF InSession, HeardExit, ExitLast
<1>e. \A over \in BOOLEAN : (hostCall.m.kind = "exit" => over) => ExitLast(Append(heard, hostCall.m), over)
  BY <1>a, <1>d, EndNext
<1>f. \/ ~Accepts(hostCall.m) /\ HostRaises /\ heard' = heard
      \/ /\ heard' = Append(heard, hostCall.m) /\ hostCall' = PipeRest
         /\ hostCall.m.kind = "output" => hostCall.m.n = pipeServer.next
         /\ pipeServer'.next = IF hostCall.m.kind = "output" THEN pipeServer.next + 1 ELSE pipeServer.next
         /\ pipeServer' = AsServer(pipeServer')
         /\ pipeServer'.authentic = pipeServer.authentic /\ pipeServer'.failed = pipeServer.failed
         /\ pipeServer'.spawn = pipeServer.spawn /\ pipeServer'.cancel = pipeServer.cancel
         /\ pipeServer'.attempted = pipeServer.attempted
         /\ pipeServer'.terminal \in BOOLEAN /\ (hostCall.m.kind = "exit" => pipeServer'.terminal)
  BY <1>d DEF Accepts
<1> HIDE DEF CheckReceived
<1>g. pipeServer.next \in Nat
  OBVIOUS
<1>h. hostCall.kind = "receive" /\ hostCall.at = "check" /\ UNCHANGED <<up, down, peer, peerCall, stuck, said, told>>
  BY DEF CheckReceived, History
<1>1. ServerShaped'
  <2>1. CASE heard' = heard /\ HostRaises
    BY <2>1
  <2>2. CASE ~HostRaises
    <3>1. pipeServer' = AsServer(pipeServer') /\ pipeServer'.terminal \in BOOLEAN
          /\ pipeServer'.authentic = pipeServer.authentic /\ pipeServer'.failed = pipeServer.failed
          /\ pipeServer'.spawn = pipeServer.spawn /\ pipeServer'.cancel = pipeServer.cancel
          /\ pipeServer'.attempted = pipeServer.attempted /\ pipeServer'.next \in Nat
      BY <1>f, <1>g, <2>2
    <3> QED BY <3>1
  <2> QED BY <1>f, <2>1, <2>2
<1>2. CallsShaped'
BY <1>0, <1>a, <1>b, <1>c, <1>d, <1>e, <1>f, <1>g, <1>h
<1>3. StreamsShaped'
BY <1>0, <1>a, <1>b, <1>c, <1>d, <1>e, <1>f, <1>g, <1>h DEF StreamsShaped
<1>4. InSession'
BY <1>0, <1>a, <1>b, <1>c, <1>d, <1>e, <1>f, <1>g, <1>h DEF InSession, Ends
<1>5. Sending'
BY <1>0, <1>a, <1>b, <1>c, <1>d, <1>e, <1>f, <1>g, <1>h DEF Sending, Requests
<1>6. HeardSaid'
BY <1>0, <1>a, <1>b, <1>c, <1>d, <1>e, <1>f, <1>g, <1>h DEF HeardSaid
<1>7. HeardOutputs'
BY <1>0, <1>a, <1>b, <1>c, <1>d, <1>e, <1>f, <1>g, <1>h DEF HeardOutputs
<1>8. HeardExit'
BY <1>0, <1>a, <1>b, <1>c, <1>d, <1>e, <1>f, <1>g, <1>h DEF HeardExit
<1>9. UpNumbered'
BY <1>0, <1>a, <1>b, <1>c, <1>d, <1>e, <1>f, <1>g, <1>h DEF UpNumbered, HeadersRead, HostReads
<1>10. HostHolds'
BY <1>0, <1>a, <1>b, <1>c, <1>d, <1>e, <1>f, <1>g, <1>h DEF HostHolds, HeadersRead, HostReads
<1>11. DownWritten'
BY <1>0, <1>a, <1>b, <1>c, <1>d, <1>e, <1>f, <1>g, <1>h DEF DownWritten, HostWritten, RequestPlace
<1>12. EndsShaped' /\ PeerHolds' /\ DownOrdered'
  BY <1>0, <1>h DEF PeerHolds, DownOrdered
<1> QED BY <1>1, <1>2, <1>3, <1>4, <1>5, <1>6, <1>7, <1>8, <1>9, <1>10, <1>11, <1>12

\* The host writes, fails to, or closes.
LEMMA HostWritesPieceKeeps == ASSUME PipeInv, HostWritesPiece PROVE PipeInv'
<1> USE DEF PipeInv, PipeShaped, ServerShaped, CallsShaped, EndsShaped, AsServer, AsPipeCall, HostWritesPiece,
     History, Transfers, Piece
<1>0. PipeRest = AsPipeCall(PipeRest) /\ PipeRest.kind = "idle" /\ PipeRest.at = "header" /\ PipeRest.m \in PipeMessages
  BY RestIs
<1>a. LET piece == Piece(hostCall.at, hostCall.m)
      IN  /\ Append(down, piece) \in Seq(PipePieces) /\ PiecesOrdered(Append(down, piece), told)
          /\ PiecesBelow(Append(down, piece), told, PieceRank(piece))
          /\ PieceRank(piece) = RequestPlace(hostCall.m.kind) + IF hostCall.at = "header" THEN 1 ELSE 2
          /\ hostCall.m.kind \in Requests /\ hostCall.at \in {"header", "body"} /\ pipeServer.authentic
          /\ ~pipeServer.cancel /\ (hostCall.m.kind = "spawn_request" => ~pipeServer.spawn)
  BY HostPuts
<1>b. down' = Append(down, Piece(hostCall.at, hostCall.m))
  OBVIOUS
<1>c. HostWritten' = RequestPlace(hostCall.m.kind) + IF hostCall.at = "header" THEN 1 ELSE 2
  BY <1>0, <1>a DEF HostWritten, RequestPlace, Requests
<1>1. ServerShaped'
BY <1>0, <1>a, <1>b, <1>c
<1>2. CallsShaped'
BY <1>0, <1>a, <1>b, <1>c
<1>3. StreamsShaped'
  BY <1>a, <1>b DEF StreamsShaped
<1>4. InSession'
BY <1>0, <1>a, <1>b, <1>c DEF InSession, Ends
<1>5. Sending'
BY <1>0, <1>a, <1>b, <1>c DEF Sending, Requests
<1>6. HeardOutputs'
BY <1>0, <1>a, <1>b, <1>c DEF HeardOutputs
<1>7. HeardExit'
BY <1>0, <1>a, <1>b, <1>c DEF HeardExit
<1>8. UpNumbered'
BY <1>0, <1>a, <1>b, <1>c DEF UpNumbered, HeadersRead, HostReads
<1>9. HostHolds'
BY <1>0, <1>a, <1>b, <1>c DEF HostHolds, HeadersRead, HostReads
<1>10. DownOrdered'
  BY <1>a, <1>b DEF DownOrdered
<1>11. DownWritten'
  BY <1>a, <1>b, <1>c DEF DownWritten
<1>12. EndsShaped' /\ HeardSaid' /\ PeerHolds'
BY <1>0 DEF HeardSaid, PeerHolds
<1> QED BY <1>1, <1>2, <1>3, <1>4, <1>5, <1>6, <1>7, <1>8, <1>9, <1>10, <1>11, <1>12

LEMMA HostWriteFailsKeeps == ASSUME PipeInv, HostWriteFails PROVE PipeInv'
<1> USE DEF PipeInv, PipeShaped, ServerShaped, CallsShaped, EndsShaped, AsServer, AsPipeCall, HostWriteFails,
     Lapse, History, WriteLeft, HostRaises, SendRaises, Piece
<1>0. PipeRest = AsPipeCall(PipeRest) /\ PipeRest.kind = "idle" /\ PipeRest.at = "header" /\ PipeRest.m \in PipeMessages
  BY RestIs
<1>a. LET piece == Piece(hostCall.at, hostCall.m)
      IN  /\ Append(down, piece) \in Seq(PipePieces) /\ PiecesOrdered(Append(down, piece), told) /\ pipeServer.authentic
  BY HostPuts
<1>b. down' = down \/ down' = Append(down, Piece(hostCall.at, hostCall.m))
  OBVIOUS
<1>1. ServerShaped'
BY <1>0, <1>a, <1>b
<1>2. CallsShaped'
BY <1>0, <1>a, <1>b
<1>3. StreamsShaped'
  BY <1>a, <1>b DEF StreamsShaped
<1>4. InSession'
BY <1>0, <1>a, <1>b DEF InSession, Ends
<1>5. Sending'
BY <1>0, <1>a, <1>b DEF Sending, Requests
<1>6. HeardOutputs'
BY <1>0, <1>a, <1>b DEF HeardOutputs
<1>7. HeardExit'
BY <1>0, <1>a, <1>b DEF HeardExit
<1>8. UpNumbered'
BY <1>0, <1>a, <1>b DEF UpNumbered, HeadersRead, HostReads
<1>9. HostHolds'
BY <1>0, <1>a, <1>b DEF HostHolds, HeadersRead, HostReads
<1>10. DownOrdered'
  BY <1>a, <1>b DEF DownOrdered
<1>11. DownWritten'
BY <1>0, <1>a, <1>b DEF DownWritten, HostWritten, RequestPlace
<1>12. EndsShaped' /\ HeardSaid' /\ PeerHolds'
BY <1>0 DEF HeardSaid, PeerHolds
<1> QED BY <1>1, <1>2, <1>3, <1>4, <1>5, <1>6, <1>7, <1>8, <1>9, <1>10, <1>11, <1>12

LEMMA HostClosesKeeps == ASSUME PipeInv, HostCloses PROVE PipeInv'
<1> USE DEF PipeInv, PipeShaped, ServerShaped, CallsShaped, EndsShaped, AsServer, AsPipeCall, HostCloses, History,
     HostIdle
<1>0. PipeRest = AsPipeCall(PipeRest) /\ PipeRest.kind = "idle" /\ PipeRest.at = "header" /\ PipeRest.m \in PipeMessages
  BY RestIs
<1>1. ServerShaped'
BY <1>0
<1>2. InSession'
BY <1>0 DEF InSession, Ends
<1>3. Sending'
BY <1>0 DEF Sending, Requests
<1>4. HeardOutputs'
BY <1>0 DEF HeardOutputs
<1>5. HeardExit'
BY <1>0 DEF HeardExit
<1>6. UpNumbered'
BY <1>0 DEF UpNumbered, HeadersRead, HostReads
<1>7. DownWritten'
BY <1>0 DEF DownWritten, HostWritten, RequestPlace
<1>8. CallsShaped' /\ EndsShaped' /\ StreamsShaped' /\ HeardSaid' /\ HostHolds' /\ PeerHolds' /\ DownOrdered'
BY <1>0 DEF StreamsShaped, HeardSaid, HostHolds, PeerHolds, DownOrdered, HeadersRead, HostReads
<1> QED BY <1>1, <1>2, <1>3, <1>4, <1>5, <1>6, <1>7, <1>8

\* The other end, whoever it is.
LEMMA OpenClientKeeps == ASSUME PipeInv, NEW who \in {"runner", "other"}, OpenClient(who) PROVE PipeInv'
<1> USE DEF PipeInv, PipeShaped, ServerShaped, CallsShaped, EndsShaped, AsServer, AsPipeCall, OpenClient, History
<1>0. PipeRest = AsPipeCall(PipeRest) /\ PipeRest.kind = "idle" /\ PipeRest.at = "header" /\ PipeRest.m \in PipeMessages
  BY RestIs
<1>1. EndsShaped'
BY <1>0 DEF Ends
<1>2. InSession'
BY <1>0 DEF InSession, Ends
<1>3. ServerShaped' /\ CallsShaped' /\ StreamsShaped' /\ Sending' /\ HeardSaid' /\ HeardOutputs' /\ HeardExit'
     /\ UpNumbered' /\ HostHolds' /\ PeerHolds' /\ DownOrdered' /\ DownWritten'
BY <1>0 DEF StreamsShaped, Sending, HeardSaid, HeardOutputs, HeardExit, UpNumbered, HostHolds, PeerHolds,
     DownOrdered, DownWritten, HeadersRead, HostReads, HostWritten
<1> QED BY <1>1, <1>2, <1>3

LEMMA PeerStartSendKeeps == ASSUME PipeInv, NEW m \in Replies, PeerStartSend(m) PROVE PipeInv'
<1> USE DEF PipeInv, PipeShaped, ServerShaped, CallsShaped, EndsShaped, AsServer, AsPipeCall, PeerStartSend,
     History, PeerIdle
<1>0. PipeRest = AsPipeCall(PipeRest) /\ PipeRest.kind = "idle" /\ PipeRest.at = "header" /\ PipeRest.m \in PipeMessages
  BY RestIs
<1>a. m \in PipeMessages
  BY MessagesAre
<1>1. CallsShaped'
BY <1>0, <1>a
<1>2. PeerHolds'
BY <1>0, <1>a DEF PeerHolds
<1>3. ServerShaped' /\ EndsShaped' /\ StreamsShaped' /\ InSession' /\ Sending' /\ HeardSaid' /\ HeardOutputs'
     /\ HeardExit' /\ UpNumbered' /\ HostHolds' /\ DownOrdered' /\ DownWritten'
BY <1>0 DEF StreamsShaped, InSession, Sending, HeardSaid, HeardOutputs, HeardExit, UpNumbered, HostHolds,
     DownOrdered, DownWritten, HeadersRead, HostReads, HostWritten
<1> QED BY <1>1, <1>2, <1>3

LEMMA PeerWritesPieceKeeps == ASSUME PipeInv, PeerWritesPiece PROVE PipeInv'
<1> USE DEF PipeInv, PipeShaped, ServerShaped, CallsShaped, EndsShaped, AsServer, AsPipeCall, PeerWritesPiece,
     Transfers, Begun, Piece
<1>0. PipeRest = AsPipeCall(PipeRest) /\ PipeRest.kind = "idle" /\ PipeRest.at = "header" /\ PipeRest.m \in PipeMessages
  BY RestIs
<1>a. /\ up' \in Seq(PipePieces) /\ said' \in Seq(PipeMessages) /\ Begins(heard, said')
      /\ ~pipeServer.failed => FramesNumbered(up', said', HeadersRead)
      /\ Len(said) <= Len(said') /\ \A i \in 1..Len(said) : said'[i] = said[i]
      /\ said' # <<>> /\ said'[Len(said')] = peerCall.m
  BY PeerPuts
<1>b. HeadersRead' = HeadersRead /\ HeadersRead \in Nat /\ (HostReads /\ hostCall.at # "header" => HeadersRead # 0)
  BY CountsAre, LenProperties DEF HeadersRead, HostReads, StreamsShaped
<1>1. CallsShaped'
BY <1>0, <1>a, <1>b
<1>2. StreamsShaped'
BY <1>0, <1>a, <1>b DEF StreamsShaped
<1>3. HeardSaid'
BY <1>0, <1>a, <1>b DEF HeardSaid
<1>4. UpNumbered'
BY <1>0, <1>a, <1>b DEF UpNumbered, HeadersRead, HostReads
<1>5. HostHolds'
BY <1>0, <1>a, <1>b DEF HostHolds, HeadersRead, HostReads
<1>6. PeerHolds'
BY <1>0, <1>a, <1>b DEF PeerHolds
<1>7. ServerShaped' /\ EndsShaped' /\ InSession' /\ Sending' /\ HeardOutputs' /\ HeardExit' /\ DownOrdered' /\
     DownWritten'
BY <1>0 DEF InSession, Sending, HeardOutputs, HeardExit, DownOrdered, DownWritten, HostWritten
<1> QED BY <1>1, <1>2, <1>3, <1>4, <1>5, <1>6, <1>7

LEMMA PeerStartReceiveKeeps == ASSUME PipeInv, PeerStartReceive PROVE PipeInv'
<1> USE DEF PipeInv, PipeShaped, ServerShaped, CallsShaped, EndsShaped, AsServer, AsPipeCall, PeerStartReceive,
     History, PeerIdle
<1>0. PipeRest = AsPipeCall(PipeRest) /\ PipeRest.kind = "idle" /\ PipeRest.at = "header" /\ PipeRest.m \in PipeMessages
  BY RestIs
<1>1. CallsShaped'
BY <1>0
<1>2. PeerHolds'
BY <1>0 DEF PeerHolds
<1>3. ServerShaped' /\ EndsShaped' /\ StreamsShaped' /\ InSession' /\ Sending' /\ HeardSaid' /\ HeardOutputs'
     /\ HeardExit' /\ UpNumbered' /\ HostHolds' /\ DownOrdered' /\ DownWritten'
BY <1>0 DEF StreamsShaped, InSession, Sending, HeardSaid, HeardOutputs, HeardExit, UpNumbered, HostHolds,
     DownOrdered, DownWritten, HeadersRead, HostReads, HostWritten
<1> QED BY <1>1, <1>2, <1>3

LEMMA PeerReadsPieceKeeps == ASSUME PipeInv, PeerReadsPiece PROVE PipeInv'
<1> USE DEF PipeInv, PipeShaped, ServerShaped, CallsShaped, EndsShaped, AsServer, AsPipeCall, PeerReadsPiece
<1>0. PipeRest = AsPipeCall(PipeRest) /\ PipeRest.kind = "idle" /\ PipeRest.at = "header" /\ PipeRest.m \in PipeMessages
  BY RestIs
<1>a. down \in Seq(PipePieces) /\ told \in Seq(Requests) /\ PiecesOrdered(down, told)
  BY DEF StreamsShaped, DownOrdered
<1>b. Tail(down) \in Seq(PipePieces) /\ PiecesOrdered(Tail(down), told)
      /\ (PiecesBelow(down, told, HostWritten) => PiecesBelow(Tail(down), told, HostWritten))
  BY <1>a, CountsAre, HeadTailProperties, TakeOrdered
<1>c. Head(down).part = "body" =>
        /\ Append(told, Head(down).m.kind) \in Seq(Requests)
        /\ PiecesOrdered(Tail(down), Append(told, Head(down).m.kind))
        /\ (PiecesBelow(down, told, HostWritten) => PiecesBelow(Tail(down), Append(told, Head(down).m.kind), HostWritten))
  BY <1>a, CountsAre, AppendProperties, TellOrdered
<1>d. HostWritten' = HostWritten
  BY DEF HostWritten
<1>1. CallsShaped'
BY <1>0, <1>a, <1>b, <1>c, <1>d
<1>2. StreamsShaped'
BY <1>0, <1>a, <1>b, <1>c, <1>d DEF StreamsShaped
<1>3. InSession'
BY <1>0, <1>a, <1>b, <1>c, <1>d DEF InSession, Ends
<1>4. PeerHolds'
BY <1>0, <1>a, <1>b, <1>c, <1>d DEF PeerHolds
<1>5. DownOrdered'
BY <1>0, <1>a, <1>b, <1>c, <1>d DEF DownOrdered
<1>6. DownWritten'
  BY <1>b, <1>c, <1>d DEF DownWritten
<1>7. ServerShaped' /\ EndsShaped' /\ Sending' /\ HeardSaid' /\ HeardOutputs' /\ HeardExit' /\ UpNumbered' /\
     HostHolds'
BY <1>0 DEF Sending, HeardSaid, HeardOutputs, HeardExit, UpNumbered, HostHolds, HeadersRead, HostReads
<1> QED BY <1>1, <1>2, <1>3, <1>4, <1>5, <1>6, <1>7

\* Its calls fail, it dies, and a read that blocked is served.
LEMMA PeerCallFailsKeeps == ASSUME PipeInv, PeerCallFails PROVE PipeInv'
<1> USE DEF PipeInv, PipeShaped, ServerShaped, CallsShaped, EndsShaped, AsServer, AsPipeCall, PeerCallFails,
     Lapse, WriteLeft, Begun, Piece
<1>0. PipeRest = AsPipeCall(PipeRest) /\ PipeRest.kind = "idle" /\ PipeRest.at = "header" /\ PipeRest.m \in PipeMessages
  BY RestIs
<1>a. \/ up' = up /\ said' = said
      \/ /\ up' \in Seq(PipePieces) /\ said' \in Seq(PipeMessages) /\ Begins(heard, said')
         /\ ~pipeServer.failed => FramesNumbered(up', said', HeadersRead)
         /\ Len(said) <= Len(said') /\ \A i \in 1..Len(said) : said'[i] = said[i]
  <2>1. CASE up' = up
    BY <2>1
  <2>2. CASE up' # up
    BY <2>2, PeerPuts
  <2> QED BY <2>1, <2>2
<1>b. HeadersRead' = HeadersRead /\ HeadersRead \in Nat /\ (HostReads /\ hostCall.at # "header" => HeadersRead # 0)
  BY CountsAre, LenProperties DEF HeadersRead, HostReads, StreamsShaped
<1>1. CallsShaped'
BY <1>0, <1>a, <1>b
<1>2. EndsShaped'
BY <1>0, <1>a, <1>b DEF Ends
<1>3. StreamsShaped'
BY <1>0, <1>a, <1>b DEF StreamsShaped
<1>4. InSession'
BY <1>0, <1>a, <1>b DEF InSession, Ends
<1>5. HeardSaid'
BY <1>0, <1>a, <1>b DEF HeardSaid
<1>6. UpNumbered'
BY <1>0, <1>a, <1>b DEF UpNumbered, HeadersRead, HostReads
<1>7. HostHolds'
  <2>1. HostReads /\ hostCall.at # "header" => HeadersRead \in 1..Len(said) /\ hostCall.m = said[HeadersRead]
    BY <1>b DEF HostHolds, HostReads
  <2>2. Len(said) \in Nat
    BY LenProperties DEF StreamsShaped
  <2>3. hostCall' = hostCall /\ Len(said') \in Nat
    BY <1>a, <2>2, LenProperties
  <2> QED BY <1>a, <1>b, <2>1, <2>2, <2>3 DEF HostHolds, HostReads
<1>8. PeerHolds'
BY <1>0, <1>a, <1>b DEF PeerHolds
<1>9. ServerShaped' /\ Sending' /\ HeardOutputs' /\ HeardExit' /\ DownOrdered' /\ DownWritten'
BY <1>0 DEF Sending, HeardOutputs, HeardExit, DownOrdered, DownWritten, HostWritten
<1> QED BY <1>1, <1>2, <1>3, <1>4, <1>5, <1>6, <1>7, <1>8, <1>9

LEMMA PeerDiesKeeps == ASSUME PipeInv, PeerDies PROVE PipeInv'
<1> USE DEF PipeInv, PipeShaped, ServerShaped, CallsShaped, EndsShaped, AsServer, AsPipeCall, PeerDies, History
<1>0. PipeRest = AsPipeCall(PipeRest) /\ PipeRest.kind = "idle" /\ PipeRest.at = "header" /\ PipeRest.m \in PipeMessages
  BY RestIs
<1>1. CallsShaped'
BY <1>0
<1>2. EndsShaped'
BY <1>0 DEF Ends
<1>3. InSession'
BY <1>0 DEF InSession, Ends
<1>4. PeerHolds'
BY <1>0 DEF PeerHolds
<1>5. ServerShaped' /\ StreamsShaped' /\ Sending' /\ HeardSaid' /\ HeardOutputs' /\ HeardExit' /\ UpNumbered'
     /\ HostHolds' /\ DownOrdered' /\ DownWritten'
BY <1>0 DEF StreamsShaped, Sending, HeardSaid, HeardOutputs, HeardExit, UpNumbered, HostHolds, DownOrdered,
     DownWritten, HeadersRead, HostReads, HostWritten
<1> QED BY <1>1, <1>2, <1>3, <1>4, <1>5

LEMMA StuckReadServedKeeps == ASSUME PipeInv, NEW e \in Ends, StuckReadServed(e) PROVE PipeInv'
<1> USE DEF PipeInv, PipeShaped, ServerShaped, CallsShaped, EndsShaped, AsServer, AsPipeCall, StuckReadServed,
     History
<1>0. PipeRest = AsPipeCall(PipeRest) /\ PipeRest.kind = "idle" /\ PipeRest.at = "header" /\ PipeRest.m \in PipeMessages
  BY RestIs
<1>a. e \in {"host", "peer"} /\ stuck[e]
  BY DEF Ends
<1>b. e = "peer" => /\ Tail(down) \in Seq(PipePieces) /\ PiecesOrdered(Tail(down), told) /\ down # <<>>
                    /\ (PiecesBelow(down, told, HostWritten) => PiecesBelow(Tail(down), told, HostWritten))
  BY CountsAre, HeadTailProperties, TakeOrdered DEF StreamsShaped, DownOrdered
<1>c. e = "host" => Tail(up) \in Seq(PipePieces) /\ pipeServer.failed
  BY <1>a, HeadTailProperties DEF StreamsShaped, InSession
<1>d. HostWritten' = HostWritten
  BY DEF HostWritten
<1>1. EndsShaped'
BY <1>0, <1>a, <1>b, <1>c, <1>d DEF Ends
<1>2. StreamsShaped'
BY <1>0, <1>a, <1>b, <1>c, <1>d DEF StreamsShaped
<1>3. InSession'
BY <1>0, <1>a, <1>b, <1>c, <1>d DEF InSession, Ends
<1>4. UpNumbered'
BY <1>0, <1>a, <1>b, <1>c, <1>d DEF UpNumbered, HeadersRead, HostReads
<1>5. DownOrdered'
BY <1>0, <1>a, <1>b, <1>c, <1>d DEF DownOrdered
<1>6. DownWritten'
  BY <1>a, <1>b, <1>d DEF DownWritten
<1>7. ServerShaped' /\ CallsShaped' /\ Sending' /\ HeardSaid' /\ HeardOutputs' /\ HeardExit' /\ HostHolds' /\
     PeerHolds'
BY <1>0 DEF Sending, HeardSaid, HeardOutputs, HeardExit, HostHolds, PeerHolds, HeadersRead, HostReads
<1> QED BY <1>1, <1>2, <1>3, <1>4, <1>5, <1>6, <1>7

\* For any frames the peer sends, any deadlines that pass, in any order.
THEOREM PipeInvariant == PipeSpec => []PipeInv
<1>1. PipeInit => PipeInv
  <2> SUFFICES ASSUME PipeInit PROVE PipeInv
    OBVIOUS
  <2> USE DEF PipeInit
  <2>0. /\ PipeRest = AsPipeCall(PipeRest) /\ PipeRest.kind = "idle" /\ PipeRest.at = "header" /\ PipeRest.m \in PipeMessages
        /\ Len(<<>>) = 0
    BY RestIs, EmptySeq
  <2>1. ServerShaped /\ CallsShaped /\ EndsShaped
    BY <2>0 DEF ServerShaped, CallsShaped, EndsShaped, AsServer, Ends
  <2>2. StreamsShaped
    BY EmptySeq DEF StreamsShaped
  <2>3. InSession /\ Sending /\ HeardSaid /\ HeardExit /\ HostHolds /\ PeerHolds
    BY <2>0 DEF InSession, Sending, HeardSaid, HeardExit, HostHolds, PeerHolds, Begins, ExitLast, HostReads, Ends
  <2>4. HeardOutputs
    <3>1. OutputsIn(heard, Len(heard)) = {} /\ pipeServer.next = 1
      BY <2>0 DEF OutputsIn
    <3>2. Cardinality({}) = 0
      BY FS_EmptySet
    <3> HIDE DEF PipeInit
    <3> QED BY <3>1, <3>2 DEF HeardOutputs, InSequence
  <2>5. UpNumbered
    <3>1. HeadersRead = 0
      BY <2>0 DEF HeadersRead, HostReads
    <3> DEFINE none == [i \in 1..0 |-> 1]
    <3>2. none \in [1..Len(up) -> 1..Len(said)] /\ FrameNumbers(none, up, said, HeadersRead)
      BY <2>0, <3>1 DEF FrameNumbers
    <3> QED BY <3>2 DEF UpNumbered, FramesNumbered
  <2>6. DownOrdered /\ DownWritten
    BY <2>0 DEF DownOrdered, DownWritten, PiecesOrdered, PiecesBelow
  <2> QED BY <2>1, <2>2, <2>3, <2>4, <2>5, <2>6 DEF PipeInv, PipeShaped
<1>2. PipeInv /\ [PipeNext]_pipeVars => PipeInv'
  <2> SUFFICES ASSUME PipeInv, [PipeNext]_pipeVars PROVE PipeInv'
    OBVIOUS
  <2>1. CASE StartReady \/ BeginReceive \/ \E r \in Requests : StartSend(r)
    BY <2>1, StartReadyKeeps, BeginReceiveKeeps, StartSendKeeps
  <2>2. CASE HostWorks \/ HostReadFails \/ HostWriteFails \/ HostCloses
    BY <2>2, ConnectKeeps, HostReadsPieceKeeps, CheckReadyKeeps, CheckReceivedKeeps, HostWritesPieceKeeps,
       HostReadFailsKeeps, HostWriteFailsKeeps, HostClosesKeeps DEF HostWorks
  <2>3. CASE \/ \E who \in {"runner", "other"} : OpenClient(who)
             \/ \E m \in Replies : PeerStartSend(m)
    BY <2>3, OpenClientKeeps, PeerStartSendKeeps
  <2>4. CASE PeerWritesPiece \/ PeerStartReceive \/ PeerReadsPiece \/ PeerCallFails \/ PeerDies
    BY <2>4, PeerWritesPieceKeeps, PeerStartReceiveKeeps, PeerReadsPieceKeeps, PeerCallFailsKeeps, PeerDiesKeeps
  <2>5. CASE \E e \in Ends : StuckReadServed(e)
    BY <2>5, StuckReadServedKeeps
  <2>6. CASE UNCHANGED pipeVars
    <3> USE <2>6 DEF pipeVars, PipeInv
    <3>1. PipeShaped' /\ InSession' /\ Sending' /\ HeardSaid' /\ HeardOutputs' /\ HeardExit' /\ PeerHolds'
      BY DEF PipeShaped, ServerShaped, CallsShaped, EndsShaped, StreamsShaped, InSession, Sending, HeardSaid,
         HeardOutputs, HeardExit, PeerHolds
    <3>2. UpNumbered' /\ HostHolds' /\ DownOrdered' /\ DownWritten'
      BY DEF UpNumbered, HostHolds, DownOrdered, DownWritten, HeadersRead, HostReads, HostWritten
    <3> QED BY <3>1, <3>2
  <2> QED
    BY <2>1, <2>2, <2>3, <2>4, <2>5, <2>6 DEF PipeNext
<1> QED BY <1>1, <1>2, PTL DEF PipeSpec

\* Host and runner understand the same exchange.
THEOREM PipeUnderstood == PipeSpec => []PipeExact
<1>1. PipeInv => PipeExact
  <2> SUFFICES ASSUME PipeInv PROVE PipeExact
    OBVIOUS
  <2>1. heard \in Seq(PipeMessages) /\ said \in Seq(PipeMessages) /\ told \in Seq(Requests) /\ Begins(heard, said)
    BY DEF PipeInv, PipeShaped, StreamsShaped, HeardSaid
  <2>2. Len(heard) \in Nat /\ Len(said) \in Nat /\ Len(told) \in Nat
    BY <2>1, LenProperties
  <2>3. IsPrefix(heard, said)
    <3>1. \A i \in 1..Len(heard) : heard[i] \in PipeMessages /\ said[i] \in PipeMessages /\ heard[i] = said[i]
      BY <2>1, <2>2, ElementOfSeq DEF Begins
    <3> DEFINE s == SubSeq(heard, 1, Len(heard))
               t == SubSeq(said, 1, Len(heard))
    <3>2. s \in Seq(PipeMessages) /\ Len(s) = Len(heard) /\ \A i \in 1..Len(heard) : s[i] = heard[i]
      BY <2>2, <3>1, SubSeqProperties
    <3>3. t \in Seq(PipeMessages) /\ Len(t) = Len(heard) /\ \A i \in 1..Len(heard) : t[i] = said[i]
      BY <2>2, <3>1, SubSeqProperties
    <3> HIDE DEF s, t
    <3>4. s = t
      BY <3>1, <3>2, <3>3, SeqEqual
    <3> QED BY <2>1, <3>4 DEF IsPrefix, Begins, s, t
  <2>4. heard # <<>> => peer.who = "runner"
    BY DEF PipeInv, InSession
  <2>5. \A i \in Outputs(Len(heard)) : heard[i].n = Cardinality(Outputs(i))
    <3>1. \A n : Outputs(n) = OutputsIn(heard, n)
      BY DEF Outputs, OutputsIn
    <3> QED BY <3>1 DEF PipeInv, HeardOutputs, InSequence
  <2>6. \A i \in 1..Len(heard) : heard[i].kind = "exit" => i = Len(heard)
    BY DEF PipeInv, HeardExit, ExitLast
  <2>7. ToldOnce
    <3>1. told # <<>> => pipeServer.authentic
      BY DEF PipeInv, InSession
    <3>2. \A i, j \in 1..Len(told) : i < j => told[i] # told[j] /\ told[j] # "spawn_request"
      <4>1. \A i, j \in 1..Len(told) : i < j => RequestPlace(told[i]) < RequestPlace(told[j])
        BY DEF PipeInv, DownOrdered, PiecesOrdered
      <4> QED BY <4>1 DEF RequestPlace
    <3> QED BY <3>1, <3>2 DEF ToldOnce
  <2> QED BY <2>3, <2>4, <2>5, <2>6, <2>7 DEF PipeExact, HeardInOrder
<1> QED BY <1>1, PipeInvariant, PTL

-----------------------------------------------------------------------------
(***************************************************************************)
(* The walks of a work tree, for any number of changes by others.  A stamp *)
(* never goes back and a new name stamps its directory, so an entry that   *)
(* still has the metadata it was opened with has been read from one        *)
(* version (HandleHeld), and a directory that still has its stamp has the  *)
(* entries that were listed (FramesHeld).  What has been read or walked is *)
(* what was listed and is no longer to do (ReadSoFar); while the root has  *)
(* its stamp the directory in it is the one that was walked (NameKept).    *)
(* Hence a directory is exact when its walk ends (DirectoriesExact).       *)
(***************************************************************************)

\* The records have their fields.  Only "root", "d" and "old" can be directories.
Metas == [kind : {"dir", "file", "link", "other", "none"}, id : Nat, stamp : Nat]
WalkFrames == [dir : {"root", "d"}, stamp : Nat, todo : SUBSET EntryNames, list : SUBSET (EntryNames \X Metas)]
WalkPlaces == {"open", "list", "entry", "openEntry", "read", "recheck", "relisted", "after", "done", "unavailable"}
AsWalk(w) ==
  [how |-> w.how, pc |-> w.pc, frames |-> w.frames, item |-> w.item, before |-> w.before, obj |-> w.obj,
   frozen |-> w.frozen, half |-> w.half, attempt |-> w.attempt, at |-> w.at]

TreeShaped ==
  /\ tree \in [TreePaths -> Metas]
  /\ tree["root"].kind = "dir"
  /\ \A p \in {"f", "g", "old_g"} : tree[p].kind # "dir"
WalkShaped ==
  /\ walk = AsWalk(walk) /\ walk.how \in Hows /\ walk.pc \in WalkPlaces
  /\ walk.frames \in Seq(WalkFrames) /\ walk.before \in Metas
  /\ walk.at \in {"d", "old"} /\ (walk.at = "old" => Inside \/ walk.pc = "unavailable")
OutShaped == out = [p \in DOMAIN out |-> out[p]] /\ DOMAIN out \subseteq EntryNames
ListingsShaped ==
  listings = [d \in DOMAIN listings |-> listings[d]] /\ DOMAIN listings \subseteq {"root", "d"}

\* The directories being walked are the root and, within it, the other one.
Walking == walk.pc \in {"list", "entry", "openEntry", "read", "recheck", "relisted", "after"}
WalkDepth == Len(walk.frames)
ListedAt(i) == i < WalkDepth \/ walk.pc # "list"
FrameNames(fr) == {e[1] : e \in fr.list}
NamesOf(dir) == IF dir = "root" THEN {"f", "d"} ELSE {"g"}
WalkStack ==
  /\ WalkDepth \in 0..2
  /\ WalkDepth >= 1 => walk.frames[1].dir = "root"
  /\ WalkDepth = 2 => walk.frames[2].dir = "d"
  /\ Walking => WalkDepth # 0
  /\ walk.pc = "open" => WalkDepth = 0 /\ DOMAIN out = {} /\ DOMAIN listings = {}
  /\ walk.pc = "list" => Top.todo = {} /\ Top.list = {}
  /\ walk.pc = "relisted" => Top.todo = {}

\* What was listed: one entry of a name, not younger than the entry itself.
FrameListed(fr) ==
  /\ \A e \in fr.list : e[1] \in NamesOf(fr.dir) /\ (e[2].kind = "dir" => e[1] = "d")
                        /\ e[2].stamp <= Entry(e[1]).stamp
  /\ \A e1, e2 \in fr.list : e1[1] = e2[1] => e1 = e2
  /\ fr.todo \subseteq FrameNames(fr)
FramesListed == Walking => \A i \in 1..WalkDepth : ListedAt(i) => FrameListed(walk.frames[i])

\* A directory that has its stamp still has the entries that were listed.
FrameHeld(fr, listed) ==
  /\ fr.stamp <= Held(fr.dir).stamp
  /\ Held(fr.dir).stamp = fr.stamp /\ listed =>
       /\ FrameNames(fr) = Children(fr.dir)
       /\ \A e \in fr.list : e[2].kind = Entry(e[1]).kind
FramesHeld == Walking => \A i \in 1..WalkDepth : FrameHeld(walk.frames[i], ListedAt(i))

\* The entry in hand.
Handling == walk.pc \in {"openEntry", "read", "recheck"}
InHand ==
  Handling =>
    /\ walk.item \in FrameNames(Top) \ Top.todo
    /\ Windows => <<walk.item, walk.before>> \in Top.list
    /\ walk.before.stamp <= Entry(walk.item).stamp
    /\ walk.before.kind = "dir" => walk.item = "d"
    /\ walk.pc # "openEntry" => walk.before.kind # "dir"
HandleHeld ==
  walk.pc \in {"read", "recheck"} =>
    /\ walk.half \in {1, 2} /\ (walk.pc = "recheck" => walk.half = 2) /\ (walk.half = 2 => walk.item \in DOMAIN out)
    /\ Rechecks => walk.obj = walk.before.id /\ walk.frozen = walk.before.stamp
    /\ Rechecks /\ walk.half = 2 /\ Entry(walk.item) = walk.before =>
         /\ out[walk.item][1] = walk.before.stamp
         /\ walk.pc = "recheck" => out[walk.item][2] = walk.before.stamp

\* What has been read or walked is what was listed and is no longer to do.
Unread(p) == walk.item = p /\ (walk.pc = "openEntry" \/ (walk.pc = "read" /\ walk.half = 1))
DoneWith(i, p) == ListedAt(i) /\ p \in FrameNames(walk.frames[i]) /\ p \notin walk.frames[i].todo /\ ~Unread(p)
ReadSoFar ==
  Walking =>
    /\ "f" \in DOMAIN out <=> DoneWith(1, "f")
    /\ WalkDepth = 2 => /\ "g" \in DOMAIN out <=> DoneWith(2, "g")
                        /\ DoneWith(1, "d") /\ "d" \notin DOMAIN out /\ "d" \notin DOMAIN listings
    /\ WalkDepth = 1 => /\ DoneWith(1, "d") <=> "d" \in DOMAIN out \/ "d" \in DOMAIN listings
                        /\ "d" \notin DOMAIN out \/ "d" \notin DOMAIN listings
                        /\ "g" \in DOMAIN out => "d" \in DOMAIN listings
    /\ "root" \notin DOMAIN listings
    /\ walk.pc = "after" => WalkDepth = 1 /\ walk.item = "d" /\ "d" \in DOMAIN listings

\* While the root has its stamp, "d" names what was read or walked under it.
NameKept ==
  Walking /\ tree["root"].stamp = walk.frames[1].stamp =>
    /\ walk.at = "d"
    /\ "d" \in DOMAIN out \/ (walk.item = "d" /\ walk.pc \in {"read", "recheck"}) => tree["d"].kind # "dir"
    /\ WalkDepth = 2 \/ "d" \in DOMAIN listings => tree["d"].kind = "dir"
    /\ "d" \in DOMAIN listings => listings["d"].id = tree["d"].id

\* What has been read was read whole, on Windows as it was listed.
ReadWhole ==
  walk.pc # "unavailable" /\ Rechecks =>
    \A p \in DOMAIN out : ~(walk.item = p /\ walk.pc \in {"read", "recheck"}) =>
      /\ out[p][1] = out[p][2]
      /\ Windows /\ Walking =>
           \A i \in 1..WalkDepth : \A e \in walk.frames[i].list : e[1] = p => out[p][2] = e[2].stamp

\* A directory whose walk is over is exact.
ExactAt(dir) ==
  /\ ReadIn(dir) = EndedFiles(dir)
  /\ \A e \in EndedDirs(dir) : e[1] \in DOMAIN listings /\ listings[e[1]].id = e[3]
  /\ Windows => \A e \in listings[dir].list : e[2].kind # "dir" => e[1] \in ReadIn(dir) /\ out[e[1]][2] = e[2].stamp
DirectoriesExact == walk.pc # "unavailable" /\ Rechecks => \A dir \in DOMAIN listings : ExactAt(dir)
DoneListed ==
  walk.pc = "done" /\ Rechecks => DOMAIN listings = {"root"} \cup {e[1] : e \in EndedDirs("root")}

WalkInv ==
  /\ TreeShaped /\ WalkShaped /\ OutShaped /\ ListingsShaped /\ WalkStack /\ FramesListed /\ FramesHeld
  /\ InHand /\ HandleHeld /\ ReadSoFar /\ NameKept /\ ReadWhole /\ DirectoriesExact /\ DoneListed

\* The clock is the latest stamp.
LEMMA ClockIs == ASSUME TreeShaped PROVE Clock \in Nat /\ \A p \in TreePaths : tree[p].stamp <= Clock
<1> DEFINE S == {tree[p].stamp : p \in TreePaths}
<1>1. \A p \in TreePaths : tree[p].stamp \in Nat
  BY DEF TreeShaped, Metas
<1>2. \E n \in S : \A p \in TreePaths : tree[p].stamp <= n
  <2>1. \A a, b, c \in Nat : \E n \in {a, b, c} : a <= n /\ b <= n /\ c <= n
    OBVIOUS
  <2>2. PICK m \in {tree["root"].stamp, tree["f"].stamp, tree["d"].stamp} :
          tree["root"].stamp <= m /\ tree["f"].stamp <= m /\ tree["d"].stamp <= m
    BY <1>1, <2>1 DEF TreePaths
  <2>3. PICK k \in {tree["g"].stamp, tree["old"].stamp, tree["old_g"].stamp} :
          tree["g"].stamp <= k /\ tree["old"].stamp <= k /\ tree["old_g"].stamp <= k
    BY <1>1, <2>1 DEF TreePaths
  <2>4. m \in Nat /\ k \in Nat /\ m \in S /\ k \in S
    BY <1>1, <2>2, <2>3 DEF TreePaths
  <2>5. CASE m <= k
    BY <1>1, <2>2, <2>3, <2>4, <2>5 DEF TreePaths
  <2>6. CASE k <= m
    BY <1>1, <2>2, <2>3, <2>4, <2>6 DEF TreePaths
  <2> QED BY <2>4, <2>5, <2>6
<1>3. Clock \in S /\ \A p \in TreePaths : tree[p].stamp <= Clock
  BY <1>2 DEF Clock
<1> QED BY <1>1, <1>3

\* What a handle or a name leads to is in the tree.
LEMMA HeldIs ==
  ASSUME WalkInv
  PROVE  /\ \A p \in EntryNames : Entry(p) \in Metas /\ Entry(p).stamp \in Nat /\ Entry(p).stamp <= Clock
                                  /\ (Entry(p).kind = "dir" => p = "d")
         /\ \A dir \in {"root", "d"} : Held(dir) \in Metas /\ Held(dir).stamp \in Nat /\ Held(dir).stamp <= Clock
                                       /\ Children(dir) \subseteq NamesOf(dir)
         /\ Entry("d") = tree["d"] /\ Entry("f") = tree["f"] /\ Held("root") = tree["root"]
         /\ Clock \in Nat
<1>1. tree \in [TreePaths -> Metas] /\ walk.at \in {"d", "old"} /\ \A p \in {"f", "g", "old_g"} : tree[p].kind # "dir"
  BY DEF WalkInv, TreeShaped, WalkShaped
<1>2. Clock \in Nat /\ \A p \in TreePaths : tree[p].stamp <= Clock
  BY ClockIs DEF WalkInv
<1>3. \A p \in TreePaths : tree[p] \in Metas /\ tree[p].stamp \in Nat
  BY <1>1 DEF Metas
<1>4. ASSUME NEW p \in EntryNames PROVE \E q \in TreePaths : Entry(p) = tree[q] /\ (q = "d" => p = "d") /\ q \notin {"root", "old"}
  BY <1>1 DEF EntryNames, TreePaths, Entry
<1>5. ASSUME NEW dir \in {"root", "d"} PROVE \E q \in TreePaths : Held(dir) = tree[q]
  BY <1>1 DEF TreePaths, Held
<1>6. \A dir \in {"root", "d"} : Children(dir) \subseteq NamesOf(dir)
  BY DEF Children, EntryNames, Parent, NamesOf
<1>7. Entry("d") = tree["d"] /\ Entry("f") = tree["f"] /\ Held("root") = tree["root"]
  BY DEF Entry, Held
<1>8. ASSUME NEW p \in EntryNames
      PROVE Entry(p) \in Metas /\ Entry(p).stamp \in Nat /\ Entry(p).stamp <= Clock /\ (Entry(p).kind = "dir" => p = "d")
  <2>1. PICK q \in TreePaths : Entry(p) = tree[q] /\ (q = "d" => p = "d") /\ q \notin {"root", "old"}
    BY <1>4
  <2>2. tree[q].kind = "dir" => q = "d"
    BY <1>1, <2>1 DEF TreePaths
  <2> QED BY <1>2, <1>3, <2>1, <2>2
<1>9. ASSUME NEW dir \in {"root", "d"} PROVE Held(dir) \in Metas /\ Held(dir).stamp \in Nat /\ Held(dir).stamp <= Clock
  BY <1>2, <1>3, <1>5
<1> QED BY <1>2, <1>6, <1>7, <1>8, <1>9

\* The walker's own steps change nothing behind a name or a handle.
LEMMA Undisturbed ==
  ASSUME UNCHANGED tree, walk'.at = walk.at
  PROVE  \A p : Entry(p)' = Entry(p) /\ Held(p)' = Held(p) /\ Children(p)' = Children(p)
<1>1. \A p : Entry(p)' = Entry(p) /\ Held(p)' = Held(p)
  BY DEF Entry, Held
<1>2. \A p : Children(p)' = Children(p)
  BY <1>1 DEF Children
<1> QED BY <1>1, <1>2

\* The frame on top is the last one.
LEMMA StackIs ==
  ASSUME WalkInv
  PROVE  /\ WalkDepth \in 0..2 /\ WalkDepth = Len(walk.frames) /\ walk.frames \in Seq(WalkFrames)
         /\ \A i \in 1..WalkDepth : walk.frames[i] \in WalkFrames
         /\ Top = walk.frames[WalkDepth]
         /\ Walking => WalkDepth \in 1..2 /\ Top \in WalkFrames /\ walk.frames[1] \in WalkFrames
                       /\ walk.frames[1].dir = "root" /\ (Top.dir = IF WalkDepth = 1 THEN "root" ELSE "d")
         /\ Walking /\ walk.pc # "list" => ListedAt(1) /\ ListedAt(2) /\ FrameListed(Top) /\ FrameListed(walk.frames[1])
<1>1. WalkDepth \in 0..2 /\ walk.frames \in Seq(WalkFrames)
  BY DEF WalkInv, WalkShaped, WalkStack
<1>2. \A i \in 1..WalkDepth : walk.frames[i] \in WalkFrames
  BY <1>1, ElementOfSeq DEF WalkDepth
<1>3. Top = walk.frames[WalkDepth] /\ (Walking => WalkDepth # 0)
  BY DEF WalkInv, WalkStack, Top, Last, WalkDepth
<1>4. Walking => WalkDepth \in 1..2 /\ 1 \in 1..WalkDepth /\ WalkDepth \in 1..WalkDepth
  BY <1>1, <1>3
<1>5. Walking => walk.frames[1].dir = "root" /\ (Top.dir = IF WalkDepth = 1 THEN "root" ELSE "d")
  BY <1>1, <1>3, <1>4 DEF WalkInv, WalkStack
<1>6. Walking /\ walk.pc # "list" => ListedAt(1) /\ ListedAt(2) /\ ListedAt(WalkDepth)
  BY DEF ListedAt
<1>7. Walking /\ walk.pc # "list" => FrameListed(Top) /\ FrameListed(walk.frames[1])
  BY <1>3, <1>4, <1>6 DEF WalkInv, FramesListed
<1> QED BY <1>1, <1>2, <1>3, <1>4, <1>5, <1>6, <1>7 DEF WalkDepth

\* The frame on top is put back, another is put on it, or it is taken away.
LEMMA TopSet ==
  ASSUME NEW frames \in Seq(WalkFrames), Len(frames) # 0, NEW fr \in WalkFrames
  PROVE  LET new == [frames EXCEPT ![Len(frames)] = fr]
         IN  /\ new \in Seq(WalkFrames) /\ Len(new) = Len(frames) /\ new[Len(frames)] = fr
             /\ \A i \in 1..Len(frames) : i # Len(frames) => new[i] = frames[i]
<1>1. Len(frames) \in 1..Len(frames)
  BY LenProperties
<1> QED BY <1>1, ExceptSeq

\* Without the frame on top its parent is on top.
LEMMA TopTaken ==
  ASSUME NEW frames \in Seq(WalkFrames), Len(frames) \in 1..2
  PROVE  /\ Front(frames) \in Seq(WalkFrames) /\ Len(Front(frames)) = Len(frames) - 1
         /\ Len(frames) = 2 => Front(frames)[1] = frames[1]
<1>1. \A i \in 1..(Len(frames) - 1) : frames[i] \in WalkFrames
  BY ElementOfSeq
<1>2. Len(frames) - 1 \in Int /\ 1 \in Int
  OBVIOUS
<1>3. SubSeq(frames, 1, Len(frames) - 1) \in Seq(WalkFrames)
      /\ Len(SubSeq(frames, 1, Len(frames) - 1)) = (IF 1 <= Len(frames) - 1 THEN (Len(frames) - 1) - 1 + 1 ELSE 0)
      /\ \A i \in 1 .. (Len(frames) - 1) - 1 + 1 : SubSeq(frames, 1, Len(frames) - 1)[i] = frames[1 + i - 1]
  BY <1>1, <1>2, SubSeqProperties
<1>4. CASE Len(frames) = 2
  <2>1. SubSeq(frames, 1, Len(frames) - 1)[1] = frames[1 + 1 - 1]
    BY <1>3, <1>4
  <2> QED BY <1>3, <1>4, <2>1 DEF Front
<1>5. CASE Len(frames) = 1
  BY <1>3, <1>5 DEF Front
<1> QED BY <1>4, <1>5

-----------------------------------------------------------------------------
\* Another process changes an entry: what the walker's names and handles lead
\* to has a new stamp then, and so has a directory with other entries.
LEMMA TreeChanges ==
  ASSUME WalkInv, TreeShaped', UNCHANGED <<out, listings>>,
         walk' = [walk EXCEPT !.at = walk'.at], walk'.at \in {"d", "old"}, walk'.at = "old" => walk.at = "old" \/ Inside,
         \A p \in EntryNames : Entry(p)' = Entry(p) \/ (Entry(p)').stamp = Clock + 1,
         \A dir \in {"root", "d"} :
            /\ Held(dir)' = Held(dir) \/ (Held(dir)').stamp = Clock + 1
            /\ (Held(dir)').stamp = Held(dir).stamp =>
                 Children(dir)' = Children(dir) /\ \A p \in Children(dir) : (Entry(p)').kind = Entry(p).kind,
         (tree["root"]').stamp = tree["root"].stamp =>
            walk'.at = walk.at /\ (tree["d"]').kind = tree["d"].kind /\ (tree["d"]').id = tree["d"].id
  PROVE  WalkInv'
<1>1. /\ \A p \in EntryNames : Entry(p).stamp \in Nat /\ Entry(p).stamp <= Clock
      /\ \A dir \in {"root", "d"} : Held(dir).stamp \in Nat /\ Held(dir).stamp <= Clock
      /\ Clock \in Nat /\ Held("root") = tree["root"]
  BY HeldIs
<1>2. /\ walk' = AsWalk(walk') /\ walk'.how = walk.how /\ walk'.pc = walk.pc /\ walk'.frames = walk.frames
      /\ walk'.item = walk.item /\ walk'.before = walk.before /\ walk'.obj = walk.obj
      /\ walk'.frozen = walk.frozen /\ walk'.half = walk.half
  BY DEF WalkInv, WalkShaped, AsWalk
<1>3. \A p \in EntryNames : Entry(p).stamp <= (Entry(p)').stamp /\ ((Entry(p)').stamp = Entry(p).stamp => Entry(p)' = Entry(p))
                            /\ (Entry(p)').stamp \in Nat
  BY <1>1
<1>4. \A dir \in {"root", "d"} : Held(dir).stamp <= (Held(dir)').stamp /\ (Held(dir)').stamp \in Nat
  BY <1>1
<1>5. WalkDepth' = WalkDepth /\ Walking' = Walking /\ Top' = Top /\ Rechecks' = Rechecks /\ Windows' = Windows /\ Inside' = Inside
      /\ (\A i : ListedAt(i)' = ListedAt(i)) /\ (\A fr : FrameNames(fr)' = FrameNames(fr))
  BY <1>2 DEF WalkDepth, Walking, Top, Rechecks, Windows, Inside, ListedAt, FrameNames
<1>6. WalkShaped'
  BY <1>2, <1>5 DEF WalkInv, WalkShaped
<1>7. OutShaped' /\ ListingsShaped' /\ WalkStack'
  BY <1>2, <1>5 DEF WalkInv, OutShaped, ListingsShaped, WalkStack
<1>8. FramesListed'
  <2>1. SUFFICES ASSUME Walking, NEW i \in 1..WalkDepth, ListedAt(i) PROVE FrameListed(walk.frames[i])'
    BY <1>2, <1>5 DEF FramesListed
  <2>2. FrameListed(walk.frames[i]) /\ walk.frames[i] \in WalkFrames
    BY <2>1, StackIs DEF WalkInv, FramesListed
  <2>3. \A e \in walk.frames[i].list : e[1] \in EntryNames /\ e[2].stamp \in Nat
    BY <2>2 DEF WalkFrames, Metas
  <2>4. \A e \in walk.frames[i].list : e[2].stamp <= (Entry(e[1])').stamp
    BY <1>1, <1>3, <2>2, <2>3 DEF FrameListed
  <2> QED BY <1>2, <1>5, <2>2, <2>4 DEF FrameListed
<1>9. FramesHeld'
  <2>1. SUFFICES ASSUME Walking, NEW i \in 1..WalkDepth PROVE FrameHeld(walk.frames[i], ListedAt(i))'
    BY <1>2, <1>5 DEF FramesHeld
  <2>2. FrameHeld(walk.frames[i], ListedAt(i)) /\ walk.frames[i] \in WalkFrames
    BY <2>1, StackIs DEF WalkInv, FramesHeld
  <2>3. PICK dir \in {"root", "d"} : dir = walk.frames[i].dir
    BY <2>2 DEF WalkFrames
  <2>4. walk.frames[i].stamp \in Nat
    BY <2>2 DEF WalkFrames
  <2>5. walk.frames[i].stamp <= (Held(dir)').stamp
    BY <1>1, <1>4, <2>2, <2>3, <2>4 DEF FrameHeld
  <2>6. ASSUME (Held(dir)').stamp = walk.frames[i].stamp, ListedAt(i)
        PROVE FrameNames(walk.frames[i]) = Children(dir)' /\ \A e \in walk.frames[i].list : e[2].kind = (Entry(e[1])').kind
    <3>1. (Held(dir)').stamp = Held(dir).stamp
      BY <1>1, <1>4, <2>2, <2>3, <2>4, <2>6 DEF FrameHeld
    <3>2. FrameNames(walk.frames[i]) = Children(dir) /\ \A e \in walk.frames[i].list : e[2].kind = Entry(e[1]).kind
      BY <2>2, <2>3, <2>6, <3>1 DEF FrameHeld
    <3>3. \A e \in walk.frames[i].list : e[1] \in Children(dir)
      BY <3>2 DEF FrameNames
    <3> QED BY <3>1, <3>2, <3>3
  <2> QED BY <1>2, <1>5, <2>3, <2>5, <2>6 DEF FrameHeld
<1>10. Handling => walk.item \in EntryNames /\ walk.before.stamp <= Entry(walk.item).stamp /\ walk.before.stamp \in Nat
  <2>1. SUFFICES ASSUME Handling PROVE walk.item \in EntryNames /\ walk.before.stamp <= Entry(walk.item).stamp /\ walk.before.stamp \in Nat
    OBVIOUS
  <2>2. walk.item \in FrameNames(Top) /\ walk.before.stamp <= Entry(walk.item).stamp /\ Top \in WalkFrames /\ walk.before \in Metas
    BY <2>1, StackIs DEF WalkInv, InHand, Handling, Walking, WalkShaped
  <2>3. \A e \in Top.list : e[1] \in EntryNames
    BY <2>2 DEF WalkFrames
  <2> QED BY <2>2, <2>3 DEF FrameNames, Metas
<1>11. InHand'
  <2>1. ASSUME Handling PROVE walk.before.stamp <= (Entry(walk.item)').stamp
    <3>1. PICK p \in EntryNames : p = walk.item
      BY <1>10, <2>1
    <3>2. Entry(p).stamp <= (Entry(p)').stamp /\ Entry(p).stamp \in Nat /\ (Entry(p)').stamp \in Nat
      BY <1>1, <1>3
    <3>3. walk.before.stamp <= Entry(p).stamp /\ walk.before.stamp \in Nat
      BY <1>10, <2>1, <3>1
    <3>4. walk.before.stamp <= (Entry(p)').stamp
      BY <3>2, <3>3
    <3>5. Entry(p)' = Entry(walk.item)'
      BY <1>2, <3>1
    <3> QED BY <3>4, <3>5
  <2> QED BY <1>2, <1>5, <2>1 DEF WalkInv, InHand, Handling
<1>12. HandleHeld'
  <2>1. walk.pc \in {"read", "recheck"} => (Entry(walk.item)' = walk.before => Entry(walk.item) = walk.before)
    <3>1. SUFFICES ASSUME Handling, Entry(walk.item)' = walk.before PROVE Entry(walk.item) = walk.before
      BY DEF Handling
    <3>2. PICK p \in EntryNames : p = walk.item
      BY <1>10, <3>1
    <3>3. Entry(p)' = Entry(walk.item)'
      BY <1>2, <3>2
    <3>4. (Entry(p)').stamp = walk.before.stamp /\ walk.before.stamp <= Entry(p).stamp /\ walk.before.stamp \in Nat
      BY <1>10, <3>1, <3>2, <3>3
    <3>5. Entry(p).stamp <= (Entry(p)').stamp /\ Entry(p).stamp \in Nat /\ ((Entry(p)').stamp = Entry(p).stamp => Entry(p)' = Entry(p))
      BY <1>1, <1>3
    <3> QED BY <3>1, <3>2, <3>3, <3>4, <3>5
  <2> QED BY <1>2, <1>5, <2>1 DEF WalkInv, HandleHeld
<1>13. ReadSoFar'
  BY <1>2, <1>5 DEF WalkInv, ReadSoFar, DoneWith, Unread
<1>14. NameKept'
  <2>1. SUFFICES ASSUME Walking, (tree["root"]').stamp = walk.frames[1].stamp PROVE tree["root"].stamp = walk.frames[1].stamp
    BY <1>2, <1>5 DEF WalkInv, NameKept
  <2>2. FrameHeld(walk.frames[1], ListedAt(1)) /\ walk.frames[1] \in WalkFrames /\ walk.frames[1].dir = "root"
    BY <2>1, StackIs DEF WalkInv, FramesHeld
  <2>3. walk.frames[1].stamp <= tree["root"].stamp /\ walk.frames[1].stamp \in Nat
    BY <1>1, <2>2 DEF FrameHeld, WalkFrames
  <2>4. tree["root"].stamp <= (tree["root"]').stamp
    BY <1>4, <1>1 DEF Held
  <2> QED BY <1>1, <2>1, <2>3, <2>4
<1>15. ReadWhole' /\ DirectoriesExact' /\ DoneListed'
  BY <1>2, <1>5 DEF WalkInv, ReadWhole, DirectoriesExact, ExactAt, DoneListed, ReadIn, EndedFiles, EndedDirs
<1> QED BY <1>6, <1>7, <1>8, <1>9, <1>11, <1>12, <1>13, <1>14, <1>15 DEF WalkInv

\* A write changes no names.
LEMMA TreeWriteKeeps == ASSUME WalkInv, NEW p \in TreePaths, TreeWrite(p) PROVE WalkInv'
<1>1. tree \in [TreePaths -> Metas] /\ tree[p].kind = "file" /\ Clock \in Nat /\ walk.at \in {"d", "old"}
  BY ClockIs DEF WalkInv, TreeShaped, TreeWrite, WalkShaped
<1>2. tree' = [tree EXCEPT ![p].stamp = Clock + 1] /\ UNCHANGED <<walk, out, listings>>
  BY DEF TreeWrite
<1>3. \A q \in TreePaths : q # p => tree'[q] = tree[q]
  BY <1>1, <1>2
<1>4. tree'[p].stamp = Clock + 1 /\ tree'[p].kind = "file" /\ tree'[p].id = tree[p].id /\ tree' \in [TreePaths -> Metas]
  BY <1>1, <1>2 DEF Metas
<1>5. TreeShaped'
  BY <1>1, <1>3, <1>4 DEF WalkInv, TreeShaped, TreePaths
<1>6. \A q \in TreePaths : (tree'[q] = tree[q] \/ tree'[q].stamp = Clock + 1) /\ tree'[q].kind = tree[q].kind /\ tree'[q].id = tree[q].id
  BY <1>1, <1>3, <1>4
<1>7. \A q \in EntryNames : (Entry(q)' = Entry(q) \/ (Entry(q)').stamp = Clock + 1) /\ (Entry(q)').kind = Entry(q).kind
  BY <1>1, <1>2, <1>6 DEF Entry, EntryNames, TreePaths
<1>8. \A dir \in {"root", "d"} : Held(dir)' = Held(dir) \/ (Held(dir)').stamp = Clock + 1
  BY <1>1, <1>2, <1>6 DEF Held, TreePaths
<1>9. \A dir \in {"root", "d"} : Children(dir)' = Children(dir) /\ Children(dir) \subseteq EntryNames
  BY <1>7 DEF Children
<1>10. walk' = [walk EXCEPT !.at = walk'.at] /\ walk'.at = walk.at
  BY <1>2 DEF WalkInv, WalkShaped, AsWalk
<1>11. tree'["d"].kind = tree["d"].kind /\ tree'["d"].id = tree["d"].id
  BY <1>6 DEF TreePaths
<1> QED BY <1>1, <1>2, <1>5, <1>7, <1>8, <1>9, <1>10, <1>11, TreeChanges

\* Another name or object stamps the directory it is in.
LEMMA RelinkKeeps ==
  ASSUME WalkInv, NEW p \in TreePaths, NEW kind \in {"none", "file", "link", "other"}, Relink(p, kind)
  PROVE  WalkInv'
<1>1. tree \in [TreePaths -> Metas] /\ p \in {"f", "g", "old_g"} /\ Clock \in Nat /\ walk.at \in {"d", "old"}
      /\ \A q \in TreePaths : tree[q].stamp <= Clock /\ tree[q].stamp \in Nat
  BY ClockIs DEF WalkInv, TreeShaped, Relink, WalkShaped, Metas
<1>2. Parent[p] \in {"root", "d", "old"} /\ Parent[p] # p /\ Parent[p] \in TreePaths
      /\ (Parent[p] = "root" <=> p = "f") /\ (Parent[p] = "d" <=> p = "g") /\ (Parent[p] = "old" <=> p = "old_g")
  BY <1>1 DEF Parent, TreePaths
<1>3. tree' = [tree EXCEPT ![p] = Made(kind), ![Parent[p]].stamp = Clock + 1] /\ UNCHANGED <<walk, out, listings>>
  BY DEF Relink
<1>4. tree'[p] = [kind |-> kind, id |-> Clock + 1, stamp |-> Clock + 1]
  BY <1>1, <1>2, <1>3 DEF Made
<1>5. tree'[Parent[p]] = [tree[Parent[p]] EXCEPT !.stamp = Clock + 1]
  BY <1>1, <1>2, <1>3
<1>6. \A q \in TreePaths : q # p /\ q # Parent[p] => tree'[q] = tree[q]
  BY <1>1, <1>2, <1>3
<1>7. tree'[Parent[p]].stamp = Clock + 1 /\ tree'[Parent[p]].kind = tree[Parent[p]].kind /\ tree'[Parent[p]].id = tree[Parent[p]].id
      /\ tree'[Parent[p]] \in Metas
  BY <1>1, <1>2, <1>5 DEF Metas
<1>8. tree'[p] \in Metas /\ tree'[p].kind # "dir" /\ tree'[p].stamp = Clock + 1
  BY <1>1, <1>4 DEF Metas
<1>9. tree' \in [TreePaths -> Metas]
  <2>1. \A q \in TreePaths : tree'[q] \in Metas
    BY <1>1, <1>6, <1>7, <1>8
  <2>2. tree' = [q \in TreePaths |-> tree'[q]]
    BY <1>1, <1>3
  <2> QED BY <2>1, <2>2
<1>10. TreeShaped'
  <2>1. tree'["root"].kind = tree["root"].kind
    BY <1>1, <1>2, <1>6, <1>7 DEF TreePaths
  <2>2. \A q \in {"f", "g", "old_g"} : tree'[q].kind # "dir"
    BY <1>2, <1>6, <1>8 DEF WalkInv, TreeShaped, TreePaths
  <2> QED BY <1>9, <2>1, <2>2 DEF WalkInv, TreeShaped
<1>11. \A q \in TreePaths : tree'[q] = tree[q] \/ tree'[q].stamp = Clock + 1
  BY <1>6, <1>7, <1>8
<1>12. \A q \in TreePaths : q # p => tree'[q].kind = tree[q].kind /\ tree'[q].id = tree[q].id
  BY <1>6, <1>7
<1>13. \A q \in EntryNames : Entry(q)' = Entry(q) \/ (Entry(q)').stamp = Clock + 1
  BY <1>1, <1>3, <1>11 DEF Entry, EntryNames, TreePaths
<1>14. \A dir \in {"root", "d"} : Held(dir)' = Held(dir) \/ (Held(dir)').stamp = Clock + 1
  BY <1>1, <1>3, <1>11 DEF Held, TreePaths
<1>15. ASSUME NEW dir \in {"root", "d"}, (Held(dir)').stamp = Held(dir).stamp
       PROVE  Children(dir)' = Children(dir) /\ \A q \in Children(dir) : (Entry(q)').kind = Entry(q).kind
  <2>1. PICK h \in TreePaths : Held(dir) = tree[h] /\ Held(dir)' = tree'[h] /\ h = IF dir = "d" THEN walk.at ELSE dir
    BY <1>1, <1>3 DEF Held, TreePaths
  <2>2. h # Parent[p]
    BY <1>1, <1>7, <1>15, <2>1
  <2>3. ASSUME NEW q \in EntryNames, Parent[q] = dir PROVE (Entry(q)').kind = Entry(q).kind
    <3>1. PICK r \in TreePaths : Entry(q) = tree[r] /\ Entry(q)' = tree'[r] /\ r = IF q = "g" /\ walk.at = "old" THEN "old_g" ELSE q
      BY <1>1, <1>3 DEF Entry, EntryNames, TreePaths
    <3>2. r # p
      BY <1>1, <1>2, <2>1, <2>2, <2>3, <3>1 DEF EntryNames, Parent
    <3> QED BY <1>12, <3>1, <3>2
  <2>4. Children(dir)' = Children(dir)
    BY <2>3 DEF Children
  <2> QED BY <2>3, <2>4 DEF Children
<1>16. walk' = [walk EXCEPT !.at = walk'.at] /\ walk'.at = walk.at
  BY <1>3 DEF WalkInv, WalkShaped, AsWalk
<1>17. tree'["d"].kind = tree["d"].kind /\ tree'["d"].id = tree["d"].id
  BY <1>1, <1>12 DEF TreePaths
<1> QED BY <1>1, <1>3, <1>10, <1>13, <1>14, <1>15, <1>16, <1>17, TreeChanges

\* The name of the directory goes, or leads to another object: the root is
\* stamped, and a directory the walker holds is held still.
LEMMA RelinkDirectoryKeeps ==
  ASSUME WalkInv, NEW kind \in {"none", "file", "link", "other", "dir"}, NEW inner \in {"none", "file"},
         RelinkDirectory(kind, inner)
  PROVE  WalkInv'
<1>1. tree \in [TreePaths -> Metas] /\ Clock \in Nat /\ walk.at \in {"d", "old"}
      /\ \A q \in TreePaths : tree[q].stamp <= Clock /\ tree[q].stamp \in Nat
  BY ClockIs DEF WalkInv, TreeShaped, WalkShaped, Metas
<1>2. PICK old \in Displaced :
        tree' = [tree EXCEPT !["root"].stamp = Clock + 1, !["d"] = Made(kind), !["g"] = Made(inner),
                             !["old"] = IF Inside /\ walk.at = "d" THEN old ELSE @,
                             !["old_g"] = IF Inside /\ walk.at = "d" THEN tree["g"] ELSE @]
  BY DEF RelinkDirectory
<1>3. walk' = [walk EXCEPT !.at = IF Inside THEN "old" ELSE @] /\ UNCHANGED <<out, listings>>
  BY DEF RelinkDirectory
<1>4. Made(kind) \in Metas /\ Made(inner) \in Metas /\ Made(kind).stamp = Clock + 1 /\ Made(inner).stamp = Clock + 1
      /\ Made(inner).kind # "dir"
  BY <1>1 DEF Made, Metas
<1>5. old \in Metas /\ (old = tree["d"] \/ old.stamp = Clock + 1)
  <2>1. tree["d"] \in Metas
    BY <1>1 DEF TreePaths
  <2>2. ASSUME NEW m \in Metas, NEW n \in Nat
        PROVE  /\ [m EXCEPT !.stamp = n] \in Metas /\ [m EXCEPT !.stamp = n].stamp = n
               /\ [m EXCEPT !.kind = "none", !.stamp = n] \in Metas /\ [m EXCEPT !.kind = "none", !.stamp = n].stamp = n
    BY DEF Metas
  <2>3. Clock + 1 \in Nat
    BY <1>1
  <2>4. \/ old = tree["d"] \/ old = [tree["d"] EXCEPT !.stamp = Clock + 1]
        \/ old = [tree["d"] EXCEPT !.kind = "none", !.stamp = Clock + 1]
    BY DEF Displaced
  <2>5. CASE old = [tree["d"] EXCEPT !.stamp = Clock + 1]
    BY <2>1, <2>2, <2>3, <2>5
  <2>6. CASE old = [tree["d"] EXCEPT !.kind = "none", !.stamp = Clock + 1]
    BY <2>1, <2>2, <2>3, <2>6
  <2> QED BY <2>1, <2>4, <2>5, <2>6
<1>6. tree'["root"] = [tree["root"] EXCEPT !.stamp = Clock + 1] /\ tree'["f"] = tree["f"]
      /\ tree'["d"] = Made(kind) /\ tree'["g"] = Made(inner)
      /\ tree'["old"] = (IF Inside /\ walk.at = "d" THEN old ELSE tree["old"])
      /\ tree'["old_g"] = (IF Inside /\ walk.at = "d" THEN tree["g"] ELSE tree["old_g"])
  BY <1>1, <1>2 DEF TreePaths
<1>7. tree["root"] \in Metas /\ tree'["root"] \in Metas /\ tree'["root"].stamp = Clock + 1 /\ tree'["root"].kind = tree["root"].kind
  BY <1>1, <1>6 DEF Metas, TreePaths
<1>8. TreeShaped'
  <2>1. \A q \in TreePaths : tree'[q] \in Metas
    BY <1>1, <1>4, <1>5, <1>6, <1>7 DEF TreePaths
  <2>2. tree' = [q \in TreePaths |-> tree'[q]]
    BY <1>1, <1>2
  <2>3. tree'["root"].kind = "dir" /\ \A q \in {"f", "g", "old_g"} : tree'[q].kind # "dir"
    BY <1>4, <1>6, <1>7 DEF WalkInv, TreeShaped
  <2> QED BY <2>1, <2>2, <2>3 DEF TreeShaped
<1>9. walk'.at = IF Inside THEN "old" ELSE walk.at
  BY <1>3 DEF WalkInv, WalkShaped, AsWalk
<1>10. walk' = [walk EXCEPT !.at = walk'.at]
  BY <1>3, <1>9 DEF WalkInv, WalkShaped, AsWalk
<1>11. tree["root"].stamp # Clock + 1
  BY <1>1 DEF TreePaths
<1>12. Entry("f")' = Entry("f") /\ (Entry("d")').stamp = Clock + 1 /\ (Held("root")').stamp = Clock + 1 /\ Held("root") = tree["root"]
  BY <1>4, <1>6, <1>7 DEF Entry, Held
<1>13. CASE walk'.at = "old"
  <2>1. walk.at = "old" \/ Inside
    BY <1>9, <1>13
  <2>2. Entry("g")' = Entry("g")
    BY <1>1, <1>6, <1>13, <2>1 DEF Entry
  <2>3. Held("d")' = Held("d") \/ (Held("d")').stamp = Clock + 1
    BY <1>1, <1>5, <1>6, <1>13, <2>1 DEF Held
  <2>4. Children("d")' = Children("d") /\ Children("d") \subseteq {"g"}
    BY <2>2 DEF Children, EntryNames, Parent
  <2>5. \A p \in EntryNames : Entry(p)' = Entry(p) \/ (Entry(p)').stamp = Clock + 1
    BY <1>12, <2>2 DEF EntryNames
  <2>6. \A dir \in {"root", "d"} :
            /\ Held(dir)' = Held(dir) \/ (Held(dir)').stamp = Clock + 1
            /\ (Held(dir)').stamp = Held(dir).stamp =>
                 Children(dir)' = Children(dir) /\ \A p \in Children(dir) : (Entry(p)').kind = Entry(p).kind
    BY <1>11, <1>12, <2>2, <2>3, <2>4
  <2> QED BY <1>3, <1>7, <1>8, <1>10, <1>11, <1>13, <2>1, <2>5, <2>6, TreeChanges
<1>14. CASE walk'.at # "old"
  <2>1. walk.at = "d" /\ walk'.at = "d"
    BY <1>1, <1>9, <1>14
  <2>2. (Entry("g")').stamp = Clock + 1 /\ (Held("d")').stamp = Clock + 1 /\ Held("d").stamp # Clock + 1
    BY <1>1, <1>4, <1>6, <2>1 DEF Entry, Held, TreePaths
  <2>3. \A p \in EntryNames : Entry(p)' = Entry(p) \/ (Entry(p)').stamp = Clock + 1
    BY <1>12, <2>2 DEF EntryNames
  <2>4. \A dir \in {"root", "d"} : (Held(dir)').stamp = Clock + 1 /\ Held(dir).stamp # Clock + 1
    BY <1>11, <1>12, <2>2
  <2> QED BY <1>3, <1>7, <1>8, <1>10, <1>11, <2>1, <2>3, <2>4, TreeChanges
<1> QED BY <1>13, <1>14

-----------------------------------------------------------------------------
\* The walk gives up, or begins anew.
LEMMA UnavailableKeeps == ASSUME WalkInv, NEW reason, Unavailable(reason), UNCHANGED tree PROVE WalkInv'
<1>1. CASE walk' = [walk EXCEPT !.pc = "unavailable"] /\ UNCHANGED <<out, listings>>
  <2>1. walk' = AsWalk(walk') /\ walk'.pc = "unavailable" /\ walk'.how = walk.how /\ walk'.frames = walk.frames
        /\ walk'.item = walk.item /\ walk'.before = walk.before /\ walk'.at = walk.at
    BY <1>1 DEF WalkInv, WalkShaped, AsWalk
  <2>2. TreeShaped' /\ WalkShaped' /\ OutShaped' /\ ListingsShaped'
    BY <1>1, <2>1 DEF WalkInv, TreeShaped, WalkShaped, OutShaped, ListingsShaped, WalkPlaces
  <2>3. WalkStack'
    BY <2>1 DEF WalkInv, WalkStack, WalkDepth, Walking
  <2>4. FramesListed' /\ FramesHeld' /\ InHand' /\ HandleHeld' /\ ReadSoFar' /\ NameKept' /\ ReadWhole' /\ DirectoriesExact' /\ DoneListed'
    BY <2>1 DEF FramesListed, FramesHeld, InHand, HandleHeld, ReadSoFar, NameKept, ReadWhole, DirectoriesExact, DoneListed, Walking, Handling
  <2> QED BY <2>2, <2>3, <2>4 DEF WalkInv
<1>2. CASE /\ walk' = [FreshWalk(walk.how) EXCEPT !.attempt = walk.attempt + 1]
           /\ out' = [p \in {} |-> <<0, 0>>] /\ listings' = NoListings
  <2>1. walk' = AsWalk(walk') /\ walk'.pc = "open" /\ walk'.how = walk.how /\ walk'.frames = <<>>
        /\ walk'.item = "none" /\ walk'.before = tree["root"] /\ walk'.at = "d"
    BY <1>2 DEF FreshWalk, AsWalk
  <2>2. DOMAIN out' = {} /\ DOMAIN listings' = {} /\ out' = [p \in DOMAIN out' |-> out'[p]]
        /\ listings' = [d \in DOMAIN listings' |-> listings'[d]]
    BY <1>2 DEF NoListings
  <2>3. TreeShaped' /\ OutShaped' /\ ListingsShaped'
    BY <2>2 DEF WalkInv, TreeShaped, OutShaped, ListingsShaped
  <2>4. WalkShaped'
    BY <2>1, EmptySeq DEF WalkInv, WalkShaped, TreeShaped, WalkPlaces, TreePaths
  <2>5. WalkStack'
    BY <2>1, <2>2, EmptySeq DEF WalkStack, WalkDepth, Walking
  <2>6. FramesListed' /\ FramesHeld' /\ InHand' /\ HandleHeld' /\ ReadSoFar' /\ NameKept' /\ ReadWhole' /\ DirectoriesExact' /\ DoneListed'
    BY <2>1, <2>2 DEF FramesListed, FramesHeld, InHand, HandleHeld, ReadSoFar, NameKept, ReadWhole, DirectoriesExact, DoneListed, Walking, Handling
  <2> QED BY <2>3, <2>4, <2>5, <2>6 DEF WalkInv
<1> QED BY <1>1, <1>2 DEF Unavailable

\* While the frames and the tree stay, so does what was listed.
LEMMA FramesStay ==
  ASSUME WalkInv, Walking, walk.pc # "list", walk'.pc \in {"entry", "openEntry", "read", "recheck", "relisted", "after"},
         walk'.frames = walk.frames, walk'.at = walk.at, UNCHANGED tree, walk'.pc = "relisted" => Top.todo = {}
  PROVE  TreeShaped' /\ WalkStack' /\ FramesListed' /\ FramesHeld' /\ WalkDepth' = WalkDepth /\ Walking'
         /\ Top' = Top /\ ListedAt(1) /\ ListedAt(2) /\ ListedAt(1)' /\ ListedAt(2)'
<1>1. WalkDepth' = WalkDepth /\ Walking' /\ Top' = Top /\ \A i : ListedAt(i) /\ ListedAt(i)'
  BY DEF WalkDepth, Walking, Top, ListedAt
<1>2. TreeShaped' /\ WalkStack'
  BY <1>1 DEF WalkInv, TreeShaped, WalkStack
<1>3. \A p : Entry(p)' = Entry(p) /\ Held(p)' = Held(p) /\ Children(p)' = Children(p)
  BY Undisturbed
<1>4. FramesListed'
  <2>1. SUFFICES ASSUME NEW i \in 1..WalkDepth PROVE FrameListed(walk.frames[i])'
    BY <1>1 DEF FramesListed
  <2>2. FrameListed(walk.frames[i])
    BY <1>1 DEF WalkInv, FramesListed
  <2> QED BY <1>3, <2>2 DEF FrameListed, FrameNames
<1>5. FramesHeld'
  <2>1. SUFFICES ASSUME NEW i \in 1..WalkDepth PROVE FrameHeld(walk.frames[i], ListedAt(i))'
    BY <1>1 DEF FramesHeld
  <2>2. FrameHeld(walk.frames[i], ListedAt(i)) /\ ListedAt(i) /\ ListedAt(i)'
    BY <1>1 DEF WalkInv, FramesHeld
  <2> QED BY <1>3, <2>2 DEF FrameHeld, FrameNames
<1> QED BY <1>1, <1>2, <1>4, <1>5

\* The root is opened.
LEMMA OpenRootKeeps == ASSUME WalkInv, OpenRoot PROVE WalkInv'
<1>a. walk.pc = "open" /\ walk.frames = <<>> /\ DOMAIN out = {} /\ DOMAIN listings = {} /\ walk.at = "d"
      /\ UNCHANGED <<tree, out, listings>>
  BY EmptySeq DEF OpenRoot, WalkInv, WalkStack, WalkShaped, WalkDepth, Inside
<1>b. WalkFrame("root") \in WalkFrames /\ WalkFrame("root").dir = "root" /\ WalkFrame("root").todo = {}
      /\ WalkFrame("root").list = {} /\ WalkFrame("root").stamp = tree["root"].stamp /\ tree["root"].stamp \in Nat
  BY DEF WalkFrame, WalkFrames, WalkInv, TreeShaped, Metas, TreePaths, Held
<1>c. walk' = AsWalk(walk') /\ walk'.pc = "list" /\ walk'.how = walk.how /\ walk'.item = "none" /\ walk'.at = "d"
      /\ walk'.before = walk.before /\ walk'.frames = Append(walk.frames, WalkFrame("root"))
  BY <1>a DEF OpenRoot, OpenDirectory, WalkInv, WalkShaped, AsWalk
<1>d. walk'.frames \in Seq(WalkFrames) /\ WalkDepth' = 1 /\ Len(walk'.frames) = 1 /\ walk'.frames[1] = WalkFrame("root")
  BY <1>a, <1>b, <1>c, EmptySeq, AppendProperties DEF WalkDepth
<1>e. ~ListedAt(1)' /\ Top' = WalkFrame("root") /\ Held("root")' = tree["root"] /\ Held("root") = tree["root"]
  BY <1>a, <1>c, <1>d DEF ListedAt, Top, Last, Held
<1>1. TreeShaped' /\ WalkShaped' /\ OutShaped' /\ ListingsShaped'
  BY <1>a, <1>c, <1>d DEF WalkInv, TreeShaped, WalkShaped, OutShaped, ListingsShaped, WalkPlaces
<1>2. WalkStack'
  BY <1>a, <1>b, <1>c, <1>d, <1>e DEF WalkStack
<1>3. FramesListed' /\ FramesHeld'
  BY <1>b, <1>c, <1>d, <1>e DEF FramesListed, FramesHeld, FrameHeld
<1>4. InHand' /\ HandleHeld' /\ DoneListed'
  BY <1>c DEF InHand, Handling, HandleHeld, DoneListed
<1>5. ReadSoFar' /\ NameKept'
  BY <1>a, <1>c, <1>d, <1>e DEF ReadSoFar, NameKept, DoneWith
<1>6. ReadWhole' /\ DirectoriesExact'
  BY <1>a DEF ReadWhole, DirectoriesExact
<1> QED BY <1>1, <1>2, <1>3, <1>4, <1>5, <1>6 DEF WalkInv

\* The directory on top is listed.
LEMMA ListKeeps == ASSUME WalkInv, List PROVE WalkInv'
<1>a. walk.pc = "list" /\ WalkDepth \in 1..2 /\ Len(walk.frames) = WalkDepth /\ walk.frames \in Seq(WalkFrames)
      /\ Top = walk.frames[WalkDepth] /\ Top \in WalkFrames /\ walk.frames[1] \in WalkFrames
      /\ UNCHANGED <<tree, out, listings>> /\ (Top.dir = IF WalkDepth = 1 THEN "root" ELSE "d") /\ Walking
      /\ walk.frames[1].dir = "root"
  BY StackIs DEF List, Walking
<1> DEFINE fr == [Top EXCEPT !.todo = Children(Top.dir), !.list = Listing(Top.dir)]
<1>b. Top.dir \in {"root", "d"} /\ Children(Top.dir) \subseteq NamesOf(Top.dir) /\ Children(Top.dir) \subseteq EntryNames
      /\ \A e : e \in Listing(Top.dir) <=> \E p \in Children(Top.dir) : e = <<p, Entry(p)>>
  BY <1>a, HeldIs DEF WalkFrames, Listing, Children
<1>c. fr \in WalkFrames /\ fr.dir = Top.dir /\ fr.stamp = Top.stamp /\ fr.todo = Children(Top.dir)
      /\ fr.list = Listing(Top.dir) /\ FrameNames(fr) = Children(Top.dir)
  <2>1. \A p \in EntryNames : Entry(p) \in Metas
    BY HeldIs
  <2>2. Listing(Top.dir) \in SUBSET (EntryNames \X Metas)
    BY <1>b, <2>1
  <2>3. {e[1] : e \in Listing(Top.dir)} = Children(Top.dir)
    <3>1. ASSUME NEW p \in Children(Top.dir) PROVE p \in {e[1] : e \in Listing(Top.dir)}
      <4>1. <<p, Entry(p)>> \in Listing(Top.dir) /\ <<p, Entry(p)>>[1] = p
        BY <1>b
      <4> QED BY <4>1
    <3>2. ASSUME NEW p \in {e[1] : e \in Listing(Top.dir)} PROVE p \in Children(Top.dir)
      BY <1>b, <3>2
    <3> QED BY <3>1, <3>2
  <2> QED BY <1>a, <1>b, <2>2, <2>3 DEF WalkFrames, FrameNames
<1> HIDE DEF fr
<1>d. walk' = AsWalk(walk') /\ walk'.pc = "entry" /\ walk'.how = walk.how /\ walk'.item = walk.item /\ walk'.at = walk.at
      /\ walk'.before = walk.before /\ walk'.frames = [walk.frames EXCEPT ![Len(walk.frames)] = fr]
  BY DEF List, SetTop, WalkInv, WalkShaped, AsWalk, fr
<1>e. walk'.frames \in Seq(WalkFrames) /\ WalkDepth' = WalkDepth /\ Len(walk'.frames) = WalkDepth
      /\ walk'.frames[WalkDepth] = fr /\ (WalkDepth = 2 => walk'.frames[1] = walk.frames[1])
  <2>1. Len(walk.frames) # 0
    BY <1>a
  <2>2. /\ walk'.frames \in Seq(WalkFrames) /\ Len(walk'.frames) = Len(walk.frames)
        /\ walk'.frames[Len(walk.frames)] = fr
        /\ \A i \in 1..Len(walk.frames) : i # Len(walk.frames) => walk'.frames[i] = walk.frames[i]
    BY <1>a, <1>c, <1>d, <2>1, TopSet
  <2>3. WalkDepth = 2 => walk'.frames[1] = walk.frames[1]
    BY <1>a, <2>2
  <2> QED BY <1>a, <2>2, <2>3 DEF WalkDepth
<1>f. \A p \in EntryNames : Entry(p).kind = "dir" => p = "d"
  BY HeldIs
<1>g. \A p \in EntryNames : Entry(p).stamp \in Nat
  BY HeldIs
<1>h. Top.todo = {} /\ Top.list = {}
  BY <1>a DEF WalkInv, WalkStack
<1>i. \A p : Entry(p)' = Entry(p) /\ Held(p)' = Held(p) /\ Children(p)' = Children(p)
  BY <1>a, <1>d, Undisturbed
<1>j. \A i : ListedAt(i)'
  BY <1>d DEF ListedAt
<1>k. \A i \in 1..WalkDepth : i = WalkDepth \/ (i = 1 /\ WalkDepth = 2 /\ walk'.frames[i] = walk.frames[i] /\ ListedAt(i))
  BY <1>a, <1>e DEF ListedAt
<1>l. walk'.frames[1].stamp = walk.frames[1].stamp /\ walk'.frames[1].dir = walk.frames[1].dir
  BY <1>a, <1>c, <1>e
<1>1. TreeShaped' /\ OutShaped' /\ ListingsShaped'
  BY <1>a DEF WalkInv, TreeShaped, OutShaped, ListingsShaped
<1>2. WalkShaped'
  BY <1>a, <1>d, <1>e DEF WalkInv, WalkShaped, WalkPlaces, Inside, WalkDepth
<1>3. WalkStack'
  BY <1>a, <1>c, <1>d, <1>e DEF WalkInv, WalkStack, Walking
<1>4. FramesListed'
  <2>1. SUFFICES ASSUME NEW i \in 1..WalkDepth PROVE FrameListed(walk.frames[i])'
    BY <1>e DEF FramesListed
  <2>2. CASE i = WalkDepth
    <3>1. \A e \in fr.list : e[1] \in Children(Top.dir) /\ e = <<e[1], Entry(e[1])>> /\ e[2] = Entry(e[1])
      BY <1>b, <1>c
    <3>2. \A e \in fr.list : e[2].stamp <= Entry(e[1]).stamp
      BY <1>b, <1>g, <3>1
    <3> QED BY <1>b, <1>c, <1>e, <1>f, <1>i, <2>2, <3>1, <3>2 DEF FrameListed, FrameNames
  <2>3. CASE i # WalkDepth
    <3>1. FrameListed(walk.frames[i]) /\ walk'.frames[i] = walk.frames[i]
      BY <1>a, <1>k, <2>3 DEF WalkInv, FramesListed
    <3> QED BY <1>i, <3>1 DEF FrameListed, FrameNames
  <2> QED BY <2>2, <2>3
<1>5. FramesHeld'
  <2>1. SUFFICES ASSUME NEW i \in 1..WalkDepth PROVE FrameHeld(walk.frames[i], ListedAt(i))'
    BY <1>e DEF FramesHeld
  <2>2. FrameHeld(walk.frames[i], ListedAt(i))
    BY <1>a DEF WalkInv, FramesHeld
  <2>3. CASE i = WalkDepth
    <3>1. \A e \in fr.list : e[2].kind = Entry(e[1]).kind
      BY <1>b, <1>c
    <3>2. walk'.frames[i] = fr /\ fr.stamp <= Held(fr.dir).stamp
      BY <1>a, <1>c, <1>e, <2>2, <2>3 DEF FrameHeld
    <3> QED BY <1>c, <1>i, <3>1, <3>2 DEF FrameHeld, FrameNames
  <2>4. CASE i # WalkDepth
    <3>1. ListedAt(i) /\ walk'.frames[i] = walk.frames[i]
      BY <1>k, <2>4
    <3> QED BY <1>i, <2>2, <3>1 DEF FrameHeld, FrameNames
  <2> QED BY <2>3, <2>4
<1>6. InHand' /\ HandleHeld' /\ DoneListed'
  BY <1>d DEF InHand, Handling, HandleHeld, DoneListed
<1>7. ReadSoFar'
  <2>1. CASE WalkDepth = 1
    <3>1. ~ListedAt(1) /\ walk'.frames[1] = fr /\ fr.todo = FrameNames(fr)
      BY <1>a, <1>c, <1>e, <2>1 DEF ListedAt
    <3>2. \A p : ~DoneWith(1, p) /\ ~DoneWith(1, p)'
      BY <3>1 DEF DoneWith, FrameNames
    <3> QED BY <1>a, <1>d, <1>e, <2>1, <3>2 DEF WalkInv, ReadSoFar
  <2>2. CASE WalkDepth = 2
    <3>1. ListedAt(1) /\ ~ListedAt(2) /\ walk'.frames[2] = fr /\ walk'.frames[1] = walk.frames[1] /\ fr.todo = FrameNames(fr)
      BY <1>a, <1>c, <1>e, <2>2 DEF ListedAt
    <3>2. \A p : ~DoneWith(2, p) /\ ~DoneWith(2, p)'
      BY <3>1 DEF DoneWith, FrameNames
    <3>3. \A p : DoneWith(1, p)' = DoneWith(1, p)
      BY <1>a, <1>d, <1>j, <3>1 DEF DoneWith, FrameNames, Unread
    <3> QED BY <1>a, <1>d, <1>e, <2>2, <3>2, <3>3 DEF WalkInv, ReadSoFar
  <2> QED BY <1>a, <2>1, <2>2
<1>8. NameKept'
  BY <1>a, <1>d, <1>e, <1>l DEF WalkInv, NameKept
<1>9. ReadWhole'
  <2>1. SUFFICES ASSUME Rechecks, NEW p \in DOMAIN out
                 PROVE  /\ out[p][1] = out[p][2]
                        /\ Windows => \A i \in 1..WalkDepth : \A e \in walk'.frames[i].list : e[1] = p => out[p][2] = e[2].stamp
    BY <1>a, <1>d, <1>e DEF ReadWhole, Rechecks, Windows
  <2>2. out[p][1] = out[p][2] /\ (Windows =>
          \A i \in 1..WalkDepth : \A e \in walk.frames[i].list : e[1] = p => out[p][2] = e[2].stamp)
    BY <1>a, <2>1 DEF WalkInv, ReadWhole
  <2>3. p \notin FrameNames(fr)
    <3>1. ~DoneWith(WalkDepth, p)
      BY <1>a DEF DoneWith, ListedAt
    <3>2. CASE WalkDepth = 1
      <4>1. "f" \notin DOMAIN out /\ "d" \notin DOMAIN out
        BY <1>a, <3>2 DEF WalkInv, ReadSoFar, DoneWith, ListedAt
      <4> QED BY <1>a, <1>b, <1>c, <2>1, <3>2, <4>1 DEF NamesOf
    <3>3. CASE WalkDepth = 2
      <4>1. "g" \notin DOMAIN out
        BY <1>a, <3>3 DEF WalkInv, ReadSoFar, DoneWith, ListedAt
      <4> QED BY <1>a, <1>b, <1>c, <2>1, <3>3, <4>1 DEF NamesOf
    <3> QED BY <1>a, <3>2, <3>3
  <2> QED BY <1>e, <1>k, <2>2, <2>3 DEF FrameNames
<1>10. DirectoriesExact'
  BY <1>a, <1>d DEF WalkInv, DirectoriesExact, Rechecks, ExactAt, Windows, ReadIn, EndedFiles, EndedDirs
<1> QED BY <1>1, <1>2, <1>3, <1>4, <1>5, <1>6, <1>7, <1>8, <1>9, <1>10 DEF WalkInv

\* The next entry is looked at: it is in hand, and not read yet.
LEMMA StatEntryKeeps == ASSUME WalkInv, StatEntry PROVE WalkInv'
<1>a. walk.pc = "entry" /\ WalkDepth \in 1..2 /\ Len(walk.frames) = WalkDepth /\ walk.frames \in Seq(WalkFrames)
      /\ Top = walk.frames[WalkDepth] /\ Top \in WalkFrames /\ walk.frames[1] \in WalkFrames
      /\ FrameListed(Top) /\ ListedAt(1) /\ ListedAt(2) /\ UNCHANGED tree
      /\ (Top.dir = IF WalkDepth = 1 THEN "root" ELSE "d") /\ Walking
  BY StackIs DEF StatEntry, Walking
<1>b. Top.todo # {} /\ Top.todo \in SUBSET EntryNames /\ Top.todo \subseteq FrameNames(Top)
  BY <1>a DEF StatEntry, WalkFrames, FrameListed
<1>c. PICK p \in NextNames(Top.todo) :
        IF Known(p).kind \in {"none", "other"}
        THEN Unavailable("filesystem_changed")
        ELSE /\ walk' = [SetTop(walk, [Top EXCEPT !.todo = @ \ {p}])
                         EXCEPT !.pc = "openEntry", !.item = p, !.before = Known(p)]
             /\ UNCHANGED <<out, listings>>
  BY DEF StatEntry
<1> DEFINE fr == [Top EXCEPT !.todo = @ \ {p}]
<1>d. p \in Top.todo /\ p \in EntryNames
  BY <1>b, <1>c DEF NextNames
<1>e. Known(p) \in Metas /\ (Known(p).kind = "dir" => p = "d") /\ Known(p).stamp <= Entry(p).stamp
      /\ (Windows => <<p, Known(p)>> \in Top.list)
  <2>1. CASE Windows
    <3>1. \E e \in Top.list : e[1] = p
      BY <1>b, <1>d DEF FrameNames
    <3> DEFINE k == CHOOSE e \in Top.list : e[1] = p
    <3>2. k \in Top.list /\ k[1] = p
      BY <3>1
    <3>3. k \in EntryNames \X Metas
      BY <1>a, <3>2 DEF WalkFrames
    <3>4. k = <<p, k[2]>> /\ k[2] \in Metas
      <4>1. \A e \in EntryNames \X Metas : e = <<e[1], e[2]>> /\ e[2] \in Metas
        OBVIOUS
      <4> HIDE DEF k
      <4> QED BY <3>2, <3>3, <4>1
    <3>5. Known(p) = k[2]
      BY <2>1 DEF Known
    <3> HIDE DEF k
    <3> QED BY <1>a, <3>2, <3>4, <3>5 DEF FrameListed
  <2>2. CASE ~Windows
    <3>1. Known(p) = Entry(p)
      BY <2>2 DEF Known
    <3>2. Entry(p) \in Metas /\ Entry(p).stamp \in Nat /\ (Entry(p).kind = "dir" => p = "d")
      BY <1>d, HeldIs
    <3> QED BY <2>2, <3>1, <3>2
  <2> QED BY <2>1, <2>2
<1>f. CASE Unavailable("filesystem_changed")
  BY <1>a, <1>f, UnavailableKeeps
<1>g. CASE ~Unavailable("filesystem_changed")
  <2>1. walk' = [SetTop(walk, fr) EXCEPT !.pc = "openEntry", !.item = p, !.before = Known(p)]
        /\ UNCHANGED <<tree, out, listings>>
    BY <1>a, <1>c, <1>g
  <2>2. walk' = AsWalk(walk') /\ walk'.pc = "openEntry" /\ walk'.how = walk.how /\ walk'.item = p /\ walk'.at = walk.at
        /\ walk'.before = Known(p) /\ walk'.frames = [walk.frames EXCEPT ![Len(walk.frames)] = fr]
    BY <2>1 DEF SetTop, WalkInv, WalkShaped, AsWalk
  <2>3. fr \in WalkFrames /\ fr.dir = Top.dir /\ fr.stamp = Top.stamp /\ fr.todo = Top.todo \ {p} /\ fr.list = Top.list
        /\ FrameNames(fr) = FrameNames(Top)
    BY <1>a DEF WalkFrames, FrameNames
  <2> HIDE DEF fr
  <2>4. walk'.frames \in Seq(WalkFrames) /\ WalkDepth' = WalkDepth /\ Len(walk'.frames) = WalkDepth
        /\ walk'.frames[WalkDepth] = fr /\ (WalkDepth = 2 => walk'.frames[1] = walk.frames[1])
    <3>1. Len(walk.frames) # 0
      BY <1>a
    <3>2. /\ walk'.frames \in Seq(WalkFrames) /\ Len(walk'.frames) = Len(walk.frames)
          /\ walk'.frames[Len(walk.frames)] = fr
          /\ \A i \in 1..Len(walk.frames) : i # Len(walk.frames) => walk'.frames[i] = walk.frames[i]
      BY <1>a, <2>2, <2>3, <3>1, TopSet
    <3>3. WalkDepth = 2 => walk'.frames[1] = walk.frames[1]
      BY <1>a, <3>2
    <3> QED BY <1>a, <3>2, <3>3 DEF WalkDepth
  <2>5. TreeShaped' /\ OutShaped' /\ ListingsShaped'
    BY <2>1 DEF WalkInv, TreeShaped, OutShaped, ListingsShaped
  <2>6. WalkShaped'
    BY <1>a, <1>e, <2>2, <2>4 DEF WalkInv, WalkShaped, WalkPlaces, Inside, WalkDepth
  <2>7. WalkStack'
    BY <1>a, <2>2, <2>3, <2>4 DEF WalkInv, WalkStack, Walking
  <2>8. Walking' /\ \A i : ListedAt(i) /\ ListedAt(i)'
    BY <1>a, <2>2 DEF ListedAt, Walking
  <2>9. \A q : Entry(q)' = Entry(q) /\ Held(q)' = Held(q) /\ Children(q)' = Children(q)
    BY <1>a, <2>2, Undisturbed
  <2>10. \A i \in 1..WalkDepth : /\ walk'.frames[i].dir = walk.frames[i].dir /\ walk'.frames[i].stamp = walk.frames[i].stamp
                                 /\ walk'.frames[i].list = walk.frames[i].list
                                 /\ walk'.frames[i].todo = IF i = WalkDepth THEN walk.frames[i].todo \ {p} ELSE walk.frames[i].todo
    <3>1. SUFFICES ASSUME NEW i \in 1..WalkDepth, i # WalkDepth PROVE walk'.frames[i] = walk.frames[i]
      BY <1>a, <2>3, <2>4
    <3>2. WalkDepth = 2 /\ i = 1
      BY <1>a, <3>1
    <3> QED BY <2>4, <3>2
  <2>11. FramesListed'
    <3>1. SUFFICES ASSUME NEW i \in 1..WalkDepth PROVE FrameListed(walk.frames[i])'
      BY <2>4 DEF FramesListed
    <3>2. FrameListed(walk.frames[i])
      BY <1>a, <2>8 DEF WalkInv, FramesListed
    <3> QED BY <2>9, <2>10, <3>2 DEF FrameListed, FrameNames
  <2>12. FramesHeld'
    <3>1. SUFFICES ASSUME NEW i \in 1..WalkDepth PROVE FrameHeld(walk.frames[i], ListedAt(i))'
      BY <2>4 DEF FramesHeld
    <3>2. FrameHeld(walk.frames[i], ListedAt(i)) /\ ListedAt(i)
      BY <1>a, <2>8, <3>1 DEF WalkInv, FramesHeld
    <3> QED BY <2>9, <2>10, <3>2 DEF FrameHeld, FrameNames
  <2>13. InHand'
    <3>1. Top' = fr
      BY <1>a, <2>4 DEF Top, Last
    <3> QED BY <1>b, <1>d, <1>e, <2>2, <2>3, <2>9, <3>1 DEF InHand, Windows, FrameNames
  <2>14. HandleHeld' /\ DoneListed'
    BY <2>2 DEF HandleHeld, DoneListed
  <2>15. \A i \in 1..WalkDepth : \A q : DoneWith(i, q)' <=> DoneWith(i, q)
    <3>1. SUFFICES ASSUME NEW i \in 1..WalkDepth, NEW q PROVE DoneWith(i, q)' <=> DoneWith(i, q)
      OBVIOUS
    <3>2. FrameNames(walk.frames[i])' = FrameNames(walk.frames[i]) /\ ~Unread(q) /\ (Unread(q)' <=> q = p)
      BY <1>a, <2>2, <2>10 DEF FrameNames, Unread
    <3>3. CASE i = WalkDepth
      BY <1>a, <1>d, <2>8, <2>10, <3>2, <3>3 DEF DoneWith
    <3>4. CASE i # WalkDepth
      <4>1. i = 1 /\ WalkDepth = 2 /\ p \in NamesOf("d")
        BY <1>a, <1>b, <1>d, <3>4 DEF FrameListed, FrameNames
      <4>2. q = p => q \notin FrameNames(walk.frames[i])
        BY <1>a, <2>8, <4>1 DEF WalkInv, FramesListed, FrameListed, FrameNames, NamesOf, WalkStack
      <4> QED BY <2>8, <2>10, <3>2, <3>4, <4>2 DEF DoneWith
    <3> QED BY <3>3, <3>4
  <2>16. ReadSoFar'
    <3>1. CASE WalkDepth = 1
      BY <1>a, <2>1, <2>2, <2>4, <2>15, <3>1 DEF WalkInv, ReadSoFar
    <3>2. CASE WalkDepth = 2
      BY <1>a, <2>1, <2>2, <2>4, <2>15, <3>2 DEF WalkInv, ReadSoFar
    <3> QED BY <1>a, <3>1, <3>2
  <2>17. NameKept'
    <3>1. walk'.frames[1].stamp = walk.frames[1].stamp
      <4>1. 1 \in 1..WalkDepth
        BY <1>a
      <4> QED BY <2>10, <4>1
    <3>2. ~(walk'.item = "d" /\ walk'.pc \in {"read", "recheck"})
      BY <2>2
    <3>3. Walking /\ tree["root"].stamp = walk.frames[1].stamp =>
            /\ walk.at = "d" /\ ("d" \in DOMAIN out => tree["d"].kind # "dir")
            /\ (WalkDepth = 2 \/ "d" \in DOMAIN listings => tree["d"].kind = "dir")
            /\ ("d" \in DOMAIN listings => listings["d"].id = tree["d"].id)
      BY DEF WalkInv, NameKept
    <3>4. tree' = tree /\ out' = out /\ listings' = listings /\ walk'.at = walk.at /\ WalkDepth' = WalkDepth
      BY <2>1, <2>2, <2>4
    <3>5. SUFFICES ASSUME tree["root"].stamp = walk.frames[1].stamp
                   PROVE  /\ walk.at = "d" /\ ("d" \in DOMAIN out => tree["d"].kind # "dir")
                          /\ (WalkDepth = 2 \/ "d" \in DOMAIN listings => tree["d"].kind = "dir")
                          /\ ("d" \in DOMAIN listings => listings["d"].id = tree["d"].id)
      BY <3>1, <3>2, <3>4 DEF NameKept
    <3> QED BY <1>a, <3>3, <3>5
  <2>18. ReadWhole'
    <3>1. Rechecks' = Rechecks /\ Windows' = Windows /\ out' = out
      BY <2>1, <2>2 DEF Rechecks, Windows
    <3>2. ASSUME Rechecks, NEW q \in DOMAIN out
          PROVE  /\ out[q][1] = out[q][2]
                 /\ Windows => \A i \in 1..WalkDepth : \A e \in walk.frames[i].list : e[1] = q => out[q][2] = e[2].stamp
      BY <1>a, <3>2 DEF WalkInv, ReadWhole
    <3>3. \A i \in 1..WalkDepth' : i \in 1..WalkDepth /\ walk'.frames[i].list = walk.frames[i].list
      BY <2>4, <2>10
    <3> QED BY <3>1, <3>2, <3>3 DEF ReadWhole
  <2>19. DirectoriesExact'
    BY <1>a, <2>1, <2>2 DEF WalkInv, DirectoriesExact, Rechecks, ExactAt, Windows, ReadIn, EndedFiles, EndedDirs
  <2> QED BY <2>5, <2>6, <2>7, <2>11, <2>12, <2>13, <2>14, <2>16, <2>17, <2>18, <2>19 DEF WalkInv
<1> QED BY <1>f, <1>g

\* It is opened: a directory is walked, anything else is read.
LEMMA OpenEntryKeeps == ASSUME WalkInv, OpenEntry PROVE WalkInv'
<1>a. walk.pc = "openEntry" /\ WalkDepth \in 1..2 /\ Len(walk.frames) = WalkDepth /\ walk.frames \in Seq(WalkFrames)
      /\ Top = walk.frames[WalkDepth] /\ Top \in WalkFrames /\ walk.frames[1] \in WalkFrames
      /\ FrameListed(Top) /\ ListedAt(1) /\ ListedAt(2) /\ UNCHANGED tree
      /\ (Top.dir = IF WalkDepth = 1 THEN "root" ELSE "d") /\ Walking
  BY StackIs DEF OpenEntry, Walking
<1>b. walk.item \in FrameNames(Top) /\ walk.item \notin Top.todo /\ walk.item \in NamesOf(Top.dir)
      /\ walk.item \in EntryNames /\ (walk.before.kind = "dir" => walk.item = "d")
  BY <1>a DEF WalkInv, InHand, Handling, FrameListed, FrameNames, NamesOf, EntryNames
<1>c. Unread(walk.item)
  BY <1>a DEF Unread
<1>d. CASE Unavailable("filesystem_changed")
  BY <1>a, <1>d, UnavailableKeeps
<1>e. CASE walk' = OpenDirectory(walk.item) /\ Entry(walk.item).kind = "dir" /\ walk.before.kind = "dir"
           /\ UNCHANGED <<tree, out, listings>>
  <2>1. WalkDepth = 1 /\ Top.dir = "root" /\ walk.item = "d"
    BY <1>a, <1>b, <1>e DEF NamesOf
  <2>2. walk.at = "d" /\ Held("d") = tree["d"] /\ Entry("d") = tree["d"]
    BY <1>a, <2>1 DEF WalkInv, WalkShaped, Inside, Held, Entry, WalkDepth
  <2>3. WalkFrame("d") \in WalkFrames /\ WalkFrame("d").dir = "d" /\ WalkFrame("d").todo = {}
        /\ WalkFrame("d").list = {} /\ WalkFrame("d").stamp = tree["d"].stamp /\ tree["d"].stamp \in Nat
    BY <2>2 DEF WalkFrame, WalkFrames, WalkInv, TreeShaped, Metas, TreePaths
  <2>4. walk' = AsWalk(walk') /\ walk'.pc = "list" /\ walk'.how = walk.how /\ walk'.item = "none" /\ walk'.at = walk.at
        /\ walk'.before = walk.before /\ walk'.frames = Append(walk.frames, WalkFrame("d"))
    BY <1>e, <2>1 DEF OpenDirectory, WalkInv, WalkShaped, AsWalk
  <2>5. walk'.frames \in Seq(WalkFrames) /\ WalkDepth' = 2 /\ Len(walk'.frames) = 2 /\ walk'.frames[1] = Top
        /\ walk'.frames[2] = WalkFrame("d") /\ walk.frames[1] = Top
    BY <1>a, <2>1, <2>3, <2>4, AppendProperties DEF WalkDepth
  <2>6. TreeShaped' /\ OutShaped' /\ ListingsShaped'
    BY <1>e DEF WalkInv, TreeShaped, OutShaped, ListingsShaped
  <2>7. WalkShaped'
    BY <2>2, <2>4, <2>5 DEF WalkInv, WalkShaped, WalkPlaces
  <2>8. WalkStack'
    BY <2>1, <2>3, <2>4, <2>5 DEF WalkStack, Walking, Top, Last
  <2>9. ListedAt(1)' /\ ~ListedAt(2)' /\ Walking'
    BY <2>4, <2>5 DEF ListedAt, Walking
  <2>10. \A q : Entry(q)' = Entry(q) /\ Held(q)' = Held(q) /\ Children(q)' = Children(q)
    BY <1>e, <2>4, Undisturbed
  <2>11. FramesListed'
    <3>1. SUFFICES ASSUME NEW i \in 1..2, ListedAt(i)' PROVE FrameListed(walk.frames[i])'
      BY <2>5 DEF FramesListed
    <3>2. i = 1
      BY <2>9, <3>1
    <3> QED BY <1>a, <2>5, <2>10, <3>2 DEF FrameListed, FrameNames
  <2>12. FramesHeld'
    <3>1. SUFFICES ASSUME NEW i \in 1..2 PROVE FrameHeld(walk.frames[i], ListedAt(i))'
      BY <2>5 DEF FramesHeld
    <3>2. FrameHeld(Top, ListedAt(1))
      BY <1>a, <2>1 DEF WalkInv, FramesHeld
    <3>3. CASE i = 1
      BY <1>a, <2>5, <2>9, <2>10, <3>2, <3>3 DEF FrameHeld, FrameNames
    <3>4. CASE i = 2
      BY <2>2, <2>3, <2>5, <2>9, <2>10, <3>4 DEF FrameHeld
    <3> QED BY <3>3, <3>4
  <2>13. InHand' /\ HandleHeld' /\ DoneListed'
    BY <2>4 DEF InHand, Handling, HandleHeld, DoneListed
  <2>14. ReadSoFar'
    <3>1. ~DoneWith(1, "d") /\ "d" \notin DOMAIN out /\ "d" \notin DOMAIN listings /\ "g" \notin DOMAIN out
          /\ "root" \notin DOMAIN listings /\ ("f" \in DOMAIN out <=> DoneWith(1, "f"))
      BY <1>a, <1>c, <2>1 DEF WalkInv, ReadSoFar, DoneWith
    <3>2. DoneWith(1, "d")' /\ (DoneWith(1, "f")' <=> DoneWith(1, "f")) /\ ~DoneWith(2, "g")'
      BY <1>a, <1>b, <2>1, <2>4, <2>5, <2>9 DEF DoneWith, Unread, FrameNames
    <3> QED BY <1>e, <2>4, <2>5, <3>1, <3>2 DEF ReadSoFar
  <2>15. NameKept'
    <3>1. "d" \notin DOMAIN out /\ "d" \notin DOMAIN listings
      BY <1>a, <1>c, <2>1 DEF WalkInv, ReadSoFar, DoneWith
    <3> QED BY <1>e, <2>1, <2>2, <2>4, <3>1 DEF NameKept
  <2>16. ReadWhole'
    <3>1. SUFFICES ASSUME Rechecks, NEW p \in DOMAIN out
                   PROVE  /\ out[p][1] = out[p][2]
                          /\ Windows => \A i \in 1..2 : \A e \in walk'.frames[i].list : e[1] = p => out[p][2] = e[2].stamp
      BY <1>e, <2>4, <2>5 DEF ReadWhole, Rechecks, Windows
    <3>2. out[p][1] = out[p][2] /\ (Windows => \A e \in Top.list : e[1] = p => out[p][2] = e[2].stamp)
      BY <1>a, <2>1, <3>1 DEF WalkInv, ReadWhole
    <3> QED BY <2>3, <2>5, <3>2
  <2>17. DirectoriesExact'
    BY <1>a, <1>e, <2>4 DEF WalkInv, DirectoriesExact, Rechecks, ExactAt, Windows, ReadIn, EndedFiles, EndedDirs
  <2> QED BY <2>6, <2>7, <2>8, <2>11, <2>12, <2>13, <2>14, <2>15, <2>16, <2>17 DEF WalkInv
<1>f. CASE /\ walk' = [walk EXCEPT !.pc = "read", !.obj = Entry(walk.item).id, !.frozen = Entry(walk.item).stamp, !.half = 1]
           /\ Entry(walk.item).kind = walk.before.kind /\ walk.before.kind # "dir"
           /\ (Rechecks => Entry(walk.item) = walk.before) /\ UNCHANGED <<tree, out, listings>>
  <2>1. walk' = AsWalk(walk') /\ walk'.pc = "read" /\ walk'.how = walk.how /\ walk'.item = walk.item /\ walk'.at = walk.at
        /\ walk'.before = walk.before /\ walk'.frames = walk.frames /\ walk'.half = 1
        /\ walk'.obj = Entry(walk.item).id /\ walk'.frozen = Entry(walk.item).stamp
    BY <1>f DEF WalkInv, WalkShaped, AsWalk
  <2>2. TreeShaped' /\ WalkStack' /\ FramesListed' /\ FramesHeld' /\ WalkDepth' = WalkDepth /\ Walking'
        /\ Top' = Top /\ ListedAt(1)' /\ ListedAt(2)'
    BY <1>a, <2>1, FramesStay
  <2>3. OutShaped' /\ ListingsShaped' /\ WalkShaped' /\ DoneListed'
    <3>1. walk'.at = "old" => Inside'
      BY <1>a, <2>1 DEF WalkInv, WalkShaped, Inside
    <3>2. WalkShaped'
      BY <2>1, <3>1 DEF WalkInv, WalkShaped, WalkPlaces
    <3> QED BY <1>f, <2>1, <3>2 DEF WalkInv, OutShaped, ListingsShaped, DoneListed
  <2>4. \A q : Entry(q)' = Entry(q)
    BY <1>f, <2>1, Undisturbed
  <2>5. InHand'
    BY <1>a, <1>f, <2>1, <2>2, <2>4 DEF WalkInv, InHand, Handling, Windows, FrameNames
  <2>6. HandleHeld'
    BY <1>f, <2>1 DEF HandleHeld, Rechecks
  <2>7. \A q : (DoneWith(1, q)' <=> DoneWith(1, q)) /\ (DoneWith(2, q)' <=> DoneWith(2, q))
    BY <1>a, <2>1, <2>2 DEF DoneWith, Unread, FrameNames
  <2>8. ReadSoFar'
    BY <1>a, <1>f, <2>1, <2>2, <2>7 DEF WalkInv, ReadSoFar
  <2>9. walk.item \notin DOMAIN out
    <3>1. CASE WalkDepth = 1
      BY <1>a, <1>b, <1>c, <3>1 DEF WalkInv, ReadSoFar, DoneWith, NamesOf
    <3>2. CASE WalkDepth = 2
      BY <1>a, <1>b, <1>c, <3>2 DEF WalkInv, ReadSoFar, DoneWith, NamesOf
    <3> QED BY <1>a, <3>1, <3>2
  <2>10. NameKept'
    <3>1. walk.item = "d" => tree["d"].kind # "dir"
      BY <1>f, HeldIs
    <3> QED BY <1>a, <1>f, <2>1, <2>2, <3>1 DEF WalkInv, NameKept
  <2>11. ReadWhole'
    BY <1>a, <1>f, <2>1, <2>2, <2>9 DEF WalkInv, ReadWhole, Rechecks, Windows
  <2>12. DirectoriesExact'
    BY <1>a, <1>f, <2>1 DEF WalkInv, DirectoriesExact, Rechecks, ExactAt, Windows, ReadIn, EndedFiles, EndedDirs
  <2> QED BY <2>2, <2>3, <2>5, <2>6, <2>8, <2>10, <2>11, <2>12 DEF WalkInv
<1>g. CASE ~Unavailable("filesystem_changed")
  <2>1. UNCHANGED <<tree, out, listings>> /\ Entry(walk.item).kind = walk.before.kind
        /\ (Rechecks => SameEntry(Entry(walk.item), walk.before))
        /\ walk' = IF Entry(walk.item).kind = "dir" THEN OpenDirectory(walk.item)
                    ELSE [walk EXCEPT !.pc = "read", !.obj = Entry(walk.item).id, !.frozen = Entry(walk.item).stamp, !.half = 1]
    BY <1>g DEF OpenEntry
  <2> QED BY <1>e, <1>f, <2>1 DEF SameEntry
<1> QED BY <1>d, <1>g

\* One half is read; if the entry is unchanged, it is of the version that was opened.
LEMMA ReadHalfKeeps == ASSUME WalkInv, ReadHalf PROVE WalkInv'
<1>a. walk.pc = "read" /\ WalkDepth \in 1..2 /\ Len(walk.frames) = WalkDepth /\ walk.frames \in Seq(WalkFrames)
      /\ Top = walk.frames[WalkDepth] /\ Top \in WalkFrames /\ walk.frames[1] \in WalkFrames
      /\ FrameListed(Top) /\ ListedAt(1) /\ ListedAt(2) /\ UNCHANGED tree
      /\ (Top.dir = IF WalkDepth = 1 THEN "root" ELSE "d") /\ Walking
  BY StackIs DEF ReadHalf, Walking
<1>b. walk.item \in FrameNames(Top) /\ walk.item \notin Top.todo /\ walk.item \in EntryNames
      /\ walk.item \in NamesOf(Top.dir) /\ walk.half \in {1, 2}
  BY <1>a DEF WalkInv, InHand, Handling, HandleHeld, FrameListed, FrameNames, NamesOf, EntryNames
<1>c. walk' = AsWalk(walk') /\ walk'.how = walk.how /\ walk'.item = walk.item /\ walk'.before = walk.before /\ walk'.at = walk.at
      /\ walk'.frames = walk.frames /\ walk'.half = 2 /\ walk'.obj = walk.obj /\ walk'.frozen = walk.frozen
      /\ walk'.pc \in {"read", "recheck"} /\ (walk.half = 2 => walk'.pc = "recheck")
      /\ (walk'.pc = "recheck" => walk.half = 2 \/ walk.before.kind = "link")
  BY <1>a, <1>b DEF ReadHalf, WalkInv, WalkShaped, AsWalk
<1>d. UNCHANGED <<tree, listings>> /\ DOMAIN out' = DOMAIN out \cup {walk.item}
      /\ out' = [p \in DOMAIN out' |-> out'[p]]
      /\ \A p \in DOMAIN out : p # walk.item => out'[p] = out[p]
  BY DEF ReadHalf
<1>e. TreeShaped' /\ WalkStack' /\ FramesListed' /\ FramesHeld' /\ WalkDepth' = WalkDepth /\ Walking' /\ Top' = Top
      /\ ListedAt(1)' /\ ListedAt(2)'
  BY <1>a, <1>c, FramesStay
<1>f. out'[walk.item] = IF walk.half = 1 THEN <<Content, Content>> ELSE <<out[walk.item][1], Content>>
  BY DEF ReadHalf
<1>g. \A q : Entry(q)' = Entry(q)
  BY <1>c, <1>d, Undisturbed
<1>1. OutShaped' /\ ListingsShaped' /\ WalkShaped' /\ DoneListed'
  <2>1. walk'.at = "old" => Inside'
    BY <1>a, <1>c DEF WalkInv, WalkShaped, Inside
  <2>2. WalkShaped'
    BY <1>c, <2>1 DEF WalkInv, WalkShaped, WalkPlaces
  <2> QED BY <1>b, <1>c, <1>d, <2>2 DEF WalkInv, OutShaped, ListingsShaped, DoneListed
<1>2. InHand'
  BY <1>a, <1>c, <1>e, <1>g DEF WalkInv, InHand, Handling, Windows, FrameNames
<1>3. HandleHeld'
  <2>1. Rechecks /\ Entry(walk.item) = walk.before => Content = walk.before.stamp
    BY <1>a DEF WalkInv, HandleHeld, Content
  <2>2. out'[walk.item][2] = Content /\ (walk.half = 1 => out'[walk.item][1] = Content)
        /\ (walk.half = 2 => out'[walk.item][1] = out[walk.item][1])
    <3>1. \A a, b : <<a, b>>[1] = a /\ <<a, b>>[2] = b
      OBVIOUS
    <3>2. CASE walk.half = 1
      <4>1. out'[walk.item] = <<Content, Content>>
        BY ONLY <1>f, <3>2
      <4> QED BY <3>1, <3>2, <4>1
    <3>3. CASE walk.half = 2
      <4>1. out'[walk.item] = <<out[walk.item][1], Content>>
        <5>1. walk.half # 1
          BY ONLY <3>3
        <5> QED BY ONLY <1>f, <5>1
      <4> QED BY <3>1, <3>3, <4>1
    <3> QED BY <1>b, <3>2, <3>3
  <2>3. Rechecks /\ walk.half = 2 /\ Entry(walk.item) = walk.before => out[walk.item][1] = walk.before.stamp
    BY <1>a DEF WalkInv, HandleHeld
  <2>4. Entry(walk.item)' = Entry(walk.item) /\ out'[walk'.item] = out'[walk.item] /\ Rechecks' = Rechecks
        /\ walk'.item \in DOMAIN out'
    BY <1>c, <1>d DEF Rechecks, Entry
  <2>5. Rechecks => walk.obj = walk.before.id /\ walk.frozen = walk.before.stamp
    BY <1>a DEF WalkInv, HandleHeld
  <2> QED BY <1>b, <1>c, <2>1, <2>2, <2>3, <2>4, <2>5 DEF HandleHeld
<1>4. \A p : ~Unread(p)' /\ (p # walk.item => ~Unread(p))
  BY <1>c DEF Unread
<1>5. \A i \in {1, 2} : \A p : DoneWith(i, p)' <=> ListedAt(i) /\ p \in FrameNames(walk.frames[i]) /\ p \notin walk.frames[i].todo
  BY <1>a, <1>c, <1>e, <1>4 DEF DoneWith, FrameNames
<1>6. \A i \in {1, 2} : \A p : p # walk.item => (DoneWith(i, p)' <=> DoneWith(i, p))
  BY <1>4, <1>5 DEF DoneWith
<1>7. ReadSoFar'
  <2>1. CASE WalkDepth = 1
    <3>1. PICK x \in {"f", "d"} : x = walk.item
      BY <1>a, <1>b, <2>1 DEF NamesOf
    <3>2. DoneWith(1, x)' /\ \A p : p # x => (DoneWith(1, p)' <=> DoneWith(1, p))
      BY <1>a, <1>b, <1>5, <1>6, <2>1, <3>1
    <3>3. x = "d" => "d" \notin DOMAIN listings
      <4>1. ASSUME x = "d", walk.half = 1 PROVE "d" \notin DOMAIN listings
        BY <1>a, <2>1, <3>1, <4>1 DEF WalkInv, ReadSoFar, DoneWith, Unread
      <4>2. ASSUME x = "d", walk.half = 2 PROVE "d" \notin DOMAIN listings
        BY <1>a, <2>1, <3>1, <4>2 DEF WalkInv, ReadSoFar, HandleHeld
      <4> QED BY <1>b, <4>1, <4>2
    <3>4. DOMAIN out' = DOMAIN out \cup {x} /\ listings' = listings /\ WalkDepth' = 1 /\ walk'.pc # "after"
      BY <1>c, <1>d, <1>e, <2>1, <3>1
    <3> QED BY <1>a, <2>1, <3>2, <3>3, <3>4 DEF WalkInv, ReadSoFar
  <2>2. CASE WalkDepth = 2
    <3>1. walk.item = "g"
      BY <1>a, <1>b, <2>2 DEF NamesOf
    <3>2. DoneWith(2, "g")'
      BY <1>a, <1>b, <1>5, <2>2, <3>1
    <3> QED BY <1>a, <1>c, <1>d, <1>e, <1>6, <2>2, <3>1, <3>2 DEF WalkInv, ReadSoFar
  <2> QED BY <1>a, <2>1, <2>2
<1>8. NameKept'
  BY <1>a, <1>c, <1>d, <1>e DEF WalkInv, NameKept
<1>9. ReadWhole'
  <2>1. \A p \in DOMAIN out' : p = walk.item \/ (p \in DOMAIN out /\ out'[p] = out[p])
    BY <1>d
  <2> QED BY <1>a, <1>b, <1>c, <1>e, <2>1 DEF WalkInv, ReadWhole, Rechecks, Windows
<1>10. DirectoriesExact'
  <2>1. SUFFICES ASSUME Rechecks, NEW dir \in DOMAIN listings PROVE ExactAt(dir)'
    BY <1>c, <1>d DEF DirectoriesExact, Rechecks
  <2>2. dir = "d" /\ WalkDepth = 1
    BY <1>a, <2>1 DEF WalkInv, ReadSoFar, ListingsShaped
  <2>3. walk.item \in {"f", "d"} /\ Parent[walk.item] # "d"
    BY <1>a, <1>b, <2>2 DEF NamesOf, Parent
  <2>4. ExactAt("d")
    BY <1>a, <2>1, <2>2 DEF WalkInv, DirectoriesExact
  <2>5. ReadIn("d")' = ReadIn("d")
    BY <1>d, <2>3 DEF ReadIn
  <2>6. \A q \in ReadIn("d") : out'[q] = out[q]
    BY <1>d, <2>3 DEF ReadIn
  <2>7. EndedFiles("d")' = EndedFiles("d") /\ EndedDirs("d")' = EndedDirs("d")
    BY <1>d DEF EndedFiles, EndedDirs
  <2>8. Windows' = Windows /\ listings' = listings
    BY <1>c, <1>d DEF Windows
  <2>9. \A e \in listings["d"].list : Windows /\ e[2].kind # "dir" => e[1] \in ReadIn("d") /\ out'[e[1]][2] = e[2].stamp
    BY <2>4, <2>6 DEF ExactAt
  <2> QED BY <2>2, <2>4, <2>5, <2>7, <2>8, <2>9 DEF ExactAt
<1> QED BY <1>e, <1>1, <1>2, <1>3, <1>7, <1>8, <1>9, <1>10 DEF WalkInv

\* Both halves were read from one version.
LEMMA RecheckEntryKeeps == ASSUME WalkInv, RecheckEntry PROVE WalkInv'
<1>a. walk.pc = "recheck" /\ WalkDepth \in 1..2 /\ Len(walk.frames) = WalkDepth /\ walk.frames \in Seq(WalkFrames)
      /\ Top = walk.frames[WalkDepth] /\ Top \in WalkFrames /\ walk.frames[1] \in WalkFrames
      /\ FrameListed(Top) /\ ListedAt(1) /\ ListedAt(2) /\ UNCHANGED tree
      /\ (Top.dir = IF WalkDepth = 1 THEN "root" ELSE "d") /\ Walking
  BY StackIs DEF RecheckEntry, Walking
<1>b. walk.item \in FrameNames(Top) /\ walk.item \in NamesOf(Top.dir) /\ (Windows => <<walk.item, walk.before>> \in Top.list)
  BY <1>a DEF WalkInv, InHand, Handling, FrameListed, FrameNames
<1>c. CASE Unavailable("windows_file_changed")
  BY <1>a, <1>c, UnavailableKeeps
<1>d. CASE walk' = [walk EXCEPT !.pc = "entry", !.item = "none"] /\ StillSame /\ UNCHANGED <<out, listings>>
  <2>1. walk' = AsWalk(walk') /\ walk'.pc = "entry" /\ walk'.how = walk.how /\ walk'.item = "none" /\ walk'.at = walk.at
        /\ walk'.before = walk.before /\ walk'.frames = walk.frames
    BY <1>d DEF WalkInv, WalkShaped, AsWalk
  <2>2. TreeShaped' /\ WalkStack' /\ FramesListed' /\ FramesHeld' /\ WalkDepth' = WalkDepth /\ Walking' /\ Top' = Top
        /\ ListedAt(1)' /\ ListedAt(2)'
    BY <1>a, <2>1, FramesStay
  <2>3. OutShaped' /\ ListingsShaped' /\ WalkShaped' /\ DoneListed'
    <3>1. walk'.at = "old" => Inside'
      BY <1>a, <2>1 DEF WalkInv, WalkShaped, Inside
    <3>2. WalkShaped'
      BY <2>1, <3>1 DEF WalkInv, WalkShaped, WalkPlaces
    <3> QED BY <1>d, <2>1, <3>2 DEF WalkInv, OutShaped, ListingsShaped, DoneListed
  <2>4. InHand' /\ HandleHeld'
    BY <2>1 DEF InHand, Handling, HandleHeld
  <2>5. \A i \in {1, 2} : \A p : DoneWith(i, p)' <=> DoneWith(i, p)
    BY <1>a, <2>1, <2>2 DEF DoneWith, FrameNames, Unread
  <2>6. ReadSoFar' /\ NameKept'
    BY <1>a, <1>d, <2>1, <2>2, <2>5 DEF WalkInv, ReadSoFar, NameKept
  <2>7. ReadWhole'
    <3>1. SUFFICES ASSUME Rechecks, NEW p \in DOMAIN out
                   PROVE  /\ out[p][1] = out[p][2]
                          /\ Windows => \A i \in 1..WalkDepth : \A e \in walk.frames[i].list : e[1] = p => out[p][2] = e[2].stamp
      BY <1>d, <2>1, <2>2 DEF ReadWhole, Rechecks, Windows
    <3>2. CASE p # walk.item
      BY <1>a, <3>1, <3>2 DEF WalkInv, ReadWhole
    <3>3. CASE p = walk.item
      <4>1. Entry(walk.item) = walk.before /\ walk.half = 2
        BY <1>a, <1>d, <3>1 DEF StillSame, WalkInv, HandleHeld
      <4>2. out[p][1] = walk.before.stamp /\ out[p][2] = walk.before.stamp
        BY <1>a, <3>1, <3>3, <4>1 DEF WalkInv, HandleHeld
      <4>3. ASSUME Windows, NEW i \in 1..WalkDepth, NEW e \in walk.frames[i].list, e[1] = p PROVE e[2] = walk.before
        <5>1. CASE i = WalkDepth
          <6>1. <<walk.item, walk.before>>[1] = e[1] /\ e \in Top.list /\ <<walk.item, walk.before>> \in Top.list
            BY <1>a, <1>b, <3>3, <4>3, <5>1
          <6>2. e = <<walk.item, walk.before>>
            BY <1>a, <6>1 DEF FrameListed
          <6> QED BY <6>2
        <5>2. CASE i # WalkDepth
          <6>1. WalkDepth = 2 /\ i = 1
            BY <1>a, <5>2
          <6>2. e[1] \in NamesOf("root") /\ walk.item \in NamesOf("d")
            BY <1>a, <1>b, <4>3, <6>1 DEF WalkInv, FramesListed, FrameListed, WalkStack
          <6> QED BY <3>3, <4>3, <6>2 DEF NamesOf
        <5> QED BY <5>1, <5>2
      <4> QED BY <4>2, <4>3
    <3> QED BY <3>2, <3>3
  <2>8. DirectoriesExact'
    BY <1>a, <1>d, <2>1 DEF WalkInv, DirectoriesExact, ExactAt, Rechecks, Windows, ReadIn, EndedFiles, EndedDirs
  <2> QED BY <2>2, <2>3, <2>4, <2>6, <2>7, <2>8 DEF WalkInv
<1> QED BY <1>c, <1>d DEF RecheckEntry

\* The directory is listed again, and nothing is different.
LEMMA RelistKeeps == ASSUME WalkInv, RelistDirectory PROVE WalkInv'
<1>a. walk.pc = "entry" /\ Top.todo = {} /\ WalkDepth \in 1..2 /\ Len(walk.frames) = WalkDepth /\ walk.frames \in Seq(WalkFrames)
      /\ Top = walk.frames[WalkDepth] /\ Top \in WalkFrames /\ UNCHANGED tree /\ Walking
  BY StackIs DEF RelistDirectory, Walking
<1>b. CASE Unavailable("windows_directory_changed")
  BY <1>a, <1>b, UnavailableKeeps
<1>c. CASE ~Unavailable("windows_directory_changed")
  <2>1. Listing(Top.dir) = Top.list /\ UNCHANGED <<tree, out, listings>>
        /\ walk' = [SetTop(walk, [Top EXCEPT !.list = Listing(Top.dir)]) EXCEPT !.pc = "relisted"]
    BY <1>c DEF RelistDirectory
  <2>2. [Top EXCEPT !.list = Listing(Top.dir)] = Top
    BY <1>a, <2>1 DEF WalkFrames
  <2>3. walk' = AsWalk(walk') /\ walk'.pc = "relisted" /\ walk'.how = walk.how /\ walk'.item = walk.item /\ walk'.at = walk.at
        /\ walk'.before = walk.before /\ walk'.frames = [walk.frames EXCEPT ![Len(walk.frames)] = Top]
    BY <2>1, <2>2 DEF SetTop, WalkInv, WalkShaped, AsWalk
  <2>4. walk'.frames = walk.frames
    BY <1>a, <2>3, LenProperties, ExceptSeq, SeqEqual
  <2>5. TreeShaped' /\ WalkStack' /\ FramesListed' /\ FramesHeld' /\ WalkDepth' = WalkDepth /\ Walking' /\ Top' = Top
        /\ ListedAt(1)' /\ ListedAt(2)' /\ ListedAt(1) /\ ListedAt(2)
    BY <1>a, <2>3, <2>4, FramesStay
  <2>6. OutShaped' /\ ListingsShaped' /\ WalkShaped' /\ DoneListed'
    <3>1. walk'.at = "old" => Inside'
      BY <1>a, <2>3, <2>4 DEF WalkInv, WalkShaped, Inside
    <3>2. WalkShaped'
      BY <2>3, <2>4, <3>1 DEF WalkInv, WalkShaped, WalkPlaces
    <3> QED BY <2>1, <2>3, <3>2 DEF WalkInv, OutShaped, ListingsShaped, DoneListed
  <2>7. InHand' /\ HandleHeld'
    BY <2>3 DEF InHand, Handling, HandleHeld
  <2>8. \A i \in {1, 2} : \A p : DoneWith(i, p)' <=> DoneWith(i, p)
    BY <1>a, <2>3, <2>4, <2>5 DEF DoneWith, FrameNames, Unread
  <2>9. ReadSoFar' /\ NameKept'
    BY <1>a, <2>1, <2>3, <2>4, <2>5, <2>8 DEF WalkInv, ReadSoFar, NameKept
  <2>10. ReadWhole' /\ DirectoriesExact'
    BY <1>a, <2>1, <2>3, <2>4, <2>5 DEF WalkInv, ReadWhole, DirectoriesExact, ExactAt, Rechecks, Windows, ReadIn, EndedFiles, EndedDirs
  <2> QED BY <2>5, <2>6, <2>7, <2>9, <2>10 DEF WalkInv
<1> QED BY <1>b, <1>c

\* The walk of a directory ends: it has the entries that were listed, and all
\* were read or walked.
LEMMA EndDirectoryKeeps == ASSUME WalkInv, EndDirectory PROVE WalkInv'
<1>a. walk.pc \in {"entry", "relisted"} /\ Top.todo = {} /\ WalkDepth \in 1..2 /\ Len(walk.frames) = WalkDepth
      /\ walk.frames \in Seq(WalkFrames) /\ Top = walk.frames[WalkDepth] /\ Top \in WalkFrames /\ walk.frames[1] \in WalkFrames
      /\ FrameListed(Top) /\ ListedAt(1) /\ ListedAt(2) /\ UNCHANGED tree
      /\ (Top.dir = IF WalkDepth = 1 THEN "root" ELSE "d") /\ Walking
  BY StackIs DEF EndDirectory, Walking, WalkInv, WalkStack
<1>b. ~Unread("d") /\ ~Unread("f") /\ ~Unread("g") /\ Top.dir \in {"root", "d"} /\ "root" \notin DOMAIN listings
  BY <1>a DEF Unread, WalkInv, ReadSoFar
<1>c. CASE \E reason : Unavailable(reason)
  BY <1>a, <1>c, UnavailableKeeps
<1>d. CASE ~\E reason : Unavailable(reason)
  <2>0. PICK here \in {"root", "d"} : here = Top.dir
    BY <1>b
  <2>1. DirectoryHeld /\ UNCHANGED <<tree, out>>
        /\ listings' = [dir \in DOMAIN listings \cup {here} |-> IF dir = here THEN Ended(here) ELSE listings[dir]]
        /\ walk' = [walk EXCEPT !.frames = Front(@), !.pc = IF Len(walk.frames) = 1 THEN "done" ELSE "after",
                                !.item = here, !.frozen = Top.stamp]
    BY <1>d, <2>0 DEF EndDirectory
  <2>2. walk' = AsWalk(walk') /\ walk'.how = walk.how /\ walk'.item = here /\ walk'.before = walk.before /\ walk'.at = walk.at
        /\ walk'.frames = Front(walk.frames) /\ walk'.pc = IF WalkDepth = 1 THEN "done" ELSE "after"
    BY <1>a, <2>0, <2>1 DEF WalkInv, WalkShaped, AsWalk
  <2>3. walk'.frames \in Seq(WalkFrames) /\ WalkDepth' = WalkDepth - 1 /\ Len(walk'.frames) = WalkDepth - 1
        /\ (WalkDepth = 2 => walk'.frames[1] = walk.frames[1])
    BY <1>a, <2>0, <2>2, TopTaken DEF WalkDepth
  <2>4. DOMAIN listings' = DOMAIN listings \cup {here} /\ listings'[here] = Ended(here)
        /\ (\A d \in DOMAIN listings : d # here => listings'[d] = listings[d])
        /\ listings' = [d \in DOMAIN listings' |-> listings'[d]]
    BY <2>1
  <2>5. Rechecks' = Rechecks /\ Windows' = Windows /\ out' = out /\ tree' = tree
    BY <2>1, <2>2 DEF Rechecks, Windows
  <2>6. \A p : Entry(p)' = Entry(p) /\ Held(p)' = Held(p) /\ Children(p)' = Children(p)
    BY <1>a, <2>0, <2>2, Undisturbed
  <2>7. TreeShaped' /\ OutShaped' /\ ListingsShaped'
    BY <1>b, <2>0, <2>1, <2>4 DEF WalkInv, TreeShaped, OutShaped, ListingsShaped
  <2>8. WalkShaped'
    <3>1. walk'.at = "old" => Inside'
      <4>1. CASE WalkDepth = 1
        BY <1>a, <2>2, <4>1 DEF WalkInv, WalkShaped, Inside
      <4>2. CASE WalkDepth = 2
        BY <2>2, <4>2 DEF Inside
      <4> QED BY <1>a, <4>1, <4>2
    <3> QED BY <2>2, <2>3, <3>1 DEF WalkInv, WalkShaped, WalkPlaces
  <2>9. WalkStack'
    <3>1. CASE WalkDepth = 1
      <4>1. walk'.pc = "done" /\ WalkDepth' = 0
        BY <2>2, <2>3, <3>1
      <4> QED BY <4>1 DEF WalkStack, Walking
    <3>2. CASE WalkDepth = 2
      <4>1. walk'.pc = "after" /\ WalkDepth' = 1 /\ walk'.frames[1].dir = "root"
        BY <2>2, <2>3, <3>2 DEF WalkInv, WalkStack
      <4> QED BY <4>1 DEF WalkStack, Walking
    <3> QED BY <1>a, <2>0, <3>1, <3>2
  <2>10. FramesListed' /\ FramesHeld'
    <3>1. CASE WalkDepth = 1
      BY <2>2, <2>3, <3>1 DEF FramesListed, FramesHeld, Walking
    <3>2. CASE WalkDepth = 2
      <4>1. FrameListed(walk.frames[1]) /\ FrameHeld(walk.frames[1], ListedAt(1))
        BY <1>a, <2>0, <3>2 DEF WalkInv, FramesListed, FramesHeld
      <4>2. WalkDepth' = 1 /\ ListedAt(1)' /\ walk'.frames[1] = walk.frames[1]
        BY <2>2, <2>3, <3>2 DEF ListedAt
      <4>3. FrameListed(walk.frames[1])' /\ FrameHeld(walk.frames[1], ListedAt(1))'
        BY <1>a, <2>0, <2>6, <4>1, <4>2 DEF FrameListed, FrameHeld, FrameNames
      <4>4. \A i \in 1..WalkDepth' : i = 1
        BY <4>2
      <4> QED BY <4>3, <4>4 DEF FramesListed, FramesHeld
    <3> QED BY <1>a, <2>0, <3>1, <3>2
  <2>11. InHand' /\ HandleHeld'
    BY <2>2 DEF InHand, Handling, HandleHeld
  <2>12. ReadSoFar' /\ NameKept'
    <3>1. CASE WalkDepth = 1
      BY <2>2, <3>1 DEF ReadSoFar, NameKept, Walking
    <3>2. CASE WalkDepth = 2
      <4>1. walk'.pc = "after" /\ WalkDepth' = 1 /\ here = "d" /\ ListedAt(1)' /\ walk'.frames[1] = walk.frames[1]
        BY <1>a, <2>0, <2>2, <2>3, <3>2 DEF ListedAt
      <4>2. \A p : DoneWith(1, p)' <=> ListedAt(1) /\ p \in FrameNames(walk.frames[1]) /\ p \notin walk.frames[1].todo
        BY <1>a, <2>0, <4>1 DEF DoneWith, FrameNames, Unread
      <4>3. \A p \in {"f", "d"} : DoneWith(1, p)' <=> DoneWith(1, p)
        BY <1>b, <2>0, <4>2 DEF DoneWith
      <4>4. DOMAIN listings' = DOMAIN listings \cup {"d"} /\ listings'["d"] = Ended("d")
        BY <2>4, <4>1
      <4>5. ReadSoFar'
        BY <1>a, <2>0, <1>b, <2>2, <2>5, <3>2, <4>1, <4>3, <4>4 DEF WalkInv, ReadSoFar
      <4>6. tree["root"].stamp = walk.frames[1].stamp => walk.at = "d" /\ tree["d"].kind = "dir" /\ "d" \notin DOMAIN out
        BY <1>a, <2>0, <3>2 DEF WalkInv, NameKept, ReadSoFar
      <4>7. walk.at = "d" => Ended("d").id = tree["d"].id
        BY DEF Ended, Held
      <4> QED BY <2>2, <2>5, <4>1, <4>4, <4>5, <4>6, <4>7 DEF NameKept
    <3> QED BY <1>a, <2>0, <3>1, <3>2
  <2>13. ReadWhole'
    <3>1. \A i \in 1..WalkDepth' : walk'.frames[i] = walk.frames[i] /\ i \in 1..WalkDepth
      BY <1>a, <2>0, <2>3
    <3> QED BY <1>a, <2>0, <2>2, <2>5, <3>1 DEF WalkInv, ReadWhole
  <2>14. ASSUME Rechecks
         PROVE  /\ FrameNames(Top) = Children(here) /\ \A e \in Top.list : e[2].kind = Entry(e[1]).kind
                /\ here = "root" => tree["root"].stamp = walk.frames[1].stamp
    <3>1. Held(here).stamp = Top.stamp
      BY <2>0, <2>1, <2>14 DEF DirectoryHeld
    <3>2. FrameHeld(Top, TRUE)
      <4>1. WalkDepth \in 1..WalkDepth /\ ListedAt(WalkDepth)
        BY <1>a
      <4> QED BY <1>a, <2>0, <4>1 DEF WalkInv, FramesHeld, FrameHeld
    <3>3. here = "root" => Top = walk.frames[1] /\ Held(here) = tree["root"]
      BY <1>a, <2>0 DEF Held
    <3> QED BY <2>0, <3>1, <3>2, <3>3 DEF FrameHeld
  <2>15. Children(here) \subseteq NamesOf(here) /\ \A p \in Children(here) : Entry(p).kind = "dir" => p = "d"
    BY <1>b, <2>0, HeldIs DEF Children
  <2>16. \* what was read of it, and whether its directory was walked
         ASSUME Rechecks
         PROVE  /\ ReadIn(here) = {p \in Children(here) : Entry(p).kind # "dir"}
                /\ here = "root" => ("d" \in DOMAIN listings <=> "d" \in Children("root") /\ tree["d"].kind = "dir")
    <3>1. CASE WalkDepth = 1
      <4>1. here = "root" /\ ReadIn(here) = DOMAIN out \cap {"f", "d"} /\ Top = walk.frames[1]
        BY <1>a, <2>0, <3>1 DEF ReadIn, Parent, WalkInv, OutShaped, EntryNames
      <4>2. \A p \in {"f", "d"} : DoneWith(1, p) <=> p \in Children("root")
        BY <1>a, <2>0, <1>b, <2>14, <2>16, <4>1 DEF DoneWith
      <4>3. "d" \in DOMAIN out => tree["d"].kind # "dir"
        BY <1>a, <2>0, <2>14, <2>16, <4>1 DEF WalkInv, NameKept
      <4>4. "d" \in DOMAIN listings => tree["d"].kind = "dir"
        BY <1>a, <2>0, <2>14, <2>16, <4>1 DEF WalkInv, NameKept
      <4>5. Entry("d") = tree["d"] /\ Children("root") \subseteq {"f", "d"}
        BY <2>15, <4>1, HeldIs DEF NamesOf
      <4> QED BY <1>a, <2>0, <2>15, <3>1, <4>1, <4>2, <4>3, <4>4, <4>5 DEF WalkInv, ReadSoFar
    <3>2. CASE WalkDepth = 2
      <4>1. here = "d" /\ ReadIn(here) = DOMAIN out \cap {"g"} /\ Top = walk.frames[2]
        BY <1>a, <2>0, <3>2 DEF ReadIn, Parent, WalkInv, OutShaped, EntryNames
      <4>2. DoneWith(2, "g") <=> "g" \in Children(here)
        BY <1>a, <2>0, <1>b, <2>14, <2>16, <4>1 DEF DoneWith
      <4>3. Children(here) \subseteq {"g"}
        BY <2>15, <4>1 DEF NamesOf
      <4> QED BY <1>a, <2>0, <2>15, <3>2, <4>1, <4>2, <4>3 DEF WalkInv, ReadSoFar
    <3> QED BY <1>a, <2>0, <3>1, <3>2
  <2>17. /\ \A e \in listings'[here].names : e[1] \in Children(here) /\ e[2] = Entry(e[1]).kind /\ e[3] = Entry(e[1]).id
         /\ \A p \in Children(here) : <<p, Entry(p).kind, Entry(p).id>> \in listings'[here].names
         /\ listings'[here].list = Top.list
    <3>1. listings'[here].names = {<<p, Entry(p).kind, Entry(p).id>> : p \in Children(here)} /\ listings'[here].list = Top.list
      BY <2>0, <2>4 DEF Ended
    <3> QED BY <3>1
  <2>18. \A e \in EndedDirs(here)' : e[1] = "d" /\ "d" \in Children(here) /\ Entry("d").kind = "dir" /\ e[3] = Entry("d").id
    BY <2>15, <2>17 DEF EndedDirs
  <2>19. ASSUME Rechecks, here = "root"
         PROVE  /\ {e[1] : e \in EndedDirs(here)'} = DOMAIN listings
                /\ "d" \in DOMAIN listings => listings'["d"].id = Entry("d").id
    <3>1. Entry("d") = tree["d"] /\ DOMAIN listings \subseteq {"d"}
      BY <1>b, <2>0, HeldIs DEF WalkInv, ListingsShaped
    <3>2. "d" \in DOMAIN listings <=> "d" \in Children("root") /\ tree["d"].kind = "dir"
      BY <2>16, <2>19
    <3>3. ASSUME "d" \in DOMAIN listings PROVE "d" \in {e[1] : e \in EndedDirs(here)'} /\ listings'["d"].id = Entry("d").id
      <4>1. <<"d", Entry("d").kind, Entry("d").id>> \in EndedDirs(here)'
        BY <2>17, <2>19, <3>1, <3>2, <3>3 DEF EndedDirs
      <4>2. listings'["d"] = listings["d"] /\ listings["d"].id = tree["d"].id
        BY <1>a, <2>0, <2>4, <2>14, <2>19, <3>3 DEF WalkInv, NameKept
      <4>3. <<"d", Entry("d").kind, Entry("d").id>>[1] = "d"
        OBVIOUS
      <4> QED BY <3>1, <4>1, <4>2, <4>3
    <3>4. ASSUME NEW e \in EndedDirs(here)' PROVE e[1] \in DOMAIN listings
      BY <2>18, <2>19, <3>1, <3>2, <3>4
    <3> QED BY <3>1, <3>3, <3>4
  <2>20. ASSUME Rechecks PROVE ExactAt(here)'
    <3>1. ReadIn(here)' = ReadIn(here)
      BY <2>5 DEF ReadIn
    <3>2. EndedFiles(here)' = {p \in Children(here) : Entry(p).kind # "dir"}
      <4>1. EndedFiles(here)' = {e[1] : e \in {x \in listings'[here].names : x[2] # "dir"}}
        BY DEF EndedFiles
      <4>2. ASSUME NEW p \in Children(here), Entry(p).kind # "dir"
            PROVE  p \in {e[1] : e \in {x \in listings'[here].names : x[2] # "dir"}}
        <5>1. <<p, Entry(p).kind, Entry(p).id>>[1] = p /\ <<p, Entry(p).kind, Entry(p).id>>[2] # "dir"
          BY <4>2
        <5> QED BY <2>17, <5>1
      <4> QED BY <2>17, <4>1, <4>2
    <3>3. ASSUME NEW e \in EndedDirs(here)' PROVE e[1] \in DOMAIN listings' /\ listings'[e[1]].id = e[3]
      <4>1. e[1] = "d" /\ "d" \in Children(here) /\ Entry("d").kind = "dir" /\ e[3] = Entry("d").id
        BY <2>18, <3>3
      <4>2. here = "root"
        BY <1>b, <2>0, <2>15, <4>1 DEF NamesOf
      <4> QED BY <2>4, <2>19, <2>20, <3>3, <4>1, <4>2
    <3>4. ASSUME Windows, NEW e \in Top.list, e[2].kind # "dir" PROVE e[1] \in ReadIn(here) /\ out[e[1]][2] = e[2].stamp
      <4>1. e[1] \in ReadIn(here) /\ e[1] \in DOMAIN out
        <5>1. e[1] \in Children(here) /\ Entry(e[1]).kind # "dir"
          BY <2>14, <2>20, <3>4 DEF FrameNames
        <5> QED BY <2>16, <2>20, <5>1 DEF ReadIn
      <4>2. WalkDepth \in 1..WalkDepth
        BY <1>a
      <4> QED BY <1>a, <2>0, <2>20, <3>4, <4>1, <4>2 DEF WalkInv, ReadWhole
    <3>5. \A e \in listings'[here].list : Windows' /\ e[2].kind # "dir" => e[1] \in ReadIn(here)' /\ out'[e[1]][2] = e[2].stamp
      BY <2>5, <2>17, <3>1, <3>4
    <3> QED BY <2>16, <2>20, <3>1, <3>2, <3>3, <3>5 DEF ExactAt
  <2>21. DirectoriesExact'
    <3>1. SUFFICES ASSUME Rechecks, NEW dir \in DOMAIN listings' PROVE ExactAt(dir)'
      BY <2>5 DEF DirectoriesExact
    <3>2. CASE dir = here
      BY <2>20, <3>1, <3>2
    <3>3. CASE dir # here
      <4>1. dir \in DOMAIN listings /\ listings'[dir] = listings[dir] /\ ExactAt(dir)
        BY <1>a, <2>0, <2>4, <3>1, <3>3 DEF WalkInv, DirectoriesExact
      <4>2. dir = "d" /\ here = "root"
        BY <1>b, <2>0, <3>3, <4>1 DEF WalkInv, ListingsShaped
      <4>3. ReadIn("d")' = ReadIn("d") /\ EndedFiles("d")' = EndedFiles("d") /\ EndedDirs("d")' = EndedDirs("d")
        BY <2>5, <4>1, <4>2 DEF ReadIn, EndedFiles, EndedDirs
      <4>4. \A e \in EndedDirs("d") : e[1] \in DOMAIN listings' /\ listings'[e[1]].id = e[3]
        <5>1. \A e \in EndedDirs("d") : e[1] \in DOMAIN listings /\ listings[e[1]].id = e[3]
          BY <4>1, <4>2 DEF ExactAt
        <5>2. DOMAIN listings \subseteq DOMAIN listings' /\ \A x \in DOMAIN listings : listings'[x] = listings[x]
          BY <1>b, <2>4, <4>2
        <5> QED BY <5>1, <5>2
      <4> QED BY <2>5, <4>1, <4>2, <4>3, <4>4 DEF ExactAt
    <3> QED BY <3>2, <3>3
  <2>22. DoneListed'
    <3>1. SUFFICES ASSUME Rechecks, WalkDepth = 1 PROVE DOMAIN listings' = {"root"} \cup {e[1] : e \in EndedDirs("root")'}
      BY <1>a, <2>0, <2>2, <2>5 DEF DoneListed
    <3>2. here = "root"
      BY <1>a, <2>0, <3>1
    <3> QED BY <2>4, <2>19, <3>1, <3>2
  <2> QED BY <2>7, <2>8, <2>9, <2>10, <2>11, <2>12, <2>13, <2>21, <2>22 DEF WalkInv
<1> QED BY <1>c, <1>d

\* Its parent goes on.
LEMMA AfterChildKeeps == ASSUME WalkInv, AfterChild PROVE WalkInv'
<1>a. walk.pc = "after" /\ Walking /\ UNCHANGED tree /\ walk.item = "d" /\ WalkDepth = 1 /\ walk.frames[1].dir = "root"
      /\ walk.frames[1] \in WalkFrames /\ ListedAt(1) /\ FrameListed(walk.frames[1])
  BY StackIs DEF AfterChild, Walking, WalkInv, ReadSoFar
<1>b. CASE Unavailable("filesystem_changed")
  BY <1>a, <1>b, UnavailableKeeps
<1>c. CASE walk' = [walk EXCEPT !.pc = "entry", !.item = "none", !.at = "d"] /\ UNCHANGED <<out, listings>>
  <2>1. walk' = AsWalk(walk') /\ walk'.pc = "entry" /\ walk'.how = walk.how /\ walk'.item = "none" /\ walk'.at = "d"
        /\ walk'.before = walk.before /\ walk'.frames = walk.frames
    BY <1>c DEF WalkInv, WalkShaped, AsWalk
  <2>2. WalkDepth' = 1 /\ Walking' /\ ListedAt(1)' /\ Top' = Top
    BY <1>a, <2>1 DEF WalkDepth, Walking, ListedAt, Top
  <2>3. TreeShaped' /\ OutShaped' /\ ListingsShaped' /\ WalkShaped' /\ DoneListed' /\ WalkStack'
    BY <1>a, <1>c, <2>1, <2>2 DEF WalkInv, TreeShaped, OutShaped, ListingsShaped, WalkShaped, WalkPlaces, DoneListed, WalkStack
  <2>4. \A p \in {"f", "d"} : Entry(p)' = Entry(p)
    BY <1>a DEF Entry
  <2>5. Held("root")' = Held("root") /\ Children("root")' = Children("root")
    BY <1>a, <2>4 DEF Held, Children, EntryNames, Parent
  <2>6. \A e \in walk.frames[1].list : Entry(e[1])' = Entry(e[1])
    BY <1>a, <2>4 DEF FrameListed, NamesOf
  <2>7. FrameListed(walk.frames[1])' /\ FrameHeld(walk.frames[1], ListedAt(1))'
    <3>1. FrameHeld(walk.frames[1], TRUE)
      BY <1>a DEF WalkInv, FramesHeld, FrameHeld
    <3> QED BY <1>a, <2>1, <2>2, <2>5, <2>6, <3>1 DEF FrameListed, FrameHeld, FrameNames
  <2>8. FramesListed' /\ FramesHeld'
    <3>1. \A i \in 1..WalkDepth' : i = 1
      BY <2>2
    <3> QED BY <2>7, <3>1 DEF FramesListed, FramesHeld
  <2>9. InHand' /\ HandleHeld'
    BY <2>1 DEF InHand, Handling, HandleHeld
  <2>10. \A p : DoneWith(1, p)' <=> DoneWith(1, p)
    BY <1>a, <2>1, <2>2 DEF DoneWith, FrameNames, Unread
  <2>11. ReadSoFar' /\ NameKept'
    BY <1>a, <1>c, <2>1, <2>2, <2>10 DEF WalkInv, ReadSoFar, NameKept
  <2>12. ReadWhole' /\ DirectoriesExact'
    BY <1>a, <1>c, <2>1, <2>2 DEF WalkInv, ReadWhole, DirectoriesExact, ExactAt, Rechecks, Windows, ReadIn, EndedFiles, EndedDirs
  <2> QED BY <2>3, <2>8, <2>9, <2>11, <2>12 DEF WalkInv
<1> QED BY <1>b, <1>c DEF AfterChild

\* For any number of changes, whatever entries they are of and whenever they fall.
THEOREM WalkInvariant == WalkSpec => []WalkInv
<1>1. WalkInit => WalkInv
  <2> SUFFICES ASSUME WalkInit PROVE WalkInv
    OBVIOUS
  <2>1. PICK kind \in {"file", "link"} :
          tree = [p \in TreePaths |-> [kind |-> IF p \in {"root", "d"} THEN "dir" ELSE IF p = "f" THEN kind
                                                ELSE IF p = "g" THEN "file" ELSE "none",
                                      id |-> 0, stamp |-> 0]]
    BY DEF WalkInit
  <2>2. PICK how \in Hows : walk = FreshWalk(how)
    BY DEF WalkInit
  <2>3. DOMAIN out = {} /\ DOMAIN listings = {} /\ out = [p \in DOMAIN out |-> out[p]]
        /\ listings = [d \in DOMAIN listings |-> listings[d]]
    BY DEF WalkInit, NoListings
  <2>4. TreeShaped
    BY <2>1 DEF TreeShaped, TreePaths, Metas
  <2>5. walk = AsWalk(walk) /\ walk.pc = "open" /\ walk.how = how /\ walk.frames = <<>> /\ walk.item = "none"
        /\ walk.before = tree["root"] /\ walk.at = "d"
    BY <2>2 DEF FreshWalk, AsWalk
  <2>6. WalkShaped
    BY <2>4, <2>5, EmptySeq DEF WalkShaped, WalkPlaces, TreeShaped, TreePaths
  <2>7. OutShaped /\ ListingsShaped
    BY <2>3 DEF OutShaped, ListingsShaped
  <2>8. WalkStack
    BY <2>3, <2>5, EmptySeq DEF WalkStack, WalkDepth, Walking
  <2>9. /\ FramesListed /\ FramesHeld /\ InHand /\ HandleHeld /\ ReadSoFar /\ NameKept
        /\ ReadWhole /\ DirectoriesExact /\ DoneListed
    BY <2>3, <2>5 DEF FramesListed, FramesHeld, InHand, HandleHeld, ReadSoFar, NameKept, ReadWhole, DirectoriesExact, DoneListed,
       Walking, Handling
  <2> QED BY <2>4, <2>6, <2>7, <2>8, <2>9 DEF WalkInv
<1>2. WalkInv /\ [WalkNext]_walkVars => WalkInv'
  <2> SUFFICES ASSUME WalkInv, [WalkNext]_walkVars PROVE WalkInv'
    OBVIOUS
  <2>1. ASSUME NEW p \in TreePaths, TreeWrite(p) \/ \E kind \in {"none", "file", "link", "other"} : Relink(p, kind)
        PROVE  WalkInv'
    BY <2>1, TreeWriteKeeps, RelinkKeeps
  <2>2. ASSUME NEW kind \in {"none", "file", "link", "other", "dir"}, NEW inner \in {"none", "file"}, RelinkDirectory(kind, inner)
        PROVE  WalkInv'
    BY <2>2, RelinkDirectoryKeeps
  <2>3. CASE OpenRoot \/ List \/ StatEntry \/ OpenEntry \/ ReadHalf \/ RecheckEntry \/ RelistDirectory \/ EndDirectory \/ AfterChild
    BY <2>3, OpenRootKeeps, ListKeeps, StatEntryKeeps, OpenEntryKeeps, ReadHalfKeeps, RecheckEntryKeeps, RelistKeeps,
       EndDirectoryKeeps, AfterChildKeeps
  <2>4. CASE UNCHANGED walkVars
    <3>1. UNCHANGED <<tree, walk, out, listings>>
      BY <2>4 DEF walkVars
    <3>2. \A p : Entry(p)' = Entry(p) /\ Held(p)' = Held(p) /\ Children(p)' = Children(p)
      BY <3>1, Undisturbed
    <3>3. TreeShaped' /\ walk' = [walk EXCEPT !.at = walk'.at] /\ walk'.at \in {"d", "old"}
          /\ (walk'.at = "old" => walk.at = "old")
      BY <3>1 DEF WalkInv, TreeShaped, WalkShaped, AsWalk
    <3> QED BY <3>1, <3>2, <3>3, TreeChanges
  <2> QED BY <2>1, <2>2, <2>3, <2>4 DEF WalkNext
<1> QED BY <1>1, <1>2, PTL DEF WalkSpec

\* A projection that rechecks and is returned: each file read whole from one
\* version, each directory complete as its own walk ended, each directory
\* walked the one its parent then held under that name; no first attempt in it.
THEOREM WalkIsExact == WalkSpec => []WalkExact
<1>1. WalkInv => WalkExact
  <2> SUFFICES ASSUME WalkInv, walk.pc = "done", Rechecks
               PROVE  /\ \A p \in DOMAIN out : out[p][1] = out[p][2]
                      /\ \A dir \in DOMAIN listings : ExactAt(dir)
                      /\ DOMAIN listings = {"root"} \cup {e[1] : e \in EndedDirs("root")}
    BY DEF WalkExact, ExactAt
  <2>1. \A p \in DOMAIN out : out[p][1] = out[p][2]
    BY DEF WalkInv, ReadWhole
  <2>2. \A dir \in DOMAIN listings : ExactAt(dir)
    BY DEF WalkInv, DirectoriesExact
  <2>3. DOMAIN listings = {"root"} \cup {e[1] : e \in EndedDirs("root")}
    BY DEF WalkInv, DoneListed
  <2> QED BY <2>1, <2>2, <2>3
<1> QED BY <1>1, WalkInvariant, PTL

=============================================================================
