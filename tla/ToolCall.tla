------------------------------ MODULE ToolCall ------------------------------
(***************************************************************************)
(* AgentLoop._invoke: a tool call is decided by the policy, put before the *)
(* human if the policy says so, started with the control plane, executed   *)
(* and finished, in this order.  The module composes Operations (receipts) *)
(* and WebApproval (the registry, the handlers of the HTTP server and the  *)
(* timeout of ask).  A loop is known by its recorder; calls of read-only   *)
(* tools, which have no receipt, are left out.                             *)
(***************************************************************************)
EXTENDS Operations, WebApproval

ASSUME ToolCallAssumption == None \notin Items

VARIABLES
  at,    \* where a loop is: "idle", "asking", "start" or "started" (then pc)
  call,  \* name and input of the call
  item,  \* the approval it asked for, or None
  under  \* history: attempts executed under an approval

callVars == <<at, call, item>>
allVars == <<vars, approvalVars, callVars, under>>

Calls == Names \X Payloads
Fresh == Attempts \ started

\* _invoke returns.
Returned(c) ==
  /\ at' = [at EXCEPT ![c] = "idle"]
  /\ call' = [call EXCEPT ![c] = None]
  /\ item' = [item EXCEPT ![c] = None]

CallInit ==
  /\ Init /\ ApprovalInit
  /\ at = [c \in Recorders |-> "idle"]
  /\ call = [c \in Recorders |-> None]
  /\ item = [c \in Recorders |-> None]
  /\ under = [i \in Items |-> {}]

\* The policy allows the call, or demands an approval; a denied call, or one of
\* an unknown tool, changes nothing.
Allowed(c) ==
  /\ pc[c] = "idle" /\ at[c] = "idle"
  /\ \E x \in Calls : call' = [call EXCEPT ![c] = x]
  /\ at' = [at EXCEPT ![c] = "start"]
  /\ UNCHANGED <<vars, approvalVars, item, under>>

RequireApproval(c) ==
  /\ pc[c] = "idle" /\ at[c] = "idle"
  /\ \E x \in Calls, i \in Items :
       /\ Add(i)
       /\ call' = [call EXCEPT ![c] = x]
       /\ item' = [item EXCEPT ![c] = i]
  /\ at' = [at EXCEPT ![c] = "asking"]
  /\ UNCHANGED <<vars, under>>

\* ask has returned; its answer is not looked at.
AskedBug(c) ==
  /\ at[c] = "asking" /\ asking[item[c]] = "returned"
  /\ at' = [at EXCEPT ![c] = "start"]
  /\ UNCHANGED <<vars, approvalVars, call, item, under>>

\* Only True lets the call through.
Asked(c) ==
  /\ at[c] = "asking" /\ asking[item[c]] = "returned"
  /\ IF answer[item[c]]
     THEN at' = [at EXCEPT ![c] = "start"] /\ UNCHANGED <<call, item>>
     ELSE Returned(c)
  /\ UNCHANGED <<vars, approvalVars, under>>

\* operations.start; the answer decides whether the call is executed.
StartOperation(c) ==
  /\ at[c] = "start"
  /\ LET a == CHOOSE x \in Fresh : TRUE IN
     /\ Fresh # {}
     /\ \/ Start(c, call[c][1], call[c][2], a)
        \/ StartLost(c, call[c][1], call[c][2], a)
  /\ IF pc'[c] = "admitted"
     THEN at' = [at EXCEPT ![c] = "started"] /\ UNCHANGED <<call, item>>
     ELSE Returned(c)
  /\ UNCHANGED <<approvalVars, under>>

\* registry.invoke
ExecuteTool(c) ==
  /\ Execute(c)
  /\ under' = IF item[c] = None THEN under
              ELSE [under EXCEPT ![item[c]] = @ \cup {attempt[c]}]
  /\ UNCHANGED <<approvalVars, callVars>>

FinishOperation(c) ==
  /\ \E applied \in BOOLEAN : Finish(c, applied)
  /\ Returned(c)
  /\ UNCHANGED <<approvalVars, under>>

\* The loop dies or ends.  One that is asking has begun nothing: it might as
\* well have left before.
LeaveLoop(c) ==
  /\ at[c] # "asking"
  /\ Leave(c)
  /\ Returned(c)
  /\ UNCHANGED <<approvalVars, under>>

\* The other threads: ask while it waits, a click, and resolve.
AskStep(i) == Ask(i) /\ UNCHANGED <<vars, callVars, under>>
ResolveStep(t) == Resolve(t) /\ UNCHANGED <<vars, callVars, under>>
PostStep(h) ==
  /\ \E i \in Items, d \in Decisions : Post(h, i, d)
  /\ UNCHANGED <<vars, callVars, under>>

CallNext ==
  \/ \E c \in Recorders :
       \/ Allowed(c)
       \/ RequireApproval(c)
       \/ Asked(c)
       \/ StartOperation(c)
       \/ ExecuteTool(c)
       \/ FinishOperation(c)
       \/ LeaveLoop(c)
  \/ \E i \in Items : AskStep(i)
  \/ \E h \in Handlers : PostStep(h)
  \/ \E t \in Resolvers : ResolveStep(t)

CallSpec == CallInit /\ [][CallNext]_allVars

\* The asking thread and a resolve under way go on; the browser need not.
FairCallSpec ==
  /\ CallSpec
  /\ \A i \in Items : WF_allVars(AskStep(i))
  /\ \A t \in Resolvers : WF_allVars(ResolveStep(t))
-----------------------------------------------------------------------------
(***************************************************************************)
(* Properties                                                              *)
(***************************************************************************)

(* Fail-closed: an action that needed an approval is executed only if the  *)
(* browser approved this very call, however the click races with the       *)
(* timeout and with other clicks; and one approval lets one action through, *)
(* whatever is lost, repeated or restarted afterwards.                     *)
ActionApproved ==
  \A i \in Items : under[i] # {} =>
    /\ <<i, "approve">> \in clicked /\ <<i, "deny">> \notin clicked
    /\ Cardinality(under[i]) = 1
=============================================================================
