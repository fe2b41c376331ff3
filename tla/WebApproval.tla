---------------------------- MODULE WebApproval -----------------------------
(***************************************************************************)
(* The browser approvals of webui.py: ApprovalRegistry, WebApprover.ask on *)
(* the thread of the agent loop, and the /api/decision handlers on the     *)
(* threads of the HTTP server.  resolve runs on both, and only its pop is  *)
(* under the registry's lock.  Everything is in memory: after a restart    *)
(* nothing is pending, which is this module's initial state.               *)
(***************************************************************************)
EXTENDS Integers, Sequences

CONSTANTS
  Items,     \* pending approvals; the asking thread is known by its item
  Handlers,  \* threads that serve /api/decision
  Nil

Decisions == {"approve", "deny"}
Resolvers == Items \cup Handlers

ASSUME WebApprovalAssumption ==
  Items \cap Handlers = {} /\ Nil \notin Items /\ Nil \notin BOOLEAN

VARIABLES
  pending,   \* _pending
  granted,   \* item.granted
  event,     \* items whose event is set
  history,   \* _history
  asking,    \* where ask is for each item
  answer,    \* what ask returned
  stage,     \* where a resolver is in resolve
  target,    \* the item it popped
  decision,  \* its decision
  clicked,   \* history: decisions of the browser that resolve accepted
  shown      \* history: decisions confirmed to the browser

approvalVars == <<pending, granted, event, history, asking, answer, stage, target, decision,
          clicked, shown>>

ApprovalInit ==
  /\ pending = {} /\ event = {} /\ history = <<>>
  /\ granted = [i \in Items |-> FALSE]
  /\ asking = [i \in Items |-> "new"]
  /\ answer = [i \in Items |-> Nil]
  /\ stage = [t \in Resolvers |-> "idle"]
  /\ target = [t \in Resolvers |-> Nil]
  /\ decision = [t \in Resolvers |-> "deny"]
  /\ clicked = {} /\ shown = {}

ApprovalTypeOK ==
  /\ pending \subseteq Items /\ event \subseteq Items
  /\ granted \in [Items -> BOOLEAN]
  /\ history \in Seq(Items \X Decisions)
  /\ asking \in [Items -> {"new", "waiting", "expired", "denying", "returned"}]
  /\ answer \in [Items -> BOOLEAN \cup {Nil}]
  /\ stage \in [Resolvers -> {"idle", "decide", "signal", "log"}]
  /\ \A t \in Resolvers : stage[t] # "idle" => target[t] \in Items \ pending
  /\ clicked \subseteq Items \X Decisions /\ shown \subseteq clicked

\* registry.add
Add(i) ==
  /\ asking[i] = "new"
  /\ asking' = [asking EXCEPT ![i] = "waiting"]
  /\ pending' = pending \cup {i}
  /\ UNCHANGED <<granted, event, history, answer, stage, target, decision, clicked, shown>>

\* event.wait(timeout) returned True.
Wake(i) ==
  /\ asking[i] = "waiting" /\ i \in event
  /\ asking' = [asking EXCEPT ![i] = "returned"]
  /\ answer' = [answer EXCEPT ![i] = granted[i]]
  /\ UNCHANGED <<pending, granted, event, history, stage, target, decision, clicked, shown>>

\* event.wait(timeout) returned False.
MayExpireBug(i) == FALSE
MayExpire(i) == i \notin event

TimeOut(i) ==
  /\ asking[i] = "waiting" /\ MayExpire(i)
  /\ asking' = [asking EXCEPT ![i] = "expired"]
  /\ UNCHANGED <<pending, granted, event, history, answer, stage, target, decision,
                 clicked, shown>>

\* resolve's pop of item i by thread t.
Popped(i) == pending \ {i}

Pop(t, i, d) ==
  /\ pending' = Popped(i)
  /\ stage' = [stage EXCEPT ![t] = "decide"]
  /\ target' = [target EXCEPT ![t] = i]
  /\ decision' = [decision EXCEPT ![t] = d]

\* What ask returns after a timeout.
ExpiredAnswer(i) == FALSE

\* After the timeout, ask resolves its own item as denied.
Expire(i) ==
  /\ asking[i] = "expired"
  /\ IF i \in pending
     THEN /\ Pop(i, i, "deny")
          /\ asking' = [asking EXCEPT ![i] = "denying"]
          /\ UNCHANGED answer
     ELSE /\ asking' = [asking EXCEPT ![i] = "returned"]
          /\ answer' = [answer EXCEPT ![i] = ExpiredAnswer(i)]
          /\ UNCHANGED <<pending, stage, target, decision>>
  /\ UNCHANGED <<granted, event, history, clicked, shown>>

\* do_POST with a valid payload; an id that is not pending is a conflict.
Post(h, i, d) ==
  /\ stage[h] = "idle" /\ i \in pending
  /\ Pop(h, i, d)
  /\ clicked' = clicked \cup {<<i, d>>}
  /\ UNCHANGED <<granted, event, history, asking, answer, shown>>

\* The rest of resolve, without the lock.
Decide(t) ==
  /\ stage[t] = "decide"
  /\ granted' = [granted EXCEPT ![target[t]] = decision[t] = "approve"]
  /\ stage' = [stage EXCEPT ![t] = "signal"]
  /\ UNCHANGED <<pending, event, history, asking, answer, target, decision, clicked, shown>>

Signal(t) ==
  /\ stage[t] = "signal"
  /\ event' = event \cup {target[t]}
  /\ stage' = [stage EXCEPT ![t] = "log"]
  /\ UNCHANGED <<pending, granted, history, asking, answer, target, decision, clicked, shown>>

\* The entry in the history, and the end: ask returns, or the browser is told.
Log(t) ==
  LET i == target[t] IN
  /\ stage[t] = "log"
  /\ history' = Append(history, <<i, decision[t]>>)
  /\ stage' = [stage EXCEPT ![t] = "idle"]
  /\ target' = [target EXCEPT ![t] = Nil]
  /\ IF t \in Items
     THEN /\ asking' = [asking EXCEPT ![t] = "returned"]
          /\ answer' = [answer EXCEPT ![t] = ExpiredAnswer(t)]
          /\ UNCHANGED shown
     ELSE /\ shown' = shown \cup {<<i, decision[t]>>}
          /\ UNCHANGED <<asking, answer>>
  /\ UNCHANGED <<pending, granted, event, decision, clicked>>

Resolve(t) == Decide(t) \/ Signal(t) \/ Log(t)
Ask(i) == Wake(i) \/ TimeOut(i) \/ Expire(i)

-----------------------------------------------------------------------------
(***************************************************************************)
(* Properties                                                              *)
(***************************************************************************)

\* Nobody is left waiting, also when no browser ever answers.
AskEnds == \A i \in Items : asking[i] = "waiting" ~> asking[i] = "returned"
=============================================================================
