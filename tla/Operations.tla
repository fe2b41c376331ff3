----------------------------- MODULE Operations -----------------------------
(***************************************************************************)
(* Receipts that keep side effects from being replayed blindly             *)
(* (operations.py) and the callers that execute under them: a tool call of *)
(* the agent loop (AgentLoop._invoke), a connector call and the            *)
(* engineering gate of the runner.                                         *)
(*                                                                         *)
(* A recorder lives as long as one step of one process; its counters are   *)
(* lost with it, while the control plane's event log stays.  The log is    *)
(* not part of the repository: Admission is modelled from how              *)
(* OperationRecorder.start and its design document read its answers.       *)
(***************************************************************************)
EXTENDS Integers, FiniteSets

CONSTANTS
  Recorders,  \* OperationRecorder instances of all processes
  ScopeOf,    \* the scope (step) of each
  Names,      \* operation names
  Payloads,   \* input descriptions
  Attempts,   \* attempt ids the control plane can give
  MaxStarts,  \* bound of the starts of one name by one recorder
  None

ASSUME OperationsAssumption ==
  /\ DOMAIN ScopeOf = Recorders
  /\ MaxStarts \in Nat
  /\ None \notin Attempts

VARIABLES
  started,   \* attempts in the event log
  key,       \* the request key of each: <<scope, name, occurrence>>
  payload,   \* its input
  open,      \* attempts without a finish event
  counters,  \* _counters of each recorder
  pc,        \* "idle", "admitted", "executed" or "gone"
  attempt,   \* the attempt a recorder was admitted under
  runs       \* history: how often each attempt was executed

logVars == <<started, key, payload, open>>
vars == <<logVars, counters, pc, attempt, runs>>

Init ==
  /\ started = {} /\ open = {}
  /\ key = [a \in Attempts |-> None]
  /\ payload = [a \in Attempts |-> None]
  /\ counters = [c \in Recorders |-> [n \in Names |-> 0]]
  /\ pc = [c \in Recorders |-> "idle"]
  /\ attempt = [c \in Recorders |-> None]
  /\ runs = [a \in Attempts |-> 0]

TypeOK ==
  /\ started \subseteq Attempts /\ open \subseteq started
  /\ counters \in [Recorders -> [Names -> Nat]]
  /\ pc \in [Recorders -> {"idle", "admitted", "executed", "gone"}]
  /\ attempt \in [Recorders -> Attempts \cup {None}]
  /\ \A c \in Recorders : pc[c] \in {"admitted", "executed"} => attempt[c] \in started
  /\ runs \in [Attempts -> Nat]

\* start draws two occurrences for every call; the second is in the key.
Key(c, n) == <<ScopeOf[c], n, counters[c][n] + 2>>

\* The control plane's answer to a start: a known key with the same input
\* returns the old attempt, with another input it is a conflict; an open
\* operation of the same name makes a new one ambiguous.
Admission(k, p) ==
  LET prior == {a \in started : key[a] = k} IN
  IF prior # {}
  THEN IF \E a \in prior : payload[a] = p THEN "already_applied" ELSE "conflict"
  ELSE IF \E a \in open : key[a][2] = k[2] THEN "ambiguous" ELSE "new"

\* StartedOperation.can_execute
CanExecuteBug(answer) == answer \in {"new", "already_applied"}
CanExecute(answer) == answer = "new"

\* The attempt an answer carries.
Answered(k, fresh) ==
  LET prior == {a \in started : key[a] = k}
  IN IF prior = {} THEN fresh ELSE CHOOSE a \in prior : TRUE

\* Where a caller goes from its answer: on to the action, or past it.
AfterStart(answer) == IF CanExecute(answer) THEN "admitted" ELSE "idle"

Start(c, n, p, a) ==
  LET k == Key(c, n)
      answer == Admission(k, p)
      next == AfterStart(answer)
  IN
  /\ pc[c] = "idle" /\ counters[c][n] < 2 * MaxStarts
  /\ a \in Attempts \ started
  /\ counters' = [counters EXCEPT ![c][n] = @ + 2]
  /\ IF answer = "new"
     THEN /\ started' = started \cup {a} /\ open' = open \cup {a}
          /\ key' = [key EXCEPT ![a] = k]
          /\ payload' = [payload EXCEPT ![a] = p]
     ELSE UNCHANGED logVars
  /\ pc' = [pc EXCEPT ![c] = next]
  /\ attempt' = [attempt EXCEPT ![c] = IF next = "idle" THEN None ELSE Answered(k, a)]
  /\ UNCHANGED runs

\* The event is written, but the caller gets a timeout, an invalid answer or
\* dies: it never executes.
StartLost(c, n, p, a) ==
  LET k == Key(c, n) IN
  /\ pc[c] = "idle" /\ counters[c][n] < 2 * MaxStarts
  /\ a \in Attempts \ started
  /\ Admission(k, p) = "new"
  /\ counters' = [counters EXCEPT ![c][n] = @ + 2]
  /\ started' = started \cup {a} /\ open' = open \cup {a}
  /\ key' = [key EXCEPT ![a] = k]
  /\ payload' = [payload EXCEPT ![a] = p]
  /\ \E next \in {"idle", "gone"} : pc' = [pc EXCEPT ![c] = next]
  /\ UNCHANGED <<attempt, runs>>

Execute(c) ==
  /\ pc[c] = "admitted"
  /\ pc' = [pc EXCEPT ![c] = "executed"]
  /\ runs' = [runs EXCEPT ![attempt[c]] = @ + 1]
  /\ UNCHANGED <<logVars, counters, attempt>>

\* finish, with its outcome; a refused or lost finish leaves the operation open,
\* as does the engineering gate when its run is not conclusive.
Finish(c, applied) ==
  /\ pc[c] = "executed"
  /\ open' = IF applied THEN open \ {attempt[c]} ELSE open
  /\ pc' = [pc EXCEPT ![c] = "idle"]
  /\ attempt' = [attempt EXCEPT ![c] = None]
  /\ UNCHANGED <<started, key, payload, counters, runs>>

\* An exception, a crash, or the end of the step.
Leave(c) ==
  /\ pc[c] # "gone"
  /\ pc' = [pc EXCEPT ![c] = "gone"]
  /\ attempt' = [attempt EXCEPT ![c] = None]
  /\ UNCHANGED <<logVars, counters, runs>>

Next ==
  \E c \in Recorders :
    \/ \E n \in Names, p \in Payloads, a \in Attempts : Start(c, n, p, a) \/ StartLost(c, n, p, a)
    \/ Execute(c)
    \/ \E applied \in BOOLEAN : Finish(c, applied)
    \/ Leave(c)

Spec == Init /\ [][Next]_vars

-----------------------------------------------------------------------------
(***************************************************************************)
(* Properties                                                              *)
(***************************************************************************)
\* An admission is good for one execution, although a recorder built after a
\* restart counts from zero and asks with the keys of its predecessor.
ExecutedOnce == \A a \in Attempts : runs[a] <= 1

\* Of one name there is never more than one action in flight, and none is in
\* flight while an earlier one has an unknown outcome.
OneInFlight ==
  \A c \in Recorders : pc[c] \in {"admitted", "executed"} =>
    \A a \in open : key[a][2] = key[attempt[c]][2] => a = attempt[c]

\* Nothing is reported as finished that was not executed: a start that was
\* refused or lost is never closed by inventing an outcome.
ClosedWasExecuted == \A a \in started \ open : runs[a] = 1
=============================================================================
