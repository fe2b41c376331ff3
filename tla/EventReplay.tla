----------------------------- MODULE EventReplay -----------------------------
(* The replay by which an evidence pack's event chain is judged               *)
(* (src/icode/pack_verify.py, and its copy tools/verify_evidence_pack.py):    *)
(* _verify_event_chain feeds every event to four mirrors that keep a bounded  *)
(* state each, and compares what they end with to the ticket's metadata:      *)
(*   mirror   _TicketStateMirror      states, close phases, birth             *)
(*   exec     _ExecutionEventMirror   attempts, operations, completion        *)
(*   agents   _AgentLifecycleMirror   spawn records                           *)
(*   bind     ExecutionBindingMirror  the execution root of the ticket        *)
(* The properties compare the mirrors with a definition over the whole chain. *)
(* The shape of an event (digests, names, vocabulary) is well formed here.    *)
EXTENDS Naturals, Sequences, FiniteSets

CONSTANTS Alphabet,      \* what may stand in a chain, by what is looked at
          Metadata,      \* the ticket's metadata there may be
          MaxEvents,     \* bound: events of a chain
          MaxOpenAgents  \* _MAX_OPEN_AGENT_SPAWNS

VARIABLES mode,      \* what the pack's contracts pin, and the events looked at
          meta,      \* the ticket's metadata in the pack
          log,       \* the events consumed
          mirror, exec, agents, bind,     \* the mirrors
          hash,      \* the last metadata_hash_after, 0 if none
          bad,       \* the checks that found a problem
          verdict    \* "none" until the chain ends

replayVars == <<mode, meta, log, mirror, exec, agents, bind, hash, bad, verdict>>

InitialState == [feature |-> "open", debug |-> "debugging"]
Transitions == {<<"open", "completed">>, <<"debugging", "completed">>, <<"completed", "open">>}
ClosePhases == <<"closing", "closed">>
Step == "audit"       \* the step the completion receipt names

Births == {"ticket_created", "migration_applied"}
Closings == {"close_phase", "ticket_reopened"}
StepEvents == {"gate_checked", "artifact_written", "step_finished"}
AttemptEvents == StepEvents \cup {"step_started", "operation_started", "operation_finished"}
AgentEvents == {"agent_spawned", "agent_result"}

\* The events each part of the verdict is about.
TypesOf == [state |-> Births \cup Closings \cup {"state_changed"},
            execution |-> {"ticket_created", "state_changed"} \cup AttemptEvents,
            noModel |-> {"ticket_created", "state_changed"} \cup AttemptEvents,
            agents |-> {"ticket_created"} \cup AgentEvents,
            binding |-> {"ticket_created", "metadata_updated"} \cup Closings \cup AttemptEvents \cup AgentEvents]
Modes == DOMAIN TypesOf

\* an event: its type, identity, two texts, a flag, and whether it has the
\* version of the model
WellFormedEvent(m, e) ==
    /\ e \in [t : TypesOf[m], id : STRING, s : STRING, r : STRING, k : BOOLEAN, v : BOOLEAN]
    /\ e.id # "none"
    /\ e.t = "ticket_created" => e.s \in DOMAIN InitialState
    /\ e.t = "close_phase" => e.r \in {"closing", "closed"}
    /\ e.t = "metadata_updated" => e.r # "none"

WellFormedMeta(m, x) ==
    /\ x \in [status : STRING, close : STRING, debug : BOOLEAN,
               spawns : Seq([id : STRING, result : STRING]),
               binding : STRING, checkout : BOOLEAN, hash : STRING]
    /\ m # "agents" => x.spawns = <<>>
    /\ m # "binding" => x.binding = "none"

\* Every chain and every metadata of these shapes is replayed.
ASSUME ReplayAssumption ==
    /\ MaxEvents \in Nat /\ MaxOpenAgents \in Nat \ {0}
    /\ \A m \in Modes : /\ \A e \in Alphabet[m] : WellFormedEvent(m, e)
                        /\ \A x \in Metadata[m] : WellFormedMeta(m, x)

\* _AgentLifecycleMirror refuses metadata that names a spawn twice
DistinctIds(records) == \A i, j \in DOMAIN records : records[i].id = records[j].id => i = j

NoCompletion == [att |-> "none", gates |-> "none", outcome |-> "none", checks |-> "none", finished |-> FALSE]

\* a table that holds nothing
Empty == [a \in {} |-> 0]

ReplayInit ==
    /\ mode \in Modes
    /\ meta \in Metadata[mode]
    /\ log = <<>>
    /\ mirror = [births |-> 0, migrations |-> 0, cur |-> "none", close |-> "none"]
    /\ exec = [steps |-> Empty, ops |-> Empty, open |-> {}, birth |-> FALSE, last |-> NoCompletion]
    /\ agents = [index |-> 0, open |-> Empty]
    /\ bind = [value |-> "none", seen |-> FALSE, open |-> {}, closed |-> FALSE]
    /\ hash = "none"
    /\ bad = IF DistinctIds(meta.spawns) THEN {} ELSE {"agents"}
    /\ verdict = "none"

-----------------------------------------------------------------------------
(* _TicketStateMirror.                                                       *)

Enabled == mode = "state"

NextPhase == IF mirror.close = "none" THEN ClosePhases[1]
             ELSE IF mirror.close = "closing" THEN ClosePhases[2] ELSE "over"

\* A migrated ticket has no known state until its first change.
TicketProblem(e) ==
    LET first == log = <<>>
    IN  \/ first /\ e.t \notin {"ticket_created", "migration_applied"}
        \/ e.t = "ticket_created" /\ (mirror.births + mirror.migrations > 0 \/ ~first
                                      \/ meta.debug # (e.s = "debug"))
        \/ e.t = "migration_applied" /\ mirror.births + mirror.migrations > 0
        \/ e.t = "state_changed" /\ (mirror.cur \notin {"none", e.s} \/ <<e.s, e.r>> \notin Transitions)
        \/ e.t = "close_phase" /\ (e.s # mirror.close \/ e.r # NextPhase)
        \/ e.t = "ticket_reopened" /\ mirror.close # "closed"

TicketConsume(e) ==
    [mirror EXCEPT
        !.births = @ + (IF e.t = "ticket_created" THEN 1 ELSE 0),
        !.migrations = @ + (IF e.t = "migration_applied" THEN 1 ELSE 0),
        !.cur = CASE e.t = "ticket_created" -> InitialState[e.s]
                  [] e.t = "state_changed" -> e.r
                  [] OTHER -> @,
        !.close = CASE e.t = "close_phase" -> e.r
                    [] e.t = "ticket_reopened" -> "none"
                    [] OTHER -> @]

TicketFinish ==
    Enabled => /\ mirror.cur \in {"none", meta.status}
               /\ mirror.close = meta.close

-----------------------------------------------------------------------------
(* _ExecutionEventMirror: attempt |-> [step, finished] and its like for       *)
(* operations; `open`, the operations with side effects that have not ended;  *)
(* `last`, the latest attempt of the step that completion depends on.         *)

Started(table, e) ==
    [id \in DOMAIN table \cup {e.id} |->
       IF id = e.id THEN [step |-> e.s, finished |-> FALSE] ELSE table[id]]
Finished(table, e) ==
    [id \in DOMAIN table |-> IF id = e.id THEN [step |-> table[id].step, finished |-> TRUE] ELSE table[id]]
\* the entry is not there, has ended, or has another name
Unpaired(table, e) == e.id \in DOMAIN table => table[e.id].finished \/ table[e.id].step # e.s

\* A new attempt replaces the latest one; only its own events count for it.
\* e.k: the checks a finish reports are those its gates recorded.
TrackCompletion(e) ==
    LET own == e.id = exec.last.att /\ e.s = Step
    IN  CASE e.t = "step_started" /\ e.s = Step -> [NoCompletion EXCEPT !.att = e.id]
          [] e.t = "gate_checked" /\ own -> [exec.last EXCEPT !.gates = e.r]
          [] e.t = "step_finished" /\ own ->
               [exec.last EXCEPT !.outcome = e.r, !.finished = TRUE,
                                 !.checks = IF e.k THEN exec.last.gates ELSE "other"]
          [] OTHER -> exec.last

\* _check_completion_receipt
CompletionProblem(e) ==
    /\ e.r = "completed"
    /\ exec.last.att # "none" \/ (exec.birth /\ ~e.k)
    /\ ~ /\ exec.last.att # "none" /\ exec.last.finished
         /\ exec.last.outcome \in {"success", "degraded"}
         /\ exec.last.checks = exec.last.gates
         /\ exec.last.gates = "pass"

ExecProblem(e) ==
    \/ e.t = "state_changed" /\ (exec.open # {} \/ (mode # "noModel" /\ CompletionProblem(e)))
    \/ /\ mode # "noModel" /\ e.v
       /\ \/ e.t = "step_started" /\ e.id \in DOMAIN exec.steps
          \/ e.t \in StepEvents /\ Unpaired(exec.steps, e)
          \/ e.t = "operation_started" /\ e.id \in DOMAIN exec.ops
          \/ e.t = "operation_finished" /\ Unpaired(exec.ops, e)

\* An event without the model's version is not looked at; without a model only
\* the open operations are followed.
ExecConsume(e) ==
    LET modelled == e.v /\ mode # "noModel"
    IN  [exec EXCEPT
           !.birth = @ \/ (e.t = "ticket_created" /\ e.v),
           !.last = IF modelled THEN TrackCompletion(e) ELSE @,
           !.steps = CASE modelled /\ e.t = "step_started" -> Started(@, e)
                       [] modelled /\ e.t = "step_finished" -> Finished(@, e)
                       [] OTHER -> @,
           !.ops = CASE modelled /\ e.t = "operation_started" -> Started(@, e)
                     [] modelled /\ e.t = "operation_finished" -> Finished(@, e)
                     [] OTHER -> @,
           !.open = CASE e.v /\ e.t = "operation_started" /\ e.s # "read_only" -> @ \cup {e.id}
                      [] e.v /\ e.t = "operation_finished" -> @ \ {e.id}
                      [] OTHER -> @]

-----------------------------------------------------------------------------
(* _AgentLifecycleMirror: the records are matched in order, and an open one  *)
(* remembers which record of the metadata it must become.                    *)

AgentsProblem(e) ==
    \/ /\ e.t = "agent_spawned"
       /\ \/ Cardinality(DOMAIN agents.open) >= MaxOpenAgents
          \/ agents.index >= Len(meta.spawns)
          \/ meta.spawns[agents.index + 1].id # e.id
    \/ /\ e.t = "agent_result"
       /\ e.id \notin DOMAIN agents.open \/ meta.spawns[agents.open[e.id]].result # e.r

AgentsConsume(e) ==
    CASE e.t = "agent_spawned" ->
           [index |-> agents.index + 1,
            open |-> [a \in DOMAIN agents.open \cup {e.id} |->
                        IF a = e.id THEN agents.index + 1 ELSE agents.open[a]]]
      [] e.t = "agent_result" ->
           [agents EXCEPT !.open = [a \in DOMAIN @ \ {e.id} |-> @[a]]]
      [] OTHER -> agents

AgentsFinishBug == agents.index = Len(meta.spawns)
AgentsFinish ==
    /\ agents.index = Len(meta.spawns)
    /\ \A a \in DOMAIN agents.open : meta.spawns[agents.open[a]].result = "none"

-----------------------------------------------------------------------------
(* ExecutionBindingMirror: bound once, while nothing runs and the ticket is  *)
(* not being closed, and neither reopened nor checked out elsewhere later.   *)

Starts == [step_started |-> "step_finished", operation_started |-> "operation_finished",
           agent_spawned |-> "agent_result"]
Binds(e) == e.t = "metadata_updated" /\ e.s = "bind"
Moves(e) == e.t = "ticket_reopened" \/ (e.t = "metadata_updated" /\ e.s = "checkout")

BindProblem(e) ==
    \/ Binds(e) /\ (~e.k \/ bind.seen \/ bind.open # {} \/ bind.closed)
    \/ bind.seen /\ Moves(e)

BindConsume(e) ==
    [bind EXCEPT
        !.open = CASE e.t \in DOMAIN Starts -> @ \cup {<<Starts[e.t], e.id>>}
                   [] OTHER -> @ \ {<<e.t, e.id>>},
        !.closed = (@ \/ e.t = "close_phase") /\ e.t # "ticket_reopened",
        !.seen = @ \/ Binds(e),
        !.value = IF Binds(e) THEN e.id ELSE @]

\* execution_binding_topology_ok, and the metadata's binding is the chain's
BindFinish ==
    /\ meta.binding # "none" => ~meta.checkout
    /\ (meta.binding # "none") = bind.seen
    /\ bind.seen => meta.binding = bind.value

-----------------------------------------------------------------------------
(* _verify_event_chain.                                                      *)

FirstProblem(e) == log = <<>> /\ e.t \notin {"ticket_created", "migration_applied"}

\* A problem settles the verdict: what follows it is not enumerated.
Consume(e) ==
    /\ verdict = "none" /\ bad = {} /\ Len(log) < MaxEvents
    /\ log' = Append(log, e)
    /\ mirror' = IF Enabled THEN TicketConsume(e) ELSE mirror
    /\ exec' = ExecConsume(e)
    /\ bad' = bad \cup (IF FirstProblem(e) THEN {"chain"} ELSE {})
                  \cup (IF Enabled /\ TicketProblem(e) THEN {"ticket"} ELSE {})
                  \cup (IF mode \in {"execution", "noModel"} /\ ExecProblem(e) THEN {"exec"} ELSE {})
                  \cup (IF mode = "agents" /\ AgentsProblem(e) THEN {"agents"} ELSE {})
                  \cup (IF BindProblem(e) THEN {"bind"} ELSE {})
    /\ agents' = IF mode = "agents" /\ bad' = {} THEN AgentsConsume(e) ELSE agents
    /\ bind' = BindConsume(e)
    /\ hash' = IF e.t = "metadata_updated" THEN e.r ELSE hash
    /\ UNCHANGED <<mode, meta, verdict>>

FinishReplay ==
    /\ verdict = "none" /\ (log # <<>> \/ bad # {})
    /\ LET found == bad \cup (IF hash \in {"none", meta.hash} THEN {} ELSE {"hash"})
                        \cup (IF TicketFinish THEN {} ELSE {"ticket"})
                        \cup (IF mode # "agents" \/ AgentsFinish THEN {} ELSE {"agents"})
                        \cup (IF BindFinish THEN {} ELSE {"bind"})
       IN  /\ bad' = found
           /\ verdict' = IF found = {} THEN "accepted" ELSE "refused"
    /\ UNCHANGED <<mode, meta, log, mirror, exec, agents, bind, hash>>

\* births after the first event are looked at with the ticket's states only
Offered(e) == e.t = "ticket_created" => log = <<>> \/ mode = "state"

ReplayNext == FinishReplay \/ \E e \in Alphabet[mode] : Offered(e) /\ Consume(e)

ReplaySpec == ReplayInit /\ [][ReplayNext]_replayVars

-----------------------------------------------------------------------------
(* What an accepted chain is, said of the whole chain.                       *)

Idx(types) == {i \in DOMAIN log : log[i].t \in types}

\* the execution is that of the events with the model's version
Seen(i) == log[i].v \/ mode \notin {"execution", "noModel"}
Of(t) == {i \in Idx({t}) : Seen(i)}
Earlier(i, t) == {j \in Of(t) : j < i /\ log[j].id = log[i].id}
Between(j, i, t) == \E k \in Of(t) : j < k /\ k < i /\ log[k].id = log[j].id

\* an event of an attempt follows its one start and no end of it
PairedWith(i, start, end) ==
    /\ \E j \in Earlier(i, start) : \A k \in Earlier(i, start) : k = j
    /\ Earlier(i, end) = {}
SameName(i, start) == \A j \in Earlier(i, start) : log[j].s = log[i].s

\* no operation with side effects is open when the state changes
EffectsEnded(i) ==
    \A j \in Of("operation_started") :
        j < i /\ log[j].s # "read_only" => Between(j, i, "operation_finished")

Audits == {j \in Of("step_started") : log[j].s = Step}

\* the last audit before i ended well, with its last gate passed and reported
Audited(i) ==
    \E j \in Audits :
        /\ j < i /\ \A k \in Audits : k < i => k <= j
        /\ \E k \in Of("step_finished") :
             /\ j < k /\ k < i /\ log[k].id = log[j].id
             /\ log[k].r \in {"success", "degraded"} /\ log[k].k
             /\ \E g \in Of("gate_checked") :
                  /\ j < g /\ g < k /\ log[g].id = log[j].id /\ log[g].r = "pass"
                  /\ \A h \in Of("gate_checked") :
                       g < h /\ h < i => log[h].id # log[j].id

MustBeAudited(i) ==
    \/ \E j \in Audits : j < i
    \/ ~log[i].k /\ \E j \in Idx({"ticket_created"}) : j < i /\ log[j].v

ExecutionSoundAt(i) ==
    /\ log[i].t = "state_changed" =>
         /\ EffectsEnded(i)
         /\ mode = "execution" /\ log[i].r = "completed" /\ MustBeAudited(i) => Audited(i)
    /\ mode = "execution" /\ log[i].v =>
         /\ log[i].t \in {"step_started", "operation_started"} => Earlier(i, log[i].t) = {}
         /\ log[i].t \in StepEvents =>
              PairedWith(i, "step_started", "step_finished") /\ SameName(i, "step_started")
         /\ log[i].t = "operation_finished" =>
              PairedWith(i, "operation_started", "operation_finished") /\ SameName(i, "operation_started")

ExecutionSound == \A i \in DOMAIN log : ExecutionSoundAt(i)

\* the last event of these types before i
LastBefore(i, types) == {j \in Idx(types) : j < i /\ \A k \in Idx(types) : k < i => k <= j}
NoneBefore(i, types) == \A j \in Idx(types) : j >= i

BirthState == IF log[1].t = "ticket_created" THEN InitialState[log[1].s] ELSE "none"

\* x can be the ticket's state before event i, and its phase of closing
StateBefore(i, x) ==
    \/ NoneBefore(i, {"state_changed"}) /\ BirthState \in {"none", x}
    \/ \E j \in LastBefore(i, {"state_changed"}) : log[j].r = x
PhaseBefore(i, x) ==
    \/ NoneBefore(i, Closings) /\ x = "none"
    \/ \E j \in LastBefore(i, Closings) : x = (IF log[j].t = "close_phase" THEN log[j].r ELSE "none")

TicketSoundAt(i) ==
    /\ log[i].t \in Births <=> i = 1
    /\ log[i].t = "ticket_created" => meta.debug = (log[i].s = "debug")
    /\ log[i].t = "state_changed" => <<log[i].s, log[i].r>> \in Transitions /\ StateBefore(i, log[i].s)
    /\ log[i].t = "close_phase" =>
         /\ PhaseBefore(i, log[i].s)
         /\ <<log[i].s, log[i].r>> \in {<<"none", "closing">>, <<"closing", "closed">>}
    /\ log[i].t = "ticket_reopened" => PhaseBefore(i, "closed")

\* one birth; a path of legal changes from it to the recorded status; closing
\* runs through its phases and starts over only after it was closed
TicketSound ==
    /\ log # <<>> /\ \A i \in DOMAIN log : TicketSoundAt(i)
    /\ StateBefore(Len(log) + 1, meta.status) /\ PhaseBefore(Len(log) + 1, meta.close)

\* which spawn of the chain event i is, and the agents open when it came
Nth(i) == Cardinality({j \in Of("agent_spawned") : j <= i})
OpenAgents(i) ==
    {log[j].id : j \in {k \in Of("agent_spawned") : k < i /\ ~Between(k, i, "agent_result")}}

AgentsSoundAt(i) ==
    /\ log[i].t = "agent_spawned" =>
         /\ Nth(i) <= Len(meta.spawns) /\ meta.spawns[Nth(i)].id = log[i].id
         /\ Cardinality(OpenAgents(i)) < MaxOpenAgents
    /\ log[i].t = "agent_result" =>
         /\ PairedWith(i, "agent_spawned", "agent_result")
         /\ \A j \in Earlier(i, "agent_spawned") : meta.spawns[Nth(j)].result = log[i].r

\* the metadata's records are the spawns in their order, each with the result
\* it had, and never more than the limit were open at a spawn
AgentsSound ==
    /\ DistinctIds(meta.spawns)
    /\ \A i \in DOMAIN log : AgentsSoundAt(i)
    /\ Cardinality(Of("agent_spawned")) = Len(meta.spawns)
    /\ \A i \in Of("agent_spawned") :
         ~Between(i, Len(log) + 1, "agent_result") => meta.spawns[Nth(i)].result = "none"

Bound == {i \in DOMAIN log : Binds(log[i])}

\* all that had started had ended, and the ticket was not closing
QuietAt(i) ==
    /\ \A start \in DOMAIN Starts : \A j \in Of(start) : j < i => Between(j, i, Starts[start])
    /\ \A j \in Idx({"close_phase"}) : j < i => \E k \in Idx({"ticket_reopened"}) : j < k /\ k < i

BindingSoundAt(i) ==
    /\ Binds(log[i]) => log[i].k /\ QuietAt(i)
    /\ Binds(log[i]) \/ Moves(log[i]) => \A j \in Bound : j >= i

\* at most one binding, made in the quiet and never contradicted, and the
\* metadata still says the same
BindingSound ==
    /\ \A i \in DOMAIN log : BindingSoundAt(i)
    /\ \A i \in Bound : log[i].id = meta.binding
    /\ Bound = {} => meta.binding = "none"
    /\ meta.binding # "none" => ~meta.checkout
    /\ \A i \in LastBefore(Len(log) + 1, {"metadata_updated"}) : log[i].r = meta.hash

-----------------------------------------------------------------------------
\* The mirror of the execution keeps a bounded state, and yet finds a problem in
\* exactly the chains that have one: an event of an attempt outside its start
\* and end, a state change over an open operation with side effects, and a
\* completion without its latest audit having passed (pack_verify.py:1024).
ExecutionReplayed ==
    mode \in {"execution", "noModel"} /\ "chain" \notin bad =>
        (("exec" \in bad) <=> ~ExecutionSound)

\* The verdict on the ticket, its agents and its execution root is the one the
\* whole chain deserves: the mirrors accept a chain if and only if it is a path
\* from the ticket's birth to the metadata in the pack.
MetadataReplayed ==
    verdict # "none" /\ "chain" \notin bad =>
        CASE mode = "state" -> (verdict = "accepted") <=> TicketSound
          [] mode = "agents" -> (verdict = "accepted") <=> AgentsSound
          [] mode = "binding" -> (verdict = "accepted") <=> BindingSound
          [] OTHER -> TRUE

\* Replaying a chain, the verifier neither misses a problem nor invents one, in
\* the execution and in the ticket's own metadata (pack_verify.py).
ReplayFaithful == ExecutionReplayed /\ MetadataReplayed
=============================================================================
