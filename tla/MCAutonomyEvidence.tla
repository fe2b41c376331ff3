------------------------- MODULE MCAutonomyEvidence -------------------------
(* Model checking of Autonomy, EventReplay and EvidencePack in one run: a     *)
(* behaviour is two managers that share one process, the replay of a chain of *)
(* events, exports that race with the ticket's writers and with each other,   *)
(* an export of a ticket whose chain is a historic one, or a published pack   *)
(* that is exported again, edited, anchored and signed.                       *)
EXTENDS MCAutonomy, EventReplay, EvidencePack

\* The chains that are replayed.
Event(t, id, s, r, k, v) == [t |-> t, id |-> id, s |-> s, r |-> r, k |-> k, v |-> v]
Plain(t, id, s, r) == Event(t, id, s, r, FALSE, TRUE)

Created == {Event("ticket_created", "t", kind, "", FALSE, v) :
              kind \in {"feature", "debug"}, v \in BOOLEAN}
Changes == {Event("state_changed", "t", tr[1], tr[2], skipped, FALSE) :
              tr \in Transitions \cup {<<"open", "debugging">>}, skipped \in BOOLEAN}

AttemptChain ==
    {Plain("step_started", "a1", Step, ""), Plain("step_started", "a2", Step, ""),
     Plain("step_started", "a2", "fix", ""), Plain("artifact_written", "a1", "fix", "")}
    \cup {Plain("gate_checked", a, Step, r) : a \in {"a1", "a2"}, r \in {"pass", "blocked"}}
    \cup {Event("step_finished", a, Step, r, r = "success", TRUE) :
            a \in {"a1", "a2"}, r \in {"success", "failed"}}
    \cup {Event("step_finished", "a1", Step, "success", FALSE, TRUE)}

SmallAlphabet == [m \in Modes |->
    CASE m = "state" ->
           {e \in Created : ~e.v} \cup {e \in Changes : ~e.k}
           \cup {Plain("migration_applied", "t", "", "")}
           \cup {Plain("close_phase", "t", from, to) :
                   from \in {"none", "closing"}, to \in {"closing", "closed"}}
           \cup {Plain("ticket_reopened", "t", "closed", "none")}
      [] m \in {"execution", "noModel"} ->
           {e \in Created : e.s = "feature"} \cup {e \in Changes : e.r = "completed" /\ e.s = "open"}
           \cup {Event("operation_started", "o", c, "", FALSE, v) :
                   c \in {"read_only", "write"}, v \in BOOLEAN}
           \cup {Event("operation_finished", "o", c, "", FALSE, v) :
                   c \in {"read_only", "write"}, v \in BOOLEAN}
           \cup (IF m = "noModel" THEN {} ELSE AttemptChain)
      [] m = "agents" ->
           {e \in Created : ~e.v /\ e.s = "feature"}
           \cup {Plain("agent_spawned", a, "", "") : a \in {"x", "y", "z"}}
           \cup {Plain("agent_result", a, "", r) : a \in {"x", "y"}, r \in {"joined", "failed"}}
      [] m = "binding" ->
           {e \in Created : ~e.v /\ e.s = "feature"}
           \cup {Plain("step_started", "x", "fix", ""), Plain("step_finished", "x", "fix", "success"),
                 Plain("agent_spawned", "x", "", ""), Plain("agent_result", "x", "", "joined"),
                 Plain("close_phase", "t", "none", "closing"),
                 Plain("ticket_reopened", "t", "closed", "none")}
           \cup {Event("metadata_updated", b[1], "bind", b[2], b[3], FALSE) :
                   b \in {<<"b1", "h1", TRUE>>, <<"b1", "h1", FALSE>>, <<"b2", "h1", TRUE>>, <<"b1", "h2", TRUE>>}}
           \cup {Event("metadata_updated", "", "checkout", "h2", FALSE, FALSE)}]

SpawnRecord(id, res) == [id |-> id, result |-> res]
DefaultMeta == [status |-> "open", close |-> "none", debug |-> FALSE, spawns |-> <<>>,
                binding |-> "none", checkout |-> FALSE, hash |-> "h1"]

SmallMetadata == [m \in Modes |->
    CASE m = "state" -> {[DefaultMeta EXCEPT !.status = s, !.close = c, !.debug = d] :
                            s \in {"open", "completed"}, c \in {"none", "closing", "closed"}, d \in BOOLEAN}
      [] m = "agents" -> {[DefaultMeta EXCEPT !.spawns = s] :
                            s \in {<<>>, <<SpawnRecord("x", "none")>>, <<SpawnRecord("x", "joined"), SpawnRecord("y", "none")>>,
                                   <<SpawnRecord("x", "joined"), SpawnRecord("x", "none")>>,
                                   <<SpawnRecord("x", "none"), SpawnRecord("y", "none"), SpawnRecord("z", "none")>>}}
      [] m = "binding" -> {[DefaultMeta EXCEPT !.binding = b, !.checkout = c, !.hash = h] :
                            b \in {"none", "b1"}, c \in BOOLEAN, h \in {"h1"}}
      [] OTHER -> {DefaultMeta}]

VARIABLE what

mcVars == <<vars, replayVars, packVars, what>>

MCInit ==
    /\ Init /\ ReplayInit /\ PackInit
    /\ what \in {"managers", "replay", "export", "historic", "attach"}
    /\ what # "replay" => mode = "execution"
    /\ what = "historic" <=> ~source.hashed

AutonomyStep == what = "managers" /\ Next /\ UNCHANGED <<replayVars, packVars, what>>

ReplayStep == what = "replay" /\ ReplayNext /\ UNCHANGED <<vars, packVars, what>>

ExportStep ==
    /\ what = "export" /\ UNCHANGED <<vars, replayVars, what>>
    /\ TicketWrites \/ \E e \in Exporters : Export(e)

AttachStep ==
    /\ what \in {"historic", "attach"} /\ UNCHANGED <<vars, replayVars, what>>
    /\ \/ TicketWrites \/ (what = "attach" /\ (EditPack \/ Attaches))
       \/ \E e \in Exporters : Export(e) /\ \A x \in Exporters \ {e} : exporter[x].pc = "idle"

MCSpec == MCInit /\ [][AutonomyStep \/ ReplayStep \/ ExportStep \/ AttachStep]_mcVars
=============================================================================
