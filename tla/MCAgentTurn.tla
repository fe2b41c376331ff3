----------------------------- MODULE MCAgentTurn -----------------------------
(* Model checking of AgentLoop, FileTools and McpClient in one run: a         *)
(* behaviour is one run of an agent's loop, its file tools while others       *)
(* change the directories, or the client of one MCP server.                   *)
EXTENDS MCAgentLoop, FileTools, McpClient

VARIABLE what

mcVars == <<loopVars, fileVars, mcpVars, what>>

\* The machines that stand still have one initial state.
MCInit ==
    /\ LoopInit /\ FileInit /\ McpInit
    /\ what \in {"turns", "files", "server"}
    /\ what # "turns" => config = Writer /\ ~over
    /\ what # "files" => confined /\ dirEntry["D"].kind = "file"

TurnStep == what = "turns" /\ LoopNext /\ UNCHANGED <<fileVars, mcpVars, what>>
FileStep == what = "files" /\ FileNext /\ UNCHANGED <<loopVars, mcpVars, what>>
ServerStep == what = "server" /\ McpNext /\ UNCHANGED <<loopVars, fileVars, what>>

\* Only the loop must be able to go on until it has ended.
Rest == what # "turns" /\ UNCHANGED mcVars

MCSpec == MCInit /\ [][TurnStep \/ FileStep \/ ServerStep \/ Rest]_mcVars
=============================================================================
