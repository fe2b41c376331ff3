----------------------------- MODULE McpClient ------------------------------
(* The client of one MCP server process (src/icode/extensions/mcp_client.py): *)
(* JSON-RPC frames over the pipes of a child, a daemon thread that cuts its   *)
(* output into frames, and requests that wait for their answer with a         *)
(* deadline. The server is not trusted: it answers late, twice or not at all, *)
(* calls back, sends batches and garbage, stops reading, exits.               *)
EXTENDS Naturals, Sequences

CONSTANTS PipeFrames,   \* frames that fit in the server's input pipe
          MaxRefusals,  \* refusals that are kept for the audit (16)
          MaxRequests,     \* bound: requests of one client
          MaxFrames,    \* bound: frames servers write
          MaxSessions   \* bound: processes the client starts

ASSUME McpAssumption == /\ PipeFrames \in Nat \ {0} /\ MaxRefusals \in Nat
                        /\ MaxRequests \in Nat /\ MaxFrames \in Nat /\ MaxSessions \in Nat

VARIABLES client,   \* the request under way and the client's fields
          server,   \* the process: what it has read, whether it lives
          input,    \* frames in the server's input pipe
          output,   \* frames in the server's output pipe
          reader,   \* _FrameReader: its queue, and whether the thread has ended
          written   \* frames written by servers so far

mcpVars == <<client, server, input, output, reader, written>>

\* The end of the stream in the queue of frames (None).
EndFrame == [kind |-> "end", id |-> 0, session |-> 0]
NoReader == [queue |-> <<>>, ended |-> FALSE, error |-> FALSE]

McpInit ==
    /\ client = [pc |-> "idle", id |-> 0, method |-> "none", outcome |-> "none", got |-> EndFrame,
                 refusals |-> 0, session |-> 0]
    /\ server = [state |-> "none", asked |-> {}]
    /\ input = <<>> /\ output = <<>>
    /\ reader = NoReader
    /\ written = 0

ClientIdle == client.pc = "idle"
Raised(code) == client' = [client EXCEPT !.pc = "idle", !.outcome = code]

\* start: the process and its reader; a failed spawn leaves nothing behind.
StartServer ==
    /\ ClientIdle /\ server.state = "none" /\ client.session < MaxSessions
    /\ \/ /\ server' = [state |-> "up", asked |-> {}]
          /\ input' = <<>> /\ output' = <<>> /\ reader' = NoReader
          /\ client' = [client EXCEPT !.session = @ + 1, !.outcome = "none"]
       \/ Raised("spawn_failed") /\ UNCHANGED <<server, input, output, reader>>
    /\ UNCHANGED written

\* close: the pipes are closed, the process waited for, terminated or killed.
Close ==
    /\ ClientIdle /\ server.state # "none"
    /\ server' = [state |-> "none", asked |-> {}]
    /\ input' = <<>> /\ output' = <<>> /\ reader' = NoReader
    /\ client' = [client EXCEPT !.outcome = "none"]
    /\ UNCHANGED written

\* _request takes the next id before it sends. The handler of a wrapped tool
\* does not call a process that has exited (mcp_tool_to_tool).
SendRequest(method) ==
    /\ ClientIdle /\ client.id < MaxRequests
    /\ server.state # "none"
    /\ method = "tools/call" => server.state = "up"
    /\ client' = [client EXCEPT !.pc = "send", !.id = @ + 1, !.method = method,
                                !.outcome = "none", !.got = EndFrame]
    /\ UNCHANGED <<server, input, output, reader, written>>

\* _send_raw: a write that waits while the pipe is full, without a deadline.
SendRaw(frame, next) ==
    \/ /\ server.state = "up" /\ Len(input) < PipeFrames
       /\ input' = Append(input, frame)
       /\ client' = next
    \/ /\ server.state = "exited"
       /\ Raised("transport_closed")
       /\ UNCHANGED input

Send ==
    /\ client.pc = "send"
    /\ SendRaw(client.id, [client EXCEPT !.pc = "wait"])
    /\ UNCHANGED <<server, output, reader, written>>

\* The refusal of a call from the server, and the note that follows initialize.
SendRefusal ==
    /\ client.pc = "refuse"
    /\ SendRaw(0, [client EXCEPT !.pc = "wait"])
    /\ UNCHANGED <<server, output, reader, written>>
SendInitialized ==
    /\ client.pc = "notify"
    /\ SendRaw(0, [client EXCEPT !.pc = "idle", !.outcome = "result"])
    /\ UNCHANGED <<server, output, reader, written>>

Timeout ==
    /\ client.pc = "wait"
    /\ Raised("timeout")
    /\ UNCHANGED <<server, input, output, reader, written>>

\* The answer must carry the id of the request that waits.
MatchesBug(frame) == frame.id <= client.id
Matches(frame) == frame.id = client.id

\* One frame from the queue, as _dispatch and _request take it.
RefusalNoted == [client EXCEPT !.refusals = IF @ < MaxRefusals THEN @ + 1 ELSE @]
Take(frame) ==
    \/ frame.kind = "end" /\ Raised(IF reader.error THEN "oversize" ELSE "transport_closed")
    \/ frame.kind = "call" /\ client' = [RefusalNoted EXCEPT !.pc = "refuse"]
    \/ frame.kind = "note" /\ client' = RefusalNoted
    \/ frame.kind = "batch" /\ client' = [RefusalNoted EXCEPT !.pc = "idle", !.outcome = "batch_not_supported"]
    \/ frame.kind = "garbage" /\ Raised("protocol_error")
    \/ frame.kind \in {"answer", "error"} /\ ~Matches(frame) /\ Raised("protocol_error")
    \/ frame.kind = "error" /\ Matches(frame) /\ Raised("remote_error")
    \/ /\ frame.kind = "answer" /\ Matches(frame)
       /\ client' = [client EXCEPT !.got = frame,
                       !.outcome = IF client.method = "initialize" THEN "none" ELSE "result",
                       !.pc = IF client.method = "initialize" THEN "notify" ELSE "idle"]

Receive ==
    /\ client.pc = "wait" /\ reader.queue # <<>>
    /\ Take(Head(reader.queue))
    /\ reader' = [reader EXCEPT !.queue = Tail(@)]
    /\ UNCHANGED <<server, input, output, written>>

-----------------------------------------------------------------------------
\* The reader thread: a frame, the end of the output, or a line too long.
ReaderTakes ==
    /\ server.state # "none" /\ ~reader.ended
    /\ \/ /\ output # <<>>
          /\ reader' = [reader EXCEPT !.queue = Append(@, Head(output))]
          /\ output' = Tail(output)
       \/ /\ output = <<>> /\ server.state = "exited"
          /\ reader' = [reader EXCEPT !.queue = Append(@, EndFrame), !.ended = TRUE]
          /\ UNCHANGED output
       \/ /\ server.state = "up"
          /\ reader' = [queue |-> Append(reader.queue, EndFrame), ended |-> TRUE, error |-> TRUE]
          /\ UNCHANGED output
    /\ UNCHANGED <<client, server, input, written>>

\* The server.
ServerReads ==
    /\ server.state = "up" /\ input # <<>>
    /\ server' = [server EXCEPT !.asked = @ \union ({Head(input)} \ {0})]
    /\ input' = Tail(input)
    /\ UNCHANGED <<client, output, reader, written>>

ServerWrites ==
    /\ server.state = "up" /\ written < MaxFrames
    /\ \/ \E id \in server.asked, kind \in {"answer", "error"} :
            output' = Append(output, [kind |-> kind, id |-> id, session |-> client.session])
       \/ \E kind \in {"call", "note", "batch", "garbage"} :
            output' = Append(output, [kind |-> kind, id |-> 0, session |-> client.session])
    /\ written' = written + 1
    /\ UNCHANGED <<client, server, input, reader>>

ServerExits ==
    /\ server.state = "up"
    /\ server' = [server EXCEPT !.state = "exited"]
    /\ UNCHANGED <<client, input, output, reader, written>>

McpNext ==
    \/ StartServer \/ Close \/ \E method \in {"initialize", "tools/list", "tools/call"} : SendRequest(method)
    \/ Send \/ SendRefusal \/ SendInitialized \/ Timeout \/ Receive \/ ReaderTakes
    \/ ServerReads \/ ServerWrites \/ ServerExits

McpSpec == McpInit /\ [][McpNext]_mcpVars

-----------------------------------------------------------------------------
\* A call returns what the server process of this session answered to this very
\* request, although answers come late, after the timeout of their own request,
\* or twice, and the client may have been closed and started again
\* (mcp_client.py, _request).
AnswersTheCall ==
    client.outcome = "result" =>
      /\ client.got.kind = "answer" /\ client.got.id = client.id
      /\ client.got.session = client.session
=============================================================================
