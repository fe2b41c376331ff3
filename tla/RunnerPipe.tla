------------------------------ MODULE RunnerPipe -----------------------------
(* The named pipe between the host and a Windows runner                       *)
(* (src/icode/windows_runner_pipe.py, windows_runner_protocol.py): a byte     *)
(* stream each way, calls that transfer a frame piece by piece under a        *)
(* deadline, and the state of the host's session.  A frame has two pieces,    *)
(* its header and its body.  The process at the other end may be any, and     *)
(* may send any frame at any time, again after a failure too.                 *)
EXTENDS Naturals, Sequences, FiniteSets, SequencesExt

CONSTANTS MaxSaid,     \* bound: frames the process at the other end begins
          MaxAsked,    \* bound: requests the host tries to send
          MaxLapses    \* bound: deadlines that pass and transfers that fail

ASSUME PipeAssumption == MaxSaid \in Nat /\ MaxAsked \in Nat /\ MaxLapses \in Nat

VARIABLES up, down,    \* the pieces under way, to the host and to the runner
          pipeServer,     \* the fields of RunnerPipeServer
          hostCall,    \* the call of the host that is under way
          peer,        \* who opened the pipe, and whether it is alive
          peerCall,    \* the call of the client that is under way
          stuck,       \* end |-> a read the kernel still holds after its call
          said,        \* history: frames the peer began, in order
          heard,       \* history: messages the host's calls accepted
          told,        \* history: messages the client's receive_message returned
          asked, lapses

pipeVars == <<up, down, pipeServer, hostCall, peer, peerCall, stuck, said, heard, told,
              asked, lapses>>

Capacity == 2                        \* RUNNER_PIPE_BUFFER_BYTES: one frame
Requests == {"spawn_request", "cancel_request"}
Ends == {"host", "peer"}

\* A frame of the peer: its kind, the number of an output, whether it belongs
\* to this request and is well formed.
Message(kind, n, ours) == [kind |-> kind, n |-> n, ours |-> ours]
Replies == {Message(k, 0, TRUE) : k \in {"spawn_ready", "exit", "cancel_ack"}}
           \cup {Message("output", n, TRUE) : n \in 1..2} \cup {Message("output", 1, FALSE)}

Piece(part, m) == [part |-> part, m |-> m]
NoMessage == Message("none", 0, FALSE)
PipeRest == [kind |-> "idle", at |-> "header", m |-> NoMessage]

PipeInit ==
    /\ up = <<>> /\ down = <<>>
    /\ pipeServer = [connected |-> FALSE, attempted |-> FALSE, authentic |-> FALSE, spawn |-> FALSE,
                  cancel |-> FALSE, ack |-> FALSE, next |-> 1, terminal |-> FALSE, failed |-> FALSE,
                  open |-> TRUE]
    /\ hostCall = PipeRest /\ peerCall = PipeRest
    /\ peer = [who |-> "none", alive |-> TRUE]
    /\ stuck = [e \in Ends |-> FALSE]
    /\ said = <<>> /\ heard = <<>> /\ told = <<>> /\ asked = 0 /\ lapses = 0

Lapse == lapses < MaxLapses /\ lapses' = lapses + 1
History == <<said, heard, told, asked>>

-----------------------------------------------------------------------------
(* _overlapped_transfer of one piece, with _cancel_and_drain: it is done, or  *)
(* the deadline passes and the cancelled operation is aborted, or turns out   *)
(* to be done, or is not confirmed: then it is done now, later or never.      *)

Transfers(way, piece, new) == Len(way) < Capacity /\ new = Append(way, piece)
WriteLeft(way, piece, new) == new \in {way, Append(way, piece)}

-----------------------------------------------------------------------------
(* The host: wait_for_runner_ready, send_message, receive_message, close.     *)

HostIdle == hostCall.kind = "idle" /\ pipeServer.open
HostRaises == hostCall' = PipeRest /\ pipeServer' = [pipeServer EXCEPT !.failed = TRUE]

StartReady ==
    /\ HostIdle /\ ~pipeServer.attempted
    /\ pipeServer' = [pipeServer EXCEPT !.attempted = TRUE]
    /\ hostCall' = [PipeRest EXCEPT !.kind = "connect"]
    /\ UNCHANGED <<up, down, peer, peerCall, stuck, History, lapses>>

\* _connect: a client that opened the pipe before the call counts
Connect ==
    /\ hostCall.kind = "connect"
    /\ \/ /\ peer.who # "none" /\ pipeServer' = [pipeServer EXCEPT !.connected = TRUE]
          /\ hostCall' = [PipeRest EXCEPT !.kind = "ready"] /\ UNCHANGED lapses
       \/ HostRaises /\ Lapse
    /\ UNCHANGED <<up, down, peer, peerCall, stuck, History>>

\* _require_authenticated
MayTalk == pipeServer.authentic /\ ~pipeServer.failed /\ ~pipeServer.terminal

BeginReceive ==
    /\ HostIdle /\ MayTalk
    /\ hostCall' = [PipeRest EXCEPT !.kind = "receive"]
    /\ UNCHANGED <<up, down, pipeServer, peer, peerCall, stuck, History, lapses>>

MaySend(request) ==
    /\ MayTalk
    /\ IF request = "spawn_request" THEN ~pipeServer.cancel /\ ~pipeServer.spawn ELSE ~pipeServer.cancel

StartSend(request) ==
    /\ HostIdle /\ asked < MaxAsked /\ MaySend(request)
    /\ asked' = asked + 1
    /\ hostCall' = [PipeRest EXCEPT !.kind = "send", !.m = Message(request, 0, TRUE)]
    /\ UNCHANGED <<up, down, pipeServer, peer, peerCall, stuck, said, heard, told, lapses>>

HostReads == hostCall.kind \in {"ready", "receive"}

\* a header, then a body; anything else does not decode
HostReadsPiece ==
    /\ HostReads /\ up # <<>> /\ hostCall.at # "check"
    /\ up' = Tail(up)
    /\ IF Head(up).part = hostCall.at
       THEN /\ hostCall' = [hostCall EXCEPT !.at = IF @ = "header" THEN "body" ELSE "check", !.m = Head(up).m]
            /\ UNCHANGED pipeServer
       ELSE HostRaises
    /\ UNCHANGED <<down, peer, peerCall, stuck, History, lapses>>

\* the deadline of a read, or an error of the pipe
HostReadFails ==
    /\ HostReads /\ hostCall.at # "check" /\ Lapse
    /\ HostRaises
    /\ \E left \in BOOLEAN : stuck' = [stuck EXCEPT !["host"] = left]
    /\ UNCHANGED <<up, down, peer, peerCall, History>>

\* _authenticate_client: process, user, logon and session, and it is alive
Authentic == peer.who = "runner" /\ peer.alive

CheckReady ==
    /\ hostCall.kind = "ready" /\ hostCall.at = "check"
    /\ IF hostCall.m.kind = "spawn_ready" /\ hostCall.m.ours /\ Authentic
       THEN /\ pipeServer' = [pipeServer EXCEPT !.authentic = TRUE] /\ hostCall' = PipeRest
            /\ heard' = Append(heard, hostCall.m)
       ELSE HostRaises /\ UNCHANGED heard
    /\ UNCHANGED <<up, down, peer, peerCall, stuck, said, told, asked, lapses>>

AcceptsBug(m) ==
    /\ m.ours /\ m.kind \in {"output", "exit", "cancel_ack"}
    /\ IF m.kind = "cancel_ack" THEN pipeServer.cancel /\ ~pipeServer.ack
       ELSE pipeServer.spawn
\* the checks of receive_message on a frame that decoded
Accepts(m) ==
    /\ m.ours /\ m.kind \in {"output", "exit", "cancel_ack"}
    /\ IF m.kind = "cancel_ack" THEN pipeServer.cancel /\ ~pipeServer.ack
       ELSE pipeServer.spawn /\ (m.kind = "output" => m.n = pipeServer.next)

CheckReceived ==
    /\ hostCall.kind = "receive" /\ hostCall.at = "check"
    /\ IF Accepts(hostCall.m)
       THEN /\ pipeServer' = CASE hostCall.m.kind = "cancel_ack" -> [pipeServer EXCEPT !.ack = TRUE]
                            [] hostCall.m.kind = "output" -> [pipeServer EXCEPT !.next = @ + 1]
                            [] OTHER -> [pipeServer EXCEPT !.terminal = TRUE]
            /\ hostCall' = PipeRest /\ heard' = Append(heard, hostCall.m)
       ELSE HostRaises /\ UNCHANGED heard
    /\ UNCHANGED <<up, down, peer, peerCall, stuck, said, told, asked, lapses>>

HostWritesPiece ==
    /\ hostCall.kind = "send"
    /\ Transfers(down, Piece(hostCall.at, hostCall.m), down')
    /\ IF hostCall.at = "header"
       THEN hostCall' = [hostCall EXCEPT !.at = "body"] /\ UNCHANGED pipeServer
       ELSE /\ hostCall' = PipeRest
            /\ pipeServer' = IF hostCall.m.kind = "spawn_request" THEN [pipeServer EXCEPT !.spawn = TRUE]
                          ELSE [pipeServer EXCEPT !.cancel = TRUE]
    /\ UNCHANGED <<up, peer, peerCall, stuck, History, lapses>>

\* the stream may have accepted a prefix: the session is over
SendRaises == HostRaises

HostWriteFails ==
    /\ hostCall.kind = "send" /\ Lapse
    /\ SendRaises
    /\ WriteLeft(down, Piece(hostCall.at, hostCall.m), down')
    /\ UNCHANGED <<up, peer, peerCall, stuck, History>>

HostCloses ==
    /\ HostIdle
    /\ pipeServer' = [pipeServer EXCEPT !.open = FALSE]
    /\ UNCHANGED <<up, down, hostCall, peer, peerCall, stuck, History, lapses>>

-----------------------------------------------------------------------------
(* The other end: open_runner_pipe_client, RunnerPipeClient, its process.     *)

\* one instance only; a process other than the runner may be first
OpenClient(who) ==
    /\ peer.who = "none" /\ pipeServer.open
    /\ peer' = [peer EXCEPT !.who = who]
    /\ UNCHANGED <<up, down, pipeServer, hostCall, peerCall, stuck, History, lapses>>

PeerIdle == peerCall.kind = "idle" /\ peer.who # "none" /\ peer.alive /\ pipeServer.open

PeerStartSend(m) ==
    /\ PeerIdle /\ Len(said) < MaxSaid
    /\ peerCall' = [PipeRest EXCEPT !.kind = "send", !.m = m]
    /\ UNCHANGED <<up, down, pipeServer, hostCall, peer, stuck, History, lapses>>

\* a frame is begun once its header is in the stream
Begun == said' = IF up' # up /\ peerCall.at = "header" THEN Append(said, peerCall.m) ELSE said

PeerWritesPiece ==
    /\ peerCall.kind = "send" /\ pipeServer.open
    /\ Transfers(up, Piece(peerCall.at, peerCall.m), up')
    /\ Begun
    /\ peerCall' = IF peerCall.at = "header" THEN [peerCall EXCEPT !.at = "body"] ELSE PipeRest
    /\ UNCHANGED <<down, pipeServer, hostCall, peer, stuck, heard, told, asked, lapses>>

PeerStartReceive ==
    /\ PeerIdle
    /\ peerCall' = [PipeRest EXCEPT !.kind = "receive"]
    /\ UNCHANGED <<up, down, pipeServer, hostCall, peer, stuck, History, lapses>>

\* A read left in the kernel is served before this one.
PeerReadsPiece ==
    /\ peerCall.kind = "receive" /\ down # <<>> /\ ~stuck["peer"]
    /\ down' = Tail(down)
    /\ IF Head(down).part # peerCall.at THEN peerCall' = PipeRest /\ UNCHANGED told
       ELSE IF peerCall.at = "header" THEN peerCall' = [peerCall EXCEPT !.at = "body"] /\ UNCHANGED told
       ELSE peerCall' = PipeRest /\ told' = Append(told, Head(down).m.kind)
    /\ UNCHANGED <<up, pipeServer, hostCall, peer, stuck, said, heard, asked, lapses>>

\* no field of the client remembers the failure: it may call again
PeerCallFails ==
    /\ peerCall.kind # "idle" /\ Lapse
    /\ peerCall' = PipeRest
    /\ IF peerCall.kind = "send"
       THEN WriteLeft(up, Piece(peerCall.at, peerCall.m), up') /\ Begun /\ UNCHANGED stuck
       ELSE UNCHANGED <<up, said>> /\ \E left \in BOOLEAN : stuck' = [stuck EXCEPT !["peer"] = @ \/ left]
    /\ UNCHANGED <<down, pipeServer, hostCall, peer, heard, told, asked>>

PeerDies ==
    /\ peer.who # "none" /\ peer.alive
    /\ peer' = [peer EXCEPT !.alive = FALSE] /\ peerCall' = PipeRest
    /\ UNCHANGED <<up, down, pipeServer, hostCall, stuck, History, lapses>>

\* the kernel completes a read whose call is over
StuckReadServed(e) ==
    /\ stuck[e] /\ stuck' = [stuck EXCEPT ![e] = FALSE]
    /\ IF e = "host" THEN up # <<>> /\ up' = Tail(up) /\ UNCHANGED down
       ELSE down # <<>> /\ down' = Tail(down) /\ UNCHANGED up
    /\ UNCHANGED <<pipeServer, hostCall, peer, peerCall, History, lapses>>

HostWorks == Connect \/ HostReadsPiece \/ CheckReady \/ CheckReceived \/ HostWritesPiece

PipeNext ==
    \/ StartReady \/ BeginReceive \/ \E r \in Requests : StartSend(r)
    \/ HostWorks \/ HostReadFails \/ HostWriteFails \/ HostCloses
    \/ \E who \in {"runner", "other"} : OpenClient(who)
    \/ \E m \in Replies : PeerStartSend(m)
    \/ PeerWritesPiece \/ PeerStartReceive \/ PeerReadsPiece \/ PeerCallFails \/ PeerDies
    \/ \E e \in Ends : StuckReadServed(e)

PipeSpec == PipeInit /\ [][PipeNext]_pipeVars

-----------------------------------------------------------------------------
(* Properties.                                                                *)

\* the outputs among the first messages heard
Outputs(n) == {i \in 1..n : heard[i].kind = "output"}

\* What the host accepts is what the runner said, from its first frame on, with
\* nothing lost, repeated or torn: the outputs are numbered in sequence and
\* nothing follows the last message (receive_message), although each call may
\* be cut off at a deadline in the middle of a frame and the peer may repeat it.
HeardInOrder ==
    /\ IsPrefix(heard, said)
    /\ heard # <<>> => peer.who = "runner"
    /\ \A i \in Outputs(Len(heard)) : heard[i].n = Cardinality(Outputs(i))
    /\ \A i \in 1..Len(heard) : heard[i].kind = "exit" => i = Len(heard)

\* The runner is told to spawn at most once, and never after a cancellation,
\* although the host may try again after a send that raised and may in truth
\* have been delivered (send_message).
ToldOnce ==
    /\ \A i, j \in 1..Len(told) : i < j => told[i] # told[j] /\ told[j] # "spawn_request"
    /\ told # <<>> => pipeServer.authentic

\* Host and runner understand the same exchange, in both directions
\* (windows_runner_pipe.py).
PipeExact == HeardInOrder /\ ToldOnce
=============================================================================
