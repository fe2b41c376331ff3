---------------------------- MODULE ProxySession ----------------------------
(***************************************************************************)
(* The host's CONNECT proxy for one leased sandbox: HostConnectRuntime and *)
(* HostHttpsConnectScope (network_proxy_scope.py), the connector that      *)
(* dials pinned numeric addresses (network_connector.py), the TCP and the  *)
(* Unix SOCKS5 server and the Linux session that owns one listener handoff *)
(* (network_proxy_server.py, linux_proxy_handoff.py), over the authority's *)
(* table of connections (LeaseTable).                                      *)
(*                                                                         *)
(* Three threads: "serve" runs serve_forever, one client at a time; "host" *)
(* starts the session, and closes it, the server or the runtime and        *)
(* retries; the authority's closes the table's entries once the lease has  *)
(* ended.  One locked section, or one call that may block,                 *)
(* is one step.  A request is one of a few kinds, an address one of a few  *)
(* kinds; relayed bytes, arguments of a wrong type and listeners of a      *)
(* wrong shape, which are refused before any of this state exists, are     *)
(* left out.                                                               *)
(***************************************************************************)
EXTENDS LeaseTable, Naturals, Sequences, FiniteSets

CONSTANTS
  Clients,    \* sandboxed peers that connect
  Targets,    \* addresses one name resolves to
  Heads,      \* request heads, of those in AllHeads
  MaxFaults   \* bound of socket closes the host cannot confirm

AllHeads == {"connect", "otherPort", "otherHost", "malformed"}
Answers == {"public", "mixed", "none"}

NoClient == "nobody"

ASSUME ProxyAssumption ==
  /\ Targets \in Nat \ {0} /\ MaxFaults \in Nat
  /\ Heads \subseteq AllHeads /\ NoClient \notin Clients

TheLease == "lease"
Sockets == Clients \X (0 .. Targets)
Endpoint(c) == <<c, 0>>  \* the accepted client socket
Dial(c, i) == <<c, i>>   \* the socket of the i-th address
Upstreams(c) == {Dial(c, i) : i \in 1 .. Targets}
OneScope(l) == "scope"
OneLease == {TheLease}

\* The table holds this proxy's sockets and its one lease.
ASSUME TableAssumption == Entries = Sockets /\ Leases = OneLease

VARIABLES
  transport,  \* "tcp" (behind a session) or "unix"
  sock,       \* each socket: "none", "new" (not dialled), "open", "closed"
  cancelled,  \* dials whose _cancelled flag is set
  settled,    \* dials whose _closed event is set
  runtime,    \* HostConnectRuntime and its expiry monitor
  scope,      \* HostHttpsConnectScope
  server,     \* the server and its endpoint
  session,    \* LinuxHostConnectProxySession
  sv,         \* the serving thread: place, client, address
  call,       \* the close a thread is in: steps left and results
  faults      \* unconfirmed closes so far

proxyVars == <<tableVars, transport, sock, cancelled, settled, runtime, scope,
          server, session, sv, call, faults>>

\* close() is idempotent: its concurrent calls by the host's threads, the
\* one that starts the session included, are one closer.
Closers == {"serve", "host"}
AtRest == [todo |-> <<>>, tunnels |-> {}, clean |-> TRUE, scopeOk |-> FALSE, serverOk |-> TRUE, joined |-> TRUE]

ProxyInit ==
  /\ valid = {TheLease} /\ TableInit
  /\ transport \in {"tcp", "unix"}
  /\ sock = [x \in Sockets |-> "none"]
  /\ cancelled = {} /\ settled = {}
  /\ runtime = [started |-> FALSE, closing |-> FALSE, closed |-> FALSE,
                monitor |-> "new", scope |-> "none"]
  /\ scope = [closed |-> FALSE, opening |-> FALSE, accepted |-> {},
              pending |-> {}, tunnels |-> {}]
  /\ server = [made |-> FALSE, closed |-> FALSE, listener |-> "none",
               path |-> "none", serving |-> FALSE, pending |-> {}]
  /\ session = [start |-> "new", closing |-> FALSE, closed |-> FALSE,
                ready |-> FALSE, acked |-> FALSE, nonce |-> FALSE, control |-> TRUE]
  /\ sv = [at |-> "off", c |-> NoClient, i |-> 1]
  /\ call = [t \in Closers |-> AtRest]
  /\ faults = 0

(***************************************************************************)
(* Sockets.  close() detaches the wrapper even when it raises: an          *)
(* unconfirmed close is a closed socket whose closer was told False.       *)
(***************************************************************************)
CloseSockets(S) ==
  sock' = [x \in Sockets |-> IF x \in S /\ sock[x] # "none" THEN "closed" ELSE sock[x]]

\* _close_socket's answer; only a socket still open can fail to confirm.
Confirms(S, ok) ==
  /\ ok \/ (faults < MaxFaults /\ \E x \in S : sock[x] \in {"new", "open"})
  /\ faults' = IF ok THEN faults ELSE faults + 1

\* release_active_connection: nothing while another callback runs.
Released(S) ==
  kind' = [x \in Sockets |-> IF x \in S /\ Tabled(x) /\ x \notin busy THEN "gone" ELSE kind[x]]

(***************************************************************************)
(* The runtime                                                             *)
(***************************************************************************)
Healthy ==
  /\ runtime.started /\ ~runtime.closing /\ ~runtime.closed
  /\ runtime.monitor = "running"

\* HostHttpsConnectScope.verify_lease.
VerifyLeaseBug == ~scope.closed /\ Healthy
VerifyLease == ~scope.closed /\ Healthy /\ TheLease \in valid

RuntimeStart ==
  /\ ~runtime.started /\ ~runtime.closing /\ ~runtime.closed
  /\ runtime' = [runtime EXCEPT !.started = TRUE, !.monitor = "running"]
  /\ UNCHANGED <<tableVars, transport, sock, cancelled, settled, scope, server,
                 session, sv, call, faults>>

CreateScope ==
  /\ Healthy /\ runtime.scope = "none"
  /\ runtime' = [runtime EXCEPT !.scope = "live"]
  /\ UNCHANGED <<tableVars, transport, sock, cancelled, settled, scope, server,
                 session, sv, call, faults>>

\* A sweep of the expiry monitor met a close that did not confirm, of this
\* scope or another: its failure_count is not zero.
MonitorFails ==
  /\ runtime.monitor = "running" /\ faults < MaxFaults
  /\ faults' = faults + 1
  /\ runtime' = [runtime EXCEPT !.monitor = "failed"]
  /\ UNCHANGED <<tableVars, transport, sock, cancelled, settled, scope, server,
                 session, sv, call>>

(***************************************************************************)
(* close() of the scope, of a server, of the session and of the runtime,   *)
(* as the list of their steps.                                             *)
(***************************************************************************)
ServerClose == <<"serverSockets", "scopeMark", "scopeEnd", "serverEnd">>
\* The server, the thread, the server again and the control channel.  The
\* session's own scope.close(), right after the server's second, finds what
\* that one found and is left out.
SessionClose == <<"serverSockets", "scopeMark", "scopeEnd", "serverEnd", "join",
                  "serverSockets", "scopeMark", "scopeEnd", "serverEnd", "control">>
\* The same without a server.
EmptySessionClose == <<"join", "scopeMark", "scopeEnd", "control">>
RuntimeClose == <<"scopeMark", "scopeEnd", "runtimeEnd">>

Doing(t, step) == call[t].todo # <<>> /\ Head(call[t].todo) = step

\* Thread t records r and goes on to the next step of its close.
Done(t, r) ==
  call' = [call EXCEPT ![t] = IF Len(r.todo) = 1 THEN AtRest ELSE [r EXCEPT !.todo = Tail(@)]]

\* The locked section, from which no request gets past _cancel_event, and the
\* closes of the clients it copied; the copied tunnels come after.
ScopeMark(t, ok) ==
  LET mine == {Endpoint(c) : c \in scope.accepted \cup scope.pending} IN
  /\ Doing(t, "scopeMark")
  /\ scope' = [scope EXCEPT !.closed = TRUE, !.pending = {}]
  /\ Confirms(mine, ok)
  /\ CloseSockets(mine)
  /\ Released({Endpoint(c) : c \in scope.pending})
  /\ Done(t, [call[t] EXCEPT !.tunnels = scope.tunnels, !.clean = ok])
  /\ UNCHANGED <<valid, lease, busy, transport, cancelled, settled, runtime,
                 server, session, sv>>

\* AuthorizedHttpsTunnel.close: both ends, then their entries; the upstream's
\* entry only after a confirmed close.
ClosesTunnel(c, ok) ==
  LET ends == {Endpoint(c)} \cup {x \in Upstreams(c) : kind[x] = "active"} IN
  /\ Confirms(ends, ok)
  /\ CloseSockets(ends)
  /\ Released(IF ok THEN ends ELSE {Endpoint(c)})

ScopeTunnel(t, c, ok) ==
  /\ Doing(t, "scopeEnd") /\ c \in call[t].tunnels
  /\ ClosesTunnel(c, ok)
  /\ scope' = [scope EXCEPT !.tunnels = IF ok THEN @ \ {c} ELSE @]
  /\ call' = [call EXCEPT ![t].tunnels = @ \ {c}, ![t].clean = @ /\ ok]
  /\ UNCHANGED <<valid, lease, busy, transport, cancelled, settled, runtime,
                 server, session, sv>>

\* What close() answers: cleanup confirmed, and nothing under way.
ScopeQuiet(t) ==
  call[t].clean /\ ~scope.opening /\ scope.accepted = {} /\ scope.tunnels = {}

ScopeEnd(t) ==
  /\ Doing(t, "scopeEnd") /\ call[t].tunnels = {}
  /\ Done(t, [call[t] EXCEPT !.scopeOk = ScopeQuiet(t)])
  /\ runtime' = [runtime EXCEPT !.scope = IF ScopeQuiet(t) THEN "forgotten" ELSE @]
  /\ UNCHANGED <<tableVars, transport, sock, cancelled, settled, scope, server,
                 session, sv, faults>>

ServerSockets(t, ok) ==
  LET mine == {Endpoint(c) : c \in server.pending} IN
  /\ Doing(t, "serverSockets")
  /\ Confirms(mine, ok)
  /\ CloseSockets(mine)
  /\ server' = [server EXCEPT !.closed = server.made, !.listener = IF @ = "open" THEN "closed" ELSE @]
  /\ Done(t, [call[t] EXCEPT !.serverOk = ok])
  /\ UNCHANGED <<tableVars, transport, cancelled, settled, runtime, scope,
                 session, sv>>

\* _remove_owned_socket_path: an endpoint with another inode is left alone.
PathAfterClose == IF server.path = "ours" THEN "none" ELSE server.path

ServerEnd(t) ==
  /\ Doing(t, "serverEnd")
  /\ server' = [server EXCEPT !.path = PathAfterClose]
  /\ Done(t, [call[t] EXCEPT !.serverOk = /\ @ /\ call[t].scopeOk /\ ~server.serving
                                          /\ server.path # "foreign"])
  /\ UNCHANGED <<tableVars, transport, sock, cancelled, settled, runtime, scope,
                 session, sv, faults>>

\* The bounded join: the thread ended, or the wait did.
Join(t) ==
  /\ Doing(t, "join")
  /\ Done(t, [call[t] EXCEPT !.joined = sv.at \in {"off", "dead"} /\ call["serve"].todo = <<>>])
  /\ UNCHANGED <<tableVars, transport, sock, cancelled, settled, runtime, scope,
                 server, session, sv, faults>>

SessionEnd(t) ==
  /\ Doing(t, "control")
  /\ session' = [session EXCEPT !.control = FALSE,
                   !.closed = call[t].serverOk /\ call[t].scopeOk /\ call[t].joined]
  /\ Done(t, call[t])
  /\ UNCHANGED <<tableVars, transport, sock, cancelled, settled, runtime, scope,
                 server, sv, faults>>

RuntimeEnd(t) ==
  /\ Doing(t, "runtimeEnd")
  /\ IF call[t].scopeOk /\ runtime.scope # "live"
     THEN runtime' = [runtime EXCEPT !.monitor = "stopped", !.closed = TRUE]
     ELSE UNCHANGED runtime
  /\ Done(t, call[t])
  /\ UNCHANGED <<tableVars, transport, sock, cancelled, settled, scope, server,
                 session, sv, faults>>

(***************************************************************************)
(* Who closes: the host at any time, and again until it is confirmed.      *)
(***************************************************************************)
Idle(t) == call[t].todo = <<>>

Begins(t, steps) == call' = [call EXCEPT ![t] = [AtRest EXCEPT !.todo = steps]]

SessionSteps == IF server.made THEN SessionClose ELSE EmptySessionClose

Starting == session.start \in {"receiving", "waiting"}

\* LinuxHostConnectProxySession.close; it only leaves a mark for a start
\* that is under way.
CloseSession ==
  /\ transport = "tcp" /\ runtime.scope # "none" /\ Idle("host") /\ ~session.closed
  /\ session' = [session EXCEPT !.closing = TRUE]
  /\ IF Starting THEN UNCHANGED call ELSE Begins("host", SessionSteps)
  /\ UNCHANGED <<tableVars, transport, sock, cancelled, settled, runtime, scope,
                 server, sv, faults>>

\* HostUnixSocks5ProxyServer.close.
CloseUnixServer ==
  /\ transport = "unix" /\ server.made /\ Idle("host")
  /\ ~(server.closed /\ runtime.scope = "forgotten")
  /\ Begins("host", ServerClose)
  /\ UNCHANGED <<tableVars, transport, sock, cancelled, settled, runtime, scope,
                 server, session, sv, faults>>

CloseRuntime ==
  /\ Idle("host") /\ ~runtime.closed
  /\ runtime' = [runtime EXCEPT !.closing = TRUE]
  /\ call' = [call EXCEPT !["host"] = [AtRest EXCEPT
       !.scopeOk = runtime.scope # "live",
       !.todo = IF runtime.scope = "live" THEN RuntimeClose ELSE <<"runtimeEnd">>]]
  /\ UNCHANGED <<tableVars, transport, sock, cancelled, settled, scope, server,
                 session, sv, faults>>

CloseStep(t) ==
  \/ ScopeEnd(t)
  \/ ServerEnd(t) \/ Join(t) \/ SessionEnd(t) \/ RuntimeEnd(t)
  \/ \E ok \in BOOLEAN :
       \/ ScopeMark(t, ok) \/ ServerSockets(t, ok)
       \/ \E c \in Clients : ScopeTunnel(t, c, ok)

(***************************************************************************)
(* Bringing a server up                                                    *)
(***************************************************************************)
\* HostUnixSocks5ProxyServer.__init__: a fresh private endpoint.
MakeUnixServer ==
  /\ transport = "unix" /\ runtime.scope # "none" /\ ~server.made
  /\ VerifyLease
  /\ server' = [server EXCEPT !.made = TRUE, !.listener = "open", !.path = "ours"]
  /\ sv' = [sv EXCEPT !.at = "start"]
  /\ UNCHANGED <<tableVars, transport, sock, cancelled, settled, runtime, scope,
                 session, call, faults>>

\* Something else with the same user id puts its own endpoint there.
PathReplaced ==
  /\ server.path = "ours"
  /\ server' = [server EXCEPT !.path = "foreign"]
  /\ UNCHANGED <<tableVars, transport, sock, cancelled, settled, runtime, scope,
                 session, sv, call, faults>>

StartBegin ==
  /\ transport = "tcp" /\ runtime.scope # "none"
  /\ session.start = "new" /\ ~session.closing
  /\ session' = [session EXCEPT !.start = "receiving"]
  /\ UNCHANGED <<tableVars, transport, sock, cancelled, settled, runtime, scope,
                 server, sv, call, faults>>

\* One message, with one descriptor of a loopback listener and the
\* credentials of the helper that was launched.
HandoffMessages == {"helper", "otherPid", "truncated", "noListener"}
HandoffAccepted(message) == message = "helper"

\* receive_loopback_listener with the helper's nonce, the server built on the
\* listener and the serving thread started; a close() that came first wins.
StartReceive(message) ==
  /\ session.start = "receiving" /\ ~session.closing /\ HandoffAccepted(message)
  /\ session' = [session EXCEPT !.start = "waiting", !.nonce = TRUE]
  /\ server' = [server EXCEPT !.made = TRUE, !.listener = "open"]
  /\ sv' = [sv EXCEPT !.at = "start"]
  /\ UNCHANGED <<tableVars, transport, sock, cancelled, settled, runtime, scope,
                 call, faults>>

ThreadAlive == sv.at \notin {"off", "dead"} \/ ~Idle("serve")

\* live_lease_guard holds the scope, the runtime and the authority still
\* while the acknowledgement, bound to the nonce, is sent.
StartAck ==
  /\ session.start = "waiting" /\ session.ready /\ ThreadAlive
  /\ VerifyLease /\ ~session.closing /\ session.nonce
  /\ server.listener = "open"
  /\ session' = [session EXCEPT !.start = "done", !.acked = TRUE, !.nonce = FALSE]
  /\ UNCHANGED <<tableVars, transport, sock, cancelled, settled, runtime, scope,
                 server, sv, call, faults>>

\* A bad or late handoff, a thread that ends or is not ready in time, a
\* closed session, a guard that refuses or a failed send: start closes the
\* session itself.
StartFailsBug ==
  /\ Starting /\ Idle("host")
  /\ session' = [session EXCEPT !.closing = TRUE]
  /\ UNCHANGED <<tableVars, transport, sock, cancelled, settled, runtime, scope,
                 server, sv, call, faults>>
StartFails ==
  /\ Starting /\ Idle("host")
  /\ session' = [session EXCEPT !.start = "failed", !.closing = TRUE]
  /\ Begins("host", SessionSteps)
  /\ UNCHANGED <<tableVars, transport, sock, cancelled, settled, runtime, scope,
                 server, sv, faults>>

(***************************************************************************)
(* The serving thread                                                      *)
(***************************************************************************)
\* The thread is at a place, and not inside server.close().
At(place) == sv.at = place /\ Idle("serve")

Go(place) == sv' = [sv EXCEPT !.at = place]

\* self.close() on the serving thread, which then goes on at place.
CloseThenGo(place) == Begins("serve", ServerClose) /\ Go(place)

Here == UNCHANGED <<transport, runtime, session>>
TableSame == UNCHANGED <<tableVars, cancelled, settled>>

ServeReady ==
  /\ At("start")
  /\ IF VerifyLease
     THEN Go("loop") /\ session' = [session EXCEPT !.ready = TRUE] /\ UNCHANGED call
     ELSE CloseThenGo("dead") /\ UNCHANGED session
  /\ UNCHANGED <<tableVars, transport, sock, cancelled, settled, runtime, scope,
                 server, faults>>

\* The head of serve_forever's loop; serve_once counts itself in.
ServeLoop ==
  /\ At("loop")
  /\ IF server.closed \/ session.closing
     THEN CloseThenGo("dead") /\ UNCHANGED server
     ELSE Go("poll") /\ server' = [server EXCEPT !.serving = TRUE] /\ UNCHANGED call
  /\ TableSame /\ Here /\ UNCHANGED <<sock, scope, faults>>

\* _verify_owned_socket_path, for the Unix server.
EndpointOurs == transport = "tcp" \/ server.path = "ours"

PollRefused ==
  /\ At("poll") /\ ~(VerifyLease /\ EndpointOurs)
  /\ CloseThenGo("finish")
  /\ TableSame /\ Here /\ UNCHANGED <<sock, scope, server, faults>>

\* Nobody came within the poll, or accept failed and the loop backs off.
PollNobody ==
  /\ At("poll") /\ VerifyLease /\ EndpointOurs
  /\ Go("finish")
  /\ TableSame /\ Here /\ UNCHANGED <<sock, scope, server, call, faults>>

Accept(c) ==
  /\ At("poll") /\ sock[Endpoint(c)] = "none"
  /\ VerifyLease /\ EndpointOurs /\ ~server.closed
  /\ sock' = [sock EXCEPT ![Endpoint(c)] = "open"]
  /\ sv' = [sv EXCEPT !.at = "accepted", !.c = c, !.i = 1]
  /\ TableSame /\ Here /\ UNCHANGED <<scope, server, call, faults>>

\* register_accepted_client, then the server's own pending set.
Track ==
  /\ At("accepted")
  /\ IF scope.closed \/ ~Healthy
     THEN CloseSockets({Endpoint(sv.c)}) /\ Go("fail") /\ UNCHANGED scope
     ELSE scope' = [scope EXCEPT !.accepted = @ \cup {sv.c}] /\ Go("tracked") /\ UNCHANGED sock
  /\ TableSame /\ Here /\ UNCHANGED <<server, call, faults>>

Enter ==
  /\ At("tracked")
  /\ IF server.closed
     THEN /\ CloseSockets({Endpoint(sv.c)}) /\ Go("finish")
          /\ scope' = [scope EXCEPT !.accepted = @ \ {sv.c}] /\ UNCHANGED server
     ELSE /\ server' = [server EXCEPT !.pending = @ \cup {sv.c}]
          /\ Go("head") /\ UNCHANGED <<sock, scope>>
  /\ TableSame /\ Here /\ UNCHANGED <<call, faults>>

\* _read_request_head and _read_socks5_request: the lease is verified while
\* waiting.  A head that is too long, cut off, late or out of contract fails.
ReadHead ==
  /\ At("head") /\ VerifyLease /\ ~server.closed /\ sock[Endpoint(sv.c)] = "open"
  /\ Go("open")
  /\ TableSame /\ Here /\ UNCHANGED <<sock, scope, server, call, faults>>

ReadFails ==
  /\ At("head") /\ Go("fail")
  /\ TableSame /\ Here /\ UNCHANGED <<sock, scope, server, call, faults>>

ReadRefused ==
  /\ At("head") /\ ~VerifyLease
  /\ CloseSockets({Endpoint(sv.c)})
  /\ CloseThenGo("finish")
  /\ TableSame /\ Here /\ UNCHANGED <<scope, server, faults>>

\* A SOCKS5 request outside the contract is answered and closed.
SocksRejected ==
  /\ At("head") /\ transport = "unix"
  /\ CloseSockets({Endpoint(sv.c)}) /\ Go("finish")
  /\ TableSame /\ Here /\ UNCHANGED <<scope, server, call, faults>>

(***************************************************************************)
(* _open_connect                                                           *)
(***************************************************************************)
OpenBegin ==
  /\ At("open")
  /\ IF scope.closed \/ ~Healthy
     THEN CloseSockets({Endpoint(sv.c)}) /\ Go("fail") /\ UNCHANGED scope
     ELSE scope' = [scope EXCEPT !.opening = TRUE] /\ Go("authorize") /\ UNCHANGED sock
  /\ TableSame /\ Here /\ UNCHANGED <<server, call, faults>>

\* parse_https_connect_request_head, and verify_request on its target: only
\* a CONNECT to port 443 of a host the lease names.
Authorized(head) == head = "connect" /\ TheLease \in valid

\* The client's own entry, before any name is resolved.
Enlist(head) ==
  /\ At("authorize") /\ ~scope.closed /\ Authorized(head)
  /\ Register(Endpoint(sv.c), TheLease, "active")
  /\ Go("enlisted")
  /\ Here /\ UNCHANGED <<sock, cancelled, settled, scope, server, call, faults>>

EnlistRefused(head) ==
  /\ At("authorize") /\ (scope.closed \/ ~Authorized(head))
  /\ Go("unwind")
  /\ TableSame /\ Here /\ UNCHANGED <<sock, scope, server, call, faults>>

Adopt ==
  /\ At("enlisted")
  /\ IF scope.closed
     THEN Go("unwind") /\ UNCHANGED scope
     ELSE /\ scope' = [scope EXCEPT !.accepted = @ \ {sv.c}, !.pending = @ \cup {sv.c}]
          /\ Go("lookup")
  /\ TableSame /\ Here /\ UNCHANGED <<sock, server, call, faults>>

MayDial == TheLease \in valid /\ ~scope.closed

Lookup ==
  /\ At("lookup") /\ Go(IF MayDial THEN "dns" ELSE "unwind")
  /\ TableSame /\ Here /\ UNCHANGED <<sock, scope, server, call, faults>>

\* resolve_public_tcp_targets: one address that is not public refuses the
\* whole answer.
PublicTargets(answer) == answer = "public"

\* DNS cannot be interrupted; its answer is used only if nothing changed.
Resolved(answer) ==
  /\ At("dns") /\ Go(IF PublicTargets(answer) /\ MayDial THEN "dial" ELSE "unwind")
  /\ TableSame /\ Here /\ UNCHANGED <<sock, scope, server, call, faults>>

Now == Dial(sv.c, sv.i)

NoMoreTargets ==
  /\ At("dial") /\ (sv.i > Targets \/ ~MayDial)
  /\ Go("unwind")
  /\ TableSame /\ Here /\ UNCHANGED <<sock, scope, server, call, faults>>

NewDial ==
  /\ At("dial") /\ sv.i <= Targets /\ MayDial
  /\ sock' = [sock EXCEPT ![Now] = "new"]
  /\ Go("record")
  /\ TableSame /\ Here /\ UNCHANGED <<scope, server, call, faults>>

\* Neither a socket nor a wakeup pair could be had: the next address.
NoSocket ==
  /\ At("dial") /\ sv.i <= Targets /\ MayDial
  /\ sv' = [sv EXCEPT !.i = @ + 1]
  /\ TableSame /\ Here /\ UNCHANGED <<sock, scope, server, call, faults>>

RecordDial ==
  /\ At("record")
  /\ Register(Now, TheLease, "pending")
  /\ Go("connect")
  /\ Here /\ UNCHANGED <<sock, cancelled, settled, scope, server, call, faults>>

RecordRefused ==
  /\ At("record") /\ TheLease \notin valid
  /\ CloseSockets({Now})
  /\ Go("unwind")
  /\ TableSame /\ Here /\ UNCHANGED <<scope, server, call, faults>>

DialCancelled == scope.closed \/ Now \in cancelled

\* connect_ex: from here packets leave the host.
ConnectStart ==
  /\ At("connect") /\ ~DialCancelled
  /\ sock' = [sock EXCEPT ![Now] = "open"]
  /\ Go("connecting")
  /\ TableSame /\ Here /\ UNCHANGED <<scope, server, call, faults>>

ConnectDone ==
  /\ At("connecting") /\ ~DialCancelled
  /\ Go("connected")
  /\ TableSame /\ Here /\ UNCHANGED <<sock, scope, server, call, faults>>

\* _cleanup_attempt of a dial that was not promoted: the owner closes the
\* socket, tells a waiting authority, and releases the entry.
CleanupDialBug(ok) ==
  /\ Confirms({Now}, ok)
  /\ Released({Now})
  /\ cancelled' = cancelled \cup {Now}
  /\ settled' = settled
  /\ UNCHANGED sock
CleanupDial(ok) ==
  /\ Confirms({Now}, ok)
  /\ CloseSockets({Now})
  /\ cancelled' = cancelled \cup {Now}
  /\ settled' = IF ok THEN settled \cup {Now} ELSE settled
  /\ Released(IF ok THEN {Now} ELSE {})

\* Refused, unreachable or out of time: the next address, if the close of
\* this one was confirmed.
ConnectFails(ok) ==
  /\ At("connecting") /\ ~DialCancelled
  /\ CleanupDial(ok)
  /\ sv' = IF ok THEN [sv EXCEPT !.at = "dial", !.i = @ + 1] ELSE [sv EXCEPT !.at = "unwind"]
  /\ Here /\ UNCHANGED <<valid, lease, busy, scope, server, call>>

\* The authority, or the scope, wants the dial gone.
DialStopped(ok) ==
  /\ \/ (At("connect") \/ At("connecting")) /\ DialCancelled
     \/ At("connected") /\ (DialCancelled \/ TheLease \notin valid \/ Now \in busy \/ kind[Now] = "gone")
  /\ CleanupDial(ok)
  /\ Go("unwind")
  /\ Here /\ UNCHANGED <<valid, lease, busy, scope, server, call>>

PromoteDial ==
  /\ At("connected") /\ ~DialCancelled
  /\ PromoteEntry(Now)
  /\ Go("promoted")
  /\ Here /\ UNCHANGED <<sock, cancelled, settled, scope, server, call, faults>>

\* finish_connected and the last look at the flag.
FinishConnected ==
  /\ At("promoted") /\ ~DialCancelled /\ sock[Now] = "open"
  /\ Go("publish")
  /\ TableSame /\ Here /\ UNCHANGED <<sock, scope, server, call, faults>>

\* AuthorizedHttpsConnection.close, from the connector or from _open_connect.
CloseUpstream(ok) ==
  /\ \/ At("promoted") /\ (DialCancelled \/ sock[Now] # "open")
     \/ At("publish") /\ ~VerifyLease
  /\ Confirms({Now}, ok)
  /\ CloseSockets({Now})
  /\ Released(IF ok THEN {Now} ELSE {})
  /\ Go("unwind")
  /\ Here /\ UNCHANGED <<valid, lease, busy, cancelled, settled, scope, server, call>>

Publish ==
  /\ At("publish") /\ VerifyLease
  /\ scope' = [scope EXCEPT !.pending = @ \ {sv.c}, !.tunnels = @ \cup {sv.c}]
  /\ Go("published")
  /\ TableSame /\ Here /\ UNCHANGED <<sock, server, call, faults>>

\* The exception path: the client's socket, then its entry.
Unwind ==
  /\ At("unwind")
  /\ CloseSockets({Endpoint(sv.c)})
  /\ Released({Endpoint(sv.c)})
  /\ Go("unwound")
  /\ Here /\ UNCHANGED <<valid, lease, busy, cancelled, settled, scope, server, call, faults>>

\* finally: the operation is over, with a tunnel or without.
OpenEnd ==
  /\ At("unwound") \/ At("published")
  /\ scope' = [scope EXCEPT !.pending = @ \ {sv.c}, !.opening = FALSE]
  /\ Go(IF sv.at = "published" THEN "opened" ELSE "fail")
  /\ TableSame /\ Here /\ UNCHANGED <<sock, server, call, faults>>

(***************************************************************************)
(* serve_once with a tunnel                                                *)
(***************************************************************************)
TunnelLive ==
  /\ sock[Endpoint(sv.c)] = "open"
  /\ \E x \in Upstreams(sv.c) : sock[x] = "open" /\ kind[x] = "active"

Opened ==
  /\ At("opened") /\ VerifyLease /\ TunnelLive
  /\ Go("answer")
  /\ TableSame /\ Here /\ UNCHANGED <<sock, scope, server, call, faults>>

OpenedTooLate ==
  /\ At("opened") /\ ~(VerifyLease /\ TunnelLive)
  /\ CloseSockets({Endpoint(sv.c)})
  /\ CloseThenGo("finish")
  /\ TableSame /\ Here /\ UNCHANGED <<scope, server, faults>>

\* A close() that ran since then has had the client or the tunnel.
Answered ==
  /\ At("answer") /\ ~server.closed
  /\ server' = [server EXCEPT !.pending = @ \ {sv.c}]
  /\ Go("relay")
  /\ TableSame /\ Here /\ UNCHANGED <<sock, scope, call, faults>>

AnsweredClosed(ok) ==
  /\ At("answer") /\ server.closed
  /\ ClosesTunnel(sv.c, ok)
  /\ scope' = [scope EXCEPT !.tunnels = IF ok THEN @ \ {sv.c} ELSE @]
  /\ server' = [server EXCEPT !.pending = @ \ {sv.c}]
  /\ Go("finish")
  /\ Here /\ UNCHANGED <<valid, lease, busy, cancelled, settled, call>>

\* _relay_streams: both streams ended and were drained, or a peer broke off.
RelayDone ==
  /\ At("relay")
  /\ IF transport = "tcp" /\ ~VerifyLease THEN CloseThenGo("finish")
     ELSE Go("finish") /\ UNCHANGED call
  /\ TableSame /\ Here /\ UNCHANGED <<sock, scope, server, faults>>

\* The periodic check of the lease, or a socket closed from another thread.
RelayStopped ==
  /\ At("relay") /\ ~(VerifyLease /\ TunnelLive)
  /\ CloseSockets({Endpoint(sv.c)})
  /\ IF VerifyLease THEN Go("finish") /\ UNCHANGED call ELSE CloseThenGo("finish")
  /\ TableSame /\ Here /\ UNCHANGED <<scope, server, faults>>

\* The handlers of serve_once: the client goes, and the listener with it
\* when the lease is no longer good.
Fail ==
  /\ At("fail")
  /\ CloseSockets({Endpoint(sv.c)})
  /\ IF VerifyLease THEN Go("finish") /\ UNCHANGED call ELSE CloseThenGo("finish")
  /\ TableSame /\ Here /\ UNCHANGED <<scope, server, faults>>

\* finally: the tunnel, the counters, the scope's record of the client.
FinishTunnel(ok) ==
  /\ At("finish") /\ sv.c \in scope.tunnels
  /\ ClosesTunnel(sv.c, ok)
  /\ scope' = [scope EXCEPT !.tunnels = IF ok THEN @ \ {sv.c} ELSE @]
  /\ Go("leave")
  /\ Here /\ UNCHANGED <<valid, lease, busy, cancelled, settled, server, call>>

LeaveTunnel ==
  /\ At("leave") \/ (At("finish") /\ sv.c \notin scope.tunnels)
  /\ server' = [server EXCEPT !.serving = FALSE, !.pending = @ \ {sv.c}]
  /\ Go("forget")
  /\ TableSame /\ Here /\ UNCHANGED <<sock, scope, call, faults>>

ForgetClient ==
  /\ At("forget")
  /\ scope' = [scope EXCEPT !.accepted = @ \ {sv.c}]
  /\ sv' = [sv EXCEPT !.at = "loop", !.c = NoClient]
  /\ TableSame /\ Here /\ UNCHANGED <<sock, server, call, faults>>

(***************************************************************************)
(* The authority's thread, once the lease is revoked or has expired: it    *)
(* closes the entries it finds, one callback at a time, and tries again.   *)
(***************************************************************************)
LeaseEnds ==
  /\ TheLease \in valid
  /\ valid' = {} /\ Revalue
  /\ UNCHANGED <<transport, sock, cancelled, settled, runtime, scope, server,
                 session, sv, call, faults>>

\* The callback of a client's socket or of a promoted upstream.
ClosesActive(x, ok) ==
  /\ TheLease \notin valid /\ kind[x] = "active"
  /\ Confirms({x}, ok)
  /\ CloseSockets({x})
  /\ IF ok THEN Drop(x) ELSE UNCHANGED tableVars
  /\ UNCHANGED <<transport, cancelled, settled, runtime, scope, server, session, sv, call>>

\* close_for_authority of a pending dial: a flag for its owner, then a wait.
CancelsDial(x) ==
  /\ TheLease \notin valid /\ kind[x] = "pending"
  /\ BeginClose(x)
  /\ cancelled' = cancelled \cup {x}
  /\ UNCHANGED <<transport, sock, settled, runtime, scope, server, session, sv,
                 call, faults>>

\* The owner settled it, or the wait of four seconds ran out.
DialAwaited(x, ok) ==
  /\ ok => x \in settled
  /\ EndClose(x, ok)
  /\ UNCHANGED <<transport, sock, cancelled, settled, runtime, scope, server,
                 session, sv, call, faults>>

AuthorityStep ==
  \E x \in Sockets :
    \/ CancelsDial(x)
    \/ \E ok \in BOOLEAN : ClosesActive(x, ok) \/ DialAwaited(x, ok)

-----------------------------------------------------------------------------
Connector ==
  \/ \E head \in Heads : Enlist(head) \/ EnlistRefused(head)
  \/ \E answer \in Answers : Resolved(answer)
  \/ Lookup \/ NoMoreTargets \/ NewDial \/ NoSocket \/ RecordDial \/ RecordRefused
  \/ ConnectStart \/ ConnectDone \/ PromoteDial \/ FinishConnected
  \/ \E ok \in BOOLEAN : ConnectFails(ok) \/ DialStopped(ok) \/ CloseUpstream(ok)

\* What the serving thread does by itself: only an open relay, which lasts
\* as long as its two peers, is not among it.
ServeStep ==
  \/ ServeReady \/ ServeLoop \/ PollRefused \/ PollNobody
  \/ \E c \in Clients : Accept(c)
  \/ Track \/ Enter \/ ReadHead \/ ReadFails \/ ReadRefused \/ SocksRejected
  \/ OpenBegin \/ Adopt \/ Connector \/ Publish \/ Unwind \/ OpenEnd
  \/ Opened \/ OpenedTooLate \/ Answered \/ RelayStopped \/ Fail
  \/ LeaveTunnel \/ ForgetClient
  \/ \E ok \in BOOLEAN : AnsweredClosed(ok) \/ FinishTunnel(ok)

StartStep == (\E message \in HandoffMessages : StartReceive(message)) \/ StartAck \/ StartFails

ProxyNext ==
  \/ RuntimeStart \/ CreateScope \/ MonitorFails
  \/ CloseSession \/ CloseUnixServer \/ CloseRuntime
  \/ \E t \in Closers : CloseStep(t)
  \/ MakeUnixServer \/ PathReplaced \/ StartBegin \/ StartStep
  \/ ServeStep \/ RelayDone
  \/ LeaseEnds \/ AuthorityStep

ProxySpec == ProxyInit /\ [][ProxyNext]_proxyVars

\* Threads go on, waits are bounded by their timeouts, and an owner whose
\* close() answered False calls it again, as its documentation asks.
ProxyFairness ==
  /\ WF_proxyVars(ServeStep) /\ WF_proxyVars(StartStep)
  /\ \A t \in Closers : WF_proxyVars(CloseStep(t))
  /\ SF_proxyVars(session.closing /\ CloseSession)

FairProxySpec == ProxySpec /\ ProxyFairness

-----------------------------------------------------------------------------
(***************************************************************************)
(* Properties                                                              *)
(***************************************************************************)
\* A socket that has been dialled is in the authority's table for as long as
\* it is open, and so are both ends of a published tunnel: a revocation that
\* empties the table leaves no connection behind, however it interleaves
\* with dials, failed attempts, promotions and closes.
OpenIsTabled ==
  \A c \in Clients :
    /\ \A x \in Upstreams(c) : sock[x] = "open" => Tabled(x)
    /\ c \in scope.tunnels /\ sock[Endpoint(c)] = "open" => Tabled(Endpoint(c))

\* Once a close of the scope has answered True, nothing of it is open or
\* being opened but a socket accepted a moment ago, which the next step
\* refuses; once the session's has, there is nothing at all, its thread
\* included.
QuietWhenClosed ==
  /\ runtime.scope = "forgotten" =>
       /\ ~scope.opening
       /\ \A x \in Sockets : sock[x] \in {"new", "open"} => sv.at = "accepted" /\ x = Endpoint(sv.c)
  /\ session.closed =>
       /\ ~ThreadAlive /\ server.listener # "open"
       /\ \A x \in Sockets : sock[x] \notin {"new", "open"}

\* When the lease ends, every upstream connection is closed and no listener
\* is left, even if the authority's own thread never gets to them.
LeaseEndCutsOff ==
  TheLease \notin valid ~>
    /\ \A c \in Clients : \A x \in Upstreams(c) : sock[x] # "open"
    /\ server.listener # "open"

\* A session that is being closed is closed in the end, in spite of a start
\* under way, a lookup that cannot be interrupted, closes that do not
\* confirm and an authority that closes the same sockets.
CloseSucceeds == session.closing ~> session.closed

\* No socket of the proxy is open behind the back of the authority or of a close
\* that answered True (network_connector.py, network_proxy_scope.py).
SocketsAccounted == OpenIsTabled /\ QuietWhenClosed
=============================================================================
