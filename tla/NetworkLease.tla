---------------------------- MODULE NetworkLease ----------------------------
(***************************************************************************)
(* The host's authority over temporary network access (network_lease.py):  *)
(* NetworkLeaseAuthority issues time-limited leases after a human          *)
(* approval, keeps the table of the connections open under them, and       *)
(* revokes them by generation; NetworkLeaseExpiryMonitor sweeps expired    *)
(* connections on a thread of its own.                                     *)
(*                                                                         *)
(* Every method runs on the caller's thread.  What it does under _lock is  *)
(* one action; the human prompt, the close and release callbacks and the   *)
(* waits on close_complete happen outside the lock, so other threads run   *)
(* in between.  A lease is a record of what the checks compare: the policy *)
(* key, the generation and the two instants.  Names, purposes, domains and *)
(* the signature, which only select or reject the caller's own arguments,  *)
(* are abstracted: the model's callers pass matching ones.                 *)
(***************************************************************************)
EXTENDS Integers, FiniteSets

CONSTANTS
  Keys,           \* policy keys (run, ticket, step, policy hash)
  Conns,          \* connection ids; secrets.token_hex never repeats one
  Callers,        \* threads of proxies, connectors and the host
  Monitors,       \* the threads of the expiry monitors
  TTLs,           \* lifetimes a lease is asked for
  MaxTime,        \* bound of the monotonic clock
  MaxGeneration,  \* bound of the revocations of one key
  MaxLeases,      \* bound of the leases issued
  None            \* no lease, no connection

Threads == Callers \cup Monitors

ASSUME ConstantsAssumption ==
  /\ Callers \cap Monitors = {}
  /\ None \notin Conns
  /\ TTLs \subseteq Nat \ {0}
  /\ MaxTime \in Nat /\ MaxGeneration \in Nat /\ MaxLeases \in Nat

VARIABLES
  clock,        \* time.monotonic_ns
  generations,  \* _generations, 1 where the dict has no entry
  revoking,     \* _revoking_policy_keys
  leases,       \* the leases issued so far
  active,       \* ids in _active_connections
  connLease,    \* entry.lease (and so entry.policy_key) of a registered id
  pending,      \* entries whose .pending is True
  closing,      \* entries whose .closing is True
  releasable,   \* entries registered with a release callback
  pc,           \* where each thread is
  fr,           \* its call: operation, lease (or key and generation), instant
  todo,         \* entries its closing loop has still to visit
  snap,         \* the revoking keys its sweep copied
  failed,       \* whether a close of its loop failed
  cur,          \* the entry its loop or its release is at
  monitor,      \* "new", "running" or "stopped", for each monitor
  confirmed     \* history: highest generation of a revoke that returned

connVars == <<active, connLease, pending, closing, releasable>>
loopVars == <<todo, snap, failed, cur>>
vars == <<clock, generations, revoking, leases, connVars, pc, fr, loopVars,
          monitor, confirmed>>

Lease == [key: Keys, gen: Nat, issued: Nat, expires: Nat]

ASSUME NoneAssumption == None \notin Lease

Ops == {"none", "request", "revoke", "sweep", "register", "release"}

\* "sampled": clock read by the caller, lock not yet taken; "loop": in the
\* for loop of _close_active_connections; "commit": register's second half.
Places == {"idle", "asking", "sampled", "loop", "waiting", "callback",
           "commit", "releasing"}

Frame == [op: Ops, arg: Lease \cup {None}, now: Nat]

IdleFrame == [op |-> "none", arg |-> None, now |-> 0]

KeyGen(k, g) == [key |-> k, gen |-> g, issued |-> 0, expires |-> 0]

TypeOK ==
  /\ clock \in Nat
  /\ generations \in [Keys -> Nat]
  /\ revoking \subseteq Keys
  /\ leases \subseteq Lease
  /\ active \subseteq Conns
  /\ connLease \in [Conns -> Lease \cup {None}]
  /\ pending \subseteq Conns
  /\ closing \subseteq active
  /\ releasable \subseteq Conns
  /\ pc \in [Threads -> Places]
  /\ fr \in [Threads -> Frame]
  /\ todo \in [Threads -> SUBSET Conns]
  /\ snap \in [Threads -> SUBSET Keys]
  /\ failed \in [Threads -> BOOLEAN]
  /\ cur \in [Threads -> Conns \cup {None}]
  /\ monitor \in [Monitors -> {"new", "running", "stopped"}]
  /\ confirmed \in [Keys -> Nat]

Init ==
  /\ clock = 0
  /\ generations = [k \in Keys |-> 1]
  /\ revoking = {} /\ leases = {}
  /\ active = {} /\ pending = {} /\ closing = {} /\ releasable = {}
  /\ connLease = [c \in Conns |-> None]
  /\ pc = [t \in Threads |-> "idle"]
  /\ fr = [t \in Threads |-> IdleFrame]
  /\ todo = [t \in Threads |-> {}]
  /\ snap = [t \in Threads |-> {}]
  /\ failed = [t \in Threads |-> FALSE]
  /\ cur = [t \in Threads |-> None]
  /\ monitor = [m \in Monitors |-> "new"]
  /\ confirmed = [k \in Keys |-> 0]

Tick ==
  /\ clock < MaxTime
  /\ clock' = clock + 1
  /\ UNCHANGED <<generations, revoking, leases, connVars, pc, fr, loopVars, monitor, confirmed>>

(***************************************************************************)
(* What the methods test under the lock.                                   *)
(***************************************************************************)
Expired(c, n) == connLease[c].expires <= n

StaleGeneration(c) == connLease[c].gen # generations[connLease[c].key]

\* The entries a sweep at instant n collects, and looks for again at its end.
SweptBug(c, n) == StaleGeneration(c)
Swept(c, n) == Expired(c, n) \/ StaleGeneration(c)

OfKey(k) == {c \in active : connLease[c].key = k}

\* _verify_request_locked / _verify_scope_locked with validate_request and
\* validate_scope: the scope is not being cleaned up, the lease has the
\* current generation and n lies in its lifetime.
LeaseLive(l, n) ==
  /\ l.key \notin revoking
  /\ l.gen = generations[l.key]
  /\ l.issued <= n /\ n < l.expires

Goto(t, place) == pc' = [pc EXCEPT ![t] = place]

Return(t) ==
  /\ Goto(t, "idle")
  /\ fr' = [fr EXCEPT ![t] = IdleFrame]
  /\ snap' = [snap EXCEPT ![t] = {}]
  /\ failed' = [failed EXCEPT ![t] = FALSE]
  /\ cur' = [cur EXCEPT ![t] = None]
  /\ UNCHANGED todo  \* empty by now

Call(t, place, op, arg, n) ==
  /\ pc[t] = "idle"
  /\ Goto(t, place)
  /\ fr' = [fr EXCEPT ![t] = [op |-> op, arg |-> arg, now |-> n]]
  /\ UNCHANGED loopVars

(***************************************************************************)
(* request_lease: two locked sections around the human prompt.             *)
(***************************************************************************)
RequestBegin(t, k) ==
  /\ k \notin revoking
  /\ Call(t, "asking", "request", KeyGen(k, generations[k]), 0)
  /\ UNCHANGED <<clock, generations, revoking, leases, connVars, monitor, confirmed>>

\* The recheck after the prompt.
StillApprovable(a) ==
  /\ a.key \notin revoking
  /\ generations[a.key] = a.gen

RequestIssue(t, ttl) ==
  LET a == fr[t].arg IN
  /\ pc[t] = "asking"
  /\ StillApprovable(a)
  /\ Cardinality(leases) < MaxLeases
  /\ leases' = leases \cup {[key |-> a.key, gen |-> a.gen, issued |-> clock,
                             expires |-> clock + ttl]}
  /\ Return(t)
  /\ UNCHANGED <<clock, generations, revoking, connVars, monitor, confirmed>>

\* Denied, failed or timed out; or approved, and refused by the recheck.
RequestRefused(t) ==
  /\ pc[t] = "asking"
  /\ Return(t)
  /\ UNCHANGED <<clock, generations, revoking, leases, connVars, monitor, confirmed>>

(***************************************************************************)
(* _close_active_connections: the loop that revoke and the sweep share.    *)
(* The code visits the collected entries in table order; the model in any. *)
(***************************************************************************)
LoopSkip(t, c) ==
  /\ pc[t] = "loop" /\ c \in todo[t]
  /\ c \notin active
  /\ todo' = [todo EXCEPT ![t] = @ \ {c}]
  /\ UNCHANGED <<clock, generations, revoking, leases, connVars, pc, fr, snap,
                 failed, cur, monitor, confirmed>>

Visit(t, c) ==
  /\ todo' = [todo EXCEPT ![t] = @ \ {c}]
  /\ cur' = [cur EXCEPT ![t] = c]
  /\ UNCHANGED <<fr, snap, failed>>

\* Back to the head of the loop, with or without a failure counted.
Leave(t, failure) ==
  /\ Goto(t, "loop")
  /\ cur' = [cur EXCEPT ![t] = None]
  /\ failed' = [failed EXCEPT ![t] = @ \/ failure]
  /\ UNCHANGED <<fr, todo, snap>>

\* Another thread is already closing or releasing the entry.
LoopWait(t, c) ==
  /\ pc[t] = "loop" /\ c \in todo[t]
  /\ c \in active \cap closing
  /\ Goto(t, "waiting")
  /\ Visit(t, c)
  /\ UNCHANGED <<clock, generations, revoking, leases, connVars, monitor, confirmed>>

\* close_complete is set once the entry is no longer closing.  Still in the
\* table then, it counts as a failure.
WaitOutcomeBug(t) == FALSE
WaitOutcome(t) == cur[t] \in active

WaitDone(t) ==
  /\ pc[t] = "waiting"
  /\ cur[t] \notin closing
  /\ Leave(t, WaitOutcome(t))
  /\ UNCHANGED <<clock, generations, revoking, leases, connVars, monitor, confirmed>>

\* The wait of _NETWORK_CONNECTION_CLOSE_WAIT_SECONDS ran out.
WaitTimeout(t) ==
  /\ pc[t] = "waiting"
  /\ Leave(t, TRUE)
  /\ UNCHANGED <<clock, generations, revoking, leases, connVars, monitor, confirmed>>

MayStartClose(c) == c \in active \ closing

LoopClose(t, c) ==
  /\ pc[t] = "loop" /\ c \in todo[t]
  /\ MayStartClose(c)
  /\ closing' = closing \cup {c}
  /\ Goto(t, "callback")
  /\ Visit(t, c)
  /\ UNCHANGED <<clock, generations, revoking, leases, active, connLease,
                 pending, releasable, monitor, confirmed>>

\* del _active_connections[id]; entry.closing = False
Forget(c) == active' = active \ {c} /\ closing' = closing \ {c}

\* The callback returned True: the entry leaves the table.
CloseConfirmed(t) ==
  /\ pc[t] = "callback"
  /\ Forget(cur[t])
  /\ Leave(t, FALSE)
  /\ UNCHANGED <<clock, generations, revoking, leases, connLease, pending,
                 releasable, monitor, confirmed>>

\* It returned anything else, or raised: the entry stays.
CloseUnconfirmed(t) ==
  /\ pc[t] = "callback"
  /\ closing' = closing \ {cur[t]}
  /\ Leave(t, TRUE)
  /\ UNCHANGED <<clock, generations, revoking, leases, active, connLease,
                 pending, releasable, monitor, confirmed>>

\* NetworkLeaseConnectionCloseError propagates to the caller: the scope
\* stays marked, and a registration that was sweeping first is refused.
LoopRaise(t) ==
  /\ pc[t] = "loop" /\ todo[t] = {} /\ failed[t]
  /\ Return(t)
  /\ UNCHANGED <<clock, generations, revoking, leases, connVars, monitor, confirmed>>

(***************************************************************************)
(* revoke                                                                  *)
(***************************************************************************)
RevokeBegin(t, k) ==
  /\ pc[t] = "idle"
  /\ generations[k] < MaxGeneration
  /\ generations' = [generations EXCEPT ![k] = @ + 1]
  /\ revoking' = revoking \cup {k}
  /\ Goto(t, "loop")
  /\ fr' = [fr EXCEPT ![t] = [op |-> "revoke", arg |-> KeyGen(k, generations[k] + 1),
                              now |-> 0]]
  /\ todo' = [todo EXCEPT ![t] = OfKey(k)]
  /\ UNCHANGED <<clock, leases, connVars, snap, failed, cur, monitor, confirmed>>

RevokeEnd(t) ==
  LET a == fr[t].arg IN
  /\ pc[t] = "loop" /\ fr[t].op = "revoke"
  /\ todo[t] = {} /\ ~failed[t]
  /\ revoking' = IF OfKey(a.key) = {} THEN revoking \ {a.key} ELSE revoking
  /\ confirmed' = [confirmed EXCEPT ![a.key] = IF @ < a.gen THEN a.gen ELSE @]
  /\ Return(t)
  /\ UNCHANGED <<clock, generations, leases, connVars, monitor>>

(***************************************************************************)
(* close_expired_connections, called by a monitor, by a trusted event loop *)
(* or as the first half of a registration.  The caller reads the clock     *)
(* before it takes the lock, and may be delayed in between.                *)
(***************************************************************************)
SweepCall(t) ==
  /\ t \in Callers
  /\ Call(t, "sampled", "sweep", None, clock)
  /\ UNCHANGED <<clock, generations, revoking, leases, connVars, monitor, confirmed>>

RegisterCall(t, l) ==
  /\ t \in Callers
  /\ Call(t, "sampled", "register", l, clock)
  /\ UNCHANGED <<clock, generations, revoking, leases, connVars, monitor, confirmed>>

SweepBegin(t) ==
  LET n == fr[t].now
      marked == revoking \cup {connLease[c].key : c \in {d \in active : Expired(d, n)}}
  IN
  /\ pc[t] = "sampled"
  /\ revoking' = marked
  /\ Goto(t, "loop")
  /\ todo' = [todo EXCEPT ![t] = {c \in active : Swept(c, n)}]
  /\ snap' = [snap EXCEPT ![t] = marked]
  /\ UNCHANGED <<clock, generations, leases, connVars, fr, failed, cur, monitor, confirmed>>

\* The copied keys the sweep unmarks: nothing left to sweep in their scope.
CleanAfterSweepBug(k, n) == \A c \in OfKey(k) : ~Expired(c, n)
CleanAfterSweep(k, n) == \A c \in OfKey(k) : ~Swept(c, n)

SweepEnd(t) ==
  /\ pc[t] = "loop" /\ fr[t].op \in {"sweep", "register"}
  /\ todo[t] = {} /\ ~failed[t]
  /\ revoking' = revoking \ {k \in snap[t] : CleanAfterSweep(k, fr[t].now)}
  /\ IF fr[t].op = "register"
     THEN /\ Goto(t, "commit")
          /\ snap' = [snap EXCEPT ![t] = {}]
          /\ UNCHANGED <<fr, todo, failed, cur>>
     ELSE Return(t)
  /\ UNCHANGED <<clock, generations, leases, connVars, monitor, confirmed>>

(***************************************************************************)
(* register_active_connection and register_active_sockets, after the       *)
(* sweep.  A dial registers pending, with a clock read under the lock; a   *)
(* connected socket pair registers with a release callback.                *)
(***************************************************************************)
RegisterCommit(t, c, dial) ==
  LET l == fr[t].arg IN
  /\ pc[t] = "commit"
  /\ LeaseLive(l, clock)
  /\ connLease[c] = None
  /\ active' = active \cup {c}
  /\ connLease' = [connLease EXCEPT ![c] = l]
  /\ pending' = IF dial THEN pending \cup {c} ELSE pending
  /\ releasable' = IF dial THEN releasable ELSE releasable \cup {c}
  /\ Return(t)
  /\ UNCHANGED <<clock, generations, revoking, leases, closing, monitor, confirmed>>

\* The lease is not live any more, or it does not cover the caller's host,
\* port or purpose: validate_request raises and nothing is registered.
RegisterRefused(t) ==
  /\ pc[t] = "commit"
  /\ Return(t)
  /\ UNCHANGED <<clock, generations, revoking, leases, connVars, monitor, confirmed>>

\* promote_active_connection; n is the instant its caller read beforehand.
MayPromoteBug(c) == c \in active /\ c \in pending
MayPromote(c) == c \in active /\ c \in pending /\ c \notin closing

Promote(c, n) ==
  /\ n <= clock
  /\ MayPromote(c)
  /\ LeaseLive(connLease[c], n)
  /\ pending' = pending \ {c}
  /\ UNCHANGED <<clock, generations, revoking, leases, active, connLease,
                 closing, releasable, pc, fr, loopVars, monitor, confirmed>>

(***************************************************************************)
(* release_active_connection, by the owner that closed the connection.     *)
(***************************************************************************)
ReleaseNow(t, c) ==
  /\ t \in Callers /\ pc[t] = "idle"
  /\ c \in active \ closing /\ c \notin releasable
  /\ active' = active \ {c}
  /\ UNCHANGED <<clock, generations, revoking, leases, connLease, pending,
                 closing, releasable, pc, fr, loopVars, monitor, confirmed>>

ReleaseBegin(t, c) ==
  /\ t \in Callers /\ pc[t] = "idle"
  /\ MayStartClose(c) /\ c \in releasable
  /\ closing' = closing \cup {c}
  /\ Goto(t, "releasing")
  /\ fr' = [fr EXCEPT ![t] = [op |-> "release", arg |-> None, now |-> 0]]
  /\ cur' = [cur EXCEPT ![t] = c]
  /\ UNCHANGED <<clock, generations, revoking, leases, active, connLease,
                 pending, releasable, todo, snap, failed, monitor, confirmed>>

ReleaseEnd(t, released) ==
  LET c == cur[t] IN
  /\ pc[t] = "releasing"
  /\ IF released
     THEN Forget(c)
     ELSE closing' = closing \ {c} /\ UNCHANGED active
  /\ Return(t)
  /\ UNCHANGED <<clock, generations, revoking, leases, connLease, pending,
                 releasable, monitor, confirmed>>

(***************************************************************************)
(* NetworkLeaseExpiryMonitor: single-use start and stop, and _run.         *)
(***************************************************************************)
MonitorStart(m) ==
  /\ monitor[m] = "new"
  /\ monitor' = [monitor EXCEPT ![m] = "running"]
  /\ UNCHANGED <<clock, generations, revoking, leases, connVars, pc, fr, loopVars, confirmed>>

\* stop sets the event; a sweep under way is finished.
MonitorStop(m) ==
  /\ monitor[m] # "stopped"
  /\ monitor' = [monitor EXCEPT ![m] = "stopped"]
  /\ UNCHANGED <<clock, generations, revoking, leases, connVars, pc, fr, loopVars, confirmed>>

MonitorSweep(m) ==
  /\ monitor[m] = "running"
  /\ Call(m, "sampled", "sweep", None, clock)
  /\ UNCHANGED <<clock, generations, revoking, leases, connVars, monitor, confirmed>>

-----------------------------------------------------------------------------
LoopStep(t) ==
  \/ \E c \in Conns : LoopSkip(t, c) \/ LoopWait(t, c) \/ LoopClose(t, c)
  \/ WaitDone(t)
  \/ LoopRaise(t)
  \/ RevokeEnd(t)
  \/ SweepBegin(t)
  \/ SweepEnd(t)

CallStep(t) ==
  \/ \E k \in Keys : RequestBegin(t, k) \/ RevokeBegin(t, k)
  \/ \E ttl \in TTLs : RequestIssue(t, ttl)
  \/ RequestRefused(t)
  \/ SweepCall(t)
  \/ \E l \in leases : RegisterCall(t, l)
  \/ \E c \in Conns, dial \in BOOLEAN : RegisterCommit(t, c, dial)
  \/ RegisterRefused(t)
  \/ \E c \in Conns : ReleaseNow(t, c) \/ ReleaseBegin(t, c)

Callback(t) ==
  \/ CloseConfirmed(t) \/ CloseUnconfirmed(t) \/ WaitTimeout(t)
  \/ \E released \in BOOLEAN : ReleaseEnd(t, released)

Next ==
  \/ Tick
  \/ \E t \in Threads : LoopStep(t) \/ Callback(t)
  \/ \E t \in Callers : CallStep(t)
  \/ \E c \in Conns, n \in 0 .. MaxTime : Promote(c, n)
  \/ \E m \in Monitors : MonitorStart(m) \/ MonitorStop(m) \/ MonitorSweep(m)

Spec == Init /\ [][Next]_vars

\* A thread that is not waiting for a human or a callback goes on, callbacks
\* and waits end (their own timeouts bound them), a monitor that is not
\* stopped sweeps again, and a close retried for ever confirms at last.
Fairness ==
  /\ \A t \in Threads : WF_vars(LoopStep(t) \/ Callback(t))
  /\ \A t \in Threads, c \in Conns :
       SF_vars((CloseConfirmed(t) \/ ReleaseEnd(t, TRUE)) /\ cur[t] = c)
  /\ \A m \in Monitors : WF_vars(MonitorSweep(m))

FairSpec == Spec /\ Fairness

-----------------------------------------------------------------------------
(***************************************************************************)
(* Properties                                                              *)
(***************************************************************************)
\* An open connection of a revoked generation keeps its scope marked: no
\* lease is issued and nothing is registered or promoted for the scope
\* (request_lease, _verify_*_locked, promote) until it is gone, whatever
\* sweeps, revocations and failed closes happen meanwhile.
OldGenerationBlocked ==
  \A c \in active : StaleGeneration(c) => connLease[c].key \in revoking

\* Once a revoke has returned without an error, no connection older than the
\* generation it started is in the table, even if other threads were closing
\* or releasing the same entries, and none ever comes back.
RevocationComplete ==
  \A c \in active : connLease[c].gen >= confirmed[connLease[c].key]

InCallback(t, c) == pc[t] \in {"callback", "releasing"} /\ cur[t] = c

\* The close and release callbacks of an entry never run twice at once, and
\* .closing tells exactly whether one runs.
CallbackExclusive ==
  \A c \in Conns :
    /\ c \in closing <=> \E t \in Threads : InCallback(t, c)
    /\ \A t, u \in Threads : InCallback(t, c) /\ InCallback(u, c) => t = u

\* A lease is issued, and a connection registered, only for the generation
\* in force, and never beside an open connection of another one: an approval
\* asked for before a revocation yields nothing after it.
NoOverlappingGenerations ==
  [][/\ \A l \in leases' \ leases :
          l.gen = generations[l.key] /\ \A d \in OfKey(l.key) : connLease[d].gen = l.gen
     /\ \A c \in active' \ active : \A d \in OfKey(connLease'[c].key) :
          connLease[d].gen = connLease'[c].gen]_vars

\* How this module's state is read as LeaseTable's.
ValidLeases == {l \in leases : l.gen = generations[l.key] /\ l.key \notin revoking}

EntryKind(c) ==
  IF connLease[c] = None THEN "absent"
  ELSE IF c \notin active THEN "gone"
  ELSE IF c \in pending THEN "pending" ELSE "active"

KeyOf(l) == l.key

Table == INSTANCE LeaseTable WITH
  Entries <- Conns, Leases <- Lease, Nobody <- None, Scope <- KeyOf, valid <- ValidLeases,
  kind <- [c \in Conns |-> EntryKind(c)], lease <- connLease, busy <- closing

\* The authority is the table its callers rely on: whatever threads do at
\* once, a connection is registered and promoted only under a lease that is
\* honoured at that moment and never while its callback runs, one callback
\* runs at a time, a closed entry never comes back, and a scope with an open
\* connection of a revoked generation honours no lease.
ImplementsTable == Table!TableSpec

MonitorGone == \E m \in Monitors : monitor[m] # "running"

\* While a monitor runs, every expired connection is closed in the end: a
\* failed close is retried.
ExpiredClosed ==
  \A c \in Conns : (c \in active /\ Expired(c, clock)) ~> (c \notin active \/ MonitorGone)
=============================================================================
