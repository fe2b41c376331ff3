----------------------------- MODULE LeaseTable -----------------------------
(***************************************************************************)
(* What NetworkLeaseAuthority promises to the code that opens sockets      *)
(* under a lease (network_connector.py, network_proxy_scope.py): a table   *)
(* of connections, each registered under a lease the authority honours at  *)
(* that moment, promoted only while it still does and nobody is closing    *)
(* it, and closed by one callback at a time.  Time, generations, threads   *)
(* and loops are NetworkLease's business: NetworkLease implements this     *)
(* module, and ProxySession is built on it.                                *)
(***************************************************************************)
CONSTANTS
  Entries,    \* connection ids
  Leases,   \* leases that may be issued
  Nobody,   \* no lease
  Scope(_)  \* the policy scope a lease belongs to

VARIABLES
  valid,  \* the leases whose generation is in force and whose scope is not
          \* being cleaned up; lifetimes are compared with a caller's instant
  kind,   \* what the table holds for an id
  lease,  \* the lease it was registered under
  busy    \* ids whose close or release callback is running

tableVars == <<valid, kind, lease, busy>>

Tabled(c) == kind[c] \in {"pending", "active"}

\* A scope is honoured as a whole or not at all: beside a lease that is
\* valid, no connection of its scope is open under one that is not.
ScopesWhole(v) ==
  \A l \in v, c \in Entries : Tabled(c) /\ Scope(lease[c]) = Scope(l) => lease[c] \in v

TableInit ==
  /\ valid \subseteq Leases
  /\ kind = [c \in Entries |-> "absent"]
  /\ lease = [c \in Entries |-> Nobody]
  /\ busy = {}

\* register_active_connection and register_active_sockets, accepted.
Register(c, l, k) ==
  /\ kind[c] = "absent" /\ l \in valid
  /\ kind' = [kind EXCEPT ![c] = k]
  /\ lease' = [lease EXCEPT ![c] = l]
  /\ UNCHANGED <<valid, busy>>

\* promote_active_connection, accepted.
PromoteEntry(c) ==
  /\ kind[c] = "pending" /\ c \notin busy /\ lease[c] \in valid
  /\ kind' = [kind EXCEPT ![c] = "active"]
  /\ UNCHANGED <<valid, lease, busy>>

\* The entry's callback is called, by a revocation, a sweep or a release.
BeginClose(c) ==
  /\ Tabled(c) /\ c \notin busy
  /\ busy' = busy \cup {c}
  /\ UNCHANGED <<valid, kind, lease>>

EndClose(c, confirmed) ==
  /\ c \in busy
  /\ busy' = busy \ {c}
  /\ kind' = IF confirmed THEN [kind EXCEPT ![c] = "gone"] ELSE kind
  /\ UNCHANGED <<valid, lease>>

\* release_active_connection of an entry registered without a release
\* callback.
Drop(c) ==
  /\ Tabled(c) /\ c \notin busy
  /\ kind' = [kind EXCEPT ![c] = "gone"]
  /\ UNCHANGED <<valid, lease, busy>>

\* Leases are issued, revoked, blocked during a cleanup and unblocked.
Revalue ==
  /\ valid' \subseteq Leases
  /\ ScopesWhole(valid')
  /\ UNCHANGED <<kind, lease, busy>>

TableNext ==
  \/ Revalue
  \/ \E c \in Entries :
       \/ \E l \in valid, k \in {"pending", "active"} : Register(c, l, k)
       \/ PromoteEntry(c) \/ BeginClose(c) \/ Drop(c)
       \/ \E confirmed \in BOOLEAN : EndClose(c, confirmed)

TableSpec == TableInit /\ [][TableNext]_tableVars
=============================================================================
