----------------------------- MODULE AgentTeam ------------------------------
(***************************************************************************)
(* The agents of one ticket (multi_agent.py), their conclusions            *)
(* (agent_conclusion.py) and their identities (roles.py), over the write   *)
(* leases of WriteLease.                                                   *)
(*                                                                         *)
(* A team is a board and a batch: the jobs one run_parallel call takes,    *)
(* each on a thread of its own.  An owner is a job; it passes its agent's  *)
(* identity, <<role, ordinal>>, as the holder of its lease.  The body of a *)
(* work callable is left out: it raises, returns nothing, returns          *)
(* something that is no evidence, or returns evidence.                     *)
(***************************************************************************)
EXTENDS WriteLease

CONSTANTS
  Roles,
  Writers,      \* the roles whose may_write is True
  RegionOf,     \* the region a job declares, or None
  StepOf,       \* the step it works on
  JobsOf,       \* the jobs of a team, in the order of the call
  MaxParallel,  \* max_parallel
  Limit         \* ledger_limit

RoleOf(o) == HolderOf[o][1]

ASSUME AgentTeamAssumption ==
  /\ Writers \subseteq Roles
  /\ HolderOf \in [Owners -> Roles \X (Nat \ {0})]
  /\ RegionOf \in [Owners -> Regions \cup {None}]
  /\ DOMAIN StepOf = Owners
  /\ JobsOf \in [Boards -> Seq(Owners)]
  /\ \A o \in Owners : \E i \in DOMAIN JobsOf[BoardOf[o]] : JobsOf[BoardOf[o]][i] = o
  /\ MaxParallel \in Nat \ {0} /\ Limit \in Nat \ {0}

VARIABLES
  ordinals,  \* RoleRegistry._ordinals of each team
  batch,     \* "none", "running", "returned", "raised" or "dead"
  cursor,    \* cursor["next"], the position of the next job to take
  place,     \* where a job's thread is in run
  verdict,   \* the outcome run returned, or "error"
  ledger     \* ConclusionLedger of each team

teamVars == <<ordinals, batch, cursor, place, verdict, ledger>>
vars == <<leaseVars, teamVars>>

Outcomes == {"completed", "failed", "refused"}
Details == {"", "lease_busy", "agent_work_failed", "evidence_missing", "evidence_invalid"}
Conclusions == [agent: Roles \X (Nat \ {0}), step: {StepOf[o] : o \in Owners},
                context: Regions \cup {None}, outcome: Outcomes, detail: Details]
Places == {"queued", "acquire", "work", "ended", "raised", "returned", "dead"}

Init ==
  /\ LeaseInit
  /\ ordinals = [b \in Boards |-> [role \in Roles |-> 0]]
  /\ batch = [b \in Boards |-> "none"]
  /\ cursor = [b \in Boards |-> 1]
  /\ place = [o \in Owners |-> "queued"]
  /\ verdict = [o \in Owners |-> "none"]
  /\ ledger = [b \in Boards |-> <<>>]

TypeOK ==
  /\ LeaseTypeOK
  /\ ordinals \in [Boards -> [Roles -> Nat]]
  /\ batch \in [Boards -> {"none", "running", "returned", "raised", "dead"}]
  /\ \A b \in Boards : cursor[b] \in 1 .. Len(JobsOf[b]) + 1
  /\ place \in [Owners -> Places]
  /\ verdict \in [Owners -> Outcomes \cup {"none", "error"}]
  /\ \A b \in Boards : ledger[b] \in Seq(Conclusions) /\ Len(ledger[b]) <= Limit

Entries(b) == {ledger[b][i] : i \in DOMAIN ledger[b]}

(***************************************************************************)
(* Conclusions                                                             *)
(***************************************************************************)
\* context is the policy the run had: narrowed to the region, or the handle's.
Conclusion(o, context, outcome, detail) ==
  [agent |-> HolderOf[o], step |-> StepOf[o], context |-> context,
   outcome |-> outcome, detail |-> detail]

\* ConclusionLedger.record: a known digest is accepted again, a new one only
\* while there is room.
Recordable(b, c) == c \in Entries(b) \/ Len(ledger[b]) < Limit
Recorded(b, c) == IF c \in Entries(b) THEN ledger[b] ELSE Append(ledger[b], c)

\* run ends with the first of these conclusions that the ledger accepts, and
\* raises when it accepts none.
Conclude(o, cs) ==
  LET b == BoardOf[o]
      accepted == {i \in DOMAIN cs : Recordable(b, cs[i])}
      first == CHOOSE i \in accepted : \A j \in accepted : i <= j
  IN IF accepted = {}
     THEN /\ place' = [place EXCEPT ![o] = "raised"]
          /\ UNCHANGED <<verdict, ledger>>
     ELSE /\ place' = [place EXCEPT ![o] = "ended"]
          /\ verdict' = [verdict EXCEPT ![o] = cs[first].outcome]
          /\ ledger' = [ledger EXCEPT ![b] = Recorded(b, cs[first])]

(***************************************************************************)
(* spawn and run_parallel                                                  *)
(***************************************************************************)
Wanted(b) == {o \in Owners : BoardOf[o] = b}
Issued(o) == HolderOf[o][2] <= ordinals[BoardOf[o]][RoleOf(o)]

Spawn(b, role) ==
  /\ \E o \in Wanted(b) : RoleOf(o) = role /\ ~Issued(o)
  /\ ordinals' = [ordinals EXCEPT ![b][role] = @ + 1]
  /\ UNCHANGED <<leaseVars, batch, cursor, place, verdict, ledger>>

RunParallel(b) ==
  /\ batch[b] = "none"
  /\ \A o \in Wanted(b) : Issued(o)
  /\ Len(JobsOf[b]) <= MaxParallel
  /\ batch' = [batch EXCEPT ![b] = "running"]
  /\ UNCHANGED <<leaseVars, ordinals, cursor, place, verdict, ledger>>

\* A writer without a region, or a reader with one, is a RoleError.
Misdeclared(o) == (RoleOf(o) \in Writers) # (RegionOf[o] # None)

TakeJob(o) ==
  LET b == BoardOf[o] IN
  /\ batch[b] = "running"
  /\ cursor[b] <= Len(JobsOf[b]) /\ JobsOf[b][cursor[b]] = o
  /\ cursor' = [cursor EXCEPT ![b] = @ + 1]
  /\ place' = [place EXCEPT ![o] = IF Misdeclared(o) THEN "raised"
                                   ELSE IF RegionOf[o] = None THEN "work" ELSE "acquire"]
  /\ UNCHANGED <<leaseVars, ordinals, batch, verdict, ledger>>

(***************************************************************************)
(* run                                                                     *)
(***************************************************************************)
RunAcquires(o) ==
  /\ place[o] = "acquire"
  /\ Acquire(o, RegionOf[o])
  /\ place' = [place EXCEPT ![o] = "work"]
  /\ UNCHANGED <<ordinals, batch, cursor, verdict, ledger>>

\* What run does on LeaseBusy.
OnBusyBug(o) == place' = [place EXCEPT ![o] = "work"] /\ UNCHANGED <<verdict, ledger>>
OnBusy(o) == Conclude(o, <<Conclusion(o, RegionOf[o], "refused", "lease_busy")>>)

RunBusy(o) ==
  /\ place[o] = "acquire"
  /\ ~Free(o, RegionOf[o])
  /\ OnBusy(o)
  /\ UNCHANGED <<leaseVars, ordinals, batch, cursor>>

\* The policy cannot be narrowed, or the lock file not opened or written.
RunLeaseError(o) ==
  /\ place[o] = "acquire"
  /\ place' = [place EXCEPT ![o] = "raised"]
  /\ UNCHANGED <<leaseVars, ordinals, batch, cursor, verdict, ledger>>

Produced == {"exception", "nothing", "invalid", "evidence"}

WorkEnds(o, produced) ==
  LET c(outcome, detail) == Conclusion(o, RegionOf[o], outcome, detail) IN
  /\ place[o] = "work"
  /\ Conclude(o,
       CASE produced = "exception" -> <<c("failed", "agent_work_failed")>>
         [] produced = "nothing"   -> <<c("refused", "evidence_missing"),
                                        c("failed", "evidence_invalid")>>
         [] produced = "invalid"   -> <<c("failed", "evidence_invalid")>>
         [] produced = "evidence"  -> <<c("completed", ""), c("failed", "evidence_invalid")>>)
  /\ UNCHANGED <<leaseVars, ordinals, batch, cursor>>

\* finally: release the lease, however run ends.
ReleaseLeaseBug(o) == Unlock(o)
ReleaseLease(o) == Unlock(o) \/ Discard(o)

RunReleases(o) ==
  /\ place[o] \in {"ended", "raised"}
  /\ ReleaseLease(o)
  /\ UNCHANGED teamVars

RunReturns(o) ==
  /\ place[o] = "ended" /\ phase[o] = "none"
  /\ place' = [place EXCEPT ![o] = "returned"]
  /\ UNCHANGED <<leaseVars, ordinals, batch, cursor, verdict, ledger>>

\* The worker thread records what escaped from run, if the ledger takes it.
Escaped(b, c) == IF Recordable(b, c) THEN Recorded(b, c) ELSE ledger[b]

RunEscapes(o) ==
  LET b == BoardOf[o] IN
  /\ place[o] = "raised" /\ phase[o] = "none"
  /\ place' = [place EXCEPT ![o] = "returned"]
  /\ verdict' = [verdict EXCEPT ![o] = "error"]
  /\ ledger' = [ledger EXCEPT
       ![b] = Escaped(b, Conclusion(o, None, "failed", "agent_work_failed"))]
  /\ UNCHANGED <<leaseVars, ordinals, batch, cursor>>

\* After the joins the first error is raised.
Join(b) ==
  /\ batch[b] = "running"
  /\ \A o \in Wanted(b) : place[o] = "returned"
  /\ batch' = [batch EXCEPT ![b] = IF \E o \in Wanted(b) : verdict[o] = "error"
                                   THEN "raised" ELSE "returned"]
  /\ UNCHANGED <<leaseVars, ordinals, cursor, place, verdict, ledger>>

\* The process of a team dies; all it has of the team is in memory.
Die(b) ==
  /\ batch[b] = "running"
  /\ Crash(b)
  /\ batch' = [batch EXCEPT ![b] = "dead"]
  /\ place' = [o \in Owners |-> IF BoardOf[o] = b THEN "dead" ELSE place[o]]
  /\ verdict' = [o \in Owners |-> IF BoardOf[o] = b THEN "none" ELSE verdict[o]]
  /\ ledger' = [ledger EXCEPT ![b] = <<>>]
  /\ UNCHANGED <<ordinals, cursor>>

JobStep(o) ==
  \/ TakeJob(o) \/ RunAcquires(o) \/ RunBusy(o) \/ RunLeaseError(o)
  \/ \E produced \in Produced : WorkEnds(o, produced)
  \/ RunReleases(o) \/ RunReturns(o) \/ RunEscapes(o)

Next ==
  \/ \E b \in Boards : RunParallel(b) \/ Join(b) \/ \E role \in Roles : Spawn(b, role)
  \/ \E o \in Owners : JobStep(o)
  \/ \E b \in Boards : Die(b)

Spec == Init /\ [][Next]_vars

\* While some thread can go on, some thread does; a work callable returns or
\* raises.  Jobs take finitely many steps, so nothing more is needed.
Progress == (\E o \in Owners : JobStep(o)) \/ \E b \in Boards : Join(b)
FairSpec == Spec /\ WF_vars(Progress)

\* step_gate: a completed conclusion of the role on the step.
Satisfied(b, role, step) ==
  \E c \in Entries(b) : c.agent[1] = role /\ c.step = step /\ c.outcome = "completed"

-----------------------------------------------------------------------------
(***************************************************************************)
(* Properties                                                              *)
(***************************************************************************)
\* Callables that run at the same time in one team work in disjoint regions,
\* and nobody works in a region it has no lease on.
WorkersApart ==
  \A o, p \in Owners :
    place[o] = "work" /\ RegionOf[o] # None =>
      /\ phase[o] = "held" /\ lease[o] = RegionOf[o]
      /\ o # p /\ BoardOf[o] = BoardOf[p] /\ place[p] = "work" /\ RegionOf[p] # None
           => ~Overlap(RegionOf[o], RegionOf[p])

\* release gives the file back before it has the guard of the table: whoever
\* comes in between, of this process or of another, whichever jobs are refused
\* and whichever process dies, overlapping regions of a team and equal ones of
\* anybody stay apart until both halves are done, and nothing stays occupied
\* that no lease is left to release.
RegionsKept == BoardExclusive /\ RegionExclusive /\ NoGhost

\* run_parallel ends, unless its process dies: no job waits for another's
\* region, neither of this team nor of another.
BatchEnds ==
  \A b \in Boards : batch[b] = "running" ~> batch[b] \in {"returned", "raised", "dead"}
=============================================================================
