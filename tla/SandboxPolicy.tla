---------------------------- MODULE SandboxPolicy ----------------------------
(* The sandbox policy of one step (src/icode/sandbox_policy.py): which roots   *)
(* may be read and written, which are denied, the network and the limits; and  *)
(* the ways a policy is made narrower before a command runs under it.          *)
(* A path is the sequence of its components, already resolved.                 *)
EXTENDS Naturals, Sequences

CONSTANTS Paths,       \* the paths in use: sequences of names
          Domains      \* the DNS names in use

ASSUME PolicyAssumption == \A path \in Paths : path \in Seq(STRING)

Steps == {"code", "review"}
Roots == SUBSET Paths
Policies ==
    [workspace : Paths, step : Steps, read : Roots, write : Roots, denyRead : Roots,
     denyWrite : Roots, protected : Roots, domains : SUBSET Domains, limit : Nat]

Within(path, root) ==
    /\ Len(root) <= Len(path)
    /\ \A i \in 1..Len(root) : path[i] = root[i]

Covered(path, roots) == \E root \in roots : Within(path, root)

\* network_mode is "deny" exactly when no domain is allowed
Denied(p) == p.domains = {}

\* SandboxPolicy.validate
Valid(p) ==
    /\ p.limit > 0
    /\ \A root \in p.write : Within(root, p.workspace)
    /\ \A root \in p.read : ~ Covered(root, p.denyRead)
    /\ \A root \in p.write : ~ Covered(root, p.denyWrite)
    /\ \A path \in p.protected : Covered(path, p.denyWrite)

NoBroaderBug(candidate, base) ==
    candidate = {} \/ \E root \in candidate : Covered(root, base)

\* _roots_are_no_broader
NoBroader(candidate, base) == \A root \in candidate : Covered(root, base)

\* _denies_preserved
DeniesPreserved(candidate, base) == \A root \in base : Covered(root, candidate)

\* tighten_policy returns the candidate: it can only take authority away
Tightens(base, candidate) ==
    /\ Valid(base) /\ Valid(candidate)
    /\ candidate.workspace = base.workspace /\ candidate.step = base.step
    /\ NoBroader(candidate.read, base.read)
    /\ NoBroader(candidate.write, base.write)
    /\ DeniesPreserved(candidate.denyRead, base.denyRead)
    /\ DeniesPreserved(candidate.denyWrite, base.denyWrite)
    /\ base.protected \subseteq candidate.protected
    /\ candidate.limit <= base.limit
    /\ candidate.domains \subseteq base.domains

\* the candidate of a role without writes, and of the Reviewer: no write root, no
\* network, more hidden directories
ReadOnly(base, hidden) ==
    [base EXCEPT !.write = {}, !.domains = {}, !.denyRead = @ \cup hidden]

\* derive_read_only_reviewer_policy gives the Reviewer's policy
ReviewerMay(base, hidden) ==
    /\ base.step = "review"
    /\ \A root \in base.read : Within(root, base.workspace)
    /\ Tightens(base, ReadOnly(base, hidden))

\* converge_policy_to_region: the executor writes in its own region only
Converged(base, region) == [base EXCEPT !.write = {region}]
RegionMay(base, region) ==
    Covered(region, base.write) /\ Tightens(base, Converged(base, region))

-----------------------------------------------------------------------------
(* What a policy allows.                                                     *)

MayReadPath(p, path) == Covered(path, p.read) /\ ~ Covered(path, p.denyRead)
MayWritePath(p, path) == Covered(path, p.write) /\ ~ Covered(path, p.denyWrite)

\* every access q allows is one p allows
AllowsNoMore(q, p) ==
    /\ \A path \in Paths : MayReadPath(q, path) => MayReadPath(p, path)
    /\ \A path \in Paths : MayWritePath(q, path) => MayWritePath(p, path)
    /\ \A path \in p.protected : ~ MayWritePath(q, path)
    /\ q.limit <= p.limit /\ q.domains \subseteq p.domains
=============================================================================
