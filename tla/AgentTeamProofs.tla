-------------------------- MODULE AgentTeamProofs ---------------------------
(***************************************************************************)
(* A team uses its write leases as WriteLease specifies, hence inherits    *)
(* their exclusion: jobs of one team that work at the same time do so in   *)
(* disjoint regions, for any teams, jobs, regions and ledger limit.        *)
(*                                                                         *)
(* Only jobs with a region get as far as acquire (Declaring); with that,   *)
(* every step maps to a step of WriteLease or to a stutter.  The           *)
(* invariant of WriteLease then holds of teams too, and Working adds that  *)
(* a job at work has the lease of its region.                              *)
(***************************************************************************)
EXTENDS AgentTeam, TLAPS

-----------------------------------------------------------------------------
(***************************************************************************)
(* The two exclusion properties of write leases and the absence of ghost   *)
(* entries, for any boards, owners and regions.                            *)
(*                                                                         *)
(* The table and the file locks each protect what the other does not see,  *)
(* so the invariant ties an owner's lease to both: InTable says that the  *)
(* table has the entry of every lease, NoGhost that it has no other, and   *)
(* FileHeld that the file of a lease that is held is locked by its owner.  *)
(***************************************************************************)

InTable == \A o \in Owners : phase[o] # "none" => Removed(o) \in held

FileHeld == \A o \in Owners : phase[o] = "held" => flock[lease[o]] = o

LeaseInv == LeaseTypeOK /\ InTable /\ FileHeld /\ NoGhost /\ BoardExclusive

\* regions_overlap does not depend on the order of its arguments, and a region
\* overlaps itself.
LEMMA OverlapSymmetric ==
  ASSUME NEW a \in Regions, NEW b \in Regions
  PROVE  Overlap(a, b) <=> Overlap(b, a)
<1>1. Len(a) \in Nat /\ Len(b) \in Nat
  BY WriteLeaseAssumption
<1> QED  BY <1>1 DEF Overlap

LEMMA OverlapReflexive == \A a \in Regions : Overlap(a, a)
  BY DEF Overlap

LEMMA LeaseInitInv == LeaseInit => LeaseInv
  BY WriteLeaseAssumption
  DEF LeaseInit, LeaseInv, LeaseTypeOK, InTable, FileHeld, NoGhost, BoardExclusive

LEMMA AcquireInv ==
  ASSUME LeaseInv, NEW o \in Owners, NEW r \in Regions, Acquire(o, r)
  PROVE  LeaseInv'
<1> USE WriteLeaseAssumption DEF LeaseInv, LeaseTypeOK, Acquire, Free, TableFree, FileFree
<1>1. /\ \A p \in Owners : p # o => Removed(p)' = Removed(p)
      /\ Removed(o)' = <<BoardOf[o], r, HolderOf[o]>>
  BY DEF Removed
<1>2. LeaseTypeOK'
  <2>1. <<BoardOf[o], r, HolderOf[o]>> \in Boards \X Regions \X Holders
    BY DEF Holders
  <2> QED  BY <2>1
<1>3. InTable'
  BY <1>1 DEF InTable
<1>4. FileHeld'
  BY DEF FileHeld
<1>5. NoGhost'
  <2>1. \A e \in held : \E p \in Owners : p # o /\ phase[p] # "none" /\ Removed(p) = e
    BY DEF NoGhost
  <2>2. ASSUME NEW e \in held'
        PROVE  \E p \in Owners : phase'[p] # "none" /\ Removed(p)' = e
    <3>1. CASE e \in held
      <4>1. PICK p \in Owners : p # o /\ phase[p] # "none" /\ Removed(p) = e
        BY <3>1, <2>1
      <4>2. phase'[p] = phase[p] /\ Removed(p)' = e
        BY <4>1, <1>1
      <4> QED  BY <4>1, <4>2
    <3>2. CASE e = Removed(o)'
      <4>1. phase'[o] # "none"
        OBVIOUS
      <4> QED  BY <3>2, <4>1
    <3> QED  BY <3>1, <3>2, <1>1
  <2>3. \A s \in Regions : flock'[s] # None =>
            phase'[flock'[s]] = "held" /\ lease'[flock'[s]] = s
    BY DEF NoGhost
  <2> QED  BY <2>2, <2>3 DEF NoGhost
<1>6. ASSUME NEW p \in Owners, p # o, BoardOf[p] = BoardOf[o], phase[p] # "none"
      PROVE  ~Overlap(lease[p], r) /\ ~Overlap(r, lease[p])
  <2>1. Removed(p) \in held /\ Removed(p)[1] = BoardOf[o] /\ Removed(p)[2] = lease[p]
    BY <1>6 DEF InTable, Removed
  <2>2. lease[p] \in Regions
    BY <1>6
  <2> QED  BY <2>1, <2>2, OverlapSymmetric
<1>7. BoardExclusive'
  <2> SUFFICES ASSUME NEW p \in Owners, NEW q \in Owners, p # q, BoardOf[p] = BoardOf[q],
                      phase'[p] # "none", phase'[q] # "none"
               PROVE  ~Overlap(lease'[p], lease'[q])
    BY DEF BoardExclusive
  <2>1. CASE p = o  BY <2>1, <1>6
  <2>2. CASE q = o  BY <2>2, <1>6
  <2>3. CASE p # o /\ q # o  BY <2>3 DEF BoardExclusive
  <2> QED  BY <2>1, <2>2, <2>3
<1> QED  BY <1>2, <1>3, <1>4, <1>5, <1>7

LEMMA UnlockInv ==
  ASSUME LeaseInv, NEW o \in Owners, Unlock(o)
  PROVE  LeaseInv'
<1> USE WriteLeaseAssumption DEF LeaseInv, LeaseTypeOK, Unlock
<1>1. \A p \in Owners : Removed(p)' = Removed(p)
  BY DEF Removed
<1>2. LeaseTypeOK'
  OBVIOUS
<1>3. InTable'
  BY <1>1 DEF InTable
<1>4. FileHeld'
  BY DEF FileHeld
<1>5. NoGhost'
  BY <1>1 DEF NoGhost
<1>6. BoardExclusive'
  BY DEF BoardExclusive
<1> QED  BY <1>2, <1>3, <1>4, <1>5, <1>6

LEMMA DiscardInv ==
  ASSUME LeaseInv, NEW o \in Owners, Discard(o)
  PROVE  LeaseInv'
<1> USE WriteLeaseAssumption DEF LeaseInv, LeaseTypeOK, Discard, Without
<1>1. \A p \in Owners : p # o => Removed(p)' = Removed(p)
  BY DEF Removed
<1>2. LeaseTypeOK'
  OBVIOUS
<1>3. \A p \in Owners : p # o /\ phase[p] # "none" => Removed(p) # Removed(o)
  BY OverlapReflexive DEF BoardExclusive, Removed
<1>4. InTable'
  BY <1>1, <1>3 DEF InTable
<1>5. FileHeld'
  BY DEF FileHeld
<1>6. NoGhost'
  <2>1. \A e \in held' : \E p \in Owners : p # o /\ phase[p] # "none" /\ Removed(p) = e
    BY DEF NoGhost
  <2>2. \A e \in held' : \E p \in Owners : (phase[p] # "none" /\ Removed(p) = e)'
    BY <2>1, <1>1
  <2>3. \A s \in Regions : flock[s] # None => flock[s] # o
    BY DEF NoGhost
  <2>4. \A s \in Regions : flock'[s] # None =>
            phase'[flock'[s]] = "held" /\ lease'[flock'[s]] = s
    BY <2>3 DEF NoGhost
  <2> QED  BY <2>2, <2>4 DEF NoGhost
<1>7. BoardExclusive'
  BY DEF BoardExclusive
<1> QED  BY <1>2, <1>4, <1>5, <1>6, <1>7

LEMMA CrashInv ==
  ASSUME LeaseInv, NEW b \in Boards, Crash(b)
  PROVE  LeaseInv'
<1> USE WriteLeaseAssumption DEF LeaseInv, LeaseTypeOK, Crash
<1>1. \A p \in Owners : BoardOf[p] # b => Removed(p)' = Removed(p)
  BY DEF Removed
<1>2. LeaseTypeOK'
  OBVIOUS
<1>3. InTable'
  BY <1>1 DEF InTable, Removed
<1>4. FileHeld'
  BY DEF FileHeld
<1>5. NoGhost'
  <2>1. \A e \in held' : \E p \in Owners : BoardOf[p] # b /\ phase[p] # "none" /\ Removed(p) = e
    BY DEF NoGhost, Removed
  <2>2. \A e \in held' : \E p \in Owners : (phase[p] # "none" /\ Removed(p) = e)'
    BY <2>1, <1>1
  <2>3. \A s \in Regions : flock'[s] # None =>
            phase'[flock'[s]] = "held" /\ lease'[flock'[s]] = s
    BY DEF NoGhost
  <2> QED  BY <2>2, <2>3 DEF NoGhost
<1>6. BoardExclusive'
  BY DEF BoardExclusive
<1> QED  BY <1>2, <1>3, <1>4, <1>5, <1>6

LEMMA LeaseNextInv == LeaseInv /\ [LeaseNext]_leaseVars => LeaseInv'
<1> SUFFICES ASSUME LeaseInv, [LeaseNext]_leaseVars PROVE LeaseInv'  OBVIOUS
<1>1. CASE UNCHANGED leaseVars
  BY <1>1 DEF leaseVars, LeaseInv, LeaseTypeOK, InTable, FileHeld, NoGhost, BoardExclusive,
     Removed
<1> QED  BY <1>1, AcquireInv, UnlockInv, DiscardInv, CrashInv DEF LeaseNext

\* Types, and the tie between leases, table and file locks.
THEOREM LeasesTied == LeaseSpec => []LeaseInv
  BY LeaseInitInv, LeaseNextInv, PTL DEF LeaseSpec

\* acquire's table check: no two owners of a board hold overlapping regions,
\* whatever releases and crashes come in between.
THEOREM BoardsExclude == LeaseSpec => []BoardExclusive
<1>1. LeaseInv => BoardExclusive  BY DEF LeaseInv
<1> QED  BY <1>1, LeasesTied, PTL

\* The file locks: no two owners at all hold the same region.
THEOREM RegionsExclude == LeaseSpec => []RegionExclusive
<1>1. LeaseInv => RegionExclusive
  BY DEF LeaseInv, LeaseTypeOK, FileHeld, RegionExclusive
<1> QED  BY <1>1, LeasesTied, PTL

\* "No ghost occupation": release and crashes leave no entry and no lock.
THEOREM NoGhosts == LeaseSpec => []NoGhost
<1>1. LeaseInv => NoGhost  BY DEF LeaseInv
<1> QED  BY <1>1, LeasesTied, PTL

-----------------------------------------------------------------------------
(* The team.                                                               *)
Declaring ==
  /\ place \in [Owners -> Places]
  /\ \A o \in Owners : place[o] = "acquire" => RegionOf[o] \in Regions

Working ==
  \A o \in Owners : place[o] = "work" /\ RegionOf[o] # None
    => phase[o] = "held" /\ lease[o] = RegionOf[o]

\* Where run's conclusion leaves a job.
LEMMA ConcludePlace ==
  ASSUME NEW o \in Owners, NEW cs, Conclude(o, cs)
  PROVE  \E p \in {"ended", "raised"} : place' = [place EXCEPT ![o] = p]
  BY DEF Conclude

LEMMA WorkEndsPlace ==
  ASSUME NEW o \in Owners, NEW produced \in Produced, WorkEnds(o, produced)
  PROVE  \E p \in {"ended", "raised"} : place' = [place EXCEPT ![o] = p]
  BY ConcludePlace DEF WorkEnds

LEMMA BusyPlace ==
  ASSUME NEW o \in Owners, RunBusy(o)
  PROVE  \E p \in {"ended", "raised"} : place' = [place EXCEPT ![o] = p]
  BY ConcludePlace DEF RunBusy, OnBusy

LEMMA NextDeclaring == Declaring /\ [Next]_vars => Declaring'
<1> SUFFICES ASSUME Declaring, [Next]_vars PROVE Declaring'  OBVIOUS
<1> USE AgentTeamAssumption DEF Declaring, Places
<1>1. ASSUME NEW b \in Boards, RunParallel(b) \/ Join(b) \/ \E role \in Roles : Spawn(b, role)
      PROVE  Declaring'
  BY <1>1 DEF RunParallel, Join, Spawn
<1>2. ASSUME NEW o \in Owners, JobStep(o)
      PROVE  Declaring'
  <2>1. CASE TakeJob(o)
    <3>1. \E p \in Places : /\ place' = [place EXCEPT ![o] = p]
                            /\ p = "acquire" => RegionOf[o] # None
      BY <2>1 DEF TakeJob
    <3>2. RegionOf[o] # None => RegionOf[o] \in Regions
      OBVIOUS
    <3> QED  BY <3>1, <3>2
  <2>2. CASE RunBusy(o) \/ \E produced \in Produced : WorkEnds(o, produced)
    <3>1. PICK p \in {"ended", "raised"} : place' = [place EXCEPT ![o] = p]
      BY <2>2, BusyPlace, WorkEndsPlace
    <3> QED  BY <3>1
  <2>3. CASE RunAcquires(o) \/ RunLeaseError(o) \/ RunReturns(o) \/ RunEscapes(o)
    BY <2>3 DEF RunAcquires, RunLeaseError, RunReturns, RunEscapes
  <2>4. CASE RunReleases(o)
    BY <2>4 DEF RunReleases, teamVars
  <2> QED  BY <1>2, <2>1, <2>2, <2>3, <2>4 DEF JobStep
<1>3. ASSUME NEW b \in Boards, Die(b)
      PROVE  Declaring'
  BY <1>3 DEF Die
<1>4. CASE UNCHANGED vars
  BY <1>4 DEF vars, teamVars
<1> QED  BY <1>1, <1>2, <1>3, <1>4 DEF Next

\* Every step of a team is a step of WriteLease or leaves the leases alone.
LEMMA StepImplemented == Declaring /\ [Next]_vars => [LeaseNext]_leaseVars
<1> SUFFICES ASSUME Declaring, [Next]_vars PROVE [LeaseNext]_leaseVars  OBVIOUS
<1>1. ASSUME NEW b \in Boards, RunParallel(b) \/ Join(b) \/ \E role \in Roles : Spawn(b, role)
      PROVE  UNCHANGED leaseVars
  BY <1>1 DEF RunParallel, Join, Spawn
<1>2. ASSUME NEW o \in Owners, JobStep(o)
      PROVE  [LeaseNext]_leaseVars
  <2>1. CASE RunAcquires(o)
    BY <2>1 DEF RunAcquires, LeaseNext, Declaring
  <2>2. CASE RunReleases(o)
    BY <2>2 DEF RunReleases, ReleaseLease, LeaseNext
  <2>3. CASE \/ TakeJob(o) \/ RunBusy(o) \/ RunLeaseError(o)
             \/ \E produced \in Produced : WorkEnds(o, produced)
             \/ RunReturns(o) \/ RunEscapes(o)
    BY <2>3 DEF TakeJob, RunBusy, RunLeaseError, WorkEnds, RunReturns, RunEscapes
  <2> QED  BY <1>2, <2>1, <2>2, <2>3 DEF JobStep
<1>3. ASSUME NEW b \in Boards, Die(b)
      PROVE  LeaseNext
  BY <1>3 DEF Die, LeaseNext
<1>4. CASE UNCHANGED vars
  BY <1>4 DEF vars
<1> QED  BY <1>1, <1>2, <1>3, <1>4 DEF Next

LEMMA InitPlaces == Init => LeaseInit /\ Declaring /\ Working
  BY DEF Init, Declaring, Working, Places

LEMMA DeclaringHolds == Spec => []Declaring
  BY InitPlaces, NextDeclaring, PTL DEF Spec

\* What a team does to its leases is a behaviour of WriteLease, so its invariant
\* carries over.
LEMMA TeamTied == Spec => []LeaseInv
<1>1. Spec => LeaseSpec
  BY InitPlaces, DeclaringHolds, StepImplemented, PTL DEF Spec, LeaseSpec
<1> QED  BY <1>1, LeasesTied, PTL

\* acquire, the two halves of release and the deaths of processes, in whatever
\* order the jobs of any number of teams take them: regions stay apart, and no
\* entry and no lock outlives its lease.
THEOREM TeamKeepsRegions == Spec => []RegionsKept
<1>1. LeaseInv => RegionsKept
  BY DEF LeaseInv, LeaseTypeOK, FileHeld, RegionExclusive, RegionsKept
<1> QED  BY <1>1, TeamTied, PTL

LEMMA NextWorking == Declaring /\ LeaseInv /\ Working /\ [Next]_vars => Working'
<1> SUFFICES ASSUME Declaring, LeaseInv, Working, [Next]_vars PROVE Working'  OBVIOUS
<1> USE AgentTeamAssumption DEF Declaring, Places, LeaseInv, LeaseTypeOK, Working
<1>1. ASSUME NEW b \in Boards, RunParallel(b) \/ Join(b) \/ \E role \in Roles : Spawn(b, role)
      PROVE  Working'
  BY <1>1 DEF RunParallel, Join, Spawn, leaseVars
<1>2. ASSUME NEW o \in Owners, JobStep(o)
      PROVE  Working'
  <2>1. CASE TakeJob(o)
    BY <2>1 DEF TakeJob, leaseVars
  <2>2. CASE RunBusy(o) \/ \E produced \in Produced : WorkEnds(o, produced)
    <3>1. UNCHANGED leaseVars
      BY <2>2 DEF RunBusy, WorkEnds
    <3>2. PICK p \in {"ended", "raised"} : place' = [place EXCEPT ![o] = p]
      BY <2>2, BusyPlace, WorkEndsPlace
    <3> QED  BY <3>1, <3>2 DEF leaseVars
  <2>3. CASE RunAcquires(o)
    BY <2>3 DEF RunAcquires, Acquire
  <2>4. CASE RunLeaseError(o) \/ RunReturns(o) \/ RunEscapes(o)
    BY <2>4 DEF RunLeaseError, RunReturns, RunEscapes, leaseVars
  <2>5. CASE RunReleases(o)
    BY <2>5 DEF RunReleases, ReleaseLease, Unlock, Discard, teamVars
  <2> QED  BY <1>2, <2>1, <2>2, <2>3, <2>4, <2>5 DEF JobStep
<1>3. ASSUME NEW b \in Boards, Die(b)
      PROVE  Working'
  BY <1>3 DEF Die, Crash
<1>4. CASE UNCHANGED vars
  BY <1>4 DEF vars, teamVars, leaseVars
<1> QED  BY <1>1, <1>2, <1>3, <1>4 DEF Next

\* run holds the lease of its region for as long as its callable runs, so two
\* callables of one team never work in overlapping regions.
THEOREM TeamWorkersApart == Spec => []WorkersApart
<1>1. Spec => []LeaseInv
  BY TeamTied
<1>2. Spec => []Working
  BY <1>1, InitPlaces, DeclaringHolds, NextWorking, PTL DEF Spec
<1>3. LeaseInv /\ Working => WorkersApart
  BY AgentTeamAssumption DEF LeaseInv, LeaseTypeOK, BoardExclusive, Working, WorkersApart
<1> QED  BY <1>1, <1>2, <1>3, PTL
=============================================================================
