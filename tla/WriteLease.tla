----------------------------- MODULE WriteLease -----------------------------
(***************************************************************************)
(* Write leases over regions of a workspace (write_lease.py).              *)
(*                                                                         *)
(* A region is a path relative to the workspace, as its segments.  A       *)
(* WriteLeaseBoard keeps a table of the regions held in its process and    *)
(* locks one file per exact region in a lease directory; boards of other   *)
(* processes see the files, not the table.  The body of acquire runs under *)
(* the board's _guard and is one action.  release unlocks the file first   *)
(* and takes the guard for the table afterwards: two actions.              *)
(***************************************************************************)
EXTENDS Integers, Sequences

CONSTANTS
  Boards,    \* the boards on one lease directory, one per team
  Owners,    \* threads that acquire a lease and release it
  BoardOf,   \* the board an owner uses
  HolderOf,  \* the identity it passes (owners may share one)
  Regions,   \* normalized regions
  None

ASSUME WriteLeaseAssumption ==
  /\ BoardOf \in [Owners -> Boards]
  /\ DOMAIN HolderOf = Owners
  /\ Regions \subseteq Seq(STRING) \ {<<>>}
  /\ None \notin Owners /\ None \notin Regions

VARIABLES
  held,   \* _held of every board: <<board, region, holder>>
  flock,  \* the owner whose open file locks a region's file
  lease,  \* the region of an owner's WriteLease
  phase   \* "none", "held", or "unlocked" halfway through release

leaseVars == <<held, flock, lease, phase>>

LeaseInit ==
  /\ held = {}
  /\ flock = [r \in Regions |-> None]
  /\ lease = [o \in Owners |-> None]
  /\ phase = [o \in Owners |-> "none"]

Holders == {HolderOf[o] : o \in Owners}

LeaseTypeOK ==
  /\ held \subseteq Boards \X Regions \X Holders
  /\ flock \in [Regions -> Owners \cup {None}]
  /\ lease \in [Owners -> Regions \cup {None}]
  /\ phase \in [Owners -> {"none", "held", "unlocked"}]
  /\ \A o \in Owners : phase[o] = "none" <=> lease[o] = None

\* regions_overlap: equal on the length of the shorter.
Overlap(left, right) ==
  LET shorter == IF Len(left) < Len(right) THEN Len(left) ELSE Len(right)
  IN \A i \in 1 .. shorter : left[i] = right[i]

\* The loop over the table.
TableFree(b, r) == \A e \in held : e[1] = b => ~Overlap(e[2], r)

\* _acquire_file_lock on the file named after the digest of the region.
FileFree(r) == flock[r] = None

\* Otherwise acquire raises LeaseBusy, and nothing changes.
Free(o, r) == TableFree(BoardOf[o], r) /\ FileFree(r)

Acquire(o, r) ==
  /\ phase[o] = "none"
  /\ Free(o, r)
  /\ held' = held \cup {<<BoardOf[o], r, HolderOf[o]>>}
  /\ flock' = [flock EXCEPT ![r] = o]
  /\ lease' = [lease EXCEPT ![o] = r]
  /\ phase' = [phase EXCEPT ![o] = "held"]

\* release: the file lock, once (_released).
UnlockBug(o) ==                  \* the entry of the table instead
  /\ phase[o] = "held"
  /\ held' = held \ {<<BoardOf[o], lease[o], HolderOf[o]>>}
  /\ phase' = [phase EXCEPT ![o] = "unlocked"]
  /\ UNCHANGED <<flock, lease>>
Unlock(o) ==
  /\ phase[o] = "held"
  /\ flock' = [flock EXCEPT ![lease[o]] = None]
  /\ phase' = [phase EXCEPT ![o] = "unlocked"]
  /\ UNCHANGED <<held, lease>>

\* _discard: the table's entry, if it is still this holder's.
Removed(o) == <<BoardOf[o], lease[o], HolderOf[o]>>
Without(o) == held \ {Removed(o)}

Discard(o) ==
  /\ phase[o] = "unlocked"
  /\ held' = Without(o)
  /\ lease' = [lease EXCEPT ![o] = None]
  /\ phase' = [phase EXCEPT ![o] = "none"]
  /\ UNCHANGED flock

\* The process of a board dies: its table is gone, the kernel drops its locks.
Crash(b) ==
  LET os == {o \in Owners : BoardOf[o] = b} IN
  /\ held' = {e \in held : e[1] # b}
  /\ flock' = [r \in Regions |-> IF flock[r] \in os THEN None ELSE flock[r]]
  /\ lease' = [o \in Owners |-> IF o \in os THEN None ELSE lease[o]]
  /\ phase' = [o \in Owners |-> IF o \in os THEN "none" ELSE phase[o]]

LeaseNext ==
  \/ \E o \in Owners, r \in Regions : Acquire(o, r)
  \/ \E o \in Owners : Unlock(o) \/ Discard(o)
  \/ \E b \in Boards : Crash(b)

LeaseSpec == LeaseInit /\ [][LeaseNext]_leaseVars

-----------------------------------------------------------------------------
(***************************************************************************)
(* Properties                                                              *)
(***************************************************************************)
\* Two owners of one board never hold overlapping regions, not even while one
\* of them is between the two halves of release.
BoardExclusive ==
  \A o, p \in Owners :
    /\ o # p /\ BoardOf[o] = BoardOf[p]
    /\ phase[o] # "none" /\ phase[p] # "none"
    => ~Overlap(lease[o], lease[p])

\* No two owners, of whatever boards and after whatever crashes, hold the same
\* region.
RegionExclusive ==
  \A o, p \in Owners :
    phase[o] = "held" /\ phase[p] = "held" /\ lease[o] = lease[p] => o = p

\* "No ghost occupation" (module docstring): a table entry or a file lock
\* always belongs to a lease that is still to be released.
NoGhost ==
  /\ \A e \in held : \E o \in Owners : phase[o] # "none" /\ Removed(o) = e
  /\ \A r \in Regions : flock[r] # None => phase[flock[r]] = "held" /\ lease[flock[r]] = r
=============================================================================
