----------------------------- MODULE Workspace -----------------------------
(***************************************************************************)
(* The ticket workspace of src/icode/workspace.py, and the fixed status    *)
(* query of src/icode/git_broker.py that a session may run in it.          *)
(*                                                                         *)
(* Several processes open the workspace of one ticket.  An open publishes  *)
(* and locks the ticket's lock file, then creates the workspace (a Git     *)
(* worktree or a snapshot copy) or reuses the one that is there, and       *)
(* returns a session that holds the lock.  The source tree may be edited   *)
(* at any moment, a process may die between any two steps, any step may    *)
(* raise, and another program of the same user may put a directory of its  *)
(* own where the workspace's are.                                          *)
(*                                                                         *)
(* A directory is identified by who made it: a process of Procs or         *)
(* Stranger, the device and inode pair of the code.                        *)
(***************************************************************************)
EXTENDS Naturals, Sequences, FiniteSets

CONSTANTS
    Procs,        \* processes that open the ticket
    Files,        \* entries of the source tree, 1 .. n in the order they are read
    Versions,     \* contents an entry may have
    Nobody,       \* no holder, no directory, no manifest
    Stranger,     \* another program of the same user
    First,        \* the content every entry has at first
    MaxFaults     \* bound on the edits, the deaths and the replacements together

ASSUME NobodyAssumption ==
    /\ Nobody \notin Procs /\ Stranger \notin Procs /\ Stranger # Nobody
    /\ First \in Versions
    /\ Nobody \notin [base : [Files -> Versions \cup {Nobody}], token : Procs \cup {Nobody}]

VARIABLES
    kind,         \* "git_worktree" | "snapshot", what _detect_git finds
    source,       \* [Files -> Versions], the committed or the plain tree
    lockInode,    \* the inode at the lock path, named by its publisher
    flock,        \* [Procs -> holder], who holds the lock of each inode
    dir,          \* [Paths -> identity of the directory there, or Nobody]
    tree,         \* contents of the checkout being made or in place
    snap,         \* runtime/snapshot-manifest.json
    meta,         \* workspace.json
    admin,        \* worktree registration: its ownership token, or Nobody
    anchor,       \* who made the Git metadata objects of the worktree
    quarantine,   \* the Stranger's directories under workspace-quarantine
    pc, loc,      \* per process: control and local variables
    faults, foreign, broken

vars == << kind, source, lockInode, flock, dir, tree, snap, meta, admin,
           anchor, quarantine, pc, loc, faults, foreign, broken >>

disk == << dir, tree, snap, meta, admin, quarantine >>
world == << kind, source, anchor, faults, foreign >>

Paths == {"root", "temp", "checkout", "runtime", "receipts"}
\* Entries are listed, copied and written in sorted order.
InOrder(done, f) ==
    done[f] = Nobody /\ \A g \in Files : g < f => done[g] # Nobody

Absent == [f \in Files |-> Nobody]

\* Locals of an open: the lock inode it opened, the baseline it observed, the
\* directories it captured, what is left to quarantine, and the Git child.
NoLocals == [fd |-> Nobody, base |-> Absent, own |-> {}, todo |-> << >>,
             made |-> FALSE, moved |-> FALSE, batch |-> "none", read |-> {}]

Init ==
    /\ kind \in {"git_worktree", "snapshot"}
    /\ source = [f \in Files |-> First]
    /\ lockInode = Nobody /\ flock = [p \in Procs |-> Nobody]
    /\ dir = [d \in Paths |-> Nobody] /\ tree = Absent
    /\ snap = Nobody /\ meta = Nobody /\ admin = Nobody
    /\ anchor = Nobody /\ quarantine = {}
    /\ pc = [p \in Procs |-> "idle"] /\ loc = [p \in Procs |-> NoLocals]
    /\ faults = 0 /\ foreign = FALSE /\ broken = FALSE

Goto(p, l) == pc' = [pc EXCEPT ![p] = l]
Local(p, r) == loc' = [loc EXCEPT ![p] = r]
KeepLock == UNCHANGED << lockInode, flock >>
KeepDisk == UNCHANGED << disk, world, broken >>
Inside(p) == pc[p] \notin {"idle", "publish", "opened", "locked"}

-----------------------------------------------------------------------------
(* TicketLease.acquire: the lock file is published whole by a hard link     *)
(* that never replaces one, locked without waiting, and its identity is     *)
(* compared with the path before and after.                                 *)

OpenLock(p) ==
    /\ pc[p] = "idle"
    /\ IF lockInode = Nobody
       THEN Goto(p, "publish") /\ UNCHANGED loc
       ELSE Goto(p, "opened") /\ Local(p, [loc[p] EXCEPT !.fd = lockInode])
    /\ KeepLock /\ KeepDisk

\* os.link never replaces a file another creator has published; whichever is
\* there is opened.
Publish(p) ==
    /\ pc[p] = "publish"
    /\ lockInode' = IF lockInode = Nobody THEN p ELSE lockInode
    /\ Goto(p, "opened") /\ Local(p, [loc[p] EXCEPT !.fd = lockInode'])
    /\ UNCHANGED flock /\ KeepDisk

\* Contention ends the open at once: WorkspaceBusyError.
AcquireFileLock(p) ==
    /\ pc[p] = "opened" /\ UNCHANGED lockInode /\ KeepDisk
    /\ IF flock[loc[p].fd] = Nobody
       THEN /\ flock' = [flock EXCEPT ![loc[p].fd] = p]
            /\ Goto(p, "locked") /\ UNCHANGED loc
       ELSE /\ Goto(p, "idle") /\ Local(p, NoLocals) /\ UNCHANGED flock

Unlock(p) == flock' = [i \in Procs |-> IF flock[i] = p THEN Nobody ELSE flock[i]]

\* The rest of acquire: the inode must still be the one at the path; the
\* holder's metadata is written to it, which may fail.
FinishAcquire(p) ==
    /\ pc[p] = "locked" /\ UNCHANGED lockInode /\ KeepDisk
    /\ \/ /\ loc[p].fd = lockInode
          /\ Goto(p, "detect") /\ UNCHANGED << flock, loc >>
       \/ Unlock(p) /\ Goto(p, "idle") /\ Local(p, NoLocals)

-----------------------------------------------------------------------------
(* WorkspaceManager.open                                                    *)

\* A step that raises inside the try of open: directories this open created
\* are to be quarantined first, in the order of the except clause.
CleanupOrder ==
    IF kind = "git_worktree" THEN << "checkout", "runtime", "receipts" >>
    ELSE << "temp", "checkout", "runtime", "receipts" >>

Raises(p) ==
    /\ Goto(p, "cleanup")
    /\ Local(p, [loc[p] EXCEPT !.todo = CleanupOrder, !.batch = "none"])
    /\ KeepLock /\ KeepDisk

\* Source and layout checks; the Git revision is read here, a snapshot's
\* manifest file by file later.
Detect(p) ==
    /\ pc[p] = "detect"
    /\ \/ /\ Goto(p, IF dir["root"] # Nobody THEN "reuse" ELSE "mkdir")
          /\ Local(p, [loc[p] EXCEPT
                         !.base = IF kind = "git_worktree" THEN source ELSE Absent])
          /\ KeepLock /\ KeepDisk
       \/ Raises(p)

MakeRoot(p) ==
    /\ pc[p] = "mkdir"
    /\ \/ /\ dir["root"] = Nobody
          /\ dir' = [dir EXCEPT !["root"] = p]
          /\ Local(p, [loc[p] EXCEPT !.made = TRUE])
          /\ Goto(p, IF kind = "git_worktree" THEN "add" ELSE "manifest")
          /\ KeepLock
          /\ UNCHANGED << tree, snap, meta, admin, quarantine, world, broken >>
       \/ Raises(p)

\* `git worktree add` registers the worktree and makes the checkout.  Killed
\* at its deadline it leaves the directory behind unregistered, and the code
\* never learns of it.
AddWorktree(p) ==
    /\ pc[p] = "add"
    /\ \/ /\ dir["checkout"] = Nobody
          /\ dir' = [dir EXCEPT !["checkout"] = p]
          /\ anchor' = p
          /\ tree' = Absent
          /\ Local(p, [loc[p] EXCEPT !.own = {"checkout"}, !.batch = "running"])
          /\ admin' = Nobody
          /\ Goto(p, "blobs") /\ KeepLock
          /\ UNCHANGED << snap, meta, quarantine, broken, kind, source,
                          faults, foreign >>
       \/ /\ dir["checkout"] = Nobody
          /\ dir' = [dir EXCEPT !["checkout"] = p]
          /\ broken' = TRUE
          /\ Goto(p, "cleanup")
          /\ Local(p, [loc[p] EXCEPT !.todo = CleanupOrder])
          /\ KeepLock
          /\ UNCHANGED << tree, snap, meta, admin, quarantine, world >>
       \/ Raises(p)

\* One blob from the batch child, written and compared with its object id.
\* Blobs are immutable, so the file has the content of the revision.
MaterializeBlob(p, f) ==
    /\ pc[p] = "blobs" /\ loc[p].batch = "running"
    /\ InOrder(tree, f)
    /\ dir["checkout"] = p
    /\ tree' = [tree EXCEPT ![f] = loc[p].base[f]]
    /\ KeepLock
    /\ UNCHANGED << pc, loc, dir, snap, meta, admin, quarantine, world, broken >>

ExpireBatchBug(p) ==
    /\ pc[p] = "blobs" /\ loc[p].batch = "running"
    /\ UNCHANGED << pc, loc >> /\ KeepLock /\ KeepDisk

\* The timer kills the child at the deadline; a child may also end early.
ExpireBatch(p) ==
    /\ pc[p] = "blobs" /\ loc[p].batch = "running"
    /\ Local(p, [loc[p] EXCEPT !.batch = "dead"])
    /\ UNCHANGED pc /\ KeepLock /\ KeepDisk

\* All blobs read and the child ended with code 0 before the timer.
BatchComplete(p) ==
    loc[p].batch = "running" /\ \A f \in Files : tree[f] # Nobody

\* The rest of _create_git in order: index, ownership token, runtime,
\* receipts; each of them may raise.
FinishBatch(p) ==
    /\ pc[p] = "blobs"
    /\ \/ /\ BatchComplete(p)
          /\ Goto(p, "token")
          /\ Local(p, [loc[p] EXCEPT !.batch = "none"])
          /\ KeepLock /\ KeepDisk
       \/ Raises(p)

WriteToken(p) ==
    /\ pc[p] = "token"
    /\ \/ /\ anchor # Stranger
          /\ admin' = p /\ Goto(p, "runtime") /\ UNCHANGED loc
          /\ KeepLock
          /\ UNCHANGED << dir, tree, snap, meta, quarantine, world, broken >>
       \/ Raises(p)

MakeOwned(p, d, from, to) ==
    /\ pc[p] = from
    /\ \/ /\ dir[d] = Nobody
          /\ dir' = [dir EXCEPT ![d] = p]
          /\ Local(p, [loc[p] EXCEPT !.own = @ \cup {d}])
          /\ Goto(p, to) /\ KeepLock
          /\ UNCHANGED << tree, snap, meta, admin, quarantine, world, broken >>
       \/ Raises(p)

MakeRuntime(p) == MakeOwned(p, "runtime", "runtime", "receipts")
MakeReceipts(p) ==
    MakeOwned(p, "receipts", "receipts",
              IF kind = "git_worktree" THEN "meta" ELSE "snapfile")

-----------------------------------------------------------------------------
(* _create_snapshot: manifest of the source, copy into a temporary          *)
(* directory, manifest of the copy, rename.                                 *)

\* _snapshot_manifest reads one entry after the other while the user edits.
ReadManifest(p, f) ==
    /\ pc[p] \in {"manifest", "rescan"} /\ InOrder(loc[p].base, f)
    /\ Local(p, [loc[p] EXCEPT !.base[f] = source[f]])
    /\ UNCHANGED pc /\ KeepLock /\ KeepDisk

MakeTemp(p) ==
    /\ pc[p] = "manifest"
    /\ \/ /\ \A f \in Files : loc[p].base[f] # Nobody
          /\ dir["checkout"] = Nobody
          /\ dir' = [dir EXCEPT !["temp"] = p]
          /\ tree' = Absent
          /\ Local(p, [loc[p] EXCEPT !.own = {"temp"}])
          /\ Goto(p, "copy") /\ KeepLock
          /\ UNCHANGED << snap, meta, admin, quarantine, world, broken >>
       \/ Raises(p)

CopyEntry(p, f) ==
    /\ pc[p] = "copy" /\ InOrder(tree, f)
    /\ tree' = [tree EXCEPT ![f] = source[f]]
    /\ KeepLock
    /\ UNCHANGED << pc, loc, dir, snap, meta, admin, quarantine, world, broken >>

\* The copy must have the manifest of the source that was read before it.
CopyMatchesBug(p) == \A f \in Files : tree[f] # Nobody
CopyMatches(p) == tree = loc[p].base

RenameCheckout(p) ==
    /\ pc[p] = "copy"
    /\ \/ /\ CopyMatches(p)
          /\ dir["checkout"] = Nobody
          /\ dir' = [dir EXCEPT !["temp"] = Nobody, !["checkout"] = dir["temp"]]
          /\ Local(p, [loc[p] EXCEPT !.own = {"checkout"}])
          /\ Goto(p, "runtime") /\ KeepLock
          /\ UNCHANGED << tree, snap, meta, admin, quarantine, world, broken >>
       \/ Raises(p)

WriteSnapshotManifest(p) ==
    /\ pc[p] = "snapfile"
    /\ \/ /\ dir["runtime"] # Nobody
          /\ snap' = loc[p].base /\ Goto(p, "meta") /\ UNCHANGED loc
          /\ KeepLock
          /\ UNCHANGED << dir, tree, meta, admin, quarantine, world, broken >>
       \/ Raises(p)

\* workspace.json is written last, by an atomic replace.
WriteMeta(p) ==
    /\ pc[p] = "meta"
    /\ \/ /\ meta' = [base |-> loc[p].base, token |-> admin]
          /\ Goto(p, "session") /\ UNCHANGED loc
          /\ KeepLock
          /\ UNCHANGED << dir, tree, snap, admin, quarantine, world, broken >>
       \/ Raises(p)

-----------------------------------------------------------------------------
(* Reuse of a workspace that is there, and the session                      *)

Managed == \A d \in {"checkout", "runtime", "receipts"} : dir[d] # Nobody

\* A snapshot's baseline is compared with the source as it is now.
ReuseBegins(p) ==
    /\ pc[p] = "reuse"
    /\ \/ /\ meta # Nobody /\ Managed
          /\ Goto(p, IF kind = "git_worktree" THEN "compare" ELSE "rescan")
          /\ UNCHANGED loc /\ KeepLock /\ KeepDisk
       \/ Raises(p)

\* The worktree is registered at the revision under the token of workspace.json,
\* or the stored manifest is the source's present one.
BaselineHolds(p) ==
    IF kind = "git_worktree"
    THEN anchor # Stranger /\ admin # Nobody /\ meta.token = admin
         /\ meta.base = loc[p].base
    ELSE snap = loc[p].base /\ meta.base = loc[p].base

ReuseCompares(p) ==
    /\ pc[p] \in {"rescan", "compare"}
    /\ \/ /\ \A f \in Files : loc[p].base[f] # Nobody
          /\ Managed /\ BaselineHolds(p)
          /\ Goto(p, "session") /\ UNCHANGED loc /\ KeepLock /\ KeepDisk
       \/ Raises(p)

\* _session: the workspace directory is opened; it may be gone by now.
OpenSession(p) ==
    /\ pc[p] = "session"
    /\ \/ dir["checkout"] # Nobody /\ Goto(p, "open")
          /\ UNCHANGED loc /\ KeepLock /\ KeepDisk
       \/ /\ Goto(p, "rmdir") /\ UNCHANGED loc /\ KeepLock /\ KeepDisk

CloseSession(p) ==
    /\ pc[p] = "open"
    /\ Goto(p, "release") /\ UNCHANGED loc /\ KeepLock /\ KeepDisk

-----------------------------------------------------------------------------
(* Cleanup of a failed open                                                 *)

\* _quarantine_owned_tree compares the identity, and moves what is there
\* after it made the container: a directory put there in between is moved too.
Owns(p, d) == d \in loc[p].own /\ dir[d] = p

QuarantineCheck(p) ==
    /\ pc[p] = "cleanup" /\ loc[p].todo # << >>
    /\ IF Owns(p, Head(loc[p].todo))
       THEN Goto(p, "move") /\ UNCHANGED loc
       ELSE Local(p, [loc[p] EXCEPT !.todo = Tail(@)]) /\ UNCHANGED pc
    /\ KeepLock /\ KeepDisk

QuarantineMoveBug(p) ==
    LET d == Head(loc[p].todo) IN
    /\ pc[p] = "move"
    /\ Goto(p, "cleanup") /\ KeepLock
    /\ dir' = [dir EXCEPT ![d] = Nobody]
    /\ snap' = IF d = "runtime" THEN Nobody ELSE snap
    /\ tree' = IF d \in {"temp", "checkout"} THEN Absent ELSE tree
    /\ Local(p, [loc[p] EXCEPT !.todo = Tail(@), !.moved = @ \/ d = "checkout"])
    /\ UNCHANGED << quarantine, meta, admin, world, broken >>

QuarantineMove(p) ==
    LET d == Head(loc[p].todo) IN
    /\ pc[p] = "move"
    /\ Goto(p, "cleanup") /\ KeepLock
    /\ \/ /\ dir[d] # Nobody
          /\ quarantine' = quarantine \cup ({dir[d]} \cap {Stranger})
          /\ dir' = [dir EXCEPT ![d] = Nobody]
          /\ snap' = IF d = "runtime" THEN Nobody ELSE snap
          /\ tree' = IF d \in {"temp", "checkout"} THEN Absent ELSE tree
          /\ Local(p, [loc[p] EXCEPT !.todo = Tail(@),
                                     !.moved = @ \/ d = "checkout"])
          /\ UNCHANGED << meta, admin, world, broken >>
       \/ \* the rename raises, and the error is swallowed
          /\ Local(p, [loc[p] EXCEPT !.todo = Tail(@)])
          /\ broken' = TRUE
          /\ UNCHANGED << disk, world >>

\* `git worktree remove --force` once the checkout was moved: it prunes the
\* registration of a missing directory and refuses one that is no worktree.
QuarantineEnds(p) ==
    /\ pc[p] = "cleanup" /\ loc[p].todo = << >>
    /\ \/ /\ kind = "git_worktree" /\ loc[p].moved /\ dir["checkout"] = Nobody
          /\ admin' = Nobody
       \/ UNCHANGED admin
    /\ Goto(p, "rmdir") /\ UNCHANGED loc /\ KeepLock
    /\ UNCHANGED << dir, tree, snap, meta, quarantine, world, broken >>

\* Only a root this open made, and only an empty one, is removed.
RemoveRoot(p) ==
    /\ pc[p] = "rmdir"
    /\ dir' = IF loc[p].made /\ meta = Nobody
                 /\ \A d \in Paths \ {"root"} : dir[d] = Nobody
              THEN [dir EXCEPT !["root"] = Nobody] ELSE dir
    /\ Goto(p, "release") /\ UNCHANGED loc /\ KeepLock
    /\ UNCHANGED << tree, snap, meta, admin, quarantine, world, broken >>

Release(p) ==
    /\ pc[p] = "release"
    /\ Unlock(p) /\ Goto(p, "idle") /\ Local(p, NoLocals)
    /\ UNCHANGED lockInode /\ KeepDisk

-----------------------------------------------------------------------------
(* execute_git_status in a session of a Git worktree                        *)

\* verify_git_workspace_identity: every object has the identity captured when
\* the session was opened.
IdentityHolds == anchor # Stranger /\ dir["checkout"] \notin {Stranger, Nobody}

StatusBegin(p) ==
    /\ pc[p] = "open" /\ kind = "git_worktree" /\ IdentityHolds
    /\ Goto(p, "status") /\ Local(p, [loc[p] EXCEPT !.read = {}])
    /\ KeepLock /\ KeepDisk

\* Each query reopens the metadata roots under the helper, which compares the
\* identities on the descriptors it opens: the roots it reads are those.
HelperOpens == anchor # Stranger

\* The filter checks, the index listing and the status itself are queries of
\* this form.
StatusQuery(p) ==
    /\ pc[p] = "status" /\ HelperOpens
    /\ Local(p, [loc[p] EXCEPT !.read = @ \cup {anchor}])
    /\ UNCHANGED pc /\ KeepLock /\ KeepDisk

\* A refused or failed query, one whose output is not understood, and the
\* deadline of the call end it without an answer.
StatusRefused(p) ==
    /\ pc[p] = "status"
    /\ Goto(p, "open") /\ Local(p, [loc[p] EXCEPT !.read = {}])
    /\ KeepLock /\ KeepDisk

StatusEnd(p) ==
    /\ pc[p] = "status" /\ loc[p].read # {}
    /\ IF IdentityHolds
       THEN Goto(p, "answered") /\ UNCHANGED loc
       ELSE Goto(p, "open") /\ Local(p, [loc[p] EXCEPT !.read = {}])
    /\ KeepLock /\ KeepDisk

StatusReturned(p) ==
    /\ pc[p] = "answered"
    /\ Goto(p, "open") /\ Local(p, [loc[p] EXCEPT !.read = {}])
    /\ KeepLock /\ KeepDisk

-----------------------------------------------------------------------------
(* The world: edits of the source, death of a process, the Stranger         *)

\* A commit moves the whole tree, an edit of a plain tree one entry.
EditSource ==
    /\ faults < MaxFaults /\ faults' = faults + 1
    /\ \E v \in Versions :
         IF kind = "git_worktree"
         THEN source' = [f \in Files |-> v]
         ELSE \E f \in Files : source' = [source EXCEPT ![f] = v]
    /\ source' # source
    /\ UNCHANGED << kind, lockInode, flock, disk, anchor, pc, loc,
                    foreign, broken >>

Die(p) ==
    /\ pc[p] # "idle" /\ faults < MaxFaults /\ faults' = faults + 1
    /\ Unlock(p) /\ Goto(p, "idle") /\ Local(p, NoLocals)
    /\ broken' = TRUE
    /\ UNCHANGED << kind, source, lockInode, disk, anchor, foreign >>

\* The Stranger puts a directory at a path of the workspace, or swaps the Git
\* metadata for its own and back.
Replace ==
    /\ faults < MaxFaults /\ faults' = faults + 1 /\ foreign' = TRUE
    /\ dir["root"] # Nobody /\ broken' = TRUE
    /\ \/ /\ \E d \in {"checkout", "runtime", "receipts"} :
               /\ dir[d] # Stranger /\ Stranger \notin {dir[e] : e \in Paths}
               /\ dir' = [dir EXCEPT ![d] = Stranger]
               /\ snap' = IF d = "runtime" THEN Nobody ELSE snap
               /\ tree' = IF d = "checkout" THEN Absent ELSE tree
          /\ UNCHANGED anchor
       \/ /\ anchor # Nobody
          /\ anchor' = IF anchor = Stranger THEN admin ELSE Stranger
          /\ anchor' # Nobody
          /\ UNCHANGED << dir, snap, tree >>
    /\ UNCHANGED << kind, source, lockInode, flock, meta, admin, quarantine, pc,
                    loc >>

-----------------------------------------------------------------------------
Acquire(p) ==
    OpenLock(p) \/ Publish(p) \/ AcquireFileLock(p) \/ FinishAcquire(p)

CreateGit(p) ==
    \/ AddWorktree(p) \/ FinishBatch(p) \/ WriteToken(p)
    \/ \E f \in Files : MaterializeBlob(p, f)

CreateSnapshot(p) ==
    \/ MakeTemp(p) \/ RenameCheckout(p) \/ WriteSnapshotManifest(p)
    \/ \E f \in Files : ReadManifest(p, f) \/ CopyEntry(p, f)

Open(p) ==
    \/ Detect(p) \/ MakeRoot(p) \/ CreateGit(p) \/ CreateSnapshot(p)
    \/ MakeRuntime(p) \/ MakeReceipts(p) \/ WriteMeta(p)
    \/ ReuseBegins(p) \/ ReuseCompares(p) \/ OpenSession(p)

Cleanup(p) ==
    \/ QuarantineCheck(p) \/ QuarantineMove(p) \/ QuarantineEnds(p)
    \/ RemoveRoot(p) \/ Release(p)

Status(p) ==
    \/ StatusBegin(p) \/ StatusQuery(p) \/ StatusRefused(p)
    \/ StatusEnd(p) \/ StatusReturned(p)

Next ==
    \/ \E p \in Procs :
         \/ Acquire(p) \/ Open(p) \/ Cleanup(p) \/ Status(p)
         \/ ExpireBatch(p) \/ CloseSession(p) \/ Die(p)
    \/ EditSource \/ Replace

Spec == Init /\ [][Next]_vars

\* The code after the lock runs on its own: only the Git child may stall, and
\* then its timer fires and the read of its output ends.
Runs(p) ==
    \/ FinishAcquire(p) \/ Detect(p) \/ MakeRoot(p) \/ AddWorktree(p)
    \/ ExpireBatch(p) \/ (loc[p].batch = "dead" /\ FinishBatch(p))
    \/ WriteToken(p) \/ CreateSnapshot(p) \/ MakeRuntime(p) \/ MakeReceipts(p)
    \/ WriteMeta(p) \/ ReuseBegins(p) \/ ReuseCompares(p) \/ OpenSession(p)
    \/ Cleanup(p) \/ StatusRefused(p) \/ StatusEnd(p) \/ StatusReturned(p)

\* A run has a bounded number of turns, so it closes its session although it
\* may ask for the status again and again.
Fairness == \A p \in Procs : WF_vars(Runs(p)) /\ SF_vars(CloseSession(p))

FairSpec == Spec /\ Fairness

-----------------------------------------------------------------------------
(* Properties                                                               *)

\* One process at a time works in the ticket's workspace, although any number
\* may publish and lock the file concurrently and die holding it
\* (TicketLease.acquire and _publish_initialized_lock_file).
OneSession == \A p, q \in Procs : Inside(p) /\ Inside(q) => p = q

\* A session stands on a finished workspace: every entry of the checkout has
\* the content of the baseline the open observed and workspace.json records,
\* whatever crashes, failed creations and edits came before it.  Only a
\* directory put in place by another program is not noticed.
SessionWhole ==
    \A p \in Procs :
        pc[p] \in {"open", "status"} /\ ~foreign =>
            /\ tree = loc[p].base /\ meta.base = tree
            /\ Managed
            /\ kind = "snapshot" => snap = tree
            /\ kind = "git_worktree" => meta.token = admin

\* An open that raises leaves nothing behind that would refuse the next one:
\* when nobody holds the ticket, its root is either gone or complete.  Out of
\* the code's reach, and marked broken: death, another program, `git worktree
\* add` killed half way and a quarantine that cannot rename.
RetryPossible ==
    ~broken /\ (\A p \in Procs : ~Inside(p)) =>
        dir["root"] = Nobody \/ (meta # Nobody /\ Managed)

\* A directory of another program is never deleted: it stays where it was put
\* or is kept under the quarantine (_quarantine_owned_tree).
ForeignKept ==
    [][\A d \in Paths : dir[d] = Stranger /\ dir'[d] # Stranger
                            => Stranger \in quarantine']_vars

\* A status answer was computed from the session's own Git metadata in every
\* query, also when it was swapped and restored between the two verifications
\* (execute_git_status).
StatusOwnMetadata ==
    \A p \in Procs : pc[p] = "answered" => Stranger \notin loc[p].read

\* The ticket never stays locked: a stalled Git child, a failed creation and a
\* dead process all end with the lock free for the next open.
LockFreed ==
    (\E p \in Procs : Inside(p)) ~> (\A p \in Procs : ~Inside(p))

\* A session is one process's, stands on a whole workspace of the ticket's own
\* and leaves nothing behind that would refuse the next one (workspace.py).
SessionSound == OneSession /\ SessionWhole /\ RetryPossible /\ StatusOwnMetadata
=============================================================================
