---------------------------- MODULE WorktreeWalk ----------------------------
(* The walks that turn a work tree into evidence while other processes may    *)
(* still write to it (src/icode/workspace_snapshot.py, windows_worktree.py):  *)
(*   "tree"      worktree_git_tree_oid on POSIX                               *)
(*   "snapshot"  snapshot_workspace on POSIX, which rechecks nothing          *)
(*   "win_tree"  worktree_git_tree_oid_windows                                *)
(*   "win_snap"  snapshot_windows_workspace_windows, with its one retry       *)
(* The tree is a root with "f" and "d"; if "d" is a directory it may hold     *)
(* "g".  A write gives an entry a new stamp (its change time and content); an *)
(* entry made, removed or replaced also stamps its directory.  The walker     *)
(* goes by names relative to directories it holds open: a directory that is   *)
(* replaced while it is walked goes on as "old", with "old_g" in it.          *)
EXTENDS Naturals, Sequences, FiniteSets, SequencesExt

CONSTANTS MaxWrites    \* bound: changes other processes make

ASSUME WalkAssumption == MaxWrites \in Nat

VARIABLES tree,     \* path |-> [kind, id, stamp]
          walk,     \* the walker: its frames, the open entry, the attempt, and
                    \* where the directory it holds as "d" is now
          out,      \* path |-> the halves read of it
          listings  \* history: a directory and its entries when its walk ended

walkVars == <<tree, walk, out, listings>>

TreePaths == {"root", "f", "d", "g", "old", "old_g"}
EntryNames == {"f", "d", "g"}
Parent == [f |-> "root", d |-> "root", g |-> "d", old_g |-> "old"]
Clock == CHOOSE n \in {tree[p].stamp : p \in TreePaths} :
            \A p \in TreePaths : tree[p].stamp <= n

Hows == {"tree", "snapshot", "win_tree", "win_snap"}
Windows == walk.how \in {"win_tree", "win_snap"}
Rechecks == walk.how # "snapshot"
Rounds == IF walk.how = "win_snap" THEN 2 ELSE 1

\* a walk that has opened nothing yet
FreshWalk(how) == [how |-> how, pc |-> "open", frames |-> <<>>, item |-> "none",
              before |-> tree["root"], obj |-> 0, frozen |-> 0, half |-> 0, attempt |-> 1,
              at |-> "d"]

NoListings == [dir \in {} |-> [id |-> 0, names |-> {}, list |-> {}]]

WalkInit ==
    /\ \E kind \in {"file", "link"} :
         tree = [p \in TreePaths |-> [kind |-> IF p \in {"root", "d"} THEN "dir"
                                           ELSE IF p = "f" THEN kind
                                           ELSE IF p = "g" THEN "file" ELSE "none",
                                  id |-> 0, stamp |-> 0]]
    /\ \E how \in Hows : walk = FreshWalk(how)
    /\ out = [p \in {} |-> <<0, 0>>]
    /\ listings = NoListings

Top == Last(walk.frames)
SetTop(w, frame) == [w EXCEPT !.frames[Len(w.frames)] = frame]

\* through the handle of a directory, and of a name in the directory on top
Held(dir) == tree[IF dir = "d" THEN walk.at ELSE dir]
Entry(p) == tree[IF p = "g" /\ walk.at = "old" THEN "old_g" ELSE p]
Children(dir) == {p \in EntryNames : Parent[p] = dir /\ Entry(p).kind # "none"}

-----------------------------------------------------------------------------
(* Other processes.                                                          *)

TreeWrite(p) ==
    /\ tree[p].kind = "file" /\ Clock < MaxWrites
    /\ tree' = [tree EXCEPT ![p].stamp = Clock + 1]
    /\ UNCHANGED <<walk, out, listings>>

Made(kind) == [kind |-> kind, id |-> Clock + 1, stamp |-> Clock + 1]

\* made, removed, or another object moved over it
Relink(p, kind) ==
    /\ p \in {"f", "g", "old_g"} /\ tree[Parent[p]].kind = "dir" /\ Clock < MaxWrites
    /\ ~(tree[p].kind = "none" /\ kind = "none")
    /\ tree' = [tree EXCEPT ![p] = Made(kind), ![Parent[p]].stamp = Clock + 1]
    /\ UNCHANGED <<walk, out, listings>>

\* the walker has the directory "d" open
Inside == Len(walk.frames) = 2 \/ walk.pc = "after"

\* What becomes of a directory that has lost its name: a move stamps it or
\* not; only an empty one is removed, and then nothing is made in it.
Displaced == {tree["d"], [tree["d"] EXCEPT !.stamp = Clock + 1]}
             \cup IF tree["g"].kind = "none"
                  THEN {[tree["d"] EXCEPT !.kind = "none", !.stamp = Clock + 1]} ELSE {}

\* the name "d" is removed, or given to another object
RelinkDirectory(kind, inner) ==
    /\ Clock < MaxWrites
    /\ ~(tree["d"].kind = "none" /\ kind = "none") /\ (inner = "none" \/ kind = "dir")
    /\ \E old \in Displaced :
         LET leaves == Inside /\ walk.at = "d"
         IN  tree' = [tree EXCEPT !["root"].stamp = Clock + 1,
                                  !["d"] = Made(kind), !["g"] = Made(inner),
                                  !["old"] = IF leaves THEN old ELSE @,
                                  !["old_g"] = IF leaves THEN tree["g"] ELSE @]
    /\ walk' = [walk EXCEPT !.at = IF Inside THEN "old" ELSE @]
    /\ UNCHANGED <<out, listings>>

-----------------------------------------------------------------------------
(* The walker.                                                               *)

\* no partial result escapes; a changed Windows directory is walked once more
Unavailable(reason) ==
    IF reason = "windows_directory_changed" /\ walk.attempt < Rounds
    THEN /\ walk' = [FreshWalk(walk.how) EXCEPT !.attempt = walk.attempt + 1]
         /\ out' = [p \in {} |-> <<0, 0>>]
         /\ listings' = NoListings
    ELSE walk' = [walk EXCEPT !.pc = "unavailable"] /\ UNCHANGED <<out, listings>>

WalkFrame(dir) == [dir |-> dir, stamp |-> Held(dir).stamp, todo |-> {}, list |-> {}]

OpenDirectory(dir) == [walk EXCEPT !.pc = "list", !.item = "none",
                                   !.frames = Append(@, WalkFrame(dir))]

OpenRoot ==
    /\ walk.pc = "open"
    /\ walk' = OpenDirectory("root")
    /\ UNCHANGED <<tree, out, listings>>

Listing(dir) == {<<p, Entry(p)>> : p \in Children(dir)}

List ==
    /\ walk.pc = "list"
    /\ walk' = [SetTop(walk, [Top EXCEPT !.todo = Children(Top.dir),
                                         !.list = Listing(Top.dir)])
                EXCEPT !.pc = "entry"]
    /\ UNCHANGED <<tree, out, listings>>

\* POSIX sorts the names ("d" before "f"), Windows takes them as they come
NextNames(names) == IF Windows THEN names ELSE {p \in names : p = "f" => "d" \notin names}

\* the metadata an entry is held to: its own on POSIX, the listing's on Windows
Known(p) == IF Windows THEN (CHOOSE e \in Top.list : e[1] = p)[2] ELSE Entry(p)

StatEntry ==
    /\ walk.pc = "entry" /\ Top.todo # {}
    /\ \E p \in NextNames(Top.todo) :
         IF Known(p).kind \in {"none", "other"}
         THEN Unavailable("filesystem_changed")
         ELSE /\ walk' = [SetTop(walk, [Top EXCEPT !.todo = @ \ {p}])
                          EXCEPT !.pc = "openEntry", !.item = p, !.before = Known(p)]
              /\ UNCHANGED <<out, listings>>
    /\ UNCHANGED tree

\* a Windows directory is held to its file id alone, anything else to all
SameEntry(now, before) == IF Windows /\ now.kind = "dir" THEN now.id = before.id
                          ELSE now = before

\* open relative to the held directory, then compare what was opened
OpenEntry ==
    /\ walk.pc = "openEntry"
    /\ LET now == Entry(walk.item)
       IN  IF now.kind # walk.before.kind \/ (Rechecks /\ ~SameEntry(now, walk.before))
           THEN Unavailable("filesystem_changed")
           ELSE /\ walk' = IF now.kind = "dir" THEN OpenDirectory(walk.item)
                           ELSE [walk EXCEPT !.pc = "read", !.obj = now.id, !.frozen = now.stamp,
                                             !.half = 1]
                /\ UNCHANGED <<out, listings>>
    /\ UNCHANGED tree

\* a replaced object stays readable through the handle that holds it
Content == IF Entry(walk.item).id = walk.obj THEN Entry(walk.item).stamp ELSE walk.frozen

ReadHalf ==
    /\ walk.pc = "read"
    /\ out' = [p \in DOMAIN out \cup {walk.item} |->
                 IF p # walk.item THEN out[p]
                 ELSE IF walk.half = 1 THEN <<Content, Content>> ELSE <<out[p][1], Content>>]
    /\ walk' = [walk EXCEPT !.half = 2, !.pc = IF walk.half = 2 \/ walk.before.kind = "link"
                                               THEN "recheck" ELSE @]
    /\ UNCHANGED <<tree, listings>>

\* the handle's metadata, which a write, a removal or a replacement changes
StillSame == Rechecks => Entry(walk.item) = walk.before

RecheckEntry ==
    /\ walk.pc = "recheck"
    /\ IF StillSame
       THEN walk' = [walk EXCEPT !.pc = "entry", !.item = "none"] /\ UNCHANGED <<out, listings>>
       ELSE Unavailable("windows_file_changed")
    /\ UNCHANGED tree

\* Windows lists the directory again, and compares names and metadata
RelistDirectory ==
    /\ Windows /\ walk.pc = "entry" /\ Top.todo = {}
    /\ LET again == Listing(Top.dir)
       IN  IF again # Top.list
           THEN Unavailable("windows_directory_changed")
           ELSE /\ walk' = [SetTop(walk, [Top EXCEPT !.list = again]) EXCEPT !.pc = "relisted"]
                /\ UNCHANGED <<out, listings>>
    /\ UNCHANGED tree

\* the metadata of the directory's handle is what it was when it was opened
DirectoryHeldBug == Windows => Held(Top.dir).stamp = Top.stamp
DirectoryHeld == Rechecks => Held(Top.dir).stamp = Top.stamp

Ended(dir) == [id |-> Held(dir).id,
               names |-> {<<p, Entry(p).kind, Entry(p).id>> : p \in Children(dir)},
               list |-> Top.list]

EndDirectory ==
    /\ IF Windows THEN walk.pc = "relisted" ELSE walk.pc = "entry" /\ Top.todo = {}
    /\ IF Windows /\ Held(Top.dir).kind # "dir"
       THEN Unavailable("windows_directory_identity_invalid")
       ELSE IF ~DirectoryHeld
       THEN Unavailable("windows_directory_changed")
       ELSE /\ listings' = [dir \in DOMAIN listings \cup {Top.dir} |->
                              IF dir = Top.dir THEN Ended(dir) ELSE listings[dir]]
            /\ walk' = [walk EXCEPT !.frames = Front(@),
                                    !.pc = IF Len(walk.frames) = 1 THEN "done" ELSE "after",
                                    !.item = Top.dir, !.frozen = Top.stamp]
            /\ UNCHANGED out
    /\ UNCHANGED tree

\* Back in the parent, the child's handle is looked at once more and closed.
ChildKept == /\ walk.how = "tree" => Held(walk.item).stamp = walk.frozen
             /\ Windows => Held(walk.item).kind = "dir"

AfterChild ==
    /\ walk.pc = "after"
    /\ IF ChildKept
       THEN /\ walk' = [walk EXCEPT !.pc = "entry", !.item = "none", !.at = "d"]
            /\ UNCHANGED <<out, listings>>
       ELSE Unavailable("filesystem_changed")
    /\ UNCHANGED tree

WalkNext ==
    \/ \E p \in TreePaths : TreeWrite(p) \/ \E kind \in {"none", "file", "link", "other"} : Relink(p, kind)
    \/ \E kind \in {"none", "file", "link", "other", "dir"}, inner \in {"none", "file"} :
         RelinkDirectory(kind, inner)
    \/ OpenRoot \/ List \/ StatEntry \/ OpenEntry \/ ReadHalf \/ RecheckEntry
    \/ RelistDirectory \/ EndDirectory \/ AfterChild

WalkSpec == WalkInit /\ [][WalkNext]_walkVars

-----------------------------------------------------------------------------
ReadIn(dir) == {p \in DOMAIN out : Parent[p] = dir}
EndedFiles(dir) == {e[1] : e \in {x \in listings[dir].names : x[2] # "dir"}}
EndedDirs(dir) == {e \in listings[dir].names : e[2] = "dir"}

\* No snapshot of one moment is claimed (workspace_snapshot.py:915).  But of a
\* projection that rechecks and is returned: every file was read whole from
\* one version; what was read of a directory are the files it held when its
\* own walk ended, on Windows with the contents of its second listing, and
\* never of the abandoned first attempt; and the directory that was walked is
\* the very object its parent held under that name when the parent's walk
\* ended.  So whatever other processes write, and whatever files and
\* directories below the root they make, remove, move or replace meanwhile.
WalkExact ==
    walk.pc = "done" /\ Rechecks =>
        /\ \A p \in DOMAIN out : out[p][1] = out[p][2]
        /\ \A dir \in DOMAIN listings :
             /\ ReadIn(dir) = EndedFiles(dir)
             /\ \A e \in EndedDirs(dir) : e[1] \in DOMAIN listings /\ listings[e[1]].id = e[3]
             /\ Windows => \A e \in listings[dir].list :
                             e[2].kind # "dir" => e[1] \in ReadIn(dir) /\ out[e[1]][2] = e[2].stamp
        /\ DOMAIN listings = {"root"} \cup {e[1] : e \in EndedDirs("root")}
=============================================================================
