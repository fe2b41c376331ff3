-------------------------- MODULE WorkspaceProofs --------------------------
(***************************************************************************)
(* The workspace of a ticket, whoever opens it, dies, edits the source or  *)
(* puts directories in its way.                                            *)
(***************************************************************************)
EXTENDS Workspace, TLAPS

Holder == Procs \cup {Nobody}
Identity == Holder \cup {Stranger}
Content == [Files -> Versions \cup {Nobody}]
Metas == [base : Content, token : Holder]
Sub == {"temp", "checkout", "runtime", "receipts"}
Locals ==
  [fd : Holder, base : Content, own : SUBSET Sub, todo : Seq(Paths), made : BOOLEAN,
   moved : BOOLEAN, batch : {"none", "running", "dead"}, read : SUBSET Holder]

DiskShape ==
  /\ kind \in {"git_worktree", "snapshot"} /\ source \in [Files -> Versions]
  /\ dir \in [Paths -> Identity] /\ dir["root"] # Stranger /\ dir["temp"] # Stranger
  /\ tree \in Content
  /\ meta \in Metas \cup {Nobody} /\ admin \in Holder /\ anchor \in Identity

WsShape ==
  /\ DiskShape
  /\ lockInode \in Holder /\ flock \in [Procs -> Holder]
  /\ loc \in [Procs -> Locals] /\ pc = [p \in Procs |-> pc[p]]

Unlocked == {"idle", "publish", "opened"}
OutsideAt == Unlocked \cup {"locked"}

\* The lock file at the path is never replaced, so its lock is one lock.
LockHeld ==
  \A p \in Procs :
    /\ pc[p] \notin {"idle", "publish"} => lockInode # Nobody /\ loc[p].fd = lockInode
    /\ pc[p] \notin Unlocked => flock[lockInode] = p

\* No root that is half made.
Settled == dir["root"] = Nobody \/ meta # Nobody

\* What workspace.json promises, from the moment it is there.
Promise ==
  /\ dir["root"] = Nobody => meta = Nobody
  /\ ~broken => ~foreign /\ (dir["root"] = Nobody => \A d \in Sub : dir[d] = Nobody)
  /\ ~foreign /\ meta # Nobody =>
       /\ tree = meta.base /\ Managed
       /\ kind = "snapshot" => snap = tree
       /\ kind = "git_worktree" => meta.token = admin

Left == ~broken /\ (\A p \in Procs : ~Inside(p)) => Settled

Making == {"add", "manifest", "copy", "blobs", "token", "runtime", "receipts", "snapfile", "meta"}
Sessions == {"session", "open", "status", "answered"}

\* Where an open is: what it has made is its own, and workspace.json is not there.
Placed(l, r) ==
  /\ l \in OutsideAt \cup {"detect", "reuse", "rescan", "compare", "mkdir", "add", "manifest"} => r.own = {}
  /\ r.moved => r.own # {}
  /\ l = "mkdir" => dir["root"] = Nobody
  /\ l = "copy" => r.own = {"temp"}
  /\ l \in Making => dir["root"] # Nobody /\ meta = Nobody /\ r.made
  /\ l \in {"rescan", "compare"} => meta # Nobody
  /\ l \in {"cleanup", "move"} => meta = Nobody \/ r.own = {}
  /\ l = "move" => r.todo # << >> /\ Head(r.todo) \in r.own
  /\ l \in {"add", "blobs", "token", "compare"} => kind = "git_worktree"
  /\ l \in {"manifest", "copy", "snapfile", "rescan"} => kind = "snapshot"

\* What the steps of a creation have built, while no other program interferes.
Built(p, l, r) ==
  ~foreign =>
    /\ l = "blobs" => dir["checkout"] # Nobody /\ \A f \in Files : tree[f] \in {Nobody, r.base[f]}
    /\ l = "copy" => dir["temp"] # Nobody
    /\ l \in {"token", "runtime", "receipts", "snapfile", "meta"} => tree = r.base /\ dir["checkout"] # Nobody
    /\ l \in {"receipts", "snapfile", "meta"} => dir["runtime"] # Nobody
    /\ l \in {"snapfile", "meta"} => dir["receipts"] # Nobody
    /\ l = "meta" /\ kind = "snapshot" => snap = r.base
    /\ l \in Sessions => meta # Nobody /\ meta.base = r.base

Removable == IF kind = "git_worktree" THEN Sub \ {"temp"} ELSE Sub

\* What an open leaves behind is gone, whole, or still to be removed by it.
Tidy(p, l, r) ==
  ~broken =>
    /\ l \in {"detect", "reuse", "rescan", "compare", "release"} \cup Sessions => Settled
    /\ l \in Making => \A d \in Sub : dir[d] # Nobody => d \in r.own /\ dir[d] = p /\ d \in Removable
    /\ l \in {"cleanup", "move"} => Settled \/
         (r.made /\ \A d \in Sub : dir[d] # Nobody =>
                      d \in r.own /\ dir[d] = p /\ \E i \in 1 .. Len(r.todo) : r.todo[i] = d)
    /\ l = "rmdir" => Settled \/ (r.made /\ \A d \in Sub : dir[d] = Nobody)

Stage(p, l, r) == Placed(l, r) /\ Built(p, l, r) /\ Tidy(p, l, r)

WsInv == WsShape /\ LockHeld /\ Promise /\ Left /\ \A p \in Procs : Stage(p, pc[p], loc[p])

LEMMA Apart ==
  ASSUME WsInv, NEW p \in Procs, pc[p] \notin Unlocked, NEW q \in Procs, q # p
  PROVE  pc[q] \in Unlocked /\ ~Inside(q)
  BY DEF WsInv, LockHeld, Unlocked, Inside

\* A process outside is not concerned by what happens to the disk.
LEMMA OutsideStage ==
  ASSUME WsInv, NEW q \in Procs, pc[q] \in OutsideAt
  PROVE  Stage(q, pc[q], loc[q])' \/ pc'[q] # pc[q] \/ loc'[q] # loc[q]
  <1> SUFFICES ASSUME pc'[q] = pc[q], loc'[q] = loc[q] PROVE Stage(q, pc[q], loc[q])'
    OBVIOUS
  <1>1. Placed(pc[q], loc[q])'
    BY DEF WsInv, Stage, Placed, OutsideAt, Unlocked, Making
  <1>2. Built(q, pc[q], loc[q])'
    BY DEF Built, OutsideAt, Unlocked, Sessions
  <1>3. Tidy(q, pc[q], loc[q])'
    BY DEF Tidy, OutsideAt, Unlocked, Sessions, Making
  <1> QED
    BY <1>1, <1>2, <1>3 DEF Stage

\* A step of the process that holds the lock: it stays inside.
LEMMA Assembled ==
  ASSUME WsInv, NEW p \in Procs, pc[p] \notin Unlocked, NEW l, l \notin OutsideAt,
         NEW r \in Locals, r.fd = loc[p].fd, Goto(p, l), Local(p, r), KeepLock,
         DiskShape', Promise', Stage(p, l, r)'
  PROVE  WsInv'
  <1>1. pc = [q \in Procs |-> pc[q]] /\ loc \in [Procs -> Locals]
    BY DEF WsInv, WsShape
  <1>2. /\ pc' = [q \in Procs |-> pc'[q]] /\ loc' \in [Procs -> Locals] /\ pc'[p] = l /\ loc'[p] = r
        /\ \A q \in Procs : q # p => pc'[q] = pc[q] /\ loc'[q] = loc[q]
    BY <1>1 DEF Goto, Local
  <1>3. WsShape'
    BY <1>2 DEF WsInv, WsShape, KeepLock
  <1>4. LockHeld'
    BY <1>2 DEF WsInv, LockHeld, KeepLock, Unlocked
  <1>5. Left'
    BY <1>2 DEF Left, Inside, OutsideAt, Unlocked
  <1>6. ASSUME NEW q \in Procs PROVE Stage(q, pc[q], loc[q])'
    <2>1. CASE q = p
      BY <1>2, <2>1 DEF Stage, Placed, Built, Tidy, Settled, Removable, Managed
    <2>2. CASE q # p
      BY <1>2, <2>2, Apart, OutsideStage DEF OutsideAt
    <2> QED
      BY <2>1, <2>2
  <1> QED
    BY <1>3, <1>4, <1>5, <1>6 DEF WsInv

\* One that leaves the disk alone.
LEMMA Thinks ==
  ASSUME WsInv, NEW p \in Procs, pc[p] \notin Unlocked, NEW l, l \notin OutsideAt,
         NEW r \in Locals, r.fd = loc[p].fd, Goto(p, l), Local(p, r), KeepLock, KeepDisk, Stage(p, l, r)
  PROVE  WsInv'
  <1>1. DiskShape' /\ Promise'
    BY DEF WsInv, WsShape, DiskShape, Promise, KeepDisk, disk, world, Managed
  <1>2. Stage(p, l, r)'
    BY DEF Stage, Placed, Built, Tidy, Settled, Removable, KeepDisk, disk, world
  <1> QED
    BY <1>1, <1>2, Assembled

LEMMA StaysPut ==
  ASSUME WsInv, NEW p \in Procs
  PROVE  (UNCHANGED pc => Goto(p, pc[p])) /\ (UNCHANGED loc => Local(p, loc[p])) /\ loc[p] \in Locals
  BY DEF WsInv, WsShape, Goto, Local

LEMMA RaisesKeeps ==
  ASSUME WsInv, NEW p \in Procs, pc[p] \in {"detect", "reuse", "rescan", "compare", "mkdir"} \cup Making, Raises(p)
  PROVE  WsInv'
  <1>1. PICK todo : todo = CleanupOrder
    OBVIOUS
  <1>2. PICK r : r = [loc[p] EXCEPT !.todo = todo, !.batch = "none"]
    OBVIOUS
  <1>3. todo \in Seq(Paths) /\ \A d \in Removable : \E i \in 1 .. Len(todo) : todo[i] = d
    <2>1. CASE kind = "git_worktree"
      <3>1. todo = << "checkout", "runtime", "receipts" >>
        BY <1>1, <2>1 DEF CleanupOrder
      <3>2. todo \in Seq(Paths) /\ Len(todo) = 3 /\ todo[1] = "checkout" /\ todo[2] = "runtime" /\ todo[3] = "receipts"
        BY <3>1 DEF Paths
      <3> QED
        BY <2>1, <3>2 DEF Removable, Sub
    <2>2. CASE kind # "git_worktree"
      <3>1. todo = << "temp", "checkout", "runtime", "receipts" >>
        BY <1>1, <2>2 DEF CleanupOrder
      <3>2. /\ todo \in Seq(Paths) /\ Len(todo) = 4
            /\ todo[1] = "temp" /\ todo[2] = "checkout" /\ todo[3] = "runtime" /\ todo[4] = "receipts"
        BY <3>1 DEF Paths
      <3> QED
        BY <2>2, <3>2 DEF Removable, Sub
    <2> QED
      BY <2>1, <2>2
  <1>4. loc[p] \in Locals
    BY StaysPut
  <1>5. /\ r \in Locals /\ r.fd = loc[p].fd /\ r.own = loc[p].own /\ r.moved = loc[p].moved
        /\ r.made = loc[p].made /\ r.todo = todo
    BY <1>2, <1>3, <1>4 DEF Locals
  <1>6. Stage(p, pc[p], loc[p])
    BY DEF WsInv
  <1>7. Placed("cleanup", r)
    BY <1>5, <1>6 DEF Stage, Placed, OutsideAt, Unlocked, Making
  <1>8. Built(p, "cleanup", r)
    BY DEF Built, Sessions
  <1>9. Tidy(p, "cleanup", r)
    <2>1. CASE pc[p] \in Making
      BY <1>3, <1>5, <1>6, <2>1 DEF Stage, Placed, Tidy, Sessions, Making
    <2>2. CASE pc[p] \notin Making
      BY <1>5, <1>6, <2>2 DEF Stage, Placed, Tidy, Sessions, Making, Settled
    <2> QED
      BY <2>1, <2>2
  <1> QED
    BY <1>1, <1>2, <1>5, <1>7, <1>8, <1>9, Thinks DEF Raises, Unlocked, OutsideAt, Making, Stage

LEMMA DetectKeeps == ASSUME WsInv, NEW p \in Procs, Detect(p) PROVE WsInv'
  <1>1. CASE Raises(p)
    BY <1>1, RaisesKeeps DEF Detect
  <1>2. CASE ~Raises(p)
    <2>1. PICK base : base = IF kind = "git_worktree" THEN source ELSE Absent
      OBVIOUS
    <2>2. PICK r : r = [loc[p] EXCEPT !.base = base]
      OBVIOUS
    <2>3. PICK l : l = IF dir["root"] # Nobody THEN "reuse" ELSE "mkdir"
      OBVIOUS
    <2>4. base \in Content
      BY <2>1 DEF WsInv, WsShape, DiskShape, Content, Absent
    <2>5. /\ r \in Locals /\ r.fd = loc[p].fd /\ r.own = loc[p].own /\ r.moved = loc[p].moved
      BY <2>2, <2>4, StaysPut DEF Locals
    <2>6. Stage(p, pc[p], loc[p]) /\ pc[p] = "detect"
      BY <1>2 DEF WsInv, Detect
    <2>7. Placed(l, r) /\ Built(p, l, r) /\ Tidy(p, l, r)
      BY <2>3, <2>5, <2>6 DEF Stage, Placed, Built, Tidy, OutsideAt, Unlocked, Making, Sessions
    <2>8. Goto(p, l) /\ Local(p, r) /\ KeepLock /\ KeepDisk
      BY <1>2, <2>1, <2>2, <2>3 DEF Detect
    <2> QED
      BY <2>3, <2>5, <2>6, <2>7, <2>8, Thinks DEF Unlocked, OutsideAt, Stage
  <1> QED
    BY <1>1, <1>2

\* The steps that only read, compare or wait.
LEMMA ReadManifestKeeps == ASSUME WsInv, NEW p \in Procs, NEW f \in Files, ReadManifest(p, f) PROVE WsInv'
  <1>1. PICK base : base = [loc[p].base EXCEPT ![f] = source[f]]
    OBVIOUS
  <1>2. PICK r : r = [loc[p] EXCEPT !.base = base]
    OBVIOUS
  <1>3. base \in Content
    BY <1>1, StaysPut DEF WsInv, WsShape, DiskShape, Content, Locals
  <1>4. /\ r \in Locals /\ r.fd = loc[p].fd /\ r.own = loc[p].own /\ r.moved = loc[p].moved /\ r.made = loc[p].made
    BY <1>2, <1>3, StaysPut DEF Locals
  <1>5. Stage(p, pc[p], loc[p]) /\ pc[p] \in {"manifest", "rescan"}
    BY DEF WsInv, ReadManifest
  <1>6. Placed(pc[p], r) /\ Built(p, pc[p], r) /\ Tidy(p, pc[p], r)
    BY <1>4, <1>5 DEF Stage, Placed, Built, Tidy, OutsideAt, Unlocked, Making, Sessions
  <1>7. Goto(p, pc[p]) /\ Local(p, r) /\ KeepLock /\ KeepDisk
    BY <1>1, <1>2, StaysPut DEF ReadManifest
  <1> QED
    BY <1>4, <1>5, <1>6, <1>7, Thinks DEF Unlocked, OutsideAt, Stage

LEMMA ExpireBatchKeeps == ASSUME WsInv, NEW p \in Procs, ExpireBatch(p) PROVE WsInv'
  <1>1. PICK r : r = [loc[p] EXCEPT !.batch = "dead"]
    OBVIOUS
  <1>2. /\ r \in Locals /\ r.fd = loc[p].fd /\ r.own = loc[p].own /\ r.moved = loc[p].moved
        /\ r.made = loc[p].made /\ r.base = loc[p].base
    BY <1>1, StaysPut DEF Locals
  <1>3. Stage(p, pc[p], loc[p]) /\ pc[p] = "blobs"
    BY DEF WsInv, ExpireBatch
  <1>4. Placed(pc[p], r) /\ Built(p, pc[p], r) /\ Tidy(p, pc[p], r)
    BY <1>2, <1>3 DEF Stage, Placed, Built, Tidy, OutsideAt, Unlocked, Making, Sessions
  <1>5. Goto(p, pc[p]) /\ Local(p, r) /\ KeepLock /\ KeepDisk
    BY <1>1, StaysPut DEF ExpireBatch
  <1> QED
    BY <1>2, <1>3, <1>4, <1>5, Thinks DEF Unlocked, OutsideAt, Stage

LEMMA FinishBatchKeeps == ASSUME WsInv, NEW p \in Procs, FinishBatch(p) PROVE WsInv'
  <1>1. CASE Raises(p)
    BY <1>1, RaisesKeeps DEF FinishBatch, Making
  <1>2. CASE ~Raises(p)
    <2>1. PICK r : r = [loc[p] EXCEPT !.batch = "none"]
      OBVIOUS
    <2>2. /\ r \in Locals /\ r.fd = loc[p].fd /\ r.own = loc[p].own /\ r.moved = loc[p].moved
          /\ r.made = loc[p].made /\ r.base = loc[p].base
      BY <2>1, StaysPut DEF Locals
    <2>3. Stage(p, pc[p], loc[p]) /\ pc[p] = "blobs" /\ \A f \in Files : tree[f] # Nobody
      BY <1>2 DEF WsInv, FinishBatch, BatchComplete
    <2>4. Placed("token", r) /\ Tidy(p, "token", r)
      BY <2>2, <2>3 DEF Stage, Placed, Tidy, OutsideAt, Unlocked, Making, Sessions
    <2>5. ~foreign => tree = r.base
      <3> SUFFICES ASSUME ~foreign PROVE tree = r.base
        OBVIOUS
      <3>1. tree \in Content /\ r.base \in Content
        BY <2>2 DEF WsInv, WsShape, DiskShape, Locals
      <3>2. \A f \in Files : tree[f] = r.base[f]
        BY <2>2, <2>3 DEF Stage, Built
      <3> QED
        BY <3>1, <3>2 DEF Content
    <2>6. Built(p, "token", r)
      BY <2>3, <2>5 DEF Built, Sessions, Stage
    <2>7. Goto(p, "token") /\ Local(p, r) /\ KeepLock /\ KeepDisk
      BY <1>2, <2>1 DEF FinishBatch
    <2> QED
      BY <2>2, <2>3, <2>4, <2>6, <2>7, Thinks DEF Unlocked, OutsideAt, Stage
  <1> QED
    BY <1>1, <1>2

LEMMA ReuseKeeps == ASSUME WsInv, NEW p \in Procs, ReuseBegins(p) \/ ReuseCompares(p) PROVE WsInv'
  <1>1. CASE Raises(p)
    BY <1>1, RaisesKeeps DEF ReuseBegins, ReuseCompares
  <1>2. CASE ~Raises(p)
    <2>1. PICK l : l = IF pc[p] = "reuse" THEN IF kind = "git_worktree" THEN "compare" ELSE "rescan" ELSE "session"
      OBVIOUS
    <2>2. Goto(p, l) /\ Local(p, loc[p]) /\ KeepLock /\ KeepDisk /\ pc[p] \in {"reuse", "rescan", "compare"}
      BY <1>2, <2>1, StaysPut DEF ReuseBegins, ReuseCompares
    <2>3. Stage(p, pc[p], loc[p]) /\ DiskShape
      BY DEF WsInv, WsShape
    <2>4. l = "session" => meta # Nobody /\ meta.base = loc[p].base
      <3>1. CASE pc[p] = "reuse"
        BY <2>1, <3>1
      <3>2. CASE pc[p] # "reuse"
        <4>1. Managed /\ BaselineHolds(p)
          BY <1>2, <3>2 DEF ReuseBegins, ReuseCompares
        <4>2. meta # Nobody
          BY <2>2, <2>3, <3>2 DEF Stage, Placed
        <4> QED
          BY <4>1, <4>2 DEF BaselineHolds
      <3> QED
        BY <3>1, <3>2
    <2>5. meta # Nobody
      BY <1>2, <2>2, <2>3 DEF ReuseBegins, ReuseCompares, Stage, Placed
    <2>6. l \in {"compare", "rescan", "session"} /\ kind \in {"git_worktree", "snapshot"}
          /\ (l = "compare" => kind = "git_worktree") /\ (l = "rescan" => kind # "git_worktree")
      BY <2>1, <2>3 DEF DiskShape
    <2>7. Placed(l, loc[p])
      BY <2>2, <2>3, <2>5, <2>6 DEF Stage, Placed, OutsideAt, Unlocked, Making
    <2>8. Built(p, l, loc[p]) /\ Tidy(p, l, loc[p])
      BY <2>4, <2>5, <2>6 DEF Built, Tidy, Settled, Making, Sessions
    <2> QED
      BY <2>2, <2>6, <2>7, <2>8, StaysPut, Thinks DEF Unlocked, OutsideAt, Stage
  <1> QED
    BY <1>1, <1>2

LEMMA SessionKeeps ==
  ASSUME WsInv, NEW p \in Procs, OpenSession(p) \/ CloseSession(p) \/ StatusBegin(p) \/ StatusQuery(p)
         \/ StatusRefused(p) \/ StatusEnd(p) \/ StatusReturned(p)
  PROVE  WsInv'
  <1>1. PICK read \in SUBSET Holder : Local(p, [loc[p] EXCEPT !.read = read])
    <2>1. CASE UNCHANGED loc
      <3>1. loc[p].read \in SUBSET Holder /\ loc[p] = [loc[p] EXCEPT !.read = loc[p].read]
        BY StaysPut DEF Locals
      <3> QED
        BY <2>1, <3>1, StaysPut
    <2>2. CASE Local(p, [loc[p] EXCEPT !.read = {}])
      BY <2>2
    <2>3. CASE StatusQuery(p)
      <3>1. PICK more : more = loc[p].read \cup {anchor}
        OBVIOUS
      <3>2. Local(p, [loc[p] EXCEPT !.read = more]) /\ anchor \in Holder
        BY <2>3, <3>1 DEF StatusQuery, HelperOpens, WsInv, WsShape, DiskShape, Identity
      <3>3. more \in SUBSET Holder
        BY <3>1, <3>2, StaysPut DEF Locals
      <3> QED
        BY <3>2, <3>3
    <2> QED
      BY <2>1, <2>2, <2>3 DEF OpenSession, CloseSession, StatusBegin, StatusRefused, StatusEnd, StatusReturned
  <1>2. PICK r : r = [loc[p] EXCEPT !.read = read]
    OBVIOUS
  <1>4. /\ r \in Locals /\ r.fd = loc[p].fd /\ r.own = loc[p].own /\ r.moved = loc[p].moved
        /\ r.made = loc[p].made /\ r.base = loc[p].base
    BY <1>2, StaysPut DEF Locals
  <1>5. PICK l \in Sessions \cup {"rmdir", "release"} : Goto(p, l) /\ (l = "rmdir" => pc[p] = "session")
    BY StaysPut DEF OpenSession, CloseSession, StatusBegin, StatusQuery, StatusRefused, StatusEnd, StatusReturned,
       Sessions
  <1>6. pc[p] \in Sessions /\ KeepLock /\ KeepDisk
    BY DEF OpenSession, CloseSession, StatusBegin, StatusQuery, StatusRefused, StatusEnd, StatusReturned, Sessions
  <1>7. Stage(p, pc[p], loc[p])
    BY DEF WsInv
  <1>8. Placed(l, r)
    BY <1>4, <1>5, <1>7 DEF Stage, Placed, OutsideAt, Unlocked, Making, Sessions
  <1>9. Built(p, l, r)
    BY <1>4, <1>5, <1>6, <1>7 DEF Stage, Built, Sessions
  <1>10. Tidy(p, l, r)
    BY <1>5, <1>6, <1>7 DEF Stage, Tidy, Making, Sessions, Settled
  <1> QED
    BY <1>1, <1>2, <1>4, <1>5, <1>6, <1>8, <1>9, <1>10, Thinks DEF Unlocked, OutsideAt, Stage, Sessions

LEMMA QuarantineCheckKeeps == ASSUME WsInv, NEW p \in Procs, QuarantineCheck(p) PROVE WsInv'
  <1>1. PICK todo : todo = loc[p].todo
    OBVIOUS
  <1>2. /\ loc[p] \in Locals /\ todo \in Seq(Paths) /\ todo # << >> /\ pc[p] = "cleanup"
        /\ Stage(p, pc[p], loc[p]) /\ KeepLock /\ KeepDisk
    BY <1>1, StaysPut DEF WsInv, QuarantineCheck, Locals
  <1>3. CASE Owns(p, Head(todo))
    <2>1. Goto(p, "move") /\ Local(p, loc[p])
      BY <1>1, <1>3, StaysPut DEF QuarantineCheck
    <2>2. Placed("move", loc[p])
      BY <1>1, <1>2, <1>3 DEF Stage, Placed, Owns, OutsideAt, Unlocked, Making
    <2>3. Built(p, "move", loc[p]) /\ Tidy(p, "move", loc[p])
      BY <1>2 DEF Stage, Built, Tidy, Making, Sessions
    <2> QED
      BY <1>2, <2>1, <2>2, <2>3, Thinks DEF Unlocked, OutsideAt, Stage
  <1>4. CASE ~Owns(p, Head(todo))
    <2>1. PICK left : left = Tail(todo)
      OBVIOUS
    <2>2. PICK r : r = [loc[p] EXCEPT !.todo = left]
      OBVIOUS
    <2>3. /\ left \in Seq(Paths) /\ Len(left) = Len(todo) - 1
          /\ \A i \in 1 .. Len(left) : left[i] = todo[i + 1]
      BY <1>2, <2>1
    <2>4. /\ r \in Locals /\ r.fd = loc[p].fd /\ r.own = loc[p].own /\ r.moved = loc[p].moved
          /\ r.made = loc[p].made /\ r.todo = left
      BY <1>2, <2>2, <2>3 DEF Locals
    <2>5. Goto(p, "cleanup") /\ Local(p, r)
      BY <1>1, <1>2, <1>4, <2>1, <2>2, StaysPut DEF QuarantineCheck
    <2>6. Placed("cleanup", r) /\ Built(p, "cleanup", r)
      BY <1>2, <2>4 DEF Stage, Placed, Built, OutsideAt, Unlocked, Making, Sessions
    <2>7. Tidy(p, "cleanup", r)
      <3> SUFFICES ASSUME ~broken, ~Settled
                   PROVE  r.made /\ \A d \in Sub : dir[d] # Nobody =>
                            d \in r.own /\ dir[d] = p /\ \E i \in 1 .. Len(r.todo) : r.todo[i] = d
        BY DEF Tidy, Making, Sessions
      <3>1. /\ loc[p].made
            /\ \A d \in Sub : dir[d] # Nobody =>
                 d \in loc[p].own /\ dir[d] = p /\ \E i \in 1 .. Len(todo) : todo[i] = d
        BY <1>1, <1>2 DEF Stage, Tidy
      <3>2. ASSUME NEW d \in Sub, dir[d] # Nobody PROVE \E i \in 1 .. Len(left) : left[i] = d
        <4>1. PICK i \in 1 .. Len(todo) : todo[i] = d
          BY <3>1, <3>2
        <4>2. i # 1
          BY <1>2, <1>4, <3>1, <3>2, <4>1 DEF Owns
        <4>3. i - 1 \in 1 .. Len(left) /\ left[i - 1] = todo[i]
          BY <1>2, <2>3, <4>1, <4>2
        <4> QED
          BY <4>1, <4>3
      <3> QED
        BY <2>4, <3>1, <3>2
    <2> QED
      BY <1>2, <2>4, <2>5, <2>6, <2>7, Thinks DEF Unlocked, OutsideAt, Stage
  <1> QED
    BY <1>3, <1>4

\* The steps of a creation.  workspace.json is not there, so nothing is promised.
LEMMA Creates ==
  ASSUME WsInv, NEW p \in Procs, pc[p] \in Making \cup {"mkdir"}, NEW l, l \notin OutsideAt,
         NEW r \in Locals, r.fd = loc[p].fd, Goto(p, l), Local(p, r), KeepLock, DiskShape',
         UNCHANGED <<meta, foreign>>, broken => broken',
         dir'["root"] # Nobody, Stage(p, l, r)'
  PROVE  WsInv'
  <1>1. meta = Nobody
    BY DEF WsInv, Stage, Placed, Promise
  <1>2. Promise'
    BY <1>1 DEF WsInv, Promise
  <1> QED
    BY <1>2, Assembled DEF Unlocked, Making

LEMMA MakeRootKeeps == ASSUME WsInv, NEW p \in Procs, MakeRoot(p) PROVE WsInv'
  <1>1. CASE Raises(p)
    BY <1>1, RaisesKeeps DEF MakeRoot
  <1>2. CASE ~Raises(p)
    <2>1. PICK r : r = [loc[p] EXCEPT !.made = TRUE]
      OBVIOUS
    <2>2. /\ r \in Locals /\ r.fd = loc[p].fd /\ r.own = loc[p].own /\ r.moved = loc[p].moved /\ r.made
      BY <2>1, StaysPut DEF Locals
    <2>3. PICK l : l = IF kind = "git_worktree" THEN "add" ELSE "manifest"
      OBVIOUS
    <2>4. /\ pc[p] = "mkdir" /\ dir["root"] = Nobody /\ dir' = [dir EXCEPT !["root"] = p]
          /\ Goto(p, l) /\ Local(p, r) /\ KeepLock
          /\ UNCHANGED <<tree, snap, meta, admin, quarantine, world, broken>>
      BY <1>2, <2>1, <2>3 DEF MakeRoot
    <2>5. Stage(p, pc[p], loc[p]) /\ DiskShape /\ Promise
      BY DEF WsInv, WsShape
    <2>6. /\ DiskShape' /\ \A d \in Sub : dir'[d] = dir[d]
      BY <2>4, <2>5, NobodyAssumption DEF DiskShape, world, Paths, Sub, Identity, Holder
    <2>7. dir'["root"] # Nobody /\ (~broken => \A d \in Sub : dir[d] = Nobody)
      BY <2>4, <2>5, NobodyAssumption DEF DiskShape, Paths, Promise
    <2>8. Placed(l, r)' /\ Built(p, l, r)'
      BY <2>2, <2>3, <2>4, <2>5, <2>7 DEF DiskShape, world, Promise, Stage, Placed, Built, OutsideAt, Unlocked, Making, Sessions
    <2>9. Tidy(p, l, r)'
      BY <2>3, <2>4, <2>6, <2>7 DEF world, Tidy, Making, Sessions
    <2> QED
      BY <2>2, <2>3, <2>4, <2>6, <2>7, <2>8, <2>9, Creates DEF world, Unlocked, OutsideAt, Stage
  <1> QED
    BY <1>1, <1>2

LEMMA CleanupOrdered == CleanupOrder \in Seq(Paths) /\ Absent \in Content
  <1>1. << "checkout", "runtime", "receipts" >> \in Seq(Paths)
    BY DEF Paths
  <1>2. << "temp", "checkout", "runtime", "receipts" >> \in Seq(Paths)
    BY DEF Paths
  <1> QED
    BY <1>1, <1>2 DEF CleanupOrder, Absent, Content

LEMMA AddWorktreeKeeps == ASSUME WsInv, NEW p \in Procs, AddWorktree(p) PROVE WsInv'
  <1>1. Stage(p, pc[p], loc[p]) /\ DiskShape /\ Promise /\ loc[p] \in Locals /\ pc[p] = "add"
    BY StaysPut DEF WsInv, WsShape, AddWorktree
  <1>2. CASE Raises(p)
    BY <1>1, <1>2, RaisesKeeps DEF Making
  <1>3. CASE /\ dir["checkout"] = Nobody /\ dir' = [dir EXCEPT !["checkout"] = p] /\ anchor' = p /\ tree' = Absent
             /\ Local(p, [loc[p] EXCEPT !.own = {"checkout"}, !.batch = "running"]) /\ admin' = Nobody
             /\ Goto(p, "blobs") /\ KeepLock /\ UNCHANGED << snap, meta, quarantine, broken, kind, source, faults, foreign >>
    <2>1. PICK r : r = [loc[p] EXCEPT !.own = {"checkout"}, !.batch = "running"]
      OBVIOUS
    <2>2. r \in Locals /\ r.fd = loc[p].fd /\ r.own = {"checkout"} /\ r.made = loc[p].made
      BY <1>1, <2>1 DEF Locals, Sub
    <2>3. /\ DiskShape' /\ dir'["checkout"] = p /\ \A d \in Paths \ {"checkout"} : dir'[d] = dir[d]
      BY <1>1, <1>3, NobodyAssumption, CleanupOrdered DEF DiskShape, Paths, Identity, Holder
    <2>4. ~broken => \A d \in Sub : dir[d] = Nobody
      BY <1>1 DEF Stage, Placed, Tidy, Making
    <2>5. Placed("blobs", r)'
      BY <1>1, <1>3, <2>2, <2>3 DEF Stage, Placed, OutsideAt, Unlocked, Making, Paths
    <2>6. Built(p, "blobs", r)'
      BY <1>3, <2>3, NobodyAssumption DEF Built, Absent, Sessions
    <2>7. Tidy(p, "blobs", r)'
      <3>1. "checkout" \in Removable'
        BY DEF Removable, Sub
      <3> QED
        BY <1>3, <2>2, <2>3, <2>4, <3>1 DEF Tidy, Making, Sessions, Sub, Paths
    <2>8. dir'["root"] # Nobody
      BY <1>1, <2>3 DEF Stage, Placed, Making, Paths
    <2> QED
      BY <1>1, <1>3, <2>1, <2>2, <2>3, <2>5, <2>6, <2>7, <2>8, Creates DEF Stage, OutsideAt, Unlocked, Making
  <1>4. CASE /\ dir["checkout"] = Nobody /\ dir' = [dir EXCEPT !["checkout"] = p] /\ broken' = TRUE
             /\ Goto(p, "cleanup") /\ Local(p, [loc[p] EXCEPT !.todo = CleanupOrder]) /\ KeepLock
             /\ UNCHANGED << tree, snap, meta, admin, quarantine, world >>
    <2>1. PICK r : r = [loc[p] EXCEPT !.todo = CleanupOrder]
      OBVIOUS
    <2>2. r \in Locals /\ r.fd = loc[p].fd /\ r.own = loc[p].own /\ r.moved = loc[p].moved /\ r.made = loc[p].made
      BY <1>1, <2>1, CleanupOrdered DEF Locals
    <2>3. /\ DiskShape' /\ dir'["checkout"] = p /\ \A d \in Paths \ {"checkout"} : dir'[d] = dir[d]
      BY <1>1, <1>4, NobodyAssumption DEF DiskShape, Paths, Identity, Holder, world
    <2>4. Placed("cleanup", r)'
      BY <1>1, <1>4, <2>2 DEF Stage, Placed, OutsideAt, Unlocked, Making
    <2>5. Built(p, "cleanup", r)' /\ Tidy(p, "cleanup", r)'
      BY <1>4 DEF Built, Tidy, Sessions
    <2>6. dir'["root"] # Nobody
      BY <1>1, <2>3 DEF Stage, Placed, Making, Paths
    <2> QED
      BY <1>1, <1>4, <2>1, <2>2, <2>3, <2>4, <2>5, <2>6, Creates DEF Stage, OutsideAt, Unlocked, Making, world
  <1> QED
    BY <1>2, <1>3, <1>4 DEF AddWorktree

\* One entry of the checkout, from the revision or from the source.
LEMMA EntryKeeps ==
  ASSUME WsInv, NEW p \in Procs, NEW f \in Files, MaterializeBlob(p, f) \/ CopyEntry(p, f)
  PROVE  WsInv'
  <1>1. /\ Stage(p, pc[p], loc[p]) /\ DiskShape /\ loc[p] \in Locals /\ pc[p] \in {"blobs", "copy"}
        /\ Goto(p, pc[p]) /\ Local(p, loc[p]) /\ KeepLock
        /\ UNCHANGED << dir, snap, meta, admin, quarantine, world, broken >>
    BY StaysPut DEF WsInv, WsShape, MaterializeBlob, CopyEntry
  <1>2. PICK v \in Versions \cup {Nobody} :
          tree' = [tree EXCEPT ![f] = v] /\ (pc[p] = "blobs" => v = loc[p].base[f])
    <2>1. loc[p].base[f] \in Versions \cup {Nobody} /\ source[f] \in Versions
      BY <1>1 DEF DiskShape, Locals, Content
    <2> QED
      BY <2>1 DEF MaterializeBlob, CopyEntry
  <1>3. DiskShape'
    BY <1>1, <1>2 DEF DiskShape, Content, world
  <1>5. Built(p, pc[p], loc[p])
    BY <1>1 DEF Stage
  <1>6. pc[p] = "blobs" /\ ~foreign => \A g \in Files : tree'[g] \in {Nobody, loc[p].base[g]}
    BY <1>1, <1>2, <1>5 DEF Built, DiskShape, Content
  <1>7. PICK l : l = pc[p]
    OBVIOUS
  <1>8. PICK r : r = loc[p]
    OBVIOUS
  <1>9. Built(p, l, r)'
    BY <1>1, <1>5, <1>6, <1>7, <1>8 DEF world, Built, Sessions
  <1>10. Placed(l, r)'
    BY <1>1, <1>7, <1>8 DEF world, Stage, Placed
  <1>11. Tidy(p, l, r)'
    BY <1>1, <1>7, <1>8 DEF world, Stage, Tidy, Removable, Settled
  <1>12. dir'["root"] # Nobody
    BY <1>1 DEF Stage, Placed, Making
  <1> QED
    BY <1>1, <1>3, <1>7, <1>8, <1>9, <1>10, <1>11, <1>12, Creates DEF Stage, OutsideAt, Unlocked, Making, world

LEMMA WriteTokenKeeps == ASSUME WsInv, NEW p \in Procs, WriteToken(p) PROVE WsInv'
  <1>1. /\ Stage(p, pc[p], loc[p]) /\ DiskShape /\ loc[p] \in Locals /\ pc[p] = "token"
    BY StaysPut DEF WsInv, WsShape, WriteToken
  <1>2. CASE Raises(p)
    BY <1>1, <1>2, RaisesKeeps DEF Making
  <1>3. CASE ~Raises(p)
    <2>1. PICK r : r = loc[p]
      OBVIOUS
    <2>2. /\ admin' = p /\ Goto(p, "runtime") /\ Local(p, r) /\ KeepLock
          /\ UNCHANGED << dir, tree, snap, meta, quarantine, world, broken >>
      BY <1>3, <2>1, StaysPut DEF WriteToken
    <2>3. DiskShape' /\ dir'["root"] # Nobody
      BY <1>1, <2>2 DEF Stage, Placed, Making, DiskShape, Holder, world
    <2>4. Placed("runtime", r)' /\ Built(p, "runtime", r)' /\ Tidy(p, "runtime", r)'
      BY <1>1, <2>1, <2>2 DEF Stage, Placed, Built, Tidy, Removable, Settled, OutsideAt, Unlocked, Making, Sessions, world
    <2> QED
      BY <1>1, <2>1, <2>2, <2>3, <2>4, Creates DEF Stage, OutsideAt, Unlocked, Making, world
  <1> QED
    BY <1>2, <1>3

LEMMA MakeOwnedKeeps ==
  ASSUME WsInv, NEW p \in Procs, MakeRuntime(p) \/ MakeReceipts(p)
  PROVE  WsInv'
  <1>1. PICK d \in {"runtime", "receipts"} : pc[p] = d /\ (MakeRuntime(p) \/ MakeReceipts(p)) /\ (d = "runtime" <=> MakeRuntime(p))
    BY DEF MakeRuntime, MakeReceipts, MakeOwned
  <1>2. PICK l : l = IF d = "runtime" THEN "receipts" ELSE IF kind = "git_worktree" THEN "meta" ELSE "snapfile"
    OBVIOUS
  <1>3. MakeOwned(p, d, d, l)
    BY <1>1, <1>2 DEF MakeRuntime, MakeReceipts
  <1>4. Stage(p, pc[p], loc[p]) /\ DiskShape /\ loc[p] \in Locals
    BY StaysPut DEF WsInv, WsShape
  <1>5. CASE Raises(p)
    BY <1>1, <1>5, RaisesKeeps DEF Making
  <1>6. CASE ~Raises(p)
    <2>1. PICK own : own = loc[p].own \cup {d}
      OBVIOUS
    <2>2. PICK r : r = [loc[p] EXCEPT !.own = own]
      OBVIOUS
    <2>3. /\ dir[d] = Nobody /\ dir' = [dir EXCEPT ![d] = p] /\ Local(p, r) /\ Goto(p, l) /\ KeepLock
          /\ UNCHANGED << tree, snap, meta, admin, quarantine, world, broken >>
      BY <1>3, <1>6, <2>1, <2>2 DEF MakeOwned
    <2>4. /\ r \in Locals /\ r.fd = loc[p].fd /\ r.own = own /\ r.made = loc[p].made /\ r.base = loc[p].base
      BY <1>4, <2>1, <2>2 DEF Locals, Sub
    <2>5. /\ DiskShape' /\ dir'[d] = p /\ \A e \in Paths \ {d} : dir'[e] = dir[e]
      BY <1>4, <2>3, NobodyAssumption DEF DiskShape, Paths, Identity, Holder, world
    <2>6. dir'["root"] # Nobody /\ (dir["checkout"] # Nobody => dir'["checkout"] # Nobody)
          /\ dir'[d] # Nobody /\ (dir["runtime"] # Nobody => dir'["runtime"] # Nobody)
      BY <1>1, <1>4, <2>5, NobodyAssumption DEF Stage, Placed, Making, Paths
    <2>7. Placed(l, r)'
      BY <1>1, <1>2, <1>4, <2>1, <2>3, <2>4, <2>6 DEF Stage, Placed, DiskShape, OutsideAt, Unlocked, Making, world
    <2>8. Built(p, l, r)'
      BY <1>1, <1>2, <1>4, <2>3, <2>4, <2>6 DEF Stage, Built, Sessions, world
    <2>9. Tidy(p, l, r)'
      <3>1. d \in Removable' /\ d \in own
        BY <2>1 DEF Removable, Sub
      <3>2. ~broken => \A e \in Sub : dir[e] # Nobody => e \in loc[p].own /\ dir[e] = p /\ e \in Removable
        BY <1>1, <1>4 DEF Stage, Tidy, Making
      <3>3. ~broken' => \A e \in Sub : dir'[e] # Nobody => e \in r.own /\ dir'[e] = p /\ e \in Removable'
        BY <2>1, <2>3, <2>4, <2>5, <3>1, <3>2 DEF Sub, Paths, Removable, world
      <3> QED
        BY <1>2, <3>3 DEF Tidy, Making, Sessions
    <2> QED
      BY <1>1, <1>2, <2>3, <2>4, <2>5, <2>6, <2>7, <2>8, <2>9, Creates DEF Stage, OutsideAt, Unlocked, Making, world
  <1> QED
    BY <1>5, <1>6

LEMMA MakeTempKeeps == ASSUME WsInv, NEW p \in Procs, MakeTemp(p) PROVE WsInv'
  <1>1. Stage(p, pc[p], loc[p]) /\ DiskShape /\ loc[p] \in Locals /\ pc[p] = "manifest"
    BY StaysPut DEF WsInv, WsShape, MakeTemp
  <1>2. CASE Raises(p)
    BY <1>1, <1>2, RaisesKeeps DEF Making
  <1>3. CASE ~Raises(p)
    <2>1. PICK r : r = [loc[p] EXCEPT !.own = {"temp"}]
      OBVIOUS
    <2>2. /\ dir' = [dir EXCEPT !["temp"] = p] /\ tree' = Absent /\ Local(p, r) /\ Goto(p, "copy") /\ KeepLock
          /\ UNCHANGED << snap, meta, admin, quarantine, world, broken >>
      BY <1>3, <2>1 DEF MakeTemp
    <2>3. r \in Locals /\ r.fd = loc[p].fd /\ r.own = {"temp"} /\ r.made = loc[p].made
      BY <1>1, <2>1 DEF Locals, Sub
    <2>4. /\ DiskShape' /\ dir'["temp"] = p /\ \A d \in Paths \ {"temp"} : dir'[d] = dir[d]
      BY <1>1, <2>2, NobodyAssumption, CleanupOrdered DEF DiskShape, Paths, Identity, Holder, world
    <2>5. ~broken => \A d \in Sub : dir[d] = Nobody
      BY <1>1 DEF Stage, Placed, Tidy, Making
    <2>6. dir'["root"] # Nobody
      BY <1>1, <2>4 DEF Stage, Placed, Making, Paths
    <2>7. Placed("copy", r)'
      BY <1>1, <2>2, <2>3, <2>6 DEF Stage, Placed, OutsideAt, Unlocked, Making, world
    <2>8. Built(p, "copy", r)'
      BY <2>4, NobodyAssumption DEF Built, Sessions
    <2>9. Tidy(p, "copy", r)'
      <3>1. kind' # "git_worktree"
        BY <1>1, <2>2 DEF Stage, Placed, world
      <3> QED
        BY <2>2, <2>3, <2>4, <2>5, <3>1 DEF Tidy, Making, Sessions, Sub, Paths, Removable
    <2> QED
      BY <1>1, <2>2, <2>3, <2>4, <2>6, <2>7, <2>8, <2>9, Creates DEF Stage, OutsideAt, Unlocked, Making, world
  <1> QED
    BY <1>2, <1>3

LEMMA RenameCheckoutKeeps == ASSUME WsInv, NEW p \in Procs, RenameCheckout(p) PROVE WsInv'
  <1>1. Stage(p, pc[p], loc[p]) /\ DiskShape /\ loc[p] \in Locals /\ pc[p] = "copy"
    BY StaysPut DEF WsInv, WsShape, RenameCheckout
  <1>2. CASE Raises(p)
    BY <1>1, <1>2, RaisesKeeps DEF Making
  <1>3. CASE ~Raises(p)
    <2>1. PICK r : r = [loc[p] EXCEPT !.own = {"checkout"}]
      OBVIOUS
    <2>2. /\ CopyMatches(p) /\ dir' = [dir EXCEPT !["temp"] = Nobody, !["checkout"] = dir["temp"]]
          /\ Local(p, r) /\ Goto(p, "runtime") /\ KeepLock
          /\ UNCHANGED << tree, snap, meta, admin, quarantine, world, broken >>
      BY <1>3, <2>1 DEF RenameCheckout
    <2>3. r \in Locals /\ r.fd = loc[p].fd /\ r.own = {"checkout"} /\ r.made = loc[p].made /\ r.base = loc[p].base
      BY <1>1, <2>1 DEF Locals, Sub
    <2>4. /\ DiskShape' /\ dir'["temp"] = Nobody /\ dir'["checkout"] = dir["temp"]
          /\ \A d \in Paths \ {"temp", "checkout"} : dir'[d] = dir[d]
      BY <1>1, <2>2, NobodyAssumption DEF DiskShape, Paths, Identity, Holder, world
    <2>5. ~broken => \A d \in Sub : dir[d] # Nobody => d = "temp" /\ dir[d] = p
      BY <1>1 DEF Stage, Placed, Tidy, Making
    <2>6. dir'["root"] # Nobody
      BY <1>1, <2>4 DEF Stage, Placed, Making, Paths
    <2>7. Placed("runtime", r)'
      BY <1>1, <2>2, <2>3, <2>6 DEF Stage, Placed, OutsideAt, Unlocked, Making, world
    <2>8. Built(p, "runtime", r)'
      BY <1>1, <2>2, <2>3, <2>4 DEF Stage, Built, CopyMatches, Sessions, world
    <2>9. Tidy(p, "runtime", r)'
      <3>1. "checkout" \in Removable'
        BY DEF Removable, Sub
      <3> QED
        BY <2>2, <2>3, <2>4, <2>5, <3>1 DEF Tidy, Making, Sessions, Sub, Paths
    <2> QED
      BY <1>1, <2>2, <2>3, <2>4, <2>6, <2>7, <2>8, <2>9, Creates DEF Stage, OutsideAt, Unlocked, Making, world
  <1> QED
    BY <1>2, <1>3

LEMMA WriteSnapshotKeeps == ASSUME WsInv, NEW p \in Procs, WriteSnapshotManifest(p) PROVE WsInv'
  <1>1. Stage(p, pc[p], loc[p]) /\ DiskShape /\ loc[p] \in Locals /\ pc[p] = "snapfile"
    BY StaysPut DEF WsInv, WsShape, WriteSnapshotManifest
  <1>2. CASE Raises(p)
    BY <1>1, <1>2, RaisesKeeps DEF Making
  <1>3. CASE ~Raises(p)
    <2>1. PICK r : r = loc[p]
      OBVIOUS
    <2>2. /\ snap' = r.base /\ Goto(p, "meta") /\ Local(p, r) /\ KeepLock
          /\ UNCHANGED << dir, tree, meta, admin, quarantine, world, broken >>
      BY <1>3, <2>1, StaysPut DEF WriteSnapshotManifest
    <2>3. DiskShape' /\ dir'["root"] # Nobody
      BY <1>1, <2>2 DEF Stage, Placed, Making, DiskShape, world
    <2>4. Placed("meta", r)' /\ Built(p, "meta", r)' /\ Tidy(p, "meta", r)'
      BY <1>1, <2>1, <2>2 DEF Stage, Placed, Built, Tidy, Removable, Settled, OutsideAt, Unlocked, Making, Sessions, world
    <2> QED
      BY <1>1, <2>1, <2>2, <2>3, <2>4, Creates DEF Stage, OutsideAt, Unlocked, Making, world
  <1> QED
    BY <1>2, <1>3

\* workspace.json promises what the steps before it have built.
LEMMA WriteMetaKeeps == ASSUME WsInv, NEW p \in Procs, WriteMeta(p) PROVE WsInv'
  <1>1. /\ Stage(p, pc[p], loc[p]) /\ DiskShape /\ loc[p] \in Locals /\ pc[p] = "meta"
        /\ ~broken => ~foreign
    BY StaysPut DEF WsInv, WsShape, WriteMeta, Promise
  <1>2. CASE Raises(p)
    BY <1>1, <1>2, RaisesKeeps DEF Making
  <1>3. CASE ~Raises(p)
    <2>1. PICK r : r = loc[p]
      OBVIOUS
    <2>2. /\ meta' = [base |-> r.base, token |-> admin] /\ Goto(p, "session") /\ Local(p, r) /\ KeepLock
          /\ UNCHANGED << dir, tree, snap, admin, quarantine, world, broken >>
      BY <1>3, <2>1, StaysPut DEF WriteMeta
    <2>3. /\ meta' \in Metas /\ meta'.base = r.base /\ meta'.token = admin
      BY <1>1, <2>1, <2>2 DEF DiskShape, Locals, Metas
    <2>4. meta' # Nobody
      BY <2>3, NobodyAssumption DEF Metas, Content, Holder
    <2>5. DiskShape' /\ dir'["root"] # Nobody
      BY <1>1, <2>2, <2>3 DEF Stage, Placed, Making, DiskShape, world
    <2>6. ~foreign => tree = r.base /\ Managed /\ (kind = "snapshot" => snap = r.base)
      BY <1>1, <2>1 DEF Stage, Built, Managed
    <2>7. Promise'
      BY <1>1, <2>2, <2>3, <2>5, <2>6 DEF Promise, Managed, world
    <2>8. Placed("session", r)' /\ Built(p, "session", r)' /\ Tidy(p, "session", r)'
      BY <1>1, <2>1, <2>3, <2>4 DEF Stage, Placed, Built, Tidy, Settled, OutsideAt, Unlocked, Making, Sessions
    <2> QED
      BY <1>1, <2>1, <2>2, <2>5, <2>7, <2>8, Assembled DEF Stage, OutsideAt, Unlocked
  <1> QED
    BY <1>2, <1>3

LEMMA TailKeeps ==
  ASSUME NEW todo \in Seq(Paths), todo # << >>
  PROVE  /\ Tail(todo) \in Seq(Paths)
         /\ \A d : (\E i \in 1 .. Len(todo) : todo[i] = d) /\ d # Head(todo)
                     => \E i \in 1 .. Len(Tail(todo)) : Tail(todo)[i] = d
  <1>1. Tail(todo) \in Seq(Paths) /\ Len(Tail(todo)) = Len(todo) - 1
        /\ \A i \in 1 .. Len(todo) - 1 : Tail(todo)[i] = todo[i + 1]
    OBVIOUS
  <1>2. ASSUME NEW i \in 1 .. Len(todo), todo[i] # Head(todo)
        PROVE  \E j \in 1 .. Len(Tail(todo)) : Tail(todo)[j] = todo[i]
    <2>1. i # 1 /\ Len(todo) \in Nat
      BY <1>2
    <2>2. i - 1 \in 1 .. Len(Tail(todo)) /\ Tail(todo)[i - 1] = todo[i]
      BY <1>1, <2>1
    <2> QED
      BY <2>2
  <1> QED
    BY <1>1, <1>2

\* What is moved is this open's own, and so workspace.json is not there.
LEMMA QuarantineMoveKeeps == ASSUME WsInv, NEW p \in Procs, QuarantineMove(p) PROVE WsInv'
  <1>1. PICK todo : todo = loc[p].todo
    OBVIOUS
  <1>2. PICK d : d = Head(todo)
    OBVIOUS
  <1>3. /\ Stage(p, pc[p], loc[p]) /\ DiskShape /\ Promise /\ loc[p] \in Locals /\ pc[p] = "move"
        /\ todo \in Seq(Paths) /\ KeepLock /\ Goto(p, "cleanup")
    BY <1>1, StaysPut DEF WsInv, WsShape, QuarantineMove, Locals
  <1>4. todo # << >> /\ d \in loc[p].own /\ d \in Sub /\ meta = Nobody
    BY <1>1, <1>2, <1>3 DEF Stage, Placed, Locals
  <1>5. PICK left : left = Tail(todo)
    OBVIOUS
  <1>6. PICK moved \in BOOLEAN : Local(p, [loc[p] EXCEPT !.todo = left, !.moved = moved])
    <2>1. PICK was \in BOOLEAN : was = loc[p].moved
      BY <1>3 DEF Locals
    <2>2. [loc[p] EXCEPT !.todo = left] = [loc[p] EXCEPT !.todo = left, !.moved = was]
      BY <1>3, <2>1 DEF Locals
    <2>3. (was \/ d = "checkout") \in BOOLEAN
      OBVIOUS
    <2> QED
      BY <1>1, <1>2, <1>5, <2>1, <2>2, <2>3 DEF QuarantineMove
  <1>7. PICK r : r = [loc[p] EXCEPT !.todo = left, !.moved = moved]
    OBVIOUS
  <1>8. /\ left \in Seq(Paths)
        /\ \A e : (\E i \in 1 .. Len(todo) : todo[i] = e) /\ e # d => \E i \in 1 .. Len(left) : left[i] = e
    BY <1>2, <1>3, <1>4, <1>5, TailKeeps
  <1>9. r \in Locals /\ r.fd = loc[p].fd /\ r.own = loc[p].own /\ r.made = loc[p].made /\ r.todo = left
    BY <1>3, <1>7, <1>8 DEF Locals
  <1>10. /\ dir' \in {dir, [dir EXCEPT ![d] = Nobody]} /\ tree' \in {tree, Absent} /\ (dir' = dir => broken')
         /\ UNCHANGED << meta, admin, world >> /\ (broken => broken')
    <2>1. CASE broken' = TRUE /\ UNCHANGED << disk, world >>
      BY <2>1 DEF disk
    <2>2. CASE /\ dir[d] # Nobody /\ dir' = [dir EXCEPT ![d] = Nobody]
               /\ tree' = (IF d \in {"temp", "checkout"} THEN Absent ELSE tree)
               /\ UNCHANGED << meta, admin, world, broken >>
      <3>1. dir'[d] # dir[d]
        BY <1>3, <1>4, <2>2 DEF DiskShape, Sub, Paths
      <3> QED
        BY <2>2, <3>1
    <2> QED
      BY <1>1, <1>2, <2>1, <2>2 DEF QuarantineMove
  <1>11. \A e \in Paths : dir'[e] # dir[e] => e = d /\ dir'[e] = Nobody
    BY <1>3, <1>10 DEF DiskShape
  <1>12. DiskShape'
    <2>1. dir' \in [Paths -> Identity]
      BY <1>3, <1>10 DEF DiskShape, Identity, Holder
    <2>2. dir'["root"] # Stranger /\ dir'["temp"] # Stranger
      BY <1>3, <1>11, NobodyAssumption DEF DiskShape, Paths
    <2>3. tree' \in Content
      BY <1>3, <1>10, CleanupOrdered DEF DiskShape
    <2> QED
      BY <1>3, <1>10, <2>1, <2>2, <2>3 DEF DiskShape, world
  <1>13. dir'["root"] = dir["root"]
    BY <1>4, <1>11 DEF Sub, Paths
  <1>14. Promise'
    <2>1. \A e \in Sub : dir[e] = Nobody => dir'[e] = Nobody
      BY <1>11 DEF Sub, Paths
    <2> QED
      BY <1>3, <1>4, <1>10, <1>13, <2>1 DEF Promise, world
  <1>15. Placed("cleanup", r)'
    BY <1>3, <1>4, <1>9, <1>10 DEF Placed, OutsideAt, Unlocked, Making
  <1>16. Built(p, "cleanup", r)'
    BY DEF Built, Sessions
  <1>17. Tidy(p, "cleanup", r)'
    <2> SUFFICES ASSUME ~broken', ~Settled'
                 PROVE  r.made /\ \A e \in Sub : dir'[e] # Nobody =>
                          e \in r.own /\ dir'[e] = p /\ \E i \in 1 .. Len(r.todo) : r.todo[i] = e
      BY DEF Tidy, Making, Sessions
    <2>1. ~broken /\ ~Settled /\ dir' = [dir EXCEPT ![d] = Nobody]
      BY <1>10, <1>13 DEF Settled
    <2>2. /\ loc[p].made
          /\ \A e \in Sub : dir[e] # Nobody =>
               e \in loc[p].own /\ dir[e] = p /\ \E i \in 1 .. Len(todo) : todo[i] = e
      BY <1>1, <1>3, <2>1 DEF Stage, Tidy
    <2>3. \A e \in Sub : dir'[e] # Nobody => e # d /\ dir'[e] = dir[e]
      BY <1>3, <1>4, <2>1 DEF DiskShape, Sub, Paths
    <2> QED
      BY <1>8, <1>9, <2>2, <2>3
  <1> QED
    BY <1>3, <1>6, <1>7, <1>9, <1>12, <1>14, <1>15, <1>16, <1>17, Assembled DEF Stage, OutsideAt, Unlocked

LEMMA QuarantineEndsKeeps == ASSUME WsInv, NEW p \in Procs, QuarantineEnds(p) PROVE WsInv'
  <1>1. PICK r : r = loc[p]
    OBVIOUS
  <1>2. /\ Stage(p, "cleanup", r) /\ DiskShape /\ Promise /\ r \in Locals /\ r.todo = << >> /\ pc[p] = "cleanup"
        /\ Goto(p, "rmdir") /\ Local(p, r) /\ KeepLock /\ admin' \in {admin, Nobody}
        /\ (admin' # admin => r.moved)
        /\ UNCHANGED << dir, tree, snap, meta, quarantine, world, broken >>
    BY <1>1, StaysPut DEF WsInv, WsShape, QuarantineEnds
  <1>3. DiskShape'
    BY <1>2 DEF DiskShape, world, Holder
  <1>4. admin' # admin => meta = Nobody
    BY <1>2 DEF Stage, Placed
  <1>5. Promise'
    BY <1>2, <1>4 DEF Promise, Managed, world
  <1>6. Placed("rmdir", r)' /\ Built(p, "rmdir", r)'
    BY <1>2 DEF Stage, Placed, Built, OutsideAt, Unlocked, Making, Sessions
  <1>7. Tidy(p, "rmdir", r)'
    <2>1. ~ \E i \in 1 .. Len(r.todo) : TRUE
      BY <1>2
    <2> QED
      BY <1>2, <2>1 DEF Stage, Tidy, Settled, Making, Sessions
  <1> QED
    BY <1>1, <1>2, <1>3, <1>5, <1>6, <1>7, Assembled DEF Stage, OutsideAt, Unlocked

LEMMA RemoveRootKeeps == ASSUME WsInv, NEW p \in Procs, RemoveRoot(p) PROVE WsInv'
  <1>1. PICK r : r = loc[p]
    OBVIOUS
  <1>2. PICK gone \in BOOLEAN : gone = (r.made /\ meta = Nobody /\ \A d \in Sub : dir[d] = Nobody)
    OBVIOUS
  <1>3. Paths \ {"root"} = Sub
    BY DEF Paths, Sub
  <1>4. /\ Stage(p, "rmdir", r) /\ DiskShape /\ Promise /\ r \in Locals /\ pc[p] = "rmdir"
        /\ Goto(p, "release") /\ Local(p, r) /\ KeepLock
        /\ dir' = (IF gone THEN [dir EXCEPT !["root"] = Nobody] ELSE dir)
        /\ UNCHANGED << tree, snap, meta, admin, quarantine, world, broken >>
    BY <1>1, <1>2, <1>3, StaysPut DEF WsInv, WsShape, RemoveRoot
  <1>5. /\ \A d \in Sub : dir'[d] = dir[d]
        /\ dir'["root"] = (IF gone THEN Nobody ELSE dir["root"])
        /\ dir' \in [Paths -> Identity]
    BY <1>4 DEF DiskShape, Paths, Sub, Identity, Holder
  <1>6. DiskShape'
    BY <1>4, <1>5, NobodyAssumption DEF DiskShape, Sub, world
  <1>7. Promise'
    BY <1>2, <1>4, <1>5 DEF Promise, Managed, Sub, world
  <1>8. Placed("release", r)' /\ Built(p, "release", r)'
    BY <1>4 DEF Stage, Placed, Built, OutsideAt, Unlocked, Making, Sessions
  <1>9. Tidy(p, "release", r)'
    BY <1>2, <1>4, <1>5 DEF Stage, Tidy, Settled, Making, Sessions
  <1> QED
    BY <1>1, <1>4, <1>6, <1>7, <1>8, <1>9, Assembled DEF Stage, OutsideAt, Unlocked

\* The lock, taken and given up.
LEMMA StandsOutside ==
  ASSUME WsInv, NEW p \in Procs, NEW l \in OutsideAt, NEW r \in Locals, r.own = {}, ~r.moved,
         Goto(p, l), Local(p, r), UNCHANGED << disk, kind, source, anchor, foreign >>, broken => broken',
         lockInode' \in Holder, flock' \in [Procs -> Holder],
         l \notin {"idle", "publish"} => lockInode' # Nobody /\ r.fd = lockInode',
         l = "locked" => flock'[lockInode'] = p,
         \A q \in Procs \ {p} : pc[q] \notin {"idle", "publish"} => lockInode' = lockInode,
         \A q \in Procs \ {p} : pc[q] \notin Unlocked => flock'[lockInode] = q,
         Inside(p) => Settled \/ broken'
  PROVE  WsInv'
  <1>1. pc = [q \in Procs |-> pc[q]] /\ loc \in [Procs -> Locals]
    BY DEF WsInv, WsShape
  <1>2. /\ pc' = [q \in Procs |-> pc'[q]] /\ loc' \in [Procs -> Locals] /\ pc'[p] = l /\ loc'[p] = r
        /\ \A q \in Procs : q # p => pc'[q] = pc[q] /\ loc'[q] = loc[q]
    BY <1>1 DEF Goto, Local
  <1>3. WsShape'
    BY <1>2 DEF WsInv, WsShape, DiskShape, disk
  <1>4. LockHeld'
    <2> SUFFICES ASSUME NEW q \in Procs
                 PROVE  /\ pc'[q] \notin {"idle", "publish"} => lockInode' # Nobody /\ loc'[q].fd = lockInode'
                        /\ pc'[q] \notin Unlocked => flock'[lockInode'] = q
      BY DEF LockHeld
    <2>1. CASE q = p
      BY <1>2, <2>1 DEF OutsideAt, Unlocked
    <2>2. CASE q # p
      BY <1>2, <2>2 DEF WsInv, LockHeld, Unlocked
    <2> QED
      BY <2>1, <2>2
  <1>5. Left'
    <2> SUFFICES ASSUME ~broken', \A q \in Procs : ~Inside(q)' PROVE Settled
      BY DEF Left, Settled, disk
    <2>1. ASSUME ~Inside(p) PROVE Settled
      BY <1>2, <2>1 DEF WsInv, Left, Inside
    <2> QED
      BY <2>1
  <1>6. Promise'
    BY DEF WsInv, Promise, Managed, disk
  <1>7. ASSUME NEW q \in Procs PROVE Stage(q, pc[q], loc[q])'
    <2>1. CASE q = p
      <3>1. Placed(l, r)' /\ Built(p, l, r)' /\ Tidy(p, l, r)'
        BY DEF Placed, Built, Tidy, OutsideAt, Unlocked, Making, Sessions
      <3> QED
        BY <1>2, <2>1, <3>1 DEF Stage, Placed, Built, Tidy, Settled, Removable
    <2>2. CASE q # p
      <3>1. Stage(q, pc[q], loc[q])
        BY DEF WsInv
      <3>2. Placed(pc[q], loc[q])'
        BY <1>2, <2>2, <3>1 DEF Stage, Placed, disk
      <3>3. Built(q, pc[q], loc[q])'
        BY <1>2, <2>2, <3>1 DEF Stage, Built, disk
      <3>4. Tidy(q, pc[q], loc[q])'
        BY <1>2, <2>2, <3>1 DEF Stage, Tidy, Settled, Removable, disk
      <3> QED
        BY <3>2, <3>3, <3>4 DEF Stage
    <2> QED
      BY <2>1, <2>2
  <1> QED
    BY <1>3, <1>4, <1>5, <1>6, <1>7 DEF WsInv

LEMMA NothingOwned == NoLocals \in Locals /\ NoLocals.own = {} /\ ~NoLocals.moved
  <1>1. Absent \in Content /\ << >> \in Seq(Paths)
    BY CleanupOrdered
  <1> QED
    BY <1>1 DEF NoLocals, Locals, Holder

LEMMA UnlockFrees ==
  ASSUME WsInv, NEW p \in Procs, Unlock(p)
  PROVE  flock' \in [Procs -> Holder] /\ \A q \in Procs \ {p} : pc[q] \notin Unlocked => flock'[lockInode] = q
  <1>1. flock \in [Procs -> Holder] /\ lockInode \in Holder
    BY DEF WsInv, WsShape
  <1>2. flock' \in [Procs -> Holder]
    BY <1>1 DEF Unlock, Holder
  <1>3. ASSUME NEW q \in Procs, q # p, pc[q] \notin Unlocked PROVE flock'[lockInode] = q
    <2>1. lockInode \in Procs /\ flock[lockInode] = q
      BY <1>1, <1>3 DEF WsInv, LockHeld, Unlocked, Holder
    <2> QED
      BY <1>3, <2>1 DEF Unlock
  <1> QED
    BY <1>2, <1>3

LEMMA AcquireKeeps == ASSUME WsInv, NEW p \in Procs, Acquire(p) PROVE WsInv'
  <1>1. /\ lockInode \in Holder /\ flock \in [Procs -> Holder] /\ loc[p] \in Locals /\ Placed(pc[p], loc[p])
        /\ \A q \in Procs : pc[q] \notin Unlocked => flock[lockInode] = q
        /\ \A q \in Procs : pc[q] \notin {"idle", "publish"} => lockInode # Nobody /\ loc[q].fd = lockInode
    BY StaysPut DEF WsInv, WsShape, LockHeld, Stage
  <1>2. CASE OpenLock(p)
    <2>1. PICK l : l = IF lockInode = Nobody THEN "publish" ELSE "opened"
      OBVIOUS
    <2>2. PICK r : r = IF lockInode = Nobody THEN loc[p] ELSE [loc[p] EXCEPT !.fd = lockInode]
      OBVIOUS
    <2>3. loc[p].own = {} /\ ~loc[p].moved
      BY <1>1, <1>2 DEF OpenLock, Placed, OutsideAt, Unlocked
    <2>4. r \in Locals /\ r.own = {} /\ ~r.moved /\ (lockInode # Nobody => r.fd = lockInode)
      BY <1>1, <2>2, <2>3 DEF Locals
    <2>5. Goto(p, l) /\ Local(p, r) /\ KeepLock /\ KeepDisk /\ ~Inside(p)
      BY <1>2, <2>1, <2>2, StaysPut DEF OpenLock, Inside
    <2> QED
      BY <1>1, <2>1, <2>4, <2>5, StandsOutside DEF KeepLock, KeepDisk, world, OutsideAt, Unlocked
  <1>3. CASE Publish(p)
    <2>1. PICK i : i = IF lockInode = Nobody THEN p ELSE lockInode
      OBVIOUS
    <2>2. PICK r : r = [loc[p] EXCEPT !.fd = i]
      OBVIOUS
    <2>3. loc[p].own = {} /\ ~loc[p].moved
      BY <1>1, <1>3 DEF Publish, Placed, OutsideAt, Unlocked
    <2>4. i \in Holder /\ i # Nobody /\ (lockInode # Nobody => i = lockInode)
      BY <1>1, <2>1, NobodyAssumption DEF Holder
    <2>5. r \in Locals /\ r.own = {} /\ ~r.moved /\ r.fd = i
      BY <1>1, <2>2, <2>3, <2>4 DEF Locals
    <2>6. lockInode' = i /\ Goto(p, "opened") /\ Local(p, r) /\ UNCHANGED flock /\ KeepDisk /\ ~Inside(p)
      BY <1>3, <2>1, <2>2 DEF Publish, Inside
    <2> QED
      BY <1>1, <2>4, <2>5, <2>6, StandsOutside DEF KeepDisk, world, OutsideAt, Unlocked
  <1>4. CASE AcquireFileLock(p)
    <2>1. /\ pc[p] = "opened" /\ UNCHANGED lockInode /\ KeepDisk /\ ~Inside(p)
          /\ lockInode \in Procs /\ loc[p].fd = lockInode /\ loc[p].own = {} /\ ~loc[p].moved
      BY <1>1, <1>4 DEF AcquireFileLock, Inside, Holder, Placed, OutsideAt, Unlocked
    <2>2. CASE flock[lockInode] = Nobody
      <3>1. PICK r : r = loc[p]
        OBVIOUS
      <3>2. flock' = [flock EXCEPT ![lockInode] = p] /\ Goto(p, "locked") /\ Local(p, r)
        BY <1>4, <2>1, <2>2, <3>1, StaysPut DEF AcquireFileLock
      <3>3. flock' \in [Procs -> Holder] /\ flock'[lockInode] = p
        BY <1>1, <2>1, <3>2 DEF Holder
      <3>4. \A q \in Procs : pc[q] \in Unlocked
        BY <1>1, <2>2, NobodyAssumption
      <3> QED
        BY <1>1, <2>1, <3>1, <3>2, <3>3, <3>4, StandsOutside DEF KeepDisk, world, OutsideAt, Unlocked
    <2>3. CASE flock[lockInode] # Nobody
      <3>1. Goto(p, "idle") /\ Local(p, NoLocals) /\ UNCHANGED flock
        BY <1>4, <2>1, <2>3 DEF AcquireFileLock
      <3> QED
        BY <1>1, <2>1, <3>1, NothingOwned, StandsOutside DEF KeepDisk, world, OutsideAt, Unlocked
    <2> QED
      BY <2>2, <2>3
  <1>5. CASE FinishAcquire(p)
    <2>1. pc[p] = "locked" /\ UNCHANGED lockInode /\ KeepDisk /\ ~Inside(p)
      BY <1>5 DEF FinishAcquire, Inside
    <2>2. CASE Unlock(p) /\ Goto(p, "idle") /\ Local(p, NoLocals)
      BY <1>1, <2>1, <2>2, NothingOwned, UnlockFrees, StandsOutside DEF KeepDisk, world, OutsideAt, Unlocked
    <2>3. CASE Goto(p, "detect") /\ UNCHANGED << flock, loc >>
      <3>1. PICK r : r = loc[p]
        OBVIOUS
      <3>2. Goto(p, "detect") /\ Local(p, r) /\ KeepLock
        BY <2>1, <2>3, <3>1, StaysPut DEF KeepLock
      <3>3. \A q \in Procs : ~Inside(q)
        BY <2>1, Apart DEF Unlocked
      <3>4. ~broken => Settled
        BY <3>3 DEF WsInv, Left
      <3>5. Placed("detect", r) /\ Built(p, "detect", r) /\ Tidy(p, "detect", r)
        BY <1>1, <2>1, <3>1, <3>4 DEF Placed, Built, Tidy, OutsideAt, Unlocked, Making, Sessions
      <3> QED
        BY <1>1, <2>1, <3>1, <3>2, <3>5, Thinks DEF Stage, OutsideAt, Unlocked
    <2> QED
      BY <1>5, <2>2, <2>3 DEF FinishAcquire
  <1> QED
    BY <1>2, <1>3, <1>4, <1>5 DEF Acquire

\* The lock is given up over a root that is gone or complete; death is not so tidy.
LEMMA LetsGoKeeps == ASSUME WsInv, NEW p \in Procs, Release(p) \/ Die(p) PROVE WsInv'
  <1>1. /\ Unlock(p) /\ Goto(p, "idle") /\ Local(p, NoLocals) /\ UNCHANGED << lockInode, disk, kind, source, anchor, foreign >>
        /\ broken => broken'
        /\ broken' \/ (pc[p] = "release" /\ UNCHANGED broken)
    BY DEF Release, Die, KeepDisk, world
  <1>2. Settled \/ broken'
    BY <1>1 DEF WsInv, Stage, Tidy
  <1>3. lockInode \in Holder
    BY DEF WsInv, WsShape
  <1> QED
    BY <1>1, <1>2, <1>3, NothingOwned, UnlockFrees, StandsOutside DEF OutsideAt, Unlocked

\* The world changes: the source, or what another program puts in the way.
LEMMA WorldKeeps == ASSUME WsInv, EditSource \/ Replace \/ UNCHANGED vars PROVE WsInv'
  <1>1. /\ UNCHANGED << lockInode, flock, pc, loc, kind, meta, admin >> /\ dir'["root"] = dir["root"] /\ DiskShape'
        /\ (foreign' /\ broken') \/ UNCHANGED << dir, tree, snap, foreign, broken >>
    <2>1. DiskShape
      BY DEF WsInv, WsShape
    <2>2. CASE EditSource
      <3>1. source' \in [Files -> Versions]
        BY <2>1, <2>2 DEF EditSource, DiskShape
      <3> QED
        BY <2>1, <2>2, <3>1 DEF EditSource, DiskShape, disk
    <2>3. CASE Replace
      <3>1. dir' \in [Paths -> Identity] /\ dir'["root"] = dir["root"] /\ dir'["temp"] = dir["temp"]
        BY <2>1, <2>3 DEF Replace, DiskShape, Paths, Identity
      <3>2. tree' \in Content
        BY <2>1, <2>3, CleanupOrdered DEF Replace, DiskShape
      <3>3. anchor' \in Identity
        BY <2>1, <2>3 DEF Replace, DiskShape, Identity
      <3> QED
        BY <2>1, <2>3, <3>1, <3>2, <3>3 DEF Replace, DiskShape
    <2>4. CASE UNCHANGED vars
      BY <2>1, <2>4 DEF vars, DiskShape
    <2> QED
      BY <2>2, <2>3, <2>4
  <1>2. WsShape' /\ LockHeld' /\ Left'
    BY <1>1 DEF WsInv, WsShape, LockHeld, Left, Inside, Settled
  <1>3. Promise'
    BY <1>1 DEF WsInv, Promise, Managed
  <1>4. ASSUME NEW q \in Procs PROVE Stage(q, pc[q], loc[q])'
    <2>1. Stage(q, pc[q], loc[q])
      BY DEF WsInv
    <2>2. Placed(pc[q], loc[q])'
      BY <1>1, <2>1 DEF Stage, Placed
    <2>3. Built(q, pc[q], loc[q])'
      BY <1>1, <2>1 DEF Stage, Built
    <2>4. Tidy(q, pc[q], loc[q])'
      BY <1>1, <2>1 DEF Stage, Tidy, Settled, Removable
    <2> QED
      BY <2>2, <2>3, <2>4 DEF Stage
  <1> QED
    BY <1>2, <1>3, <1>4 DEF WsInv

LEMMA WsStart == Init => WsInv
  <1> SUFFICES ASSUME Init PROVE WsInv
    OBVIOUS
  <1>1. DiskShape
    BY NobodyAssumption, CleanupOrdered DEF Init, DiskShape, Paths, Identity, Holder
  <1>2. WsShape
    BY <1>1, NothingOwned DEF Init, WsShape, Holder
  <1>3. LockHeld /\ Left
    BY DEF Init, LockHeld, Left, Settled, Unlocked, Paths
  <1>4. Promise
    BY DEF Init, Promise, Sub, Paths
  <1>5. ASSUME NEW p \in Procs PROVE Stage(p, "idle", NoLocals)
    BY NothingOwned DEF Stage, Placed, Built, Tidy, OutsideAt, Unlocked, Making, Sessions
  <1> QED
    BY <1>2, <1>3, <1>4, <1>5 DEF Init, WsInv

LEMMA WsStep == WsInv /\ [Next]_vars => WsInv'
  <1> SUFFICES ASSUME WsInv, [Next]_vars PROVE WsInv'
    OBVIOUS
  <1>1. ASSUME NEW p \in Procs, Open(p) PROVE WsInv'
    BY <1>1, DetectKeeps, MakeRootKeeps, AddWorktreeKeeps, FinishBatchKeeps, WriteTokenKeeps, EntryKeeps, MakeTempKeeps,
       RenameCheckoutKeeps, WriteSnapshotKeeps, ReadManifestKeeps, MakeOwnedKeeps, WriteMetaKeeps, ReuseKeeps,
       SessionKeeps DEF Open, CreateGit, CreateSnapshot
  <1>2. ASSUME NEW p \in Procs, Cleanup(p) PROVE WsInv'
    BY <1>2, QuarantineCheckKeeps, QuarantineMoveKeeps, QuarantineEndsKeeps, RemoveRootKeeps, LetsGoKeeps DEF Cleanup
  <1>3. ASSUME NEW p \in Procs, Status(p) \/ CloseSession(p) PROVE WsInv'
    BY <1>3, SessionKeeps DEF Status
  <1> QED
    BY <1>1, <1>2, <1>3, AcquireKeeps, ExpireBatchKeeps, LetsGoKeeps, WorldKeeps DEF Next

THEOREM WorkspaceInvariant == Spec => []WsInv
  BY WsStart, WsStep, PTL DEF Spec

\* Whatever processes open the ticket's workspace, edit its source and die, and whatever another program puts there: one
\* session at a time, on a checkout that is the baseline workspace.json records; nothing left behind that refuses the next
\* open; and no status answer read from metadata that is not the session's own.
THEOREM SessionIsSound == Spec => []SessionSound
  <1>1. WsInv => SessionSound
    <2> SUFFICES ASSUME WsInv PROVE SessionSound
      OBVIOUS
    <2>1. OneSession
      BY DEF OneSession, Inside, WsInv, LockHeld, Unlocked
    <2>2. SessionWhole
      BY DEF SessionWhole, WsInv, Promise, Stage, Built, Sessions
    <2>3. RetryPossible
      BY DEF RetryPossible, WsInv, Promise, Left, Settled
    <2>4. StatusOwnMetadata
      <3>1. \A p \in Procs : loc[p].read \subseteq Holder
        BY DEF WsInv, WsShape, Locals
      <3> QED
        BY <3>1, NobodyAssumption DEF StatusOwnMetadata, Holder
    <2> QED
      BY <2>1, <2>2, <2>3, <2>4 DEF SessionSound
  <1> QED
    BY <1>1, WorkspaceInvariant, PTL

\* No step of the code removes another program's directory but the quarantine, which keeps it.
THEOREM ForeignStaysKept == Spec => ForeignKept
  <1>1. ASSUME WsInv, [Next]_vars, NEW d \in Paths, dir[d] = Stranger, dir'[d] # Stranger
        PROVE  Stranger \in quarantine'
    <2>1. DiskShape /\ Stranger # Nobody /\ d \notin {"root", "temp"}
      BY <1>1, NobodyAssumption DEF WsInv, WsShape, DiskShape
    <2>2. UNCHANGED dir \/ \E p \in Procs : QuarantineMove(p)
      <3>1. ASSUME NEW p \in Procs, Acquire(p) \/ Status(p) \/ ExpireBatch(p) \/ CloseSession(p) \/ Die(p)
            PROVE  UNCHANGED dir
        BY <3>1 DEF Acquire, Status, OpenLock, Publish, AcquireFileLock, FinishAcquire, StatusBegin, StatusQuery,
           StatusRefused, StatusEnd, StatusReturned, ExpireBatch, CloseSession, Die, KeepDisk, disk
      <3>2. ASSUME NEW p \in Procs, Open(p) PROVE dir' = dir
        <4>1. CASE Raises(p)
          BY <4>1 DEF Raises, KeepDisk, disk
        <4>2. CASE ~Raises(p)
          <5>1. CASE dir' # dir
            <6>1. \/ dir["root"] = Nobody /\ dir' = [dir EXCEPT !["root"] = p]
                  \/ dir["checkout"] = Nobody /\ dir' = [dir EXCEPT !["checkout"] = p]
                  \/ dir' = [dir EXCEPT !["temp"] = p]
                  \/ dir["checkout"] = Nobody /\ dir' = [dir EXCEPT !["temp"] = Nobody, !["checkout"] = dir["temp"]]
                  \/ dir["runtime"] = Nobody /\ dir' = [dir EXCEPT !["runtime"] = p]
                  \/ dir["receipts"] = Nobody /\ dir' = [dir EXCEPT !["receipts"] = p]
              BY <3>2, <4>2, <5>1 DEF Open, Detect, MakeRoot, CreateGit, CreateSnapshot, MakeRuntime, MakeReceipts,
                 MakeOwned, WriteMeta, ReuseBegins, ReuseCompares, OpenSession, AddWorktree, FinishBatch, WriteToken,
                 MaterializeBlob, MakeTemp, RenameCheckout, WriteSnapshotManifest, ReadManifest, CopyEntry, KeepDisk, disk
            <6> QED
              BY <1>1, <2>1, <6>1 DEF DiskShape, Paths
          <5> QED
            BY <5>1
        <4> QED
          BY <4>1, <4>2
      <3>3. ASSUME NEW p \in Procs, Cleanup(p), ~QuarantineMove(p) PROVE UNCHANGED dir
        <4>1. CASE RemoveRoot(p)
          BY <1>1, <2>1, <4>1 DEF RemoveRoot, DiskShape, Paths
        <4>2. CASE ~RemoveRoot(p)
          BY <3>3, <4>2 DEF Cleanup, QuarantineCheck, QuarantineEnds, Release, KeepDisk, disk
        <4> QED
          BY <4>1, <4>2
      <3>4. EditSource \/ UNCHANGED vars => UNCHANGED dir
        BY DEF EditSource, disk, vars
      <3>5. ~Replace
        BY <1>1, <2>1 DEF Replace, DiskShape
      <3> QED
        BY <1>1, <3>1, <3>2, <3>3, <3>4, <3>5 DEF Next
    <2>3. PICK p \in Procs : QuarantineMove(p)
      BY <1>1, <2>2
    <2>4. /\ dir' # dir
          /\ UNCHANGED dir \/ /\ quarantine' = quarantine \cup ({dir[Head(loc[p].todo)]} \cap {Stranger})
                              /\ dir' = [dir EXCEPT ![Head(loc[p].todo)] = Nobody]
      BY <1>1, <2>3 DEF QuarantineMove, disk
    <2>5. d = Head(loc[p].todo)
      BY <1>1, <2>1, <2>4 DEF DiskShape
    <2> QED
      BY <1>1, <2>4, <2>5
  <1>2. WsInv /\ [Next]_vars => [\A d \in Paths : dir[d] = Stranger /\ dir'[d] # Stranger => Stranger \in quarantine']_vars
    BY <1>1
  <1> QED
    BY <1>2, WorkspaceInvariant, PTL DEF Spec, ForeignKept
=============================================================================
