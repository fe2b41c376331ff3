-------------------------- MODULE AgentTurnProofs ---------------------------
(***************************************************************************)
(* What an agent's turn relies on: file tools that stay inside and lose no *)
(* update, whatever others do to the directories; a server's answer that   *)
(* belongs to the call, whatever the server sends; the protocol of the     *)
(* loop, whatever the model replies; a task's report, whatever the tests,  *)
(* the model and the reviewer say; and the result of a command on Linux,   *)
(* whatever its threads, its launcher and its payload do.                  *)
(***************************************************************************)
EXTENDS FileTools, McpClient, AgentLoop, TaskRun, LinuxExecution, SequenceTheorems, TLAPS

Ops == {"read", "write", "edit"}
Entries == [kind : {"file", "none", "link"}, ver : Nat]
ToolCalls == [op : Ops \cup {"none"},
              pc : {"idle", "check", "open", "show", "stat", "body", "temp", "compare", "replace"},
              dir : FileDirs \cup {"none"}, prior : Nat, kind : {"file", "none", "link"},
              body : Nat, over : Nat, late : BOOLEAN, outcome : {"none", "ok", "denied", "unavailable", "no_match"}]

FileShape ==
  /\ confined \in BOOLEAN
  /\ name \in FileDirs \cup {"none"}
  /\ dirEntry \in [FileDirs -> Entries]
  /\ tool \in ToolCalls
  /\ touched \subseteq Ops \X FileDirs
  /\ foreign \in Nat

\* Every version is older than the next one others may write.
Versions == (\A d \in FileDirs : dirEntry[d].ver < foreign + 10) /\ tool.prior < foreign + 10

\* A tool past its own look at the path works in a directory it is allowed.
Inside ==
  tool.pc \notin {"idle", "check"} =>
    tool.op \in Ops /\ tool.dir \in FileDirs /\ ToolAllows(tool.op, tool.dir)

\* A file that is another than the one an edit has seen stays another.
Renewed == TargetNow.kind = "file" => tool.prior < TargetNow.ver

Seen ==
  tool.op = "edit" =>
    /\ tool.pc \in {"body", "temp", "compare"} => tool.kind = "file"
    /\ tool.pc = "body" => (TargetNow.kind = "file" => tool.prior <= TargetNow.ver)
    /\ tool.pc \in {"temp", "compare"} => tool.body = tool.prior \/ Renewed

\* The version that is about to be replaced is the one the tool started from.
Compared ==
  tool.pc = "replace" /\ ~tool.late =>
    TargetNow.ver = tool.prior /\ (tool.op = "edit" => tool.body = tool.prior)

Called == (tool.pc = "check" => tool.op \in Ops) /\ (tool.pc # "idle" => tool.outcome = "none")

FileInv ==
  FileShape /\ Versions /\ Called /\ Inside /\ Seen /\ Compared /\ ToolsStayInside /\ UpdatesKept

LEMMA FileStart == FileInit => FileInv
  BY FileAssumption DEF FileInit, FileInv, FileShape, Versions, Called, Inside, Seen, Compared, ToolsStayInside,
     UpdatesKept, NoCall, ToolCalls, Entries, Ops, FileDirs, Renewed, TargetNow

LEMMA FileStutter == FileInv /\ UNCHANGED fileVars => FileInv'
  BY DEF FileInv, fileVars, FileShape, Versions, Called, Inside, Seen, Compared, ToolsStayInside,
     UpdatesKept, Renewed, TargetNow, ToolAllows, ReadAllowed, WriteAllowed

\* A tool that is not past its own look at the path: a call, or one that ended without an effect.
Begun(op, pc, code) ==
  [op |-> op, pc |-> pc, dir |-> "none", prior |-> 0, kind |-> "none", body |-> 0, over |-> 0,
   late |-> FALSE, outcome |-> code]

LEMMA BegunIsCall ==
  ASSUME NEW op \in Ops \cup {"none"}, NEW code \in {"none", "ok", "denied", "unavailable", "no_match"},
         NEW pc \in {"idle", "check"}
  PROVE  Begun(op, pc, code) \in ToolCalls
  <1>1. "none" \in FileDirs \cup {"none"} /\ 0 \in Nat
    OBVIOUS
  <1> QED
    BY <1>1 DEF Begun, ToolCalls

LEMMA BegunKeeps ==
  ASSUME FileInv, NEW op \in Ops \cup {"none"}, NEW code \in {"none", "denied", "unavailable", "no_match"},
         NEW pc \in {"idle", "check"}, pc = "check" => op \in Ops /\ code = "none",
         tool' = Begun(op, pc, code), UNCHANGED <<confined, name, dirEntry, touched, foreign>>
  PROVE  FileInv'
  <1>1. FileShape'
    BY BegunIsCall DEF FileInv, FileShape
  <1>2. tool'.prior = 0 /\ foreign \in Nat
    BY DEF Begun, FileInv, FileShape
  <1>3. Versions'
    BY <1>2 DEF FileInv, Versions
  <1>4. Called' /\ Inside' /\ Compared' /\ UpdatesKept'
    BY DEF Begun, Called, Inside, Compared, UpdatesKept
  <1>5. Seen' /\ ToolsStayInside'
    BY DEF Begun, FileInv, Seen, ToolsStayInside
  <1> QED
    BY <1>1, <1>3, <1>4, <1>5 DEF FileInv

\* A step that ends the tool without an effect leaves nothing to be kept.
LEMMA RaiseKeeps ==
  ASSUME FileInv, NEW code \in {"denied", "unavailable", "no_match"}, Raise(code),
         UNCHANGED <<confined, name, dirEntry, touched, foreign>>
  PROVE  FileInv'
  <1>1. PICK op : op = tool.op
    OBVIOUS
  <1>2. op \in Ops \cup {"none"}
    BY <1>1 DEF FileInv, FileShape, ToolCalls
  <1>3. tool' = Begun(op, "idle", code)
    BY <1>1 DEF Raise, NoCall, Begun
  <1> QED
    BY <1>2, <1>3, BegunKeeps

LEMMA CallKeeps == ASSUME FileInv, NEW op \in Ops, Call(op) PROVE FileInv'
  <1>1. UNCHANGED <<confined, name, dirEntry, touched, foreign>>
    BY DEF Call
  <1>2. CASE tool' = [NoCall EXCEPT !.op = op, !.pc = "check"]
    <2>1. tool' = Begun(op, "check", "none")
      BY <1>2 DEF NoCall, Begun
    <2> QED
      BY <1>1, <2>1, BegunKeeps
  <1>3. CASE tool' = [NoCall EXCEPT !.op = op, !.outcome = "denied"]
    <2>1. tool' = Begun(op, "idle", "denied")
      BY <1>3 DEF NoCall, Begun
    <2> QED
      BY <1>1, <2>1, BegunKeeps
  <1> QED
    BY <1>2, <1>3 DEF Call

\* The directory the path resolves to is one of the four.
LEMMA WhereIs == FileShape => Where \in FileDirs
  BY DEF FileShape, Where, FileDirs, Entries

LEMMA CheckPathKeeps == ASSUME FileInv, CheckPath PROVE FileInv'
  <1>1. PICK dir : dir = Where
    OBVIOUS
  <1>2. dir \in FileDirs
    BY <1>1, WhereIs DEF FileInv
  <1>3. CASE ToolAllows(tool.op, dir)
    <2>1. tool' = [tool EXCEPT !.pc = "open", !.dir = dir] /\ tool.pc = "check"
      BY <1>1, <1>3 DEF CheckPath, ToolAt
    <2>2. UNCHANGED <<confined, name, dirEntry, touched, foreign>>
      BY DEF CheckPath
    <2>3. FileShape' /\ Versions' /\ Called' /\ Seen' /\ Compared' /\ UpdatesKept' /\ ToolsStayInside'
      BY <1>2, <2>1, <2>2 DEF FileInv, FileShape, ToolCalls, Versions, Called, Seen, Compared, UpdatesKept,
         ToolsStayInside
    <2>4. Inside'
      BY <1>2, <1>3, <2>1, <2>2 DEF FileInv, FileShape, ToolCalls, Called, Inside, ToolAllows, ReadAllowed,
         WriteAllowed
    <2> QED
      BY <2>3, <2>4 DEF FileInv
  <1>4. CASE ~ToolAllows(tool.op, dir)
    BY <1>1, <1>4, RaiseKeeps DEF CheckPath
  <1> QED
    BY <1>3, <1>4

LEMMA OpenParentKeeps == ASSUME FileInv, OpenParent PROVE FileInv'
  <1>1. PICK opened : opened = Opens(tool.dir)
    OBVIOUS
  <1>2. tool.pc = "open" /\ tool.dir \in FileDirs /\ tool.op \in Ops /\ ToolAllows(tool.op, tool.dir)
        /\ tool.outcome = "none"
    BY DEF FileInv, Inside, Called, OpenParent, ToolAt
  <1>3. opened \in {tool.dir, "missing", "refused"}
    BY <1>1 DEF Opens
  <1>4. CASE opened = "missing" /\ tool.op = "write"
    <2>1. /\ name' = "D" /\ dirEntry' = [dirEntry EXCEPT !["D"] = [kind |-> "none", ver |-> 0]]
          /\ tool' = [tool EXCEPT !.pc = "stat"] /\ UNCHANGED <<confined, touched, foreign>>
      BY <1>1, <1>4 DEF OpenParent
    <2>2. FileShape' /\ Versions'
      BY <1>2, <2>1 DEF FileInv, FileShape, Versions, Entries, ToolCalls, FileDirs
    <2> QED
      BY <1>2, <2>1, <2>2 DEF FileInv, FileShape, ToolCalls, Called, Inside, Seen, Compared, UpdatesKept,
         ToolsStayInside, ToolAllows, ReadAllowed, WriteAllowed
  <1>5. CASE opened \in {"missing", "refused"} /\ ~(opened = "missing" /\ tool.op = "write")
    BY <1>1, <1>5, RaiseKeeps DEF OpenParent
  <1>6. CASE opened \notin {"missing", "refused"}
    <2>1. /\ tool' = [tool EXCEPT !.dir = opened, !.pc = IF tool.op = "read" THEN "show" ELSE "stat"]
          /\ UNCHANGED <<confined, name, dirEntry, touched, foreign>>
      BY <1>1, <1>6 DEF OpenParent
    <2>2. opened = tool.dir
      BY <1>3, <1>6
    <2> QED
      BY <1>2, <2>1, <2>2 DEF FileInv, FileShape, Versions, ToolCalls, Called, Inside, Seen, Compared, UpdatesKept,
         ToolsStayInside, ToolAllows, ReadAllowed, WriteAllowed
  <1> QED
    BY <1>4, <1>5, <1>6

LEMMA ShowKeeps == ASSUME FileInv, Show PROVE FileInv'
  <1>1. tool.pc = "show" /\ tool.dir \in FileDirs /\ tool.op \in Ops /\ ToolAllows(tool.op, tool.dir)
    BY DEF FileInv, Inside, Show, ToolAt
  <1>2. CASE TargetNow.kind = "file"
    <2>1. /\ tool' = [NoCall EXCEPT !.op = "read", !.outcome = "ok"]
          /\ touched' = touched \union {<<"read", tool.dir>>}
          /\ UNCHANGED <<confined, name, dirEntry, foreign>>
      BY <1>2 DEF Show
    <2>2. tool' = Begun("read", "idle", "ok") /\ "read" \in Ops
      BY <2>1 DEF NoCall, Begun, Ops
    <2>3. FileShape'
      BY <1>1, <2>1, <2>2, BegunIsCall DEF FileInv, FileShape
    <2>4. tool'.prior = 0 /\ foreign \in Nat
      BY <2>2 DEF Begun, FileInv, FileShape
    <2>5. Versions'
      BY <2>1, <2>4 DEF FileInv, Versions
    <2>6. Called' /\ Inside' /\ Compared' /\ UpdatesKept' /\ Seen'
      BY <2>2 DEF Begun, Called, Inside, Compared, UpdatesKept, Seen
    <2>7. confined => tool.dir \in {"D", "E"}
      BY <1>1 DEF ToolAllows, ReadAllowed, WriteAllowed, Ops
    <2>9. \A t \in touched' : t \in touched \/ (t[1] = "read" /\ t[2] = tool.dir)
      BY <2>1
    <2>8. ToolsStayInside'
      BY <2>1, <2>7, <2>9 DEF FileInv, ToolsStayInside, InWorkspace
    <2> QED
      BY <2>3, <2>5, <2>6, <2>8 DEF FileInv
  <1>3. CASE TargetNow.kind # "file"
    BY <1>3, RaiseKeeps DEF Show
  <1> QED
    BY <1>2, <1>3

LEMMA StatKeeps == ASSUME FileInv, Stat PROVE FileInv'
  <1>1. tool.pc = "stat" /\ tool.dir \in FileDirs /\ tool.op \in Ops /\ ToolAllows(tool.op, tool.dir)
        /\ tool.outcome = "none"
    BY DEF FileInv, Inside, Called, Stat, ToolAt
  <1>2. PICK ver, kind : ver = TargetNow.ver /\ kind = TargetNow.kind
    OBVIOUS
  <1>3. ver \in Nat /\ ver < foreign + 10 /\ kind \in {"file", "none", "link"}
    BY <1>1, <1>2 DEF FileInv, FileShape, Versions, TargetNow, Entries
  <1>4. CASE kind = "link" \/ (tool.op = "edit" /\ kind = "none")
    BY <1>2, <1>4, RaiseKeeps DEF Stat
  <1>5. CASE ~(kind = "link" \/ (tool.op = "edit" /\ kind = "none"))
    <2>1. /\ tool' = [tool EXCEPT !.prior = ver, !.kind = kind,
                                  !.pc = IF tool.op = "edit" THEN "body" ELSE "temp"]
          /\ UNCHANGED <<confined, name, dirEntry, touched, foreign>>
      BY <1>2, <1>5 DEF Stat
    <2>2. TargetNow' = TargetNow
      BY <2>1 DEF TargetNow, FileInv, FileShape, ToolCalls
    <2>3. FileShape' /\ Versions' /\ Called' /\ Inside' /\ Compared' /\ UpdatesKept' /\ ToolsStayInside'
      BY <1>1, <1>3, <2>1 DEF FileInv, FileShape, Versions, ToolCalls, Called, Inside, Compared, UpdatesKept,
         ToolsStayInside, ToolAllows, ReadAllowed, WriteAllowed
    <2>4. Seen'
      BY <1>1, <1>2, <1>3, <1>5, <2>1, <2>2 DEF FileInv, FileShape, ToolCalls, Seen
    <2> QED
      BY <2>3, <2>4 DEF FileInv
  <1> QED
    BY <1>4, <1>5

LEMMA ReadBodyKeeps == ASSUME FileInv, ReadBody PROVE FileInv'
  <1>1. tool.pc = "body" /\ tool.dir \in FileDirs /\ tool.op \in Ops /\ ToolAllows(tool.op, tool.dir)
        /\ tool.outcome = "none"
    BY DEF FileInv, Inside, Called, ReadBody, ToolAt
  <1>2. PICK ver : ver = TargetNow.ver
    OBVIOUS
  <1>3. ver \in Nat
    BY <1>1, <1>2 DEF FileInv, FileShape, TargetNow, Entries
  <1>4. UNCHANGED <<confined, name, dirEntry, touched, foreign>>
    BY DEF ReadBody
  <1>5. CASE TargetNow.kind = "file" /\ tool' = [tool EXCEPT !.body = ver, !.pc = "temp"]
    <2>1. TargetNow' = TargetNow
      BY <1>4, <1>5 DEF TargetNow, FileInv, FileShape, ToolCalls
    <2>2. FileShape' /\ Versions' /\ Called' /\ Inside' /\ Compared' /\ UpdatesKept' /\ ToolsStayInside'
      BY <1>1, <1>3, <1>4, <1>5 DEF FileInv, FileShape, Versions, ToolCalls, Called, Inside, Compared, UpdatesKept,
         ToolsStayInside, ToolAllows, ReadAllowed, WriteAllowed
    <2>3. Seen'
      BY <1>1, <1>2, <1>3, <1>5, <2>1 DEF FileInv, FileShape, ToolCalls, Seen, Renewed
    <2> QED
      BY <2>2, <2>3 DEF FileInv
  <1>6. CASE Raise("no_match")
    BY <1>4, <1>6, RaiseKeeps
  <1> QED
    BY <1>2, <1>5, <1>6 DEF ReadBody

LEMMA WriteTemporaryKeeps == ASSUME FileInv, WriteTemporary PROVE FileInv'
  <1>1. tool.pc = "temp" /\ UNCHANGED <<confined, name, dirEntry, touched, foreign>>
    BY DEF WriteTemporary, ToolAt
  <1>2. CASE tool' = [tool EXCEPT !.pc = "compare"]
    <2>1. TargetNow' = TargetNow
      BY <1>1, <1>2 DEF TargetNow, FileInv, FileShape, ToolCalls
    <2> QED
      BY <1>1, <1>2, <2>1 DEF FileInv, FileShape, Versions, ToolCalls, Called, Inside, Seen, Renewed, Compared,
         UpdatesKept, ToolsStayInside, ToolAllows, ReadAllowed, WriteAllowed
  <1>3. CASE Raise("unavailable")
    BY <1>1, <1>3, RaiseKeeps
  <1> QED
    BY <1>2, <1>3 DEF WriteTemporary

LEMMA CompareKeeps == ASSUME FileInv, Compare PROVE FileInv'
  <1>1. tool.pc = "compare" /\ UNCHANGED <<confined, name, dirEntry, touched, foreign>>
    BY DEF Compare, ToolAt
  <1>2. CASE Unchanged(TargetNow)
    <2>1. tool' = [tool EXCEPT !.pc = "replace"]
      BY <1>2 DEF Compare
    <2>2. TargetNow' = TargetNow
      BY <1>1, <2>1 DEF TargetNow, FileInv, FileShape, ToolCalls
    <2>3. FileShape' /\ Versions' /\ Called' /\ Inside' /\ Seen' /\ UpdatesKept' /\ ToolsStayInside'
      BY <1>1, <2>1 DEF FileInv, FileShape, Versions, ToolCalls, Called, Inside, Seen, UpdatesKept,
         ToolsStayInside, ToolAllows, ReadAllowed, WriteAllowed
    <2>4. TargetNow.ver = tool.prior /\ (tool.op = "edit" => TargetNow.kind = "file")
      BY <1>1, <1>2 DEF Unchanged, FileInv, Seen
    <2>5. tool.op = "edit" => tool.body = tool.prior
      BY <1>1, <2>4 DEF FileInv, FileShape, ToolCalls, Seen, Renewed
    <2>6. Compared'
      BY <2>1, <2>2, <2>4, <2>5 DEF Compared, FileInv, FileShape, ToolCalls
    <2> QED
      BY <2>3, <2>6 DEF FileInv
  <1>3. CASE ~Unchanged(TargetNow)
    BY <1>1, <1>3, RaiseKeeps DEF Compare
  <1> QED
    BY <1>2, <1>3

LEMMA ReplaceKeeps == ASSUME FileInv, Replace PROVE FileInv'
  <1>1. tool.pc = "replace" /\ tool.dir \in FileDirs /\ tool.op \in Ops /\ ToolAllows(tool.op, tool.dir)
    BY DEF FileInv, Inside, Replace, ToolAt
  <1>2. PICK ver : ver = TargetNow.ver
    OBVIOUS
  <1>3. ver \in Nat
    BY <1>1, <1>2 DEF FileInv, FileShape, TargetNow, Entries
  <1>4. PICK new : new = [kind |-> "file", ver |-> foreign + 2]
    OBVIOUS
  <1>5. new \in Entries /\ new.ver < foreign + 10
    BY <1>4 DEF Entries, FileInv, FileShape
  <1>6. /\ dirEntry' = [dirEntry EXCEPT ![tool.dir] = new]
        /\ tool' = [tool EXCEPT !.pc = "idle", !.over = ver, !.outcome = "ok"]
        /\ touched' = touched \union {<<tool.op, tool.dir>>}
        /\ UNCHANGED <<confined, name, foreign>>
    BY <1>2, <1>4 DEF Replace
  <1>7. dirEntry' \in [FileDirs -> Entries]
    BY <1>5, <1>6 DEF FileInv, FileShape
  <1>11. tool' \in ToolCalls
    BY <1>3, <1>6 DEF FileInv, FileShape, ToolCalls
  <1>12. FileShape'
    BY <1>1, <1>6, <1>7, <1>11 DEF FileInv, FileShape
  <1>13. \A d \in FileDirs : dirEntry'[d] = dirEntry[d] \/ dirEntry'[d] = new
    BY <1>6 DEF FileInv, FileShape
  <1>14. tool'.prior = tool.prior
    BY <1>6 DEF FileInv, FileShape, ToolCalls
  <1>15. Versions'
    BY <1>5, <1>6, <1>13, <1>14 DEF FileInv, Versions
  <1>8. Called' /\ Inside' /\ Seen' /\ Compared'
    BY <1>6 DEF FileInv, FileShape, ToolCalls, Called, Inside, Seen, Compared
  <1>9. UpdatesKept'
    BY <1>1, <1>2, <1>6 DEF FileInv, FileShape, ToolCalls, Compared, UpdatesKept
  <1>10. ToolsStayInside'
    BY <1>1, <1>6 DEF FileInv, FileShape, ToolsStayInside, ToolAllows, ReadAllowed, WriteAllowed, InWorkspace,
       Ops, FileDirs
  <1> QED
    BY <1>8, <1>9, <1>10, <1>12, <1>15 DEF FileInv

\* Whatever others do, the version they leave is newer than any a tool has seen.
LEMMA ForeignKeeps == ASSUME FileInv, Foreign PROVE FileInv'
  <1>1. foreign' = foreign + 1 /\ foreign \in Nat /\ UNCHANGED <<confined, touched>>
    BY DEF Foreign, FileInv, FileShape
  <1>2. CASE UNCHANGED <<dirEntry, tool>> /\ name' \in FileDirs \cup {"none"}
    <2>1. TargetNow' = TargetNow
      BY <1>2 DEF TargetNow
    <2>2. FileShape' /\ Versions'
      BY <1>1, <1>2 DEF FileInv, FileShape, Versions, ToolCalls, Entries
    <2> QED
      BY <1>1, <1>2, <2>1, <2>2 DEF FileInv, Called, Inside, Seen, Renewed, Compared, UpdatesKept, ToolsStayInside,
         ToolAllows, ReadAllowed, WriteAllowed
  <1>3. ASSUME NEW dir \in FileDirs, NEW new \in Entries, new.ver < foreign + 11,
               new.kind = "file" => new.ver = foreign + 10,
               dirEntry' = [dirEntry EXCEPT ![dir] = new],
               tool' = [tool EXCEPT !.late = @ \/ tool.pc = "replace"], name' = name
        PROVE  FileInv'
    <2>1. dirEntry' \in [FileDirs -> Entries]
      BY <1>3 DEF FileInv, FileShape
    <2>7. \A d \in FileDirs : dirEntry'[d] = dirEntry[d] \/ dirEntry'[d] = new
      BY <1>3 DEF FileInv, FileShape
    <2>8. tool'.prior = tool.prior /\ tool.prior \in Nat /\ \A d \in FileDirs : dirEntry[d].ver \in Nat
      BY <1>3 DEF FileInv, FileShape, ToolCalls, Entries
    <2>9. Versions'
      BY <1>1, <1>3, <2>7, <2>8 DEF FileInv, Versions
    <2>5. tool' \in ToolCalls
      BY <1>3 DEF FileInv, FileShape, ToolCalls
    <2>6. FileShape'
      BY <1>1, <1>3, <2>1, <2>5 DEF FileInv, FileShape
    <2>2. Called' /\ Inside' /\ Compared' /\ UpdatesKept' /\ ToolsStayInside'
      BY <1>1, <1>3 DEF FileInv, FileShape, ToolCalls, Called, Inside, Compared, UpdatesKept, ToolsStayInside,
         ToolAllows, ReadAllowed, WriteAllowed
    <2>3. TargetNow' = TargetNow \/ TargetNow' = new
      BY <1>3 DEF TargetNow, FileInv, FileShape, ToolCalls
    <2>4. Seen'
      BY <1>1, <1>3, <2>3 DEF FileInv, FileShape, Versions, ToolCalls, Entries, Seen, Renewed
    <2> QED
      BY <2>2, <2>4, <2>6, <2>9 DEF FileInv
  <1>4. ASSUME NEW dir \in {"D", "E"}, NEW kind \in {"file", "none", "link"},
               dirEntry' = [dirEntry EXCEPT ![dir] =
                              [kind |-> kind, ver |-> IF kind = "none" THEN 0 ELSE foreign + 10]],
               tool' = [tool EXCEPT !.late = @ \/ tool.pc = "replace"], name' = name
        PROVE  FileInv'
    <2>1. PICK new : new = [kind |-> kind, ver |-> IF kind = "none" THEN 0 ELSE foreign + 10]
      OBVIOUS
    <2>2. new \in Entries /\ new.ver < foreign + 11 /\ (new.kind = "file" => new.ver = foreign + 10)
      BY <1>1, <1>4, <2>1 DEF Entries
    <2>3. dirEntry' = [dirEntry EXCEPT ![dir] = new] /\ dir \in FileDirs
      BY <1>4, <2>1 DEF FileDirs
    <2> QED
      BY <1>3, <1>4, <2>2, <2>3
  <1> QED
    BY <1>2, <1>4 DEF Foreign

\* However others rebind names and replace files, the tools stay inside their
\* directories and lose no update (builtin.py).
THEOREM FileToolsKeepInside == FileSpec => []FileToolsSafe
  <1>1. FileInv /\ [FileNext]_fileVars => FileInv'
    BY FileStutter, CallKeeps, CheckPathKeeps, OpenParentKeeps, ShowKeeps, StatKeeps, ReadBodyKeeps,
       WriteTemporaryKeeps, CompareKeeps, ReplaceKeeps, ForeignKeeps DEF FileNext, Ops
  <1>2. FileInv => FileToolsSafe
    BY DEF FileInv, FileToolsSafe
  <1> QED
    BY FileStart, <1>1, <1>2, PTL DEF FileSpec

-----------------------------------------------------------------------------
\* The frames of a server, and what is in the queue between it and the client.
FrameKinds == {"end", "call", "note", "batch", "garbage", "answer", "error"}
McpFrames == [kind : FrameKinds, id : Nat, session : Nat]
Methods == {"initialize", "tools/list", "tools/call"}
Errors == {"spawn_failed", "transport_closed", "timeout", "oversize", "protocol_error", "batch_not_supported",
           "remote_error"}
McpClients == [pc : {"idle", "send", "wait", "refuse", "notify"}, id : Nat, method : Methods \cup {"none"},
               outcome : Errors \cup {"none", "result"}, got : McpFrames, refusals : Nat, session : Nat]
Readers == [queue : Seq(McpFrames), ended : BOOLEAN, error : BOOLEAN]

McpShape ==
  /\ client \in McpClients
  /\ server.asked \subseteq Nat
  /\ input \in Seq(Nat)
  /\ output \in Seq(McpFrames)
  /\ reader \in Readers

\* Every answer on its way to the client was written by the process of this session.
OfThisSession(q) == \A i \in 1..Len(q) : q[i].kind = "answer" => q[i].session = client.session

\* The client tells the server it is ready only after the server answered.
Noted ==
  client.pc = "notify" =>
    client.got.kind = "answer" /\ client.got.id = client.id /\ client.got.session = client.session

McpInv ==
  McpShape /\ OfThisSession(output) /\ OfThisSession(reader.queue) /\ Noted /\ AnswersTheCall

LEMMA McpStart == McpInit => McpInv
  BY DEF McpInit, McpInv, McpShape, McpClients, McpFrames, FrameKinds, Readers, NoReader, EndFrame, OfThisSession,
     Noted, AnswersTheCall

LEMMA McpStutter == McpInv /\ UNCHANGED mcpVars => McpInv'
  BY DEF mcpVars, McpInv, McpShape, OfThisSession, Noted, AnswersTheCall

\* A queue of one more frame, and of one frame less.
LEMMA OneMore ==
  ASSUME NEW q \in Seq(McpFrames), OfThisSession(q), NEW f \in McpFrames,
         f.kind = "answer" => f.session = client.session
  PROVE  Append(q, f) \in Seq(McpFrames) /\ OfThisSession(Append(q, f))
  BY DEF OfThisSession

LEMMA OneLess ==
  ASSUME NEW q \in Seq(McpFrames), OfThisSession(q), q # <<>>
  PROVE  /\ Head(q) \in McpFrames /\ (Head(q).kind = "answer" => Head(q).session = client.session)
         /\ Tail(q) \in Seq(McpFrames) /\ OfThisSession(Tail(q))
  BY DEF OfThisSession

LEMMA NoFrames == <<>> \in Seq(McpFrames) /\ OfThisSession(<<>>) /\ EndFrame \in McpFrames
  BY DEF OfThisSession, EndFrame, McpFrames, FrameKinds

\* A request that ends with an error.
LEMMA RaisedKeeps ==
  ASSUME McpShape, NEW code \in Errors, Raised(code)
  PROVE  /\ client' \in McpClients /\ client'.session = client.session
         /\ Noted' /\ AnswersTheCall'
  BY DEF McpShape, McpClients, Errors, Raised, Noted, AnswersTheCall

LEMMA StartServerKeeps == ASSUME McpInv, StartServer PROVE McpInv'
  <1>1. CASE UNCHANGED <<server, input, output, reader>> /\ Raised("spawn_failed")
    <2>1. client' \in McpClients /\ client'.session = client.session /\ Noted' /\ AnswersTheCall'
      BY <1>1, RaisedKeeps DEF McpInv, Errors
    <2> QED
      BY <1>1, <2>1 DEF McpInv, McpShape, OfThisSession
  <1>2. CASE /\ server' = [state |-> "up", asked |-> {}]
             /\ input' = <<>> /\ output' = <<>> /\ reader' = NoReader
             /\ client' = [client EXCEPT !.session = @ + 1, !.outcome = "none"]
    <2>3. PICK session : session = client.session + 1
      OBVIOUS
    <2>4. session \in Nat /\ client' = [client EXCEPT !.session = session, !.outcome = "none"]
      BY <1>2, <2>3 DEF McpInv, McpShape, McpClients
    <2>1. client' \in McpClients /\ client'.outcome = "none" /\ client'.pc = client.pc /\ client.pc = "idle"
      BY <2>4 DEF McpInv, McpShape, McpClients, StartServer, ClientIdle
    <2>2. McpShape'
      BY <1>2, <2>1 DEF McpShape, NoReader, Readers
    <2> QED
      BY <1>2, <2>1, <2>2 DEF McpInv, NoReader, OfThisSession, Noted, AnswersTheCall
  <1> QED
    BY <1>1, <1>2 DEF StartServer

LEMMA CloseKeeps == ASSUME McpInv, Close PROVE McpInv'
  <1>1. client' \in McpClients /\ client'.outcome = "none" /\ client'.pc = "idle"
    BY DEF Close, ClientIdle, McpInv, McpShape, McpClients
  <1>2. McpShape'
    BY <1>1 DEF Close, McpShape, NoReader, Readers
  <1> QED
    BY <1>1, <1>2 DEF Close, McpInv, NoReader, OfThisSession, Noted, AnswersTheCall

LEMMA SendRequestKeeps ==
  ASSUME McpInv, NEW method \in Methods, SendRequest(method) PROVE McpInv'
  <1>2. PICK id : id = client.id + 1
    OBVIOUS
  <1>3. /\ id \in Nat
        /\ client' = [client EXCEPT !.pc = "send", !.id = id, !.method = method, !.outcome = "none", !.got = EndFrame]
    BY <1>2 DEF SendRequest, McpInv, McpShape, McpClients
  <1>1. client' \in McpClients /\ client'.outcome = "none" /\ client'.pc = "send" /\ client'.session = client.session
    BY <1>3, NoFrames DEF McpInv, McpShape, McpClients
  <1> QED
    BY <1>1 DEF SendRequest, McpInv, McpShape, OfThisSession, Noted, AnswersTheCall

\* A frame to the server: the request, the refusal of a call, or the note that the client is ready.
LEMMA SendKeeps == ASSUME McpInv, Send \/ SendRefusal \/ SendInitialized PROVE McpInv'
  <1>1. UNCHANGED <<server, output, reader, written>>
    BY DEF Send, SendRefusal, SendInitialized
  <1>2. CASE Raised("transport_closed") /\ UNCHANGED input
    <2>1. client' \in McpClients /\ client'.session = client.session /\ Noted' /\ AnswersTheCall'
      BY <1>2, RaisedKeeps DEF McpInv, Errors
    <2> QED
      BY <1>1, <1>2, <2>1 DEF McpInv, McpShape, OfThisSession
  <1>3. CASE ~(Raised("transport_closed") /\ UNCHANGED input)
    <2>1. PICK frame \in Nat : input' = Append(input, frame)
      BY <1>3 DEF Send, SendRefusal, SendInitialized, SendRaw, McpInv, McpShape, McpClients
    <2>2. \/ client' = [client EXCEPT !.pc = "wait"]
          \/ client.pc = "notify" /\ client' = [client EXCEPT !.pc = "idle", !.outcome = "result"]
      BY <1>3 DEF Send, SendRefusal, SendInitialized, SendRaw
    <2>3. /\ client' \in McpClients /\ client'.session = client.session /\ client'.pc # "notify"
          /\ client'.got = client.got /\ client'.id = client.id
          /\ client'.outcome = client.outcome \/ client.pc = "notify"
      BY <2>2 DEF McpInv, McpShape, McpClients
    <2>4. McpShape'
      BY <1>1, <2>1, <2>3 DEF McpInv, McpShape
    <2> QED
      BY <1>1, <2>3, <2>4 DEF McpInv, OfThisSession, Noted, AnswersTheCall
  <1> QED
    BY <1>2, <1>3

LEMMA TimeoutKeeps == ASSUME McpInv, Timeout PROVE McpInv'
  <1>1. client' \in McpClients /\ client'.session = client.session /\ Noted' /\ AnswersTheCall'
    BY RaisedKeeps DEF Timeout, McpInv, Errors
  <1> QED
    BY <1>1 DEF Timeout, McpInv, McpShape, OfThisSession

LEMMA ReceiveKeeps == ASSUME McpInv, Receive PROVE McpInv'
  <1>1. PICK frame : frame = Head(reader.queue)
    OBVIOUS
  <1>2. reader.queue \in Seq(McpFrames) /\ reader.queue # <<>> /\ client.pc = "wait"
    BY DEF Receive, McpInv, McpShape, Readers
  <1>3. frame \in McpFrames /\ (frame.kind = "answer" => frame.session = client.session)
    BY <1>1, <1>2, OneLess DEF McpInv
  <1>4. reader' \in Readers /\ OfThisSession(reader'.queue)
    BY <1>2, OneLess DEF Receive, McpInv, McpShape, Readers
  <1>5. client' \in McpClients /\ client'.session = client.session /\ Noted' /\ AnswersTheCall'
    <2>1. Take(frame)
      BY <1>1 DEF Receive
    <2>2. CASE \E code \in {"oversize", "transport_closed", "protocol_error", "remote_error"} : Raised(code)
      BY <2>2, RaisedKeeps DEF McpInv, Errors
    <2>3. CASE ~\E code \in {"oversize", "transport_closed", "protocol_error", "remote_error"} : Raised(code)
      <3>1. PICK more : more = IF client.refusals < MaxRefusals THEN client.refusals + 1 ELSE client.refusals
        OBVIOUS
      <3>2. more \in Nat /\ RefusalNoted = [client EXCEPT !.refusals = more]
        BY <3>1 DEF RefusalNoted, McpInv, McpShape, McpClients
      <3>3. CASE client' \in {[RefusalNoted EXCEPT !.pc = "refuse"], RefusalNoted,
                              [RefusalNoted EXCEPT !.pc = "idle", !.outcome = "batch_not_supported"]}
        BY <1>2, <3>2, <3>3 DEF McpInv, McpShape, McpClients, Errors, Noted, AnswersTheCall
      <3>4. CASE /\ frame.kind = "answer" /\ Matches(frame)
                 /\ client' = [client EXCEPT !.got = frame,
                                 !.outcome = IF client.method = "initialize" THEN "none" ELSE "result",
                                 !.pc = IF client.method = "initialize" THEN "notify" ELSE "idle"]
        BY <1>3, <3>4 DEF Matches, McpInv, McpShape, McpClients, Noted, AnswersTheCall
      <3> QED
        BY <2>1, <2>3, <3>3, <3>4 DEF Take
    <2> QED
      BY <2>2, <2>3
  <1>6. UNCHANGED <<server, input, output>>
    BY DEF Receive
  <1> QED
    BY <1>4, <1>5, <1>6 DEF McpInv, McpShape, OfThisSession

LEMMA ReaderTakesKeeps == ASSUME McpInv, ReaderTakes PROVE McpInv'
  <1>1. UNCHANGED <<client, server, input, written>>
    BY DEF ReaderTakes
  <1>2. reader.queue \in Seq(McpFrames) /\ output \in Seq(McpFrames)
    BY DEF McpInv, McpShape, Readers
  <1>3. EndFrame.kind # "answer"
    BY DEF EndFrame
  <1>4. /\ Append(reader.queue, EndFrame) \in Seq(McpFrames)
        /\ OfThisSession(Append(reader.queue, EndFrame))
    BY <1>2, <1>3, NoFrames, OneMore DEF McpInv
  <1>5. CASE /\ output # <<>> /\ reader' = [reader EXCEPT !.queue = Append(@, Head(output))]
             /\ output' = Tail(output)
    <2>1. /\ Append(reader.queue, Head(output)) \in Seq(McpFrames)
          /\ OfThisSession(Append(reader.queue, Head(output)))
      BY <1>2, <1>5, OneLess, OneMore DEF McpInv
    <2>2. reader' \in Readers /\ OfThisSession(reader'.queue)
      BY <1>5, <2>1 DEF McpInv, McpShape, Readers
    <2>3. output' \in Seq(McpFrames) /\ OfThisSession(output')
      BY <1>2, <1>5, OneLess DEF McpInv
    <2> QED
      BY <1>1, <2>2, <2>3 DEF McpInv, McpShape, OfThisSession, Noted, AnswersTheCall
  <1>6. CASE /\ UNCHANGED output /\ reader'.queue = Append(reader.queue, EndFrame)
             /\ reader' \in Readers
    <2>1. reader' \in Readers /\ OfThisSession(reader'.queue)
      BY <1>4, <1>6
    <2> QED
      BY <1>1, <1>6, <2>1 DEF McpInv, McpShape, OfThisSession, Noted, AnswersTheCall
  <1>7. CASE /\ output = <<>> /\ UNCHANGED output
             /\ reader' = [reader EXCEPT !.queue = Append(@, EndFrame), !.ended = TRUE]
    <2>1. reader' \in Readers /\ reader'.queue = Append(reader.queue, EndFrame)
      BY <1>4, <1>7 DEF McpInv, McpShape, Readers
    <2> QED
      BY <1>6, <1>7, <2>1
  <1>8. CASE /\ UNCHANGED output
             /\ reader' = [queue |-> Append(reader.queue, EndFrame), ended |-> TRUE, error |-> TRUE]
    BY <1>4, <1>6, <1>8 DEF Readers
  <1> QED
    BY <1>5, <1>7, <1>8 DEF ReaderTakes

LEMMA ServerKeeps == ASSUME McpInv, ServerReads \/ ServerWrites \/ ServerExits PROVE McpInv'
  <1>1. CASE ServerReads
    <2>1. server'.asked \subseteq Nat /\ input' \in Seq(Nat)
      BY <1>1 DEF ServerReads, McpInv, McpShape
    <2> QED
      BY <1>1, <2>1 DEF ServerReads, McpInv, McpShape, OfThisSession, Noted, AnswersTheCall
  <1>2. CASE ServerWrites
    <2>3. \A kind \in FrameKinds, id \in Nat : [kind |-> kind, id |-> id, session |-> client.session] \in McpFrames
      BY DEF McpInv, McpShape, McpFrames, McpClients
    <2>4. PICK kind \in FrameKinds, id \in Nat :
            output' = Append(output, [kind |-> kind, id |-> id, session |-> client.session])
      BY <1>2, Zenon DEF ServerWrites, McpInv, McpShape, FrameKinds
    <2>1. PICK f \in McpFrames : output' = Append(output, f) /\ f.session = client.session
      BY <2>3, <2>4
    <2>2. output' \in Seq(McpFrames) /\ OfThisSession(output')
      BY <2>1, OneMore DEF McpInv, McpShape
    <2> QED
      BY <1>2, <2>2 DEF ServerWrites, McpInv, McpShape, OfThisSession, Noted, AnswersTheCall
  <1>3. CASE ServerExits
    BY <1>3 DEF ServerExits, McpInv, McpShape, OfThisSession, Noted, AnswersTheCall
  <1> QED
    BY <1>1, <1>2, <1>3

\* A call returns what the process of this session answered to this request,
\* whatever servers send and however late (mcp_client.py, _request).
THEOREM AnswersBelong == McpSpec => []AnswersTheCall
  <1>1. McpInv /\ [McpNext]_mcpVars => McpInv'
    BY McpStutter, StartServerKeeps, CloseKeeps, SendRequestKeeps, SendKeeps, TimeoutKeeps, ReceiveKeeps,
       ReaderTakesKeeps, ServerKeeps DEF McpNext, Methods
  <1>2. McpInv => AnswersTheCall
    BY DEF McpInv
  <1> QED
    BY McpStart, <1>1, <1>2, PTL DEF McpSpec

-----------------------------------------------------------------------------
(***************************************************************************)
(* AgentLoop.  A request is well formed because the results of a reply are *)
(* appended one after another (Laid).  That the outputs are complete at a  *)
(* success rests on who may set the demanded tool back to "auto"           *)
(* (Demanded), and that the check follows the reads on the phase of the    *)
(* inspection while it is demanded (InspectionDue).                        *)
(***************************************************************************)

\* No step makes the model know less; only compaction drops messages.
Knows ==
  /\ told \subseteq told'
  /\ mentioned \cap {unclosed[i] : i \in DOMAIN unclosed} \subseteq mentioned' \cup told'

LEMMA RequestsTell == ASSUME NEW compacting, Request(compacting) PROVE Knows
  BY DEF Request, Told, Knows

LEMMA StepsTell == [LoopNext]_loopVars => [Knows]_loopVars
  <1> SUFFICES ASSUME LoopNext, ~UNCHANGED loopVars PROVE Knows
    OBVIOUS
  <1>1. ASSUME NEW valid, NEW outcome, NEW closed, CallRuns(valid, outcome, closed) PROVE Knows
    BY <1>1 DEF CallRuns, Knows
  <1>2. CASE TurnStops \/ CallsSkipped \/ TurnEnds \/ \E valid \in BOOLEAN : CallRefused(valid)
    BY <1>2 DEF TurnStops, CallsSkipped, TurnEnds, CallRefused, histVars, Knows
  <1>3. CASE \E compacting \in BOOLEAN :
               \/ BackendFails(compacting) \/ ReplyText(compacting)
               \/ \E reply \in Replies : ReplyCalls(compacting, reply)
               \/ \E n \in 0 .. MaxReply : ReplyOverBudget(compacting, n)
    BY <1>3, RequestsTell, Zenon DEF BackendFails, ReplyText, ReplyCalls, ReplyOverBudget
  <1> QED
    BY <1>1, <1>2, <1>3, Zenon DEF LoopNext

\* Whatever the history is shortened by, an unclosed side effect that the model
\* was told of, or that a result mentions and the list still holds, stays known.
THEOREM EffectsStayKnown == LoopSpec => ContextKept
  <1>1. [LoopNext]_loopVars => [/\ told \subseteq told'
                               /\ mentioned \cap {unclosed[i] : i \in DOMAIN unclosed}
                                    \subseteq mentioned' \cup told']_loopVars
    BY StepsTell DEF Knows
  <1> QED
    BY <1>1, PTL DEF LoopSpec, ContextKept

Messages == {"assistant", "tool", "user"} \X Nat
AllCalls == UNION {cf.calls : cf \in Configs}
Args == Worklist \cup Files \cup {"round"} \cup {call[2] : call \in AllCalls}
Phases == {Nothing, "prepare", "read", "check"}
Deferrals == {Nothing, "auto", "inspection", "submit_artifact", "submit_review_round"}
Named == Deferrals \cup {"edit_file", "write_file"}
           \cup {cf.choice : cf \in Configs} \cup {cf.afterRead : cf \in Configs}
Controls ==
  [choice : Named, forced : Named, onNoTool : Named, retries : Int, phase : Phases,
   unread : SUBSET Args, edits : SUBSET Args, editing : BOOLEAN, complete : BOOLEAN,
   read : SUBSET Args, deferred : Deferrals, prompts : Nat]

LoopShape ==
  /\ config \in Configs
  /\ ctl \in Controls
  /\ calls \in Seq(AllCalls)
  /\ recent \in Seq(Messages)
  /\ inspected \in [made : BOOLEAN, read : SUBSET Args]
  /\ effects \in Nat

\* The results of a reply follow it one after another.
Laid ==
  /\ place = "top" => Paired(recent)
  /\ place = "calls" =>
       /\ recent # <<>> /\ recent[1] = Assistant(Len(recent) - 1 + Len(calls))
       /\ \A i \in 2 .. Len(recent) : recent[i][1] = "tool"

Must == config.broker /\ config.onNoTool = "submit_artifact"
Handed == {Nothing, "submit_artifact", "submit_review_round", "inspection", "edit_file"}

\* No tool is demanded any more only because nothing is missing.
Demanded(c, miss) ==
  /\ c.onNoTool \in {Nothing, config.onNoTool}
  /\ c.deferred = "auto" => miss = {}
  /\ Must => c.forced \in Handed
  /\ Must /\ c.choice = "auto" /\ c.onNoTool = Nothing => miss = {}

\* While the inspection is demanded, what is listed was read or is to be read.
InspectionDue(c, seen) ==
  /\ c.deferred = "inspection" => c.phase = "prepare" /\ c.forced # "inspection"
  /\ c.forced = "inspection" /\ config.codeList /\ c.phase # "prepare" =>
       /\ seen.made /\ Worklist \subseteq seen.read \cup c.unread
       /\ c.phase = "check" => Worklist \subseteq seen.read

LoopInv ==
  /\ LoopShape /\ Laid /\ Demanded(ctl, missing) /\ InspectionDue(ctl, inspected)
  /\ ArtifactsDelivered

LEMMA Distinct ==
  /\ Nothing # "auto" /\ Nothing # "inspection" /\ Nothing # "submit_artifact"
  /\ Nothing # "submit_review_round" /\ Nothing # "edit_file" /\ Nothing # "write_file"
  /\ Nothing # "prepare" /\ Nothing # "read" /\ Nothing # "check" /\ Nothing # "no_tool_calls"
  BY StepAssumption

\* Prompts of the host after a well-formed request leave it well formed.
LEMMA PromptsPaired ==
  ASSUME NEW ms \in Seq(Messages), Paired(ms), NEW more \in Seq(Messages), Len(ms) <= Len(more),
         \A i \in 1 .. Len(ms) : more[i] = ms[i],
         \A i \in Len(ms) + 1 .. Len(more) : more[i] = User
  PROVE  Paired(more)
  <1>1. \A i \in DOMAIN more : more[i][1] # "user" => i \in DOMAIN ms /\ more[i] = ms[i]
    BY DEF User
  <1>2. {i \in DOMAIN more : more[i][1] = "tool"} = {i \in DOMAIN ms : ms[i][1] = "tool"}
    BY <1>1
  <1>3. \A i \in DOMAIN more : more[i][1] = "assistant" =>
          i + 1 .. i + more[i][2] \subseteq {k \in DOMAIN more : more[k][1] = "tool"}
    BY <1>1, <1>2 DEF Paired
  <1>4. ASSUME NEW i \in {k \in DOMAIN more : more[k][1] = "tool"}
        PROVE  \E j \in 1 .. i - 1 : more[j][1] = "assistant" /\ i <= j + more[j][2]
    <2>1. i \in DOMAIN ms /\ i \in {k \in DOMAIN ms : ms[k][1] = "tool"}
      BY <1>1, <1>4
    <2>2. PICK j \in 1 .. i - 1 : ms[j][1] = "assistant" /\ i <= j + ms[j][2]
      BY <2>1 DEF Paired
    <2>3. j \in 1 .. Len(ms)
      BY <2>1
    <2> QED
      BY <2>2, <2>3
  <1> QED
    BY <1>3, <1>4 DEF Paired

LEMMA PromptPaired ==
  ASSUME NEW ms \in Seq(Messages), Paired(ms), NEW k \in Nat
  PROVE  /\ ms \o [i \in 1 .. k |-> User] \in Seq(Messages)
         /\ Paired(ms \o [i \in 1 .. k |-> User])
  <1> DEFINE more == ms \o [i \in 1 .. k |-> User]
  <1>1. /\ more \in Seq(Messages) /\ Len(more) = Len(ms) + k
        /\ \A i \in 1 .. Len(ms) : more[i] = ms[i]
        /\ \A i \in Len(ms) + 1 .. Len(ms) + k : more[i] = User
    BY DEF Messages, User
  <1> HIDE DEF more
  <1>2. Paired(more)
    BY <1>1, PromptsPaired
  <1> QED
    BY <1>1, <1>2 DEF more

LEMMA OnePrompt ==
  ASSUME NEW ms \in Seq(Messages), Paired(ms)
  PROVE  Append(ms, User) \in Seq(Messages) /\ Paired(Append(ms, User))
  <1> DEFINE more == Append(ms, User)
  <1>1. /\ more \in Seq(Messages) /\ Len(more) = Len(ms) + 1 /\ more[Len(ms) + 1] = User
        /\ \A i \in 1 .. Len(ms) : more[i] = ms[i]
    BY DEF Messages, User
  <1> HIDE DEF more
  <1>2. Paired(more)
    BY <1>1, PromptsPaired
  <1> QED
    BY <1>1, <1>2 DEF more

\* A reply with all of its results is well formed.
LEMMA AnsweredPaired ==
  ASSUME NEW ms \in Seq(Messages), ms # <<>>, ms[1] = Assistant(Len(ms) - 1),
         \A i \in 2 .. Len(ms) : ms[i][1] = "tool"
  PROVE  Paired(ms)
  BY DEF Paired, Assistant

\* One result more for one call less.
LEMMA ResultLaid ==
  ASSUME LoopShape, Laid, place = "calls", calls # <<>>, NEW e \in Nat,
         recent' = Append(recent, ToolMessage(e)), calls' = Tail(calls), place' = "calls"
  PROVE  recent' \in Seq(Messages) /\ calls' \in Seq(AllCalls) /\ Laid'
  <1>1. recent \in Seq(Messages) /\ calls \in Seq(AllCalls) /\ ToolMessage(e) \in Messages
    BY DEF LoopShape, Messages, ToolMessage
  <1>2. /\ recent' \in Seq(Messages) /\ calls' \in Seq(AllCalls) /\ Len(calls') = Len(calls) - 1
        /\ Len(recent') = Len(recent) + 1 /\ recent'[Len(recent) + 1] = ToolMessage(e)
        /\ \A i \in 1 .. Len(recent) : recent'[i] = recent[i]
    BY <1>1
  <1>3. Len(recent) \in Nat /\ Len(recent) >= 1
    BY <1>1 DEF Laid
  <1>4. Laid'
    BY <1>2, <1>3 DEF Laid, ToolMessage
  <1> QED
    BY <1>2, <1>4

-----------------------------------------------------------------------------
\* What follows a call, block by block.  Free: the inspection is not demanded,
\* and is demanded after this turn only to be prepared.
Free(c) == c.forced # "inspection" /\ (c.deferred = "inspection" => c.phase = "prepare")

\* The part of the control that says what is demanded and how far the inspection is.
Keeps(c, d) ==
  /\ d.forced = c.forced /\ d.onNoTool = c.onNoTool /\ d.deferred = c.deferred
  /\ d.phase = c.phase /\ d.unread = c.unread

LEMMA ReadKeeps ==
  ASSUME NEW c \in Controls, NEW call, call[2] \in Args
  PROVE  WithRead(c, call) \in Controls /\ Keeps(c, WithRead(c, call)) /\ WithRead(c, call).choice = c.choice
  BY DEF WithRead, Controls, Keeps

LEMMA SwitchKeeps ==
  ASSUME config \in Configs, NEW c \in Controls
  PROVE  /\ WithSwitch(c) \in Controls /\ Keeps(c, WithSwitch(c))
         /\ Must => WithSwitch(c) = c
  <1>1. config.afterRead \in Named
    BY DEF Named
  <1>2. WithSwitch(c) \in Controls /\ Keeps(c, WithSwitch(c))
    BY <1>1 DEF WithSwitch, Controls, Keeps
  <1>3. Must => config.afterRead = Nothing
    BY StepAssumption DEF Must
  <1> QED
    BY <1>2, <1>3 DEF WithSwitch

LEMMA SubmissionKeeps ==
  ASSUME config \in Configs, NEW c \in Controls, NEW used \in config.tools, NEW miss, Demanded(c, miss)
  PROVE  LET d == WithSubmission(c, used, miss)
         IN d \in Controls /\ Demanded(d, miss) /\ (Free(c) => Free(d))
  <1> DEFINE d == [c EXCEPT !.choice = "auto", !.complete = TRUE, !.forced = IF @ = used THEN Nothing ELSE @]
  <1>1. CASE c.choice # "auto" /\ IsDelivery(used, miss)
    <2>1. WithSubmission(c, used, miss) = d
      BY <1>1 DEF WithSubmission, Released
    <2>2. /\ d \in Controls /\ d.forced \in {c.forced, Nothing}
          /\ d.phase = c.phase /\ d.deferred = c.deferred /\ d.onNoTool = c.onNoTool
      BY DEF Controls, Named, Deferrals
    <2>3. Must => miss = {}
      BY <1>1, StepAssumption DEF IsDelivery, Must
    <2>4. Demanded(d, miss)
      BY <2>2, <2>3 DEF Demanded, Handed
    <2>5. Free(c) => Free(d)
      BY <2>2, Distinct DEF Free
    <2> HIDE DEF d
    <2> QED
      BY <2>1, <2>2, <2>4, <2>5
  <1>2. CASE ~(c.choice # "auto" /\ IsDelivery(used, miss))
    BY <1>2 DEF WithSubmission
  <1> QED
    BY <1>1, <1>2

LEMMA EditKeeps ==
  ASSUME NEW c \in Controls, NEW path \in Args, NEW miss, Demanded(c, miss)
  PROVE  LET d == WithEdit(c, path, miss)
         IN d \in Controls /\ Demanded(d, miss) /\ (c.forced # "inspection" /\ Free(c) => Free(d))
  <1>1. PICK edits : edits = c.edits \cup {path}
    OBVIOUS
  <1>2. PICK due : due = IF "inspection" \in config.tools THEN "inspection" ELSE "submit_artifact"
    OBVIOUS
  <1>3. PICK more : more = c.prompts + 1
    OBVIOUS
  <1>4. edits \in SUBSET Args /\ due \in {"inspection", "submit_artifact"} /\ more \in Nat
    BY <1>1, <1>2, <1>3 DEF Controls
  <1>5. CASE Cardinality(edits) >= 2 /\ miss # {}
    <2>1. WithEdit(c, path, miss) = [c EXCEPT !.edits = edits, !.phase = "prepare", !.unread = {},
                                              !.prompts = more, !.deferred = due]
      BY <1>1, <1>2, <1>3, <1>5 DEF WithEdit
    <2> QED
      BY <1>4, <2>1 DEF Controls, Phases, Deferrals, Demanded, Free
  <1>6. CASE ~(Cardinality(edits) >= 2 /\ miss # {})
    <2>1. WithEdit(c, path, miss) = [c EXCEPT !.edits = edits]
      BY <1>1, <1>6 DEF WithEdit
    <2> QED
      BY <1>4, <2>1 DEF Controls, Demanded, Free
  <1> QED
    BY <1>5, <1>6

\* The three phases of the inspection, over what was read so far.
LEMMA InspectionKeeps ==
  ASSUME NEW c \in Controls, NEW call, call[2] \in Args, NEW miss, Demanded(c, miss)
  PROVE  LET d == WithInspection(c, call, miss) IN d \in Controls /\ Demanded(d, miss)
  <1>1. PICK unread : unread = c.unread \ {call[2]}
    OBVIOUS
  <1>2. PICK listed : listed = IF (IF config.codeList THEN Worklist ELSE {}) # {}
                               THEN IF config.codeList THEN Worklist ELSE {} ELSE c.edits
    OBVIOUS
  <1>3. PICK more : more = c.prompts + 1
    OBVIOUS
  <1>4. unread \in SUBSET Args /\ listed \in SUBSET Args /\ more \in Nat
    BY <1>1, <1>2, <1>3 DEF Controls, Args
  <1>5. CASE Phase(call) = "prepare"
    <2>1. WithInspection(c, call, miss) = [c EXCEPT !.unread = listed, !.phase = "read", !.prompts = more]
      BY <1>2, <1>3, <1>5 DEF WithInspection
    <2> QED
      BY <1>4, <2>1 DEF Controls, Phases, Demanded
  <1>6. CASE Phase(call) # "prepare" /\ Phase(call) = "read"
    <2>1. PICK phase : phase = PhaseAfterRead(unread)
      OBVIOUS
    <2>2. phase \in Phases
      BY <2>1 DEF PhaseAfterRead, Phases
    <2>3. WithInspection(c, call, miss) = [c EXCEPT !.unread = unread, !.phase = phase, !.prompts = more]
      BY <1>1, <1>3, <1>6, <2>1 DEF WithInspection
    <2> QED
      BY <1>4, <2>2, <2>3 DEF Controls, Demanded
  <1>7. CASE Phase(call) # "prepare" /\ Phase(call) # "read"
    <2>1. PICK prompts : prompts = IF miss # {} THEN more ELSE c.prompts
      OBVIOUS
    <2>2. PICK due : due = IF miss # {} THEN "submit_artifact" ELSE "auto"
      OBVIOUS
    <2>3. prompts \in Nat /\ due \in Deferrals /\ (due = "auto" => miss = {})
      BY <1>4, <2>1, <2>2 DEF Controls, Deferrals
    <2>4. WithInspection(c, call, miss) = [c EXCEPT !.phase = Nothing, !.prompts = prompts, !.deferred = due]
      BY <1>3, <1>7, <2>1, <2>2 DEF WithInspection
    <2> QED
      BY <2>3, <2>4 DEF Controls, Phases, Demanded
  <1> QED
    BY <1>5, <1>6, <1>7

LEMMA ForcedKeeps ==
  ASSUME config \in Configs, NEW c \in Controls, NEW call, call[1] # Nothing, call[2] \in Args, NEW miss,
         Demanded(c, miss)
  PROVE  LET d == WithForced(c, call, miss)
         IN d \in Controls /\ Demanded(d, miss) /\ (Free(c) => Free(d))
  <1>1. CASE (c.forced # call[1] /\ ~(c.editing /\ call[1] = "edit_file")) \/ call[1] \in Deliveries
    BY <1>1 DEF WithForced
  <1>2. CASE /\ ~((c.forced # call[1] /\ ~(c.editing /\ call[1] = "edit_file")) \/ call[1] \in Deliveries)
             /\ call[1] = "edit_file" /\ config.broker
    <2>1. WithForced(c, call, miss) = WithEdit(c, call[2], miss)
      BY <1>2 DEF WithForced
    <2> QED
      BY <2>1, EditKeeps DEF Free
  <1>3. CASE /\ ~((c.forced # call[1] /\ ~(c.editing /\ call[1] = "edit_file")) \/ call[1] \in Deliveries)
             /\ call[1] = "inspection"
    <2>1. WithForced(c, call, miss) = WithInspection(c, call, miss) /\ ~Free(c)
      BY <1>3 DEF WithForced, Free
    <2> QED
      BY <2>1, InspectionKeeps
  <1>4. CASE /\ ~((c.forced # call[1] /\ ~(c.editing /\ call[1] = "edit_file")) \/ call[1] \in Deliveries)
             /\ ~(call[1] = "edit_file" /\ config.broker) /\ call[1] # "inspection"
    <2>1. WithForced(c, call, miss) = [c EXCEPT !.choice = "auto", !.forced = Nothing]
      BY <1>4 DEF WithForced
    <2>2. ~Must
      BY <1>4 DEF Must, Demanded, Handed, Deliveries
    <2> QED
      BY <2>1, <2>2, Distinct DEF Controls, Named, Deferrals, Demanded, Free
  <1> QED
    BY <1>1, <1>2, <1>3, <1>4

LEMMA FollowUpKeeps ==
  ASSUME NEW c \in Controls, NEW used, NEW miss, Demanded(c, miss)
  PROVE  LET d == WithFollowUp(c, used, miss)
         IN d \in Controls /\ Demanded(d, miss) /\ (Free(c) => Free(d))
  <1>1. CASE c.choice # "auto" /\ used = "submit_artifact" /\ miss # {}
    <2>1. PICK more : more = c.prompts + 1
      OBVIOUS
    <2>2. PICK due : due = IF "submit_review_round" \in config.tools /\ "round" \in miss
                           THEN "submit_review_round" ELSE c.deferred
      OBVIOUS
    <2>3. more \in Nat /\ due \in {"submit_review_round", c.deferred}
      BY <2>1, <2>2 DEF Controls
    <2>4. WithFollowUp(c, used, miss) = [c EXCEPT !.prompts = more, !.deferred = due]
      BY <1>1, <2>1, <2>2 DEF WithFollowUp
    <2> QED
      BY <2>3, <2>4 DEF Controls, Deferrals, Demanded, Free
  <1>2. CASE ~(c.choice # "auto" /\ used = "submit_artifact" /\ miss # {})
    BY <1>2 DEF WithFollowUp
  <1> QED
    BY <1>1, <1>2

\* All of them together.
LEMMA AfterKeeps ==
  ASSUME config \in Configs, NEW c \in Controls, NEW call, call[1] # Nothing, call[2] \in Args,
         NEW outcome, outcome = "ok" => call[1] \in config.tools, NEW miss, Demanded(c, miss)
  PROVE  LET d == After(c, call, outcome, miss)
         IN d \in Controls /\ Demanded(d, miss) /\ (Free(c) => Free(d))
  <1>1. ASSUME NEW a \in Controls, Demanded(a, miss)
        PROVE  WithSwitch(a) \in Controls /\ Demanded(WithSwitch(a), miss) /\ (Free(a) => Free(WithSwitch(a)))
    BY <1>1, SwitchKeeps DEF Demanded, Free, Keeps
  <1>2. CASE outcome # "ok"
    BY <1>1, <1>2 DEF After
  <1>3. CASE outcome = "ok"
    <2>1. PICK c1 : c1 = WithRead(c, call)
      OBVIOUS
    <2>2. c1 \in Controls /\ Demanded(c1, miss) /\ (Free(c) => Free(c1))
      BY <2>1, ReadKeeps DEF Demanded, Free, Keeps
    <2>3. PICK c2 : c2 = WithSwitch(c1)
      OBVIOUS
    <2>4. c2 \in Controls /\ Demanded(c2, miss) /\ (Free(c) => Free(c2))
      BY <1>1, <2>2, <2>3
    <2>5. PICK c3 : c3 = WithSubmission(c2, call[1], miss)
      OBVIOUS
    <2>6. c3 \in Controls /\ Demanded(c3, miss) /\ (Free(c) => Free(c3))
      BY <1>3, <2>4, <2>5, SubmissionKeeps
    <2>7. PICK c4 : c4 = WithForced(c3, call, miss)
      OBVIOUS
    <2>8. c4 \in Controls /\ Demanded(c4, miss) /\ (Free(c) => Free(c4))
      BY <2>6, <2>7, ForcedKeeps
    <2>9. After(c, call, outcome, miss) = WithFollowUp(c4, call[1], miss)
      BY <1>3, <2>1, <2>3, <2>5, <2>7 DEF After
    <2> QED
      BY <2>8, <2>9, FollowUpKeeps
  <1> QED
    BY <1>2, <1>3

\* A call of the inspection while it is demanded: what it read is noted, and
\* the tree is not edited, since every other call is refused.
LEMMA InspectsDue ==
  ASSUME LoopShape, InspectionDue(ctl, inspected), ctl.forced = "inspection",
         NEW call, call[1] = "inspection", call[2] \in Args, ~Refused(call), NEW outcome, NEW miss
  PROVE  InspectionDue(After(ctl, call, outcome, miss), Inspects(call, outcome))
  <1>1. ctl \in Controls /\ config \in Configs /\ inspected \in [made : BOOLEAN, read : SUBSET Args]
    BY DEF LoopShape
  <1>2. CASE outcome # "ok"
    <2>1. After(ctl, call, outcome, miss) = WithSwitch(ctl) /\ Inspects(call, outcome) = inspected
      BY <1>2 DEF After, Inspects
    <2> QED
      BY <1>1, <2>1, SwitchKeeps DEF Keeps, InspectionDue
  <1>3. CASE outcome = "ok"
    <2>1. PICK c : c = WithSwitch(ctl)
      OBVIOUS
    <2>2. c \in Controls /\ Keeps(ctl, c)
      BY <1>1, <2>1, SwitchKeeps
    <2>3. WithRead(ctl, call) = ctl
      BY DEF WithRead
    <2>4. WithSubmission(c, call[1], miss) = c
      BY DEF WithSubmission, IsDelivery, Deliveries
    <2>5. WithForced(c, call, miss) = WithInspection(c, call, miss)
      BY <2>2 DEF WithForced, Keeps, Deliveries
    <2>6. PICK d : d = WithInspection(c, call, miss)
      OBVIOUS
    <2>7. After(ctl, call, outcome, miss) = d
      BY <1>3, <2>1, <2>3, <2>4, <2>5, <2>6 DEF After, WithFollowUp
    <2>8. ctl.phase # Nothing => Phase(call) = ctl.phase
      BY DEF Refused
    <2>9. CASE Phase(call) = "prepare"
      <3>1. Inspects(call, outcome) = [made |-> TRUE, read |-> {}]
        BY <1>3, <2>9 DEF Inspects
      <3>2. d.phase = "read" /\ d.deferred = c.deferred /\ d.forced = c.forced
            /\ (config.codeList => Worklist \subseteq d.unread)
        BY <2>2, <2>6, <2>9 DEF WithInspection, Controls
      <3> QED
        BY <2>2, <2>7, <3>1, <3>2 DEF InspectionDue, Keeps
    <2>10. CASE Phase(call) # "prepare" /\ Phase(call) = "read"
      <3>1. ctl.phase # "prepare" /\ ctl.phase # "check"
        BY <2>8, <2>10, Distinct
      <3>2. /\ d.unread = c.unread \ {call[2]} /\ d.deferred = c.deferred /\ d.forced = c.forced
            /\ d.phase = PhaseAfterRead(c.unread \ {call[2]})
        BY <2>2, <2>6, <2>10 DEF WithInspection, Controls
      <3>3. d.phase = "check" => d.unread = {}
        BY <3>2 DEF PhaseAfterRead
      <3>4. inspected.made =>
              Inspects(call, outcome).made /\ Inspects(call, outcome).read = inspected.read \cup {call[2]}
        BY <1>1, <1>3, <2>10 DEF Inspects
      <3> QED
        BY <2>2, <2>7, <3>1, <3>2, <3>3, <3>4 DEF InspectionDue, Keeps
    <2>11. CASE Phase(call) # "prepare" /\ Phase(call) # "read"
      <3>1. Inspects(call, outcome) = inspected
        BY <1>3, <2>11 DEF Inspects
      <3>2. /\ d.phase = Nothing /\ d.unread = c.unread /\ d.forced = c.forced
            /\ d.deferred \in {"submit_artifact", "auto"}
        BY <2>2, <2>6, <2>11 DEF WithInspection, Controls
      <3>3. ctl.phase # "prepare"
        BY <2>8, <2>11, Distinct
      <3> QED
        BY <2>2, <2>7, <3>1, <3>2, <3>3, Distinct DEF InspectionDue, Keeps
    <2> QED
      BY <2>9, <2>10, <2>11
  <1> QED
    BY <1>2, <1>3

\* The hand-off demands edit_file or the tool for the outputs, never the inspection.
LEMMA HandOffKeeps ==
  ASSUME LoopShape, Demanded(ctl, missing), InspectionDue(ctl, inspected)
  PROVE  /\ HandedOff \in Controls /\ Demanded(HandedOff, missing) /\ InspectionDue(HandedOff, inspected)
         /\ HandedOff.choice = "auto" => HandedOff = ctl
  <1>1. CASE Forcing
    <2>1. PICK demanded : demanded = IF config.forceTool # Nothing THEN config.forceTool ELSE config.onNoTool
      OBVIOUS
    <2>2. /\ demanded \in {"edit_file", "submit_artifact", "write_file"}
          /\ Must => demanded \in {"edit_file", "submit_artifact"}
      BY <1>1, <2>1, StepAssumption DEF Forcing, LoopShape, Must
    <2>3. HandedOff = [ctl EXCEPT !.choice = demanded, !.forced = demanded, !.retries = RetryCount,
                                  !.editing = ctl.editing \/ demanded = "edit_file"]
      BY <1>1, <2>1 DEF HandedOff
    <2>4. RetryCount \in Int
      BY AgentLoopAssumption
    <2> QED
      BY <2>2, <2>3, <2>4 DEF LoopShape, Controls, Named, Deferrals, Demanded, Handed, InspectionDue
  <1>2. CASE ~Forcing
    BY <1>2 DEF HandedOff, LoopShape
  <1> QED
    BY <1>1, <1>2

LEMMA LoopStart == LoopInit => LoopInv
  <1> SUFFICES ASSUME LoopInit PROVE LoopInv
    OBVIOUS
  <1>1. config \in Configs
    BY DEF LoopInit
  <1>2. ctl = [choice |-> IF Resumed(config) THEN "inspection" ELSE config.choice,
               forced |-> IF Resumed(config) THEN "inspection" ELSE Nothing,
               onNoTool |-> config.onNoTool,
               retries |-> IF config.choice # "auto" THEN RetryCount ELSE 0,
               phase |-> IF Resumed(config) THEN "prepare" ELSE Nothing,
               unread |-> {}, edits |-> {}, editing |-> FALSE, complete |-> FALSE, read |-> {},
               deferred |-> Nothing, prompts |-> 0]
    BY DEF LoopInit, StartControl
  <1>3. config.choice \in Named /\ config.onNoTool \in Named /\ RetryCount \in Int
    BY <1>1, StepAssumption, AgentLoopAssumption DEF Named, Deferrals
  <1>4. ctl \in Controls
    BY <1>2, <1>3 DEF Controls, Named, Deferrals, Phases
  <1>5. recent \in Seq(Messages) /\ Paired(recent)
    BY DEF LoopInit, Messages, User, Paired
  <1>6. LoopShape
    BY <1>1, <1>4, <1>5 DEF LoopInit, LoopShape, NoInspection
  <1>7. Demanded(ctl, missing) /\ InspectionDue(ctl, inspected)
    BY <1>1, <1>2, StepAssumption, Distinct DEF Demanded, InspectionDue, Handed, Must
  <1>8. Laid /\ ArtifactsDelivered
    BY <1>5, Distinct DEF LoopInit, Laid, ArtifactsDelivered
  <1> QED
    BY <1>6, <1>7, <1>8 DEF LoopInv

LEMMA LoopStutter == LoopInv /\ UNCHANGED loopVars => LoopInv'
  BY DEF LoopInv, loopVars, histVars, LoopShape, Laid, Paired, Demanded, Must, InspectionDue, ArtifactsDelivered

\* What a turn's end or a reply leaves alone.
LEMMA TurnStopsKeeps == ASSUME LoopInv, TurnStops PROVE LoopInv'
  <1>1. Closed # "no_tool_calls"
    BY Distinct DEF Closed
  <1>2. UNCHANGED <<config, ctl, missing, calls, recent, inspected, effects>> /\ place' = "ended" /\ stop' = Closed
    BY DEF TurnStops, End, histVars
  <1> QED
    BY <1>1, <1>2 DEF LoopInv, LoopShape, Laid, Demanded, Must, InspectionDue, ArtifactsDelivered

LEMMA RepliesKeep ==
  ASSUME LoopInv, NEW compacting \in BOOLEAN,
         \/ BackendFails(compacting) \/ ReplyText(compacting)
         \/ \E reply \in Replies : ReplyCalls(compacting, reply)
         \/ \E n \in 0 .. MaxReply : ReplyOverBudget(compacting, n)
  PROVE  LoopInv'
  <1>1. UNCHANGED <<config, missing, effects, inspected>>
    BY DEF BackendFails, ReplyText, ReplyCalls, ReplyOverBudget
  <1>2. PICK c : c = HandedOff
    OBVIOUS
  <1>3. /\ c \in Controls /\ Demanded(c, missing) /\ InspectionDue(c, inspected)
        /\ c.choice = "auto" => c = ctl
    BY <1>2, HandOffKeeps DEF LoopInv
  <1>4. /\ <<>> \in Seq(Messages) /\ User \in Messages
        /\ \A n \in Nat : Assistant(n) \in Messages /\ ToolMessage(n) \in Messages
    BY DEF Messages, Assistant, ToolMessage, User
  <1>5. CASE BackendFails(compacting)
    BY <1>1, <1>4, <1>5 DEF BackendFails, End, LoopInv, LoopShape, Laid, Demanded, Must, InspectionDue,
       ArtifactsDelivered
  <1>6. ASSUME NEW n \in 0 .. MaxReply, ReplyOverBudget(compacting, n) PROVE LoopInv'
    <2>1. recent' \in Seq(Messages)
      <3>1. n \in Nat
        OBVIOUS
      <3>2. <<Assistant(n)>> \in Seq(Messages) /\ [i \in 1 .. n |-> ToolMessage(0)] \in Seq(Messages)
        BY <1>4, <3>1
      <3> QED
        BY <1>6, <3>2 DEF ReplyOverBudget
    <2>2. ctl' = c /\ place' = "ended" /\ stop' = "budget_exceeded" /\ calls' = calls
      BY <1>2, <1>6 DEF ReplyOverBudget, End
    <2> QED
      BY <1>1, <1>3, <2>1, <2>2 DEF LoopInv, LoopShape, Laid, Demanded, Must, InspectionDue, ArtifactsDelivered
  <1>7. ASSUME NEW reply \in Replies, ReplyCalls(compacting, reply) PROVE LoopInv'
    <2>1. reply \in Seq(AllCalls)
      <3>1. config.calls \subseteq AllCalls /\ MaxReply \in Nat
        BY AgentLoopAssumption DEF AllCalls, LoopInv, LoopShape, MaxReply
      <3>2. CASE \E n \in 1 .. MaxCalls : reply \in [1 .. n -> config.calls]
        BY <3>1, <3>2, AgentLoopAssumption
      <3>3. CASE \E call \in config.calls : reply = [i \in 1 .. MaxReply |-> call]
        BY <3>1, <3>3
      <3>4. CASE reply \in UNION {[1 .. n -> config.calls] : n \in 1 .. MaxCalls}
        <4>1. PICK few \in {[1 .. n -> config.calls] : n \in 1 .. MaxCalls} : reply \in few
          BY <3>4
        <4> QED
          BY <3>2, <4>1
      <3>5. CASE reply \in {[i \in 1 .. MaxReply |-> call] : call \in config.calls}
        BY <3>3, <3>5
      <3> QED
        BY <1>7, <3>4, <3>5 DEF Replies
    <2>2. ctl' = c /\ calls' = reply /\ recent' = <<Assistant(Len(reply))>> /\ place' = "calls" /\ stop' = stop
      BY <1>2, <1>7 DEF ReplyCalls
    <2>3. recent' \in Seq(Messages) /\ Len(recent') = 1 /\ recent'[1] = Assistant(Len(reply))
      BY <1>4, <2>1, <2>2
    <2>4. Laid'
      BY <2>1, <2>2, <2>3 DEF Laid
    <2> QED
      BY <1>1, <1>3, <2>1, <2>2, <2>3, <2>4 DEF LoopInv, LoopShape, Demanded, Must, InspectionDue, ArtifactsDelivered
  <1>8. CASE ReplyText(compacting)
    <2>1. calls' = calls /\ (recent' = <<Assistant(0)>> \/ recent' = <<Assistant(0), User>>)
      BY <1>8 DEF ReplyText
    <2>2. recent' \in Seq(Messages) /\ Paired(recent')
      <3>1. PICK said, asked : said = Assistant(0) /\ asked = User
        OBVIOUS
      <3>2. said \in Messages /\ asked \in Messages
        BY <1>4, <3>1
      <3>3. PICK one, two : one = <<said>> /\ two = <<said, asked>>
        OBVIOUS
      <3>4. /\ one \in Seq(Messages) /\ Len(one) = 1 /\ one[1] = said
            /\ two \in Seq(Messages) /\ Len(two) = 2 /\ two[1] = said /\ two[2] = asked
        BY <3>2, <3>3
      <3>5. Paired(one)
        <4>1. one # <<>> /\ one[1] = Assistant(Len(one) - 1) /\ \A i \in 2 .. Len(one) : one[i][1] = "tool"
          BY <3>1, <3>4
        <4> QED
          BY <3>4, <4>1, AnsweredPaired
      <3>6. Paired(two)
        <4>1. /\ Len(one) <= Len(two) /\ \A i \in 1 .. Len(one) : two[i] = one[i]
              /\ \A i \in Len(one) + 1 .. Len(two) : two[i] = User
          BY <3>1, <3>4
        <4> QED
          BY <3>4, <3>5, <4>1, PromptsPaired
      <3> QED
        BY <2>1, <3>1, <3>3, <3>4, <3>5, <3>6
    <2>3. CASE c.onNoTool # Nothing /\ c.choice = "auto"
      <3>1. PICK demanded : demanded = c.onNoTool
        OBVIOUS
      <3>2. /\ demanded \in {"submit_artifact", "write_file"} /\ (Must => demanded = "submit_artifact")
        BY <1>3, <2>3, <3>1, StepAssumption DEF Demanded, Must, LoopInv, LoopShape
      <3>3. ctl' = [c EXCEPT !.choice = demanded, !.forced = demanded, !.retries = RetryCount, !.onNoTool = Nothing]
        BY <1>2, <1>8, <2>3, <3>1 DEF ReplyText
      <3>4. ctl' \in Controls /\ Demanded(ctl', missing) /\ InspectionDue(ctl', inspected)
        <4>1. RetryCount \in Int /\ demanded \in Named /\ Nothing \in Named
          BY <3>2, AgentLoopAssumption DEF Named, Deferrals
        <4>2. ctl' \in Controls
          BY <1>3, <3>3, <4>1 DEF Controls
        <4>3. /\ ctl'.forced = demanded /\ ctl'.choice = demanded /\ ctl'.onNoTool = Nothing
              /\ ctl'.deferred = c.deferred /\ ctl'.phase = c.phase /\ ctl'.unread = c.unread
          BY <1>3, <3>3 DEF Controls
        <4>4. Demanded(ctl', missing)
          BY <1>3, <3>2, <4>3 DEF Demanded, Handed
        <4>5. InspectionDue(ctl', inspected)
          BY <1>3, <3>2, <4>3 DEF InspectionDue
        <4> QED
          BY <4>2, <4>4, <4>5
      <3>5. place' = place /\ stop' = stop /\ place = "top"
        BY <1>2, <1>8, <2>3 DEF ReplyText
      <3> QED
        BY <1>1, <2>1, <2>2, <3>4, <3>5
        DEF LoopInv, LoopShape, Laid, Demanded, Must, InspectionDue, ArtifactsDelivered
    <2>4. CASE ~(c.onNoTool # Nothing /\ c.choice = "auto") /\ (c.choice = "auto" \/ c.retries = 0)
      <3>1. ctl' = c /\ place' = "ended"
            /\ stop' = IF c.choice = "auto" THEN "no_tool_calls" ELSE "required_tool_not_called"
        BY <1>2, <1>8, <2>4 DEF ReplyText, End
      <3>2. ArtifactsDelivered'
        BY <1>1, <1>3, <2>4, <3>1 DEF ArtifactsDelivered, Demanded, Must
      <3> QED
        BY <1>1, <1>3, <2>1, <2>2, <3>1, <3>2 DEF LoopInv, LoopShape, Laid, Demanded, Must, InspectionDue
    <2>5. CASE ~(c.onNoTool # Nothing /\ c.choice = "auto") /\ ~(c.choice = "auto" \/ c.retries = 0)
      <3>1. PICK left : left = c.retries - 1
        OBVIOUS
      <3>2. ctl' = [c EXCEPT !.retries = left] /\ left \in Int
        BY <1>2, <1>3, <1>8, <2>5, <3>1 DEF ReplyText, Controls
      <3>3. ctl' \in Controls /\ Demanded(ctl', missing) /\ InspectionDue(ctl', inspected)
        BY <1>3, <3>2 DEF Controls, Demanded, InspectionDue
      <3>4. place' = place /\ stop' = stop /\ place = "top"
        BY <1>2, <1>8, <2>5 DEF ReplyText
      <3> QED
        BY <1>1, <2>1, <2>2, <3>3, <3>4
        DEF LoopInv, LoopShape, Laid, Demanded, Must, InspectionDue, ArtifactsDelivered
    <2> QED
      BY <2>3, <2>4, <2>5
  <1> QED
    BY <1>5, <1>6, <1>7, <1>8

LEMMA RefusalKeeps ==
  ASSUME LoopInv, (\E valid \in BOOLEAN : CallRefused(valid)) \/ CallsSkipped
  PROVE  LoopInv'
  <1>1. /\ place = "calls" /\ calls # <<>> /\ calls' = Tail(calls)
        /\ recent' = Append(recent, ToolMessage(0)) /\ UNCHANGED <<config, place, missing, effects, stop, inspected>>
    BY DEF CallRefused, CallsSkipped, Current, RepliedTo
  <1>2. recent' \in Seq(Messages) /\ calls' \in Seq(AllCalls) /\ Laid'
    BY <1>1, ResultLaid DEF LoopInv
  <1>3. PICK more : more = ctl.prompts + 1
    OBVIOUS
  <1>4. more \in Nat /\ ctl' \in {ctl, [ctl EXCEPT !.prompts = more]}
    BY <1>3 DEF CallRefused, CallsSkipped, LoopInv, LoopShape, Controls
  <1>5. ctl' \in Controls /\ Demanded(ctl', missing) /\ InspectionDue(ctl', inspected)
    BY <1>4 DEF LoopInv, LoopShape, Controls, Demanded, InspectionDue
  <1> QED
    BY <1>1, <1>2, <1>5 DEF LoopInv, LoopShape, Demanded, Must, InspectionDue, ArtifactsDelivered

LEMMA RunKeeps ==
  ASSUME LoopInv, NEW valid \in BOOLEAN, NEW outcome, NEW closed, CallRuns(valid, outcome, closed)
  PROVE  LoopInv'
  <1>1. PICK call : call = Meant(Head(calls), valid)
    OBVIOUS
  <1>2. calls \in Seq(AllCalls) /\ calls # <<>> /\ Head(calls) \in AllCalls
    BY DEF CallRuns, Current, LoopInv, LoopShape
  <1>3. call[1] # Nothing /\ call[2] \in Args
    BY <1>1, <1>2, StepAssumption, Distinct DEF Meant, AllCalls, Args
  <1>4. PICK miss : miss = missing \ (IF outcome = "ok" THEN Delivers(call) ELSE {})
    OBVIOUS
  <1>5. /\ missing' = miss /\ ctl' = After(ctl, call, outcome, miss) /\ inspected' = Inspects(call, outcome)
        /\ ~Refused(call) /\ (outcome = "ok" => call[1] \in config.tools)
        /\ place = "calls" /\ calls' = Tail(calls) /\ UNCHANGED <<config, place, stop>>
    BY <1>1, <1>4 DEF CallRuns, Current, Outcomes
  <1>6. Demanded(ctl, miss)
    BY <1>4 DEF LoopInv, Demanded
  <1>7. ctl' \in Controls /\ Demanded(ctl', miss) /\ (Free(ctl) => Free(ctl'))
    BY <1>3, <1>5, <1>6, AfterKeeps DEF LoopInv, LoopShape
  <1>8. InspectionDue(ctl', inspected')
    <2>1. CASE ctl.forced = "inspection"
      <3>1. call[1] = "inspection"
        BY <1>5, <2>1, Distinct DEF Refused
      <3> QED
        BY <1>3, <1>5, <2>1, <3>1, InspectsDue DEF LoopInv
    <2>2. CASE ctl.forced # "inspection"
      <3>1. Free(ctl')
        BY <1>7, <2>2 DEF Free, LoopInv, InspectionDue
      <3> QED
        BY <3>1 DEF Free, InspectionDue
    <2> QED
      BY <2>1, <2>2
  <1>9. inspected' \in [made : BOOLEAN, read : SUBSET Args]
    BY <1>3, <1>5 DEF Inspects, NoInspection, LoopInv, LoopShape
  <1>10. PICK e \in Nat : recent' = Append(recent, ToolMessage(e))
    BY DEF CallRuns, RepliedTo, LoopInv, LoopShape
  <1>11. recent' \in Seq(Messages) /\ calls' \in Seq(AllCalls) /\ Laid'
    BY <1>2, <1>5, <1>10, ResultLaid DEF LoopInv
  <1>12. effects' \in Nat
    BY DEF CallRuns, LoopInv, LoopShape
  <1>13. LoopShape'
    BY <1>5, <1>7, <1>9, <1>11, <1>12 DEF LoopInv, LoopShape
  <1>14. Demanded(ctl', missing') /\ ArtifactsDelivered'
    BY <1>4, <1>5, <1>7 DEF LoopInv, ArtifactsDelivered
  <1> QED
    BY <1>5, <1>7, <1>8, <1>11, <1>13, <1>14 DEF LoopInv, Demanded, Must, InspectionDue

LEMMA TurnEndsKeeps == ASSUME LoopInv, TurnEnds PROVE LoopInv'
  <1>1. /\ place = "calls" /\ calls = <<>> /\ place' = "top" /\ calls' = calls
        /\ recent' = recent \o [i \in 1 .. ctl.prompts |-> User]
        /\ UNCHANGED <<config, missing, effects, stop, inspected>>
    BY DEF TurnEnds
  <1>2. recent \in Seq(Messages) /\ ctl.prompts \in Nat /\ recent # <<>> /\ ctl \in Controls
    BY <1>1 DEF LoopInv, LoopShape, Laid, Controls
  <1>3. Paired(recent)
    BY <1>1, <1>2, AnsweredPaired DEF LoopInv, Laid
  <1>4. recent' \in Seq(Messages) /\ Paired(recent')
    BY <1>1, <1>2, <1>3, PromptPaired
  <1>5. Laid'
    BY <1>1, <1>4 DEF Laid
  <1>6. PICK next : next = ctl.deferred
    OBVIOUS
  <1>7. next \in Deferrals
    BY <1>2, <1>6 DEF Controls
  <1>8. ctl' \in Controls /\ Demanded(ctl', missing) /\ InspectionDue(ctl', inspected)
    <2>1. CASE next = Nothing
      <3>1. ctl' = [ctl EXCEPT !.deferred = Nothing, !.prompts = 0]
        BY <1>6, <2>1 DEF TurnEnds
      <3> QED
        BY <1>2, <3>1, Distinct DEF LoopInv, Controls, Deferrals, Demanded, InspectionDue
    <2>2. CASE next # Nothing
      <3>1. PICK forced : forced = IF next = "auto" THEN Nothing ELSE next
        OBVIOUS
      <3>2. PICK complete, editing : complete = (ctl.complete \/ next = "auto")
                                     /\ editing = (ctl.editing /\ next # "inspection")
        OBVIOUS
      <3>3. ctl' = [ctl EXCEPT !.deferred = Nothing, !.prompts = 0, !.choice = next, !.forced = forced,
                               !.complete = complete, !.editing = editing]
        BY <1>6, <2>2, <3>1, <3>2 DEF TurnEnds
      <3>4. forced \in Named /\ forced \in Handed /\ next \in Named /\ complete \in BOOLEAN /\ editing \in BOOLEAN
        BY <1>2, <1>7, <3>1, <3>2 DEF Named, Deferrals, Handed, Controls
      <3>5. ctl' \in Controls
        BY <1>2, <3>3, <3>4 DEF Controls, Deferrals
      <3>6. Demanded(ctl', missing)
        BY <1>2, <1>6, <3>3, <3>4, Distinct DEF LoopInv, Controls, Demanded
      <3>7. InspectionDue(ctl', inspected)
        BY <1>2, <1>6, <3>1, <3>3, Distinct DEF LoopInv, Controls, InspectionDue
      <3> QED
        BY <3>5, <3>6, <3>7
    <2> QED
      BY <2>1, <2>2
  <1> QED
    BY <1>1, <1>4, <1>5, <1>8 DEF LoopInv, LoopShape, Demanded, Must, InspectionDue, ArtifactsDelivered

LEMMA LoopKept == LoopInv /\ [LoopNext]_loopVars => LoopInv'
  BY LoopStutter, TurnStopsKeeps, RepliesKeep, RefusalKeeps, RunKeeps, TurnEndsKeeps DEF LoopNext

\* The loop's protocol, whatever the model replies and whatever its calls come to.
THEOREM LoopIsSound == LoopSpec => []LoopSound
  <1>1. LoopInv => LoopSound
    <2> SUFFICES ASSUME LoopInv PROVE LoopSound
      OBVIOUS
    <2>1. PairedRequests
      BY OnePrompt DEF LoopInv, LoopShape, Laid, PairedRequests, Prompted
    <2>2. CheckAfterReads
      BY Distinct DEF LoopInv, InspectionDue, CheckAfterReads
    <2> QED
      BY <2>1, <2>2 DEF LoopInv, LoopSound
  <1> QED
    BY LoopStart, LoopKept, <1>1, PTL DEF LoopSpec

-----------------------------------------------------------------------------
(* A coding task. Its records are known by their fields.                      *)

AsReview(r) ==
  [reads |-> r.reads, attempts |-> r.attempts, lastValid |-> r.lastValid, exhausted |-> r.exhausted,
   payload |-> r.payload, last |-> r.last, denied |-> r.denied, stop |-> r.stop, base |-> r.base,
   files |-> r.files, final |-> r.final, upTo |-> r.upTo, reviewed |-> r.reviewed, ok |-> r.ok]

AsRun(r) ==
  [kind |-> r.kind, pc |-> r.pc, before |-> r.before, after |-> r.after, treeBefore |-> r.treeBefore,
   treeAfter |-> r.treeAfter, changed |-> r.changed, frozen |-> r.frozen, loopOk |-> r.loopOk, round |-> r.round,
   attempt |-> r.attempt, repaired |-> r.repaired]

TaskShape ==
  /\ ws = [f \in WsFiles |-> ws[f]]
  /\ run = AsRun(run)
  /\ ev = [outcome |-> ev.outcome, category |-> ev.category, output |-> ev.output, tested |-> ev.tested,
           hashes |-> ev.hashes, tree |-> ev.tree, status |-> ev.status, ran |-> ev.ran]
  /\ rev = AsReview(rev)
  /\ run.kind \in {"task", "fixed"} /\ run.round \in Nat /\ run.attempt \in Nat /\ rev.attempts \in Nat /\ writes \in Nat

InRound == {"before", "test", "after", "bind"}
Reviewing == {"reading", "finalizing", "judge", "recheck", "tree"}
InReview == {"decide", "review", "reading", "finalizing", "judge", "recheck"}

\* The repair key is a part of the evidence.
KeyOf(e) == [outcome |-> e.outcome, output |-> e.output, tested |-> e.tested,
             hashes |-> e.hashes, tree |-> e.tree, status |-> e.status]

Rounds ==
  /\ run.round <= MaxRepairs /\ run.attempt <= run.round + 1
  /\ run.pc \in {"git", "model"} => run.attempt <= run.round
  /\ \A p \in run.repaired : KeyOf(p.failure) \in ledger
  /\ \A p, q \in run.repaired : p.failure = q.failure => p = q

\* One write by another shows: content that is what it was has not been away.
Watched ==
  /\ run.pc \in InRound =>
       /\ writes = 0 => ws = run.after
       /\ writes <= 1 /\ ws = run.after =>
            /\ run.pc # "before" => run.treeBefore \in {<<>>, run.after}
            /\ run.pc \in {"after", "bind"} => ev.ran = run.after
  /\ run.pc \in InReview =>
       /\ writes = 0 => ws = ev.tested
       /\ writes <= 1 /\ ws = ev.tested =>
            /\ ev.ran = ev.tested /\ ev.tree \in {<<>>, ev.tested}
            /\ \A r \in rev.reads : r.content = ev.tested[r.file]
            /\ run.pc = "recheck" => CoversAll

Shown == \A f \in rev.files : \A line \in 1 .. Lines[rev.final[f]] : \E r \in ReadsOf(f) : line \in r.first .. r.last

\* What the last look found, from then on.
Rechecked ==
  run.pc = "tree" \/ rev.reviewed =>
    /\ rev.final = ev.tested /\ run.changed = Changed(run.before, rev.final)
    /\ rev.upTo <= 1 => /\ ev.ran = rev.final /\ ev.tree \in {<<>>, rev.final} /\ Shown
                        /\ \A r \in rev.reads : r.content = rev.final[r.file]

\* What the reviewer has said so far.
Words ==
  /\ \A r \in rev.reads : r.total = Lines[r.content]
  /\ rev.base => ev.outcome = "pass"
  /\ rev.attempts <= 2 \/ rev.exhausted
  /\ rev.payload # "none" => rev.attempts > 0
  /\ rev.lastValid => rev.payload = rev.last
  /\ run.pc \in {"judge", "recheck", "tree"} => ~rev.denied
  /\ run.pc \in {"recheck", "tree"} => ~rev.exhausted /\ (rev.attempts > 0 => rev.lastValid)
  /\ run.pc \notin Reviewing \cup {"report", "done"} => rev = NoReview
  /\ rev.reviewed => run.pc \in {"report", "done"}
  /\ rev.reviewed /\ rev.ok => rev.base /\ rev.last = "clean" /\ rev.attempts \in {1, 2} /\ ~rev.denied

Reported ==
  report.ok => /\ run.pc = "done" /\ rev.reviewed /\ rev.ok
               /\ run.kind = "task" => run.changed # {}
               /\ report.commit = "matched" => ev.tree # <<>>

TaskInv == TaskShape /\ Rounds /\ Watched /\ Rechecked /\ Words /\ Reported

LEMMA TaskStarts == TaskInit => TaskInv
  <1> SUFFICES ASSUME TaskInit PROVE TaskInv
    OBVIOUS
  <1>1. TaskShape /\ rev = NoReview /\ ~report.ok /\ run.pc = "git" /\ run.round = 0 /\ run.attempt = 0 /\ run.repaired = {}
    BY DEF TaskInit, TaskShape, AsRun, AsReview, NoEvidence, NoReview, NoReport
  <1>2. Rounds
    BY <1>1, TaskAssumption DEF Rounds
  <1>3. Words
    BY <1>1 DEF Words, NoReview, Reviewing
  <1> QED
    BY <1>1, <1>2, <1>3 DEF TaskInv, Watched, Rechecked, Reported, InRound, InReview, NoReview

LEMMA OthersWrite == ASSUME TaskInv, Disturb PROVE TaskInv'
  <1>1. ws' # ws /\ writes' = writes + 1 /\ UNCHANGED <<git, run, ev, ledger, rev, report>> /\ ws' = [f \in WsFiles |-> ws'[f]]
    BY DEF TaskInv, TaskShape, AsRun, AsReview, Disturb
  <1>2. TaskShape' /\ Rounds' /\ Words' /\ Reported'
    BY <1>1 DEF TaskInv, TaskShape, AsRun, AsReview, Rounds, Words, Reported
  <1>3. Watched'
    BY <1>1 DEF TaskInv, TaskShape, AsRun, AsReview, Watched
  <1>4. Rechecked'
    BY <1>1 DEF TaskInv, Rechecked, Shown, ReadsOf
  <1> QED
    BY <1>2, <1>3, <1>4 DEF TaskInv

\* The steps of run_task that look and run.
LEMMA HostLooks == ASSUME TaskInv, GitState \/ BeforeTest \/ AfterTest PROVE TaskInv'
  <1>1. /\ UNCHANGED <<ws, git, ev, ledger, rev, report, writes>>
        /\ run.pc \in {"git", "before", "after"} /\ TaskShape'
        /\ UNCHANGED <<run.kind, run.before, run.after, run.changed, run.round, run.attempt, run.repaired>>
        /\ \/ run'.pc = "raised" /\ UNCHANGED run.treeBefore
           \/ run.pc = "git" /\ run'.pc = "model" /\ UNCHANGED run.treeBefore
           \/ run.pc = "before" /\ run'.pc = "test" /\ run'.treeBefore \in Trees
           \/ run.pc = "after" /\ run'.pc = "bind" /\ UNCHANGED run.treeBefore
    BY DEF TaskInv, TaskShape, AsRun, AsReview, GitState, BeforeTest, AfterTest, TaskAt, Goto
  <1>2. Rounds'
    BY <1>1 DEF TaskInv, Rounds
  <1>3. Watched'
    BY <1>1 DEF TaskInv, Watched, InRound, InReview, Trees
  <1>4. Rechecked' /\ Reported' /\ Words'
    BY <1>1 DEF TaskInv, Rechecked, Words, Reported, Reviewing
  <1> QED
    BY <1>1, <1>2, <1>3, <1>4 DEF TaskInv

LEMMA ModelWorks == ASSUME TaskInv, ModelTurn PROVE TaskInv'
  <1>1. /\ ws' = [f \in WsFiles |-> ws'[f]] /\ UNCHANGED <<git, ev, ledger, rev, report, writes>> /\ run.pc = "model"
    BY DEF TaskInv, TaskShape, AsRun, AsReview, ModelTurn, TaskAt
  <1>0. PICK pc, ok, attempt :
          /\ run' = [run EXCEPT !.pc = pc, !.after = ws', !.loopOk = ok, !.attempt = attempt]
          /\ pc \in {"before", "gate"} /\ attempt = run.attempt + 1
    BY DEF ModelTurn
  <1>9. /\ run' = [kind |-> run.kind, pc |-> pc, before |-> run.before, after |-> ws',
            treeBefore |-> run.treeBefore, treeAfter |-> run.treeAfter, changed |-> run.changed, frozen |-> run.frozen,
            loopOk |-> ok, round |-> run.round, attempt |-> attempt, repaired |-> run.repaired]
    <2>1. run = AsRun(run)
      BY DEF TaskInv, TaskShape
    <2> QED
      BY <1>0, <2>1 DEF AsRun
  <1>2. /\ TaskShape' /\ run'.pc \in {"before", "gate"} /\ run'.after = ws' /\ run'.attempt = run.attempt + 1
        /\ UNCHANGED <<run.kind, run.before, run.changed, run.round, run.repaired, run.treeBefore>>
    <2>1. run' = AsRun(run') /\ run'.kind = run.kind /\ run'.attempt = attempt /\ run'.round = run.round
          /\ run'.pc = pc /\ run'.after = ws'
          /\ UNCHANGED <<run.before, run.changed, run.repaired, run.treeBefore>>
      BY <1>9 DEF AsRun
    <2>2. attempt = run.attempt + 1 /\ attempt \in Nat /\ pc \in {"before", "gate"}
      BY <1>0 DEF TaskInv, TaskShape
    <2>3. TaskShape'
      BY <1>1, <2>1, <2>2 DEF TaskInv, TaskShape
    <2> QED
      BY <2>1, <2>2, <2>3
  <1>3. Rounds'
    BY <1>1, <1>2 DEF TaskInv, TaskShape, AsRun, AsReview, Rounds
  <1>4. Watched'
    BY <1>1, <1>2 DEF TaskInv, Watched, InRound, InReview
  <1>5. Rechecked' /\ Reported' /\ Words'
    BY <1>1, <1>2 DEF TaskInv, Rechecked, Words, Reported, Reviewing
  <1> QED
    BY <1>2, <1>3, <1>4, <1>5 DEF TaskInv

LEMMA TestsRun == ASSUME TaskInv, RunTests PROVE TaskInv'
  <1>1. /\ UNCHANGED <<ws, git, ledger, rev, report, writes>> /\ run.pc = "test" /\ TaskShape'
        /\ UNCHANGED <<run.kind, run.before, run.after, run.changed, run.round, run.attempt, run.repaired, run.treeBefore>>
        /\ run'.pc = "done" \/ (run'.pc = "after" /\ ev'.ran = ws)
    BY DEF TaskInv, TaskShape, AsRun, AsReview, RunTests, TaskAt, Goto, NoEvidence
  <1>2. Rounds'
    BY <1>1 DEF TaskInv, Rounds
  <1>3. Watched'
    BY <1>1 DEF TaskInv, Watched, InRound, InReview
  <1>4. rev = NoReview /\ ~report.ok
    BY <1>1 DEF TaskInv, Words, Reported, Reviewing
  <1>5. Rechecked' /\ Reported' /\ Words'
    BY <1>1, <1>4 DEF Rechecked, Words, Reported, Reviewing, NoReview
  <1> QED
    BY <1>1, <1>2, <1>3, <1>5 DEF TaskInv

LEMMA EvidenceBound == ASSUME TaskInv, BindEvidence PROVE TaskInv'
  <1>1. /\ UNCHANGED <<ws, git, ledger, rev, report, writes>> /\ run.pc = "bind" /\ TaskShape' /\ run'.pc = "decide"
        /\ UNCHANGED <<run.kind, run.before, run.after, run.round, run.attempt, run.repaired, ev.ran>>
        /\ ev'.tested = run.after /\ ev'.tree = TestedTree(ws)[1]
    BY DEF TaskInv, TaskShape, AsRun, AsReview, BindEvidence, TaskAt
  <1>2. ev'.tree \in {<<>>, run.treeBefore}
    BY <1>1 DEF TestedTree
  <1>3. Rounds'
    BY <1>1 DEF TaskInv, Rounds
  <1>4. rev = NoReview /\ ~report.ok
    BY <1>1 DEF TaskInv, Words, Reported, Reviewing
  <1>5. Watched'
    BY <1>1, <1>2, <1>4 DEF TaskInv, Watched, InRound, InReview, NoReview
  <1>6. Rechecked' /\ Reported' /\ Words'
    BY <1>1, <1>4 DEF Rechecked, Words, Reported, Reviewing, NoReview
  <1> QED
    BY <1>1, <1>3, <1>5, <1>6 DEF TaskInv

\* A repair is another round, on evidence whose key was not there.
LEMMA RepairsDecided == ASSUME TaskInv, RepairRound \/ NoRepair PROVE TaskInv'
  <1>1. /\ UNCHANGED <<ws, git, rev, report, writes>> /\ run.pc = "decide"
        /\ TaskShape /\ Rounds
    BY DEF TaskInv, RepairRound, NoRepair, TaskAt
  <1>2. rev = NoReview /\ ~report.ok
    BY <1>1 DEF TaskInv, Words, Reported, Reviewing
  <1>3. CASE LeaveLoop
    <2>1. /\ TaskShape' /\ run'.pc = "review" /\ run'.round = 0 /\ run'.attempt = 0 /\ run'.repaired = {}
          /\ UNCHANGED <<run.kind, run.before, run.after, run.changed, ev.tested, ev.tree, ev.ran, ev.outcome>>
      BY <1>1, <1>3 DEF TaskShape, AsRun, AsReview, LeaveLoop
    <2>2. Rounds'
      BY <2>1, TaskAssumption DEF Rounds
    <2>3. Watched'
      BY <1>1, <1>2, <2>1 DEF TaskInv, Watched, InRound, InReview
    <2>4. Rechecked' /\ Reported' /\ Words'
      BY <1>1, <1>2, <2>1 DEF Rechecked, Words, Reported, Reviewing, NoReview
    <2> QED
      BY <2>1, <2>2, <2>3, <2>4 DEF TaskInv
  <1>4. CASE ~LeaveLoop
    <2>1. PICK failure : failure = [ev EXCEPT !.ran = <<>>]
      OBVIOUS
    <2>2. /\ MayRepair /\ Decision = "allow" /\ ledger' = ledger \union {RepairKey} /\ ev' = NoEvidence
          /\ \E round, repaired : /\ round = run.round + 1
                                 /\ repaired = run.repaired \union {[round |-> run.round, failure |-> failure]}
                                 /\ run' = [run EXCEPT !.pc = "model", !.round = round, !.repaired = repaired]
      BY <1>4, <2>1 DEF RepairRound, NoRepair
    <2>3. KeyOf(failure) = RepairKey
      BY <1>1, <2>1 DEF TaskShape, AsRun, AsReview, KeyOf, RepairKey
    <2>4. RepairKey \notin ledger
      BY <2>2 DEF Decision
    <2>5. PICK round, repaired :
            /\ round = run.round + 1 /\ repaired = run.repaired \union {[round |-> run.round, failure |-> failure]}
            /\ run' = [kind |-> run.kind, pc |-> "model", before |-> run.before, after |-> run.after,
                 treeBefore |-> run.treeBefore, treeAfter |-> run.treeAfter, changed |-> run.changed, frozen |-> run.frozen,
                 loopOk |-> run.loopOk, round |-> round, attempt |-> run.attempt, repaired |-> repaired]
      <3>1. run = AsRun(run)
        BY <1>1 DEF TaskShape
      <3> QED
        BY <2>2, <3>1 DEF AsRun
    <2>8. TaskShape'
      <3>1. run' = AsRun(run') /\ run'.kind = run.kind /\ run'.attempt = run.attempt /\ run'.round = round
        BY <2>5 DEF AsRun
      <3> QED
        BY <1>1, <2>2, <2>5, <3>1 DEF TaskShape, NoEvidence
    <2>6. Rounds'
      <3>1. run'.round <= MaxRepairs /\ run'.attempt <= run'.round
        BY <1>1, <2>2, <2>5, TaskAssumption DEF MayRepair, TaskShape, AsRun, AsReview, Rounds
      <3>2. \A p \in run'.repaired : p \in run.repaired \/ p = [round |-> run.round, failure |-> failure]
        BY <2>5
      <3>3. \A p \in run.repaired : p.failure # failure
        BY <1>1, <2>3, <2>4 DEF Rounds
      <3>4. \A p, q \in run'.repaired : p.failure = q.failure => p = q
        BY <1>1, <3>2, <3>3 DEF Rounds
      <3>5. \A p \in run'.repaired : KeyOf(p.failure) \in ledger'
        BY <1>1, <2>2, <2>3, <3>2 DEF Rounds
      <3> QED
        BY <1>1, <2>5, <3>1, <3>4, <3>5 DEF Rounds, TaskShape, AsRun, AsReview
    <2>7. Watched' /\ Rechecked' /\ Reported' /\ Words'
      BY <1>1, <1>2, <2>5 DEF Watched, InRound, InReview, Rechecked, Words, Reported, Reviewing, NoReview
    <2> QED
      BY <2>6, <2>7, <2>8 DEF TaskInv
  <1> QED
    BY <1>3, <1>4

LEMMA GatePassed == ASSUME TaskInv, EngineeringGate PROVE TaskInv'
  <1>1. /\ UNCHANGED <<ws, git, ledger, rev, report, writes>> /\ run.pc = "gate" /\ TaskShape' /\ run'.pc = "review"
        /\ UNCHANGED <<run.kind, run.before, run.after, run.round, run.attempt, run.repaired>>
        /\ ev'.tested = ws /\ ev'.ran = ws /\ ev'.tree \in {<<>>, ws}
    BY DEF TaskInv, TaskShape, AsRun, AsReview, EngineeringGate, TaskAt, NoEvidence
  <1>2. Rounds'
    BY <1>1 DEF TaskInv, Rounds
  <1>3. rev = NoReview /\ ~report.ok
    BY <1>1 DEF TaskInv, Words, Reported, Reviewing
  <1>4. Watched' /\ Rechecked' /\ Reported' /\ Words'
    BY <1>1, <1>3 DEF Watched, InRound, InReview, Rechecked, Words, Reported, Reviewing, NoReview
  <1> QED
    BY <1>1, <1>2, <1>4 DEF TaskInv

\* In the review only run.pc and rev change.
LEMMA ReviewGoes ==
  ASSUME TaskInv, run.pc \in Reviewing \cup {"review"}, UNCHANGED <<ws, git, ev, ledger, report, writes>>,
         NEW pc, pc \in Reviewing \cup {"report"}, run' = [run EXCEPT !.pc = pc],
         NEW r, r = AsReview(r), r.attempts \in Nat, rev' = r, Watched', Rechecked', Words'
  PROVE  TaskInv'
  <1>1. TaskShape' /\ UNCHANGED <<run.kind, run.before, run.after, run.changed, run.round, run.attempt, run.repaired>>
        /\ run'.pc = pc
    BY DEF TaskInv, TaskShape, AsRun, AsReview
  <1>2. Rounds'
    BY <1>1 DEF TaskInv, Rounds, Reviewing
  <1>3. ~report.ok
    BY DEF TaskInv, Reported, Reviewing
  <1>4. Reported'
    BY <1>3 DEF Reported
  <1> QED
    BY <1>1, <1>2, <1>4 DEF TaskInv

LEMMA FailsKeep ==
  ASSUME TaskInv, run.pc \in Reviewing \cup {"review"}, UNCHANGED <<ws, git, ev, ledger, report, writes>>, ReviewFails
  PROVE  TaskInv'
  <1>1. run' = [run EXCEPT !.pc = "report"] /\ rev' = NoReview
    BY DEF ReviewFails, Goto
  <1>2. run'.pc = "report"
    BY <1>1 DEF TaskInv, TaskShape, AsRun, AsReview
  <1>3. Watched' /\ Rechecked' /\ Words'
    BY <1>1, <1>2 DEF Watched, InRound, InReview, Rechecked, Words, Reviewing, NoReview
  <1>4. NoReview = AsReview(NoReview) /\ NoReview.attempts \in Nat
    BY DEF NoReview, AsReview
  <1> QED
    BY <1>1, <1>3, <1>4, ReviewGoes DEF AsReview, Reviewing

LEMMA ReviewBegins == ASSUME TaskInv, BeginReview PROVE TaskInv'
  <1>1. run.pc = "review" /\ UNCHANGED <<ws, git, ev, ledger, report, writes>> /\ Watched
    BY DEF BeginReview, TaskAt, TaskInv
  <1>2. CASE ReviewFails
    BY <1>1, <1>2, FailsKeep DEF AsReview, Reviewing
  <1>3. CASE ~ReviewFails
    <2>1. PICK r : r = [NoReview EXCEPT !.base = ExitZero(ev.outcome), !.files = ReviewFiles]
      OBVIOUS
    <2>2. run' = [run EXCEPT !.pc = "reading"] /\ rev' = r
      BY <1>3, <2>1 DEF BeginReview, Goto
    <2>3. r = [reads |-> {}, attempts |-> 0, lastValid |-> FALSE, exhausted |-> FALSE,
             payload |-> "none", last |-> "none", denied |-> FALSE, stop |-> "none",
             base |-> ExitZero(ev.outcome), files |-> ReviewFiles, final |-> <<>>, upTo |-> 0, reviewed |-> FALSE,
             ok |-> FALSE]
      BY <2>1 DEF NoReview
    <2>4. run'.pc = "reading" /\ UNCHANGED run.after
      BY <2>2 DEF TaskInv, TaskShape, AsRun, AsReview
    <2>5. ExitZero(ev.outcome) => ev.outcome = "pass"
      BY DEF ExitZero, TestCategory
    <2>6. Watched' /\ Rechecked'
      BY <1>1, <2>2, <2>3, <2>4 DEF Watched, InRound, InReview, Rechecked
    <2>7. Words'
      BY <1>1, <2>2, <2>3, <2>4, <2>5 DEF Words, Reviewing
    <2>8. r = AsReview(r) /\ r.attempts \in Nat
      BY <2>3 DEF AsReview
    <2> QED
      BY <1>1, <2>2, <2>6, <2>7, <2>8, ReviewGoes DEF Reviewing
  <1> QED
    BY <1>2, <1>3

\* What the reviewer reads is what is there.
LEMMA ReviewerActs == ASSUME TaskInv, ReviewerReads \/ ReviewerDenied \/ ReviewerSubmits PROVE TaskInv'
  <1>1. /\ run.pc \in {"reading", "finalizing"} /\ UNCHANGED <<ws, git, run, ev, ledger, report, writes>>
        /\ TaskShape /\ Watched /\ Rechecked /\ Words /\ run' = [run EXCEPT !.pc = run.pc]
    BY DEF ReviewerReads, ReviewerDenied, ReviewerSubmits, TaskAt, TaskInv, TaskShape, AsRun, AsReview
  <1>2. CASE ReviewerReads
    <2>1. PICK r, reads : /\ r = [rev EXCEPT !.reads = reads] /\ rev' = r
                          /\ \A s \in reads : s \in rev.reads \/ \E f \in rev.files :
                               s.total = Lines[ws[f]] /\ s.content = ws[f] /\ s.file = f
      BY <1>2 DEF ReviewerReads
    <2>2. /\ r = [reads |-> reads, attempts |-> rev.attempts, lastValid |-> rev.lastValid, exhausted |-> rev.exhausted,
                  payload |-> rev.payload, last |-> rev.last, denied |-> rev.denied, stop |-> rev.stop, base |-> rev.base,
                  files |-> rev.files, final |-> rev.final, upTo |-> rev.upTo, reviewed |-> rev.reviewed, ok |-> rev.ok]
          /\ rev.attempts \in Nat
      BY <1>1, <2>1 DEF TaskShape, AsRun, AsReview
    <2>3. run.pc = "reading"
      BY <1>2 DEF ReviewerReads, TaskAt
    <2>4. Watched'
      BY <1>1, <2>1, <2>2, <2>3 DEF Watched, InRound, InReview
    <2>5. Rechecked' /\ Words'
      BY <1>1, <2>1, <2>2, <2>3 DEF Rechecked, Words, Reviewing
    <2> QED
      BY <1>1, <2>1, <2>2, <2>4, <2>5, ReviewGoes DEF AsReview, Reviewing
  <1>3. CASE ReviewerDenied
    <2>1. PICK r : r = [rev EXCEPT !.denied = TRUE] /\ rev' = r
      BY <1>3 DEF ReviewerDenied
    <2>2. /\ r = [reads |-> rev.reads, attempts |-> rev.attempts, lastValid |-> rev.lastValid, exhausted |-> rev.exhausted,
                  payload |-> rev.payload, last |-> rev.last, denied |-> TRUE, stop |-> rev.stop, base |-> rev.base,
                  files |-> rev.files, final |-> rev.final, upTo |-> rev.upTo, reviewed |-> rev.reviewed, ok |-> rev.ok]
          /\ rev.attempts \in Nat
      BY <1>1, <2>1 DEF TaskShape, AsRun, AsReview
    <2>4. Watched' /\ Rechecked' /\ Words'
      BY <1>1, <2>1, <2>2 DEF Watched, InRound, InReview, Rechecked, Words, Reviewing
    <2> QED
      BY <1>1, <2>1, <2>2, <2>4, ReviewGoes DEF AsReview, Reviewing
  <1>4. CASE ReviewerSubmits
    <2>1. PICK verdict \in {"clean", "blocking", "invalid"} : Submit(verdict)
      BY <1>4 DEF ReviewerSubmits
    <2>2. PICK r, attempts : r = rev' /\ attempts = rev.attempts + 1
      OBVIOUS
    <2>3. rev.attempts \in Nat /\ (rev.exhausted \/ rev.attempts <= 2) /\ rev = AsReview(rev)
      BY <1>1 DEF TaskShape, Words
    <2>4. PICK lastValid, exhausted, payload :
            /\ r = [reads |-> rev.reads, attempts |-> attempts, lastValid |-> lastValid, exhausted |-> exhausted,
                 payload |-> payload, last |-> verdict, denied |-> rev.denied, stop |-> rev.stop, base |-> rev.base,
                 files |-> rev.files, final |-> rev.final, upTo |-> rev.upTo, reviewed |-> rev.reviewed, ok |-> rev.ok]
            /\ attempts <= 2 \/ exhausted
            /\ payload \in {rev.payload, verdict} /\ (lastValid => payload = verdict)
            /\ attempts \in Nat /\ attempts > 0
      <3>1. attempts \in Nat /\ attempts > 0 /\ (attempts <= 2 \/ attempts > 2)
        BY <2>2, <2>3
      <3>2. CASE attempts > 2
        <4>1. r = [reads |-> rev.reads, attempts |-> attempts, lastValid |-> FALSE, exhausted |-> TRUE,
                     payload |-> rev.payload, last |-> verdict, denied |-> rev.denied, stop |-> rev.stop, base |-> rev.base,
                     files |-> rev.files, final |-> rev.final, upTo |-> rev.upTo, reviewed |-> rev.reviewed, ok |-> rev.ok]
          BY <2>1, <2>2, <2>3, <3>2 DEF Submit, AsReview
        <4> QED
          BY <3>1, <4>1
      <3>3. CASE attempts <= 2 /\ verdict = "invalid"
        <4>0. r = [rev EXCEPT !.attempts = attempts, !.lastValid = FALSE, !.last = verdict]
          BY <2>1, <2>2, <3>1, <3>3 DEF Submit
        <4>1. r = [reads |-> rev.reads, attempts |-> attempts, lastValid |-> FALSE, exhausted |-> rev.exhausted,
                     payload |-> rev.payload, last |-> verdict, denied |-> rev.denied, stop |-> rev.stop, base |-> rev.base,
                     files |-> rev.files, final |-> rev.final, upTo |-> rev.upTo, reviewed |-> rev.reviewed, ok |-> rev.ok]
          BY <2>3, <4>0 DEF AsReview
        <4> QED
          BY <3>1, <3>3, <4>1
      <3>4. CASE attempts <= 2 /\ verdict # "invalid"
        <4>0. r = [rev EXCEPT !.attempts = attempts, !.lastValid = TRUE, !.payload = verdict, !.last = verdict]
          BY <2>1, <2>2, <3>1, <3>4 DEF Submit
        <4>1. r = [reads |-> rev.reads, attempts |-> attempts, lastValid |-> TRUE, exhausted |-> rev.exhausted,
                     payload |-> verdict, last |-> verdict, denied |-> rev.denied, stop |-> rev.stop, base |-> rev.base,
                     files |-> rev.files, final |-> rev.final, upTo |-> rev.upTo, reviewed |-> rev.reviewed, ok |-> rev.ok]
          BY <2>3, <4>0 DEF AsReview
        <4> QED
          BY <3>1, <3>4, <4>1
      <3> QED
        BY <3>1, <3>2, <3>3, <3>4
    <2>5. Watched' /\ Rechecked'
      BY <1>1, <2>2, <2>4 DEF Watched, InRound, InReview, Rechecked, Words
    <2>6. Words'
      BY <1>1, <2>2, <2>3, <2>4 DEF Words, Reviewing
    <2>7. r = AsReview(r) /\ r.attempts \in Nat
      BY <2>4 DEF AsReview
    <2> QED
      BY <1>1, <2>2, <2>5, <2>6, <2>7, ReviewGoes DEF Reviewing
  <1> QED
    BY <1>2, <1>3, <1>4

LEMMA ReadersEnd == ASSUME TaskInv, ReadingEnds \/ FinalizingEnds PROVE TaskInv'
  <1>1. /\ run.pc \in {"reading", "finalizing"} /\ UNCHANGED <<ws, git, ev, ledger, report, writes>>
        /\ TaskShape /\ Watched /\ Rechecked /\ Words
    BY DEF ReadingEnds, FinalizingEnds, TaskAt, TaskInv
  <1>2. CASE ReviewFails
    BY <1>1, <1>2, FailsKeep DEF AsReview, Reviewing
  <1>3. CASE ~ReviewFails
    <2>1. PICK r, halt, pc :
            r = [rev EXCEPT !.stop = halt] /\ rev' = r /\ Goto(pc) /\ ~rev.denied /\ pc \in {"finalizing", "judge"}
      <3>1. rev = [rev EXCEPT !.stop = rev.stop]
        BY <1>1 DEF TaskShape, AsRun, AsReview
      <3> QED
        <4>1. CASE ReadingEnds
          <5>1. PICK halt :
                  /\ ~rev.denied
                  /\ (Goto("finalizing") /\ UNCHANGED rev) \/ (Goto("judge") /\ rev' = [rev EXCEPT !.stop = halt])
            BY <1>3, <4>1 DEF ReadingEnds
          <5> QED
            BY <3>1, <5>1
        <4>2. CASE FinalizingEnds
          BY <1>3, <4>2 DEF FinalizingEnds, TaskAt
        <4> QED
          BY <4>1, <4>2
    <2>2. /\ r = [reads |-> rev.reads, attempts |-> rev.attempts, lastValid |-> rev.lastValid, exhausted |-> rev.exhausted,
                  payload |-> rev.payload, last |-> rev.last, denied |-> rev.denied, stop |-> halt, base |-> rev.base,
                  files |-> rev.files, final |-> rev.final, upTo |-> rev.upTo, reviewed |-> rev.reviewed, ok |-> rev.ok]
          /\ rev.attempts \in Nat
      BY <1>1, <2>1 DEF TaskShape, AsRun, AsReview
    <2>3. run' = [run EXCEPT !.pc = pc] /\ run'.pc = pc /\ UNCHANGED run.after
      BY <1>1, <2>1 DEF TaskShape, AsRun, AsReview, Goto
    <2>4. Watched' /\ Rechecked' /\ Words'
      BY <1>1, <2>1, <2>2, <2>3 DEF Watched, InRound, InReview, Rechecked, Words, Reviewing
    <2> QED
      BY <1>1, <2>1, <2>2, <2>3, <2>4, ReviewGoes DEF AsReview, Reviewing
  <1> QED
    BY <1>2, <1>3

LEMMA Judged == ASSUME TaskInv, Judge PROVE TaskInv'
  <1>1. /\ run.pc = "judge" /\ UNCHANGED <<ws, git, ev, ledger, report, writes>>
        /\ TaskShape /\ Watched /\ Rechecked /\ Words
    BY DEF Judge, TaskAt, TaskInv
  <1>2. CASE ReviewFails
    BY <1>1, <1>2, FailsKeep DEF AsReview, Reviewing
  <1>3. CASE ~ReviewFails
    <2>1. /\ run' = [run EXCEPT !.pc = "recheck"] /\ rev' = rev
          /\ ~rev.exhausted /\ (rev.attempts > 0 => rev.lastValid) /\ CoversAll
      BY <1>3 DEF Judge, Goto
    <2>2. run'.pc = "recheck" /\ UNCHANGED run.after
      BY <1>1, <2>1 DEF TaskShape, AsRun, AsReview
    <2>3. CoversAll'
      BY <1>1, <2>1 DEF CoversAll, ReadsOf
    <2>4. Watched'
      BY <1>1, <2>1, <2>2, <2>3 DEF Watched, InRound, InReview
    <2>5. Rechecked' /\ Words'
      BY <1>1, <2>1, <2>2 DEF Rechecked, Words, Reviewing
    <2> QED
      BY <1>1, <2>1, <2>4, <2>5, ReviewGoes DEF TaskShape, AsRun, AsReview, Reviewing
  <1> QED
    BY <1>2, <1>3

\* The tree is the tested one: if others wrote at most once it has been so all along.
LEMMA LastLook == ASSUME TaskInv, Recheck PROVE TaskInv'
  <1>1. /\ run.pc = "recheck" /\ UNCHANGED <<ws, git, ev, ledger, report, writes>>
        /\ TaskShape /\ Watched /\ Rechecked /\ Words
    BY DEF Recheck, TaskAt, TaskInv
  <1>2. CASE ReviewFails
    BY <1>1, <1>2, FailsKeep DEF AsReview, Reviewing
  <1>3. CASE ~ReviewFails
    <2>1. /\ run' = [run EXCEPT !.pc = "tree"] /\ rev' = [rev EXCEPT !.final = ws, !.upTo = writes]
          /\ SameAsTested(ws)
      BY <1>3 DEF Recheck, Goto
    <2>2. PICK r : r = [rev EXCEPT !.final = ws, !.upTo = writes] /\ rev' = r
      BY <2>1
    <2>3. /\ r = [reads |-> rev.reads, attempts |-> rev.attempts, lastValid |-> rev.lastValid, exhausted |-> rev.exhausted,
                  payload |-> rev.payload, last |-> rev.last, denied |-> rev.denied, stop |-> rev.stop, base |-> rev.base,
                  files |-> rev.files, final |-> ws, upTo |-> writes, reviewed |-> rev.reviewed, ok |-> rev.ok]
          /\ rev.attempts \in Nat
      BY <1>1, <2>2 DEF TaskShape, AsRun, AsReview
    <2>4. run'.pc = "tree" /\ UNCHANGED <<run.before, run.changed>>
      BY <1>1, <2>1 DEF TaskShape, AsRun, AsReview
    <2>5. ws = ev.tested /\ run.changed = Changed(run.before, ws)
      BY <2>1 DEF SameAsTested
    <2>6. writes <= 1 => /\ ev.ran = ws /\ ev.tree \in {<<>>, ws} /\ CoversAll
                         /\ \A s \in rev.reads : s.content = ws[s.file]
      BY <1>1, <2>5 DEF Watched, InReview
    <2>7. writes <= 1 => Shown'
      <3> SUFFICES ASSUME writes <= 1, NEW f \in rev.files, NEW line \in 1 .. Lines[ws[f]]
                   PROVE  \E s \in rev.reads : s.file = f /\ line \in s.first .. s.last
        BY <2>2, <2>3 DEF Shown, ReadsOf
      <3>1. PICK total : /\ \A s \in ReadsOf(f) : s.total = total
                         /\ \A l \in 1 .. total : \E s \in ReadsOf(f) : l \in s.first .. s.last
        BY <2>6 DEF CoversAll
      <3>2. PICK s \in rev.reads : s.file = f /\ s.total = total
        BY <2>6, <3>1 DEF CoversAll, ReadsOf
      <3>3. total = Lines[ws[f]]
        BY <1>1, <2>6, <3>2 DEF Words
      <3> QED
        BY <3>1, <3>3 DEF ReadsOf
    <2>8. Rechecked'
      BY <1>1, <2>2, <2>3, <2>4, <2>5, <2>6, <2>7 DEF Rechecked, Changed
    <2>9. Watched' /\ Words'
      BY <1>1, <2>2, <2>3, <2>4 DEF Watched, InRound, InReview, Words, Reviewing
    <2> QED
      BY <1>1, <2>1, <2>2, <2>3, <2>8, <2>9, ReviewGoes DEF AsReview, Reviewing
  <1> QED
    BY <1>2, <1>3

LEMMA Concludes == ASSUME TaskInv, ConcludeReview PROVE TaskInv'
  <1>1. /\ run.pc = "tree" /\ UNCHANGED <<ws, git, ev, ledger, report, writes>>
        /\ TaskShape /\ Watched /\ Rechecked /\ Words
    BY DEF ConcludeReview, TaskAt, TaskInv
  <1>2. CASE ReviewFails
    BY <1>1, <1>2, FailsKeep DEF AsReview, Reviewing
  <1>3. CASE ~ReviewFails
    <2>1. PICK ok : ok = (rev.base /\ rev.payload = "clean")
      OBVIOUS
    <2>2. PICK r : r = [rev EXCEPT !.reviewed = TRUE, !.ok = ok]
      OBVIOUS
    <2>3. run' = [run EXCEPT !.pc = "report"] /\ rev' = r
      BY <1>3, <2>1, <2>2 DEF ConcludeReview, Goto
    <2>4. /\ r = [reads |-> rev.reads, attempts |-> rev.attempts, lastValid |-> rev.lastValid, exhausted |-> rev.exhausted,
                  payload |-> rev.payload, last |-> rev.last, denied |-> rev.denied, stop |-> rev.stop, base |-> rev.base,
                  files |-> rev.files, final |-> rev.final, upTo |-> rev.upTo, reviewed |-> TRUE, ok |-> ok]
          /\ rev.attempts \in Nat
      BY <1>1, <2>2 DEF TaskShape, AsRun, AsReview
    <2>5. run'.pc = "report" /\ UNCHANGED <<run.before, run.changed>>
      BY <1>1, <2>3 DEF TaskShape, AsRun, AsReview
    <2>6. Rechecked'
      BY <1>1, <2>3, <2>4, <2>5 DEF Rechecked, Changed, Shown, ReadsOf
    <2>7. ok => rev.base /\ rev.last = "clean" /\ rev.attempts \in {1, 2} /\ ~rev.denied
      <3>1. ok => rev.base /\ rev.payload = "clean"
        BY <2>1
      <3>2. rev.payload = "clean" => rev.attempts > 0 /\ rev.lastValid /\ rev.attempts <= 2
        BY <1>1 DEF Words
      <3>3. ~rev.denied /\ (rev.lastValid => rev.payload = rev.last)
        BY <1>1 DEF Words
      <3>4. rev.attempts \in Nat
        BY <1>1 DEF TaskShape
      <3>5. rev.payload = "clean" => rev.attempts \in {1, 2} /\ rev.last = "clean"
        BY <3>2, <3>3, <3>4
      <3> QED
        BY <3>1, <3>3, <3>5
    <2>8. Watched' /\ Words'
      BY <1>1, <2>3, <2>4, <2>5, <2>7 DEF Watched, InRound, InReview, Words, Reviewing
    <2> QED
      BY <1>1, <2>3, <2>4, <2>6, <2>8, ReviewGoes DEF AsReview, Reviewing
  <1> QED
    BY <1>2, <1>3

LEMMA Reports == ASSUME TaskInv, MakeReport PROVE TaskInv'
  <1>1. /\ run.pc = "report" /\ UNCHANGED <<ws, git, ev, ledger, rev, writes>> /\ run'.pc = "done"
        /\ UNCHANGED <<run.kind, run.before, run.after, run.changed, run.round, run.attempt, run.repaired>>
        /\ TaskShape'
    BY DEF MakeReport, TaskAt, TaskInv, TaskShape, AsRun, AsReview, Goto
  <1>2. Rounds' /\ Watched' /\ Words'
    BY <1>1 DEF TaskInv, Rounds, Watched, InRound, InReview, Words, Reviewing
  <1>3. Rechecked'
    BY <1>1 DEF TaskInv, Rechecked, Changed, Shown, ReadsOf
  <1>4. Reported'
    <2>1. PICK commit : /\ report' = [ok |-> ReportOk(commit), verified |-> TRUE, commit |-> commit]
                        /\ commit = "none" \/ \E tree : commit = CommitStatus(tree)
      BY DEF MakeReport
    <2>2. commit = "matched" => ev.tree # <<>>
      BY <2>1 DEF CommitStatus
    <2> QED
      BY <1>1, <2>1, <2>2 DEF Reported, ReportOk
  <1> QED
    BY <1>1, <1>2, <1>3, <1>4 DEF TaskInv

LEMMA TaskKept == TaskInv /\ [TaskNext]_taskVars => TaskInv'
  <1> SUFFICES ASSUME TaskInv, [TaskNext]_taskVars PROVE TaskInv'
    OBVIOUS
  <1>1. ASSUME UNCHANGED taskVars PROVE TaskInv'
    <2>1. TaskShape' /\ Rounds'
      BY <1>1 DEF taskVars, TaskInv, TaskShape, AsRun, AsReview, Rounds
    <2>2. Watched' /\ Rechecked' /\ Words' /\ Reported'
      BY <1>1 DEF taskVars, TaskInv, Watched, Rechecked, Words, Reported, Shown, ReadsOf, CoversAll, Changed
    <2> QED
      BY <2>1, <2>2 DEF TaskInv
  <1> QED
    BY <1>1, OthersWrite, HostLooks, ModelWorks, TestsRun, EvidenceBound, RepairsDecided, GatePassed, ReviewBegins,
       ReviewerActs, ReadersEnd, Judged, LastLook, Concludes, Reports DEF TaskNext, HostStep, LoopStep

\* Whatever the model does, and whoever else writes the workspace: a task reported done was changed, its tests passed, and
\* nobody has written it since unless it was put back; the review is the model's last word on all of it; and every repair
\* was started on news.
THEOREM TaskIsSound == TaskSpec => []TaskSound
  <1>1. TaskInv => TaskSound
    <2> SUFFICES ASSUME TaskInv PROVE TaskSound
      OBVIOUS
    <2>1. TaskEarned
      <3> SUFFICES ASSUME report.ok PROVE TaskEarned
        BY DEF TaskEarned
      <3>1. rev.reviewed /\ rev.ok /\ rev.base /\ ev.outcome = "pass"
        BY DEF TaskInv, Reported, Words
      <3>2. run.kind = "task" => rev.final # run.before
        BY <3>1 DEF TaskInv, Reported, Rechecked, Changed
      <3> QED
        BY <3>1, <3>2 DEF TaskInv, Reported, Rechecked, TaskEarned
    <2>2. ReviewIsLastWord
      BY DEF TaskInv, Words, Rechecked, Shown, ReviewIsLastWord
    <2>3. RepairsOnNews
      BY TaskAssumption DEF TaskInv, TaskShape, AsRun, AsReview, Rounds, RepairsOnNews
    <2> QED
      BY <2>1, <2>2, <2>3 DEF TaskSound
  <1> QED
    BY <1>1, TaskStarts, TaskKept, PTL DEF TaskSpec

-----------------------------------------------------------------------------
(***************************************************************************)
(* A policy command on Linux.  Five parties act at once: the broker's main *)
(* thread, the receiver of the resource channel, the thread that answers   *)
(* denied calls, the launcher with its tasks, and the creator of the step. *)
(* The invariant says for each place of the main thread what is certainly  *)
(* gone unless the broker has noted that it does not know (RaiseUnknown to *)
(* Unpinned), what each party relies on when it goes on (Acknowledged,     *)
(* Listening), what a failed launch rules out (Unrun, Framed), and what    *)
(* the last result still stands for (Lent, Accepted, LastSaid).            *)
(***************************************************************************)

\* The places of the broker's main thread, in groups.
Constructing == {"construct", "spawn"}
Leaving == {"drain", "joinRx", "joinMon", "collect", "close", "return", "idle"}
PastReceiver == {"joinMon", "collect", "close", "return", "idle"}
PastMonitor == {"collect", "close", "return", "idle"}
PastScope == {"close", "return", "idle"}
Concluding == {"return", "idle"}
HostPlaces == {"idle", "construct", "spawn", "observe", "receiver", "handoff", "acknowledge", "read", "stop",
               "drain", "joinRx", "joinMon", "collect", "close", "return"}

FrameNames == {"configured", "preexec_failed", "finished", "cleanup_failed"}
AreFrames(f, failed) ==
  /\ f \in Seq(FrameNames)
  /\ \A i \in 1 .. Len(f) : f[i] = "preexec_failed" => failed

\* The records have their fields.
AsStep(s) == [consume |-> s.consume, owner |-> s.owner, inflight |-> s.inflight]
AsHost(h) ==
  [pc |-> h.pc, n |-> h.n, made |-> h.made, launched |-> h.launched, error |-> h.error, started |-> h.started,
   cleanupOk |-> h.cleanupOk, unknown |-> h.unknown, opaque |-> h.opaque, raised |-> h.raised, tried |-> h.tried,
   rxClosed |-> h.rxClosed, monClosed |-> h.monClosed, collected |-> h.collected]
AsHelper(h) == [at |-> h.at, child |-> h.child, preexec |-> h.preexec, leaked |-> h.leaked, ran |-> h.ran]
AsWire(w) == [frames |-> w.frames, ack |-> w.ack, hand |-> w.hand, eof |-> w.eof]
AsRx(r) ==
  [thread |-> r.thread, count |-> r.count, configured |-> r.configured, terminal |-> r.terminal,
   complete |-> r.complete, expired |-> r.expired, stop |-> r.stop]
AsMon(m) ==
  [thread |-> m.thread, started |-> m.started, failed |-> m.failed, stop |-> m.stop, pending |-> m.pending,
   asked |-> m.asked, answered |-> m.answered, count |-> m.count]
AsScope(s) ==
  [unit |-> s.unit, pinned |-> s.pinned, owned |-> s.owned, locked |-> s.locked, closeReq |-> s.closeReq]

StepShaped == step = AsStep(step) /\ step.inflight \in BOOLEAN /\ mode \in {"borrowed", "owned"}
HostShaped ==
  /\ host = AsHost(host) /\ host.pc \in HostPlaces
  /\ host.launched \in BOOLEAN /\ host.unknown \in BOOLEAN /\ host.opaque \in BOOLEAN /\ host.raised \in BOOLEAN
  /\ host.monClosed \in BOOLEAN
HelperShaped == helper = AsHelper(helper) /\ helper.preexec \in BOOLEAN /\ helper.ran \in BOOLEAN
WireShaped == wire = AsWire(wire) /\ wire.ack \in BOOLEAN
RxShaped == rx = AsRx(rx) /\ rx.thread \in {"none", "run", "done"} /\ rx.count \in Nat
MonShaped ==
  /\ mon = AsMon(mon) /\ mon.thread \in {"none", "ready", "run", "answered", "done"}
  /\ mon.answered \in Nat /\ mon.count \in Nat /\ mon.started \in BOOLEAN
ScopeShaped ==
  /\ scope = AsScope(scope)
  /\ scope.unit \in BOOLEAN /\ scope.pinned \in BOOLEAN /\ scope.owned \in BOOLEAN /\ scope.locked \in BOOLEAN
  /\ scope.closeReq \in BOOLEAN
Shaped == StepShaped /\ HostShaped /\ HelperShaped /\ WireShaped /\ RxShaped /\ MonShaped /\ ScopeShaped

\* Before the launcher is there, nothing of the command is.
NotLaunched == helper = FreshHelper /\ live = {} /\ scope.unit = FALSE /\ scope.pinned = FALSE
Untouched ==
  host.pc \in Constructing =>
    /\ NotLaunched /\ wire = FreshWire /\ rx = FreshRx /\ mon = FreshMon /\ scope = FreshScope
    /\ host.launched = FALSE /\ host.error = "none" /\ host.started = "unknown"
    /\ host.unknown = FALSE /\ host.opaque = FALSE /\ host.raised = FALSE
\* It is said not to have started only where it was never launched.
NeverLaunched ==
  host.started = "no" => NotLaunched /\ host.pc \in Leaving /\ rx.thread = "none" /\ mon.thread = "none"
Unlaunched == host.launched = FALSE => scope.unit = FALSE

\* What is no longer there, at each place of the way out, unless the broker says it does not know.
RaiseUnknown == host.raised => host.unknown
GroupOver == host.pc \in Leaving => live = {} \/ (host.unknown = TRUE /\ host.error # "none")
ReceiverOver == host.pc \in PastReceiver => rx.thread # "run" \/ host.unknown
MonitorOver ==
  /\ host.pc \in PastMonitor => mon.thread \in {"none", "done"} \/ host.unknown
  /\ host.monClosed => mon.thread \in {"none", "done"} /\ host.pc \in PastMonitor
ScopeOver ==
  /\ host.pc \in PastScope => scope.unit = FALSE \/ host.unknown
  /\ host.collected = "yes" => scope.unit = FALSE /\ host.pc \in PastScope
Unpinned ==
  host.pc \in Concluding =>
    /\ scope.pinned => host.raised
    /\ scope.closeReq \/ (rx.thread = "none" /\ scope.pinned = FALSE)

\* What each party relies on: the acknowledgement on the pinned scope, the child
\* on the acknowledgement, the payload on the observer.
Acknowledged ==
  /\ wire.ack => scope.owned /\ rx.count # 0
  /\ scope.locked => rx.count = 0
  /\ helper.child # "none" \/ helper.at \in {"namespaces", "waitInit"} => wire.ack
Listening == wire.hand = "acked" \/ helper.child = "exec" => mon.started
\* A launch that failed has not run a payload and will not; the frame says so.
Unrun ==
  /\ helper.ran => helper.child \in {"exec", "over"} /\ helper.preexec = FALSE
  /\ helper.preexec => helper.child \in {"none", "over"} /\ helper.at \notin {"setup", "await", "namespaces"}
  /\ helper.at \in {"setup", "await", "namespaces"} => helper.child = "none"
Framed ==
  /\ AreFrames(wire.frames, helper.preexec)
  /\ rx.terminal = "preexec_failed" => helper.preexec
\* The observer's thread starts with the listener; it has recorded what it has answered.
ObserverDue == host.pc \in {"observe", "receiver", "handoff"} => mon.thread = "none"
Counted == IF mon.thread = "answered" THEN mon.answered = mon.count + 1 ELSE mon.answered = mon.count

\* What the last command has left shuts the step for good.
Lent ==
  /\ step.inflight => mode = "borrowed" /\ last.residue = FALSE
  /\ mode = "borrowed" /\ host.pc # "idle" => step.inflight
  /\ mode = "borrowed" /\ last.residue => step.consume = "faulted"
Accepted ==
  host.pc = "idle" /\ last.error = "none" =>
    /\ live = {} /\ scope.unit = FALSE /\ scope.pinned = FALSE
    /\ mon.thread \in {"none", "done"} /\ last.denials = mon.answered
LastSaid == last.residue \in BOOLEAN /\ (last.started = "no" => ~last.ran)

LinuxInv ==
  /\ Shaped /\ Untouched /\ NeverLaunched /\ Unlaunched
  /\ RaiseUnknown /\ GroupOver /\ ReceiverOver /\ MonitorOver /\ ScopeOver /\ Unpinned
  /\ Acknowledged /\ Listening /\ Unrun /\ Framed /\ ObserverDue /\ Counted
  /\ Lent /\ Accepted /\ LastSaid

\* Frames are taken at the front and put behind the others.
LEMMA TakeFrame ==
  ASSUME NEW failed, NEW f, f # <<>>, AreFrames(f, failed)
  PROVE  AreFrames(Tail(f), failed) /\ (Head(f) = "preexec_failed" => failed)
<1>1. Len(f) \in Nat /\ Len(f) # 0 /\ Head(f) = f[1]
  BY EmptySeq, HeadTailProperties DEF AreFrames
<1>2. Tail(f) \in Seq(FrameNames) /\ Len(Tail(f)) = Len(f) - 1 /\ \A i \in 1 .. Len(Tail(f)) : Tail(f)[i] = f[i + 1]
  BY HeadTailProperties DEF AreFrames
<1>3. \A i \in 1 .. Len(Tail(f)) : Tail(f)[i] = "preexec_failed" => failed
  BY <1>1, <1>2 DEF AreFrames
<1> QED BY <1>1, <1>2, <1>3 DEF AreFrames

LEMMA PutFrame ==
  ASSUME NEW failed, NEW f, NEW t \in FrameNames, AreFrames(f, failed), t = "preexec_failed" => failed
  PROVE  AreFrames(Append(f, t), failed)
BY AppendProperties DEF AreFrames

LEMMA FirstFrames ==
  ASSUME NEW failed PROVE AreFrames(<<>>, failed) /\ AreFrames(<<"configured">>, failed)
BY EmptySeq, IsASeq DEF AreFrames, FrameNames

\* The main thread.  A command that begins finds nothing of the one before; one that is
\* refused changes no more than the step.
LEMMA BeginCommandKeeps == ASSUME LinuxInv, BeginCommand PROVE LinuxInv'
<1> DEFINE Begins == /\ host' = [FreshHost(host.n + 1) EXCEPT !.pc = "construct"]
                     /\ step' = [step EXCEPT !.inflight = (mode = "borrowed")]
                     /\ helper' = FreshHelper /\ live' = {} /\ wire' = FreshWire
                     /\ rx' = FreshRx /\ mon' = FreshMon /\ scope' = FreshScope
                     /\ last' = last /\ (mode = "borrowed" => MayBorrow)
           Refuses == /\ host' = [host EXCEPT !.n = @ + 1] /\ last' = RefusedCommand
                      /\ UNCHANGED <<helper, live, wire, rx, mon, scope>>
                      /\ step' = step \/ step' = [step EXCEPT !.consume = "faulted"]
<1>1. mode' = mode /\ host.pc = "idle" /\ (Begins \/ Refuses)
  BY DEF BeginCommand, CheckFails, HelperRefused, sandbox, threads
<1>2. ASSUME Begins PROVE LinuxInv'
  <2>1. Shaped'
    BY <1>1, <1>2 DEF LinuxInv, Shaped, StepShaped, HostShaped, HelperShaped, WireShaped, RxShaped, MonShaped,
       ScopeShaped, AsStep, AsHost, AsHelper, AsWire, AsRx, AsMon, AsScope, FreshHost, FreshHelper, FreshWire,
       FreshRx, FreshMon, FreshScope, HostPlaces
  <2>2. host'.pc = "construct" /\ host'.launched = FALSE /\ host'.error = "none" /\ host'.started = "unknown"
        /\ host'.unknown = FALSE /\ host'.opaque = FALSE /\ host'.raised = FALSE /\ host'.monClosed = FALSE
        /\ host'.collected = "none"
    BY <1>2 DEF FreshHost
  <2>3. Untouched' /\ NeverLaunched' /\ Unlaunched'
    BY <1>2, <2>2 DEF Untouched, NeverLaunched, Unlaunched, NotLaunched, FreshScope
  <2>4. RaiseUnknown' /\ GroupOver' /\ ReceiverOver' /\ MonitorOver' /\ ScopeOver' /\ Unpinned'
    BY <2>2 DEF RaiseUnknown, GroupOver, ReceiverOver, MonitorOver, ScopeOver, Unpinned, Leaving, PastReceiver,
       PastMonitor, PastScope, Concluding
  <2>5. Acknowledged' /\ Listening' /\ Unrun' /\ ObserverDue' /\ Counted'
    BY <1>2, <2>2 DEF Acknowledged, Listening, Unrun, ObserverDue, Counted, FreshHelper, FreshWire, FreshRx, FreshMon, FreshScope
  <2>6. Framed'
    <3>1. wire'.frames = <<>> /\ rx'.terminal = "none"
      BY <1>2 DEF FreshWire, FreshRx
    <3> QED BY <3>1, FirstFrames DEF Framed
  <2>7. Lent'
    BY <1>1, <1>2 DEF LinuxInv, Shaped, StepShaped, AsStep, Lent, MayBorrow, LastSaid
  <2>8. Accepted' /\ LastSaid'
    BY <1>2, <2>2 DEF LinuxInv, Accepted, LastSaid
  <2> QED BY <2>1, <2>3, <2>4, <2>5, <2>6, <2>7, <2>8 DEF LinuxInv
<1>3. ASSUME Refuses PROVE LinuxInv'
  <2>1. Shaped'
    BY <1>1, <1>3 DEF LinuxInv, Shaped, StepShaped, HostShaped, HelperShaped, WireShaped, RxShaped, MonShaped,
       ScopeShaped, AsStep, AsHost, HostPlaces
  <2>2. last'.error = "isolation_unavailable" /\ last'.ran = FALSE /\ last'.residue = last.residue
    BY <1>3 DEF RefusedCommand, NoOutcome
  <2>3. host'.pc = host.pc /\ host'.launched = host.launched /\ host'.error = host.error
        /\ host'.started = host.started /\ host'.unknown = host.unknown /\ host'.opaque = host.opaque
        /\ host'.raised = host.raised /\ host'.monClosed = host.monClosed /\ host'.collected = host.collected
    BY <1>3 DEF LinuxInv, Shaped, HostShaped, AsHost
  <2>4. Untouched' /\ NeverLaunched' /\ Unlaunched'
    BY <1>1, <1>3, <2>3 DEF LinuxInv, Untouched, NeverLaunched, Unlaunched, NotLaunched, Constructing
  <2>5. RaiseUnknown' /\ GroupOver' /\ ReceiverOver' /\ MonitorOver' /\ ScopeOver' /\ Unpinned'
    BY <1>3, <2>3 DEF LinuxInv, RaiseUnknown, GroupOver, ReceiverOver, MonitorOver, ScopeOver, Unpinned
  <2>6. Acknowledged' /\ Listening' /\ Unrun' /\ Framed' /\ ObserverDue' /\ Counted'
    BY <1>3, <2>3 DEF LinuxInv, Acknowledged, Listening, Unrun, Framed, ObserverDue, Counted
  <2>7. Lent'
    BY <1>1, <1>3, <2>2, <2>3 DEF LinuxInv, Shaped, StepShaped, AsStep, Lent
  <2>8. Accepted' /\ LastSaid'
    BY <1>3, <2>2 DEF LinuxInv, Accepted, LastSaid
  <2> QED BY <2>1, <2>4, <2>5, <2>6, <2>7, <2>8 DEF LinuxInv
<1> QED BY <1>1, <1>2, <1>3

LEMMA ConstructKeeps == ASSUME LinuxInv, Construct PROVE LinuxInv'
<1> USE DEF LinuxInv, Shaped, Construct, Fault, Spared, Fails, sandbox, threads, StepShaped, AsStep, HostShaped,
     AsHost, HelperShaped, AsHelper, WireShaped, AsWire, RxShaped, AsRx, MonShaped, AsMon, ScopeShaped, AsScope,
     HostPlaces
<1>1. HostShaped'
  OBVIOUS
<1>2. Untouched'
BY DEF Untouched, Constructing, NotLaunched, FreshHelper, FreshWire, FreshRx, FreshMon, FreshScope
<1>3. NeverLaunched'
  <2>1. host'.started = "no" => host'.pc = "drain"
    BY DEF Untouched, Constructing
  <2>2. host.pc = "construct" /\ UNCHANGED <<helper, live, scope, rx, mon>>
    OBVIOUS
  <2> HIDE DEF Construct
  <2>3. NotLaunched /\ rx.thread = "none" /\ mon.thread = "none"
    BY <2>2 DEF Untouched, Constructing, FreshRx, FreshMon
  <2> QED BY <2>1, <2>2, <2>3 DEF NeverLaunched, NotLaunched, Leaving
<1>4. Unlaunched'
BY DEF Unlaunched, Untouched, Constructing, NotLaunched, FreshHelper, FreshWire, FreshRx, FreshMon, FreshScope
<1>5. RaiseUnknown'
BY DEF RaiseUnknown, Untouched, Constructing, NotLaunched, FreshHelper, FreshWire, FreshRx, FreshMon, FreshScope
<1>6. GroupOver'
BY DEF GroupOver, Untouched, Constructing, Leaving, NotLaunched, FreshHelper, FreshWire, FreshRx, FreshMon,
     FreshScope
<1>7. ReceiverOver'
BY DEF ReceiverOver, Untouched, Constructing, PastReceiver, NotLaunched, FreshHelper, FreshWire, FreshRx,
     FreshMon, FreshScope
<1>8. MonitorOver'
  <2>1. host'.pc \in {"construct", "spawn", "drain"} /\ mon' = mon /\ host'.monClosed = host.monClosed
    OBVIOUS
  <2>2. host.pc = "construct" /\ host.monClosed \in BOOLEAN
    OBVIOUS
  <2> HIDE DEF Construct
  <2>3. host.monClosed = FALSE
    BY <2>2 DEF MonitorOver, PastMonitor
  <2> QED BY <2>1, <2>3 DEF MonitorOver, PastMonitor
<1>9. ScopeOver'
BY DEF ScopeOver, Unlaunched, Untouched, Constructing, PastScope, NotLaunched, FreshHelper, FreshWire, FreshRx,
     FreshMon, FreshScope
<1>10. Unpinned'
BY DEF Unpinned, Untouched, NeverLaunched, Constructing, Leaving, Concluding, NotLaunched, FreshHelper, FreshWire,
     FreshRx, FreshMon, FreshScope
<1>11. ObserverDue'
BY DEF ObserverDue, Untouched, Constructing, NotLaunched, FreshHelper, FreshWire, FreshRx, FreshMon, FreshScope
<1>12. Lent'
BY DEF Lent
<1>13. Accepted'
BY DEF Accepted, Counted
<1>14. Framed'
  BY DEF Framed
<1>15. StepShaped' /\ HelperShaped' /\ WireShaped' /\ RxShaped' /\ MonShaped' /\ ScopeShaped' /\ Acknowledged'
     /\ Listening' /\ Unrun' /\ Counted' /\ LastSaid'
  <2>1. UNCHANGED <<step, mode, helper, wire, rx, mon, scope, last>>
    OBVIOUS
  <2> HIDE DEF Construct
  <2> QED BY <2>1 DEF Acknowledged, Listening, Unrun, Counted, LastSaid
<1> QED BY <1>1, <1>2, <1>3, <1>4, <1>5, <1>6, <1>7, <1>8, <1>9, <1>10, <1>11, <1>12, <1>13, <1>14, <1>15

LEMMA SpawnKeeps == ASSUME LinuxInv, Spawn PROVE LinuxInv'
<1> USE DEF LinuxInv, Shaped, Spawn, Fault, Spared, Fails, LaunchErrors, StepShaped, AsStep, HostShaped, AsHost,
     HelperShaped, AsHelper, WireShaped, AsWire, RxShaped, AsRx, MonShaped, AsMon, ScopeShaped, AsScope,
     HostPlaces
<1>1. HostShaped'
  OBVIOUS
<1>2. HelperShaped'
  OBVIOUS
<1>3. ScopeShaped'
  OBVIOUS
<1>4. Untouched'
BY DEF Untouched, Constructing, NotLaunched, FreshHelper, FreshWire, FreshRx, FreshMon, FreshScope
<1>5. NeverLaunched'
  <2>1. host'.started = "no" => host'.pc = "drain" /\ UNCHANGED <<helper, live, scope>>
    BY DEF Untouched, Constructing
  <2>2. NotLaunched /\ rx'.thread = "none" /\ mon'.thread = "none"
    BY DEF Untouched, NotLaunched, Constructing, FreshRx, FreshMon
  <2> QED BY <2>1, <2>2 DEF NeverLaunched, NotLaunched, Leaving
<1>6. Unlaunched'
BY DEF Unlaunched, Untouched, Constructing, NotLaunched, FreshHelper, FreshWire, FreshRx, FreshMon, FreshScope
<1>7. RaiseUnknown'
BY DEF RaiseUnknown, Untouched, Constructing, NotLaunched, FreshHelper, FreshWire, FreshRx, FreshMon, FreshScope
<1>8. GroupOver'
BY DEF GroupOver, Untouched, Constructing, Leaving, NotLaunched, FreshHelper, FreshWire, FreshRx, FreshMon,
     FreshScope
<1>9. ReceiverOver'
BY DEF ReceiverOver, Untouched, Constructing, PastReceiver, NotLaunched, FreshHelper, FreshWire, FreshRx,
     FreshMon, FreshScope
<1>10. MonitorOver'
BY DEF MonitorOver, Untouched, Constructing, PastMonitor, NotLaunched, FreshHelper, FreshWire, FreshRx,
     FreshMon, FreshScope
<1>11. ScopeOver'
BY DEF ScopeOver, Unlaunched, Untouched, Constructing, PastScope, NotLaunched, FreshHelper, FreshWire, FreshRx,
     FreshMon, FreshScope
<1>12. Unpinned'
BY DEF Unpinned, Untouched, NeverLaunched, Constructing, Leaving, Concluding, NotLaunched, FreshHelper, FreshWire,
     FreshRx, FreshMon, FreshScope
<1>13. Acknowledged'
BY DEF Acknowledged, Untouched, Constructing, NotLaunched, FreshHelper, FreshWire, FreshRx, FreshMon, FreshScope
<1>14. Listening'
BY DEF Listening, Untouched, Constructing, NotLaunched, FreshHelper, FreshWire, FreshRx, FreshMon, FreshScope
<1>15. Unrun'
  <2>1. helper.child = "none" /\ helper.preexec = FALSE /\ helper.ran = FALSE
    BY DEF Untouched, NotLaunched, Constructing, FreshHelper
  <2>2. helper'.child = "none" /\ helper'.preexec = FALSE /\ helper'.ran = FALSE
    BY <2>1
  <2> QED BY <2>2 DEF Unrun
<1>16. Framed'
BY DEF Framed, Unrun, AreFrames
<1>17. ObserverDue'
BY DEF ObserverDue, Untouched, Constructing, NotLaunched, FreshHelper, FreshWire, FreshRx, FreshMon, FreshScope
<1>18. Lent'
BY DEF Lent
<1>19. Accepted'
BY DEF Accepted, Counted
<1>20. StepShaped' /\ WireShaped' /\ RxShaped' /\ MonShaped' /\ Counted' /\ LastSaid'
BY DEF Counted, LastSaid
<1> QED BY <1>1, <1>2, <1>3, <1>4, <1>5, <1>6, <1>7, <1>8, <1>9, <1>10, <1>11, <1>12, <1>13, <1>14, <1>15,
     <1>16, <1>17, <1>18, <1>19, <1>20

LEMMA ObserveEndpointsKeeps == ASSUME LinuxInv, ObserveEndpoints PROVE LinuxInv'
<1> USE DEF LinuxInv, Shaped, ObserveEndpoints, Fault, Spared, Abort, StepShaped, AsStep, HostShaped, AsHost,
     HelperShaped, AsHelper, WireShaped, AsWire, RxShaped, AsRx, MonShaped, AsMon, ScopeShaped, AsScope,
     HostPlaces
<1>1. HostShaped'
  OBVIOUS
<1>2. MonShaped'
  OBVIOUS
<1>3. Untouched'
BY DEF Untouched, Constructing, NotLaunched
<1>4. NeverLaunched'
BY DEF NeverLaunched, Leaving, NotLaunched
<1>5. Unlaunched'
  <2>1. host'.launched = host.launched /\ scope' = scope
    OBVIOUS
  <2> QED BY <2>1 DEF Unlaunched
<1>6. RaiseUnknown'
BY DEF RaiseUnknown
<1>7. GroupOver'
BY DEF GroupOver, Leaving
<1>8. ReceiverOver'
BY DEF ReceiverOver, PastReceiver
<1>9. MonitorOver'
BY DEF MonitorOver, PastMonitor
<1>10. ScopeOver'
BY DEF ScopeOver, PastScope
<1>11. Unpinned'
BY DEF Unpinned, Concluding
<1>12. Listening'
BY DEF Listening
<1>13. ObserverDue'
BY DEF ObserverDue
<1>14. Counted'
BY DEF Counted
<1>15. Lent'
BY DEF Lent
<1>16. Accepted'
BY DEF Accepted
<1>17. Framed'
  BY DEF Framed
<1>18. StepShaped' /\ HelperShaped' /\ WireShaped' /\ RxShaped' /\ ScopeShaped' /\ Acknowledged' /\ Unrun' /\
     LastSaid'
BY DEF Acknowledged, Unrun, LastSaid
<1> QED BY <1>1, <1>2, <1>3, <1>4, <1>5, <1>6, <1>7, <1>8, <1>9, <1>10, <1>11, <1>12, <1>13, <1>14, <1>15,
     <1>16, <1>17, <1>18

LEMMA StartReceiverKeeps == ASSUME LinuxInv, StartReceiver PROVE LinuxInv'
<1> USE DEF LinuxInv, Shaped, StartReceiver, Fault, Spared, Abort, StepShaped, AsStep, HostShaped, AsHost,
     HelperShaped, AsHelper, WireShaped, AsWire, RxShaped, AsRx, MonShaped, AsMon, ScopeShaped, AsScope,
     HostPlaces
<1>1. HostShaped'
  OBVIOUS
<1>2. RxShaped'
  OBVIOUS
<1>3. MonShaped'
  OBVIOUS
<1>4. Untouched'
BY DEF Untouched, Constructing, NotLaunched
<1>5. NeverLaunched'
BY DEF NeverLaunched, Leaving, NotLaunched
<1>6. Unlaunched'
BY DEF Unlaunched
<1>7. RaiseUnknown'
BY DEF RaiseUnknown
<1>8. GroupOver'
BY DEF GroupOver, Leaving
<1>9. ReceiverOver'
BY DEF ReceiverOver, PastReceiver
<1>10. MonitorOver'
BY DEF MonitorOver, PastMonitor
<1>11. ScopeOver'
BY DEF ScopeOver, PastScope
<1>12. Unpinned'
BY DEF Unpinned, Concluding
<1>13. Acknowledged'
BY DEF Acknowledged
<1>14. Listening'
BY DEF Listening
<1>15. Framed'
BY DEF Framed, AreFrames
<1>16. ObserverDue'
BY DEF ObserverDue
<1>17. Counted'
BY DEF Counted
<1>18. Lent'
BY DEF Lent
<1>19. Accepted'
BY DEF Accepted
<1>20. StepShaped' /\ HelperShaped' /\ WireShaped' /\ ScopeShaped' /\ Unrun' /\ LastSaid'
BY DEF Unrun, LastSaid
<1> QED BY <1>1, <1>2, <1>3, <1>4, <1>5, <1>6, <1>7, <1>8, <1>9, <1>10, <1>11, <1>12, <1>13, <1>14, <1>15,
     <1>16, <1>17, <1>18, <1>19, <1>20

LEMMA ReceiveListenerKeeps == ASSUME LinuxInv, ReceiveListener PROVE LinuxInv'
<1> USE DEF LinuxInv, Shaped, ReceiveListener, Fault, Spared, Abort, StepShaped, AsStep, HostShaped, AsHost,
     HelperShaped, AsHelper, WireShaped, AsWire, RxShaped, AsRx, MonShaped, AsMon, ScopeShaped, AsScope,
     HostPlaces
<1>1. HostShaped'
  OBVIOUS
<1>2. MonShaped'
  OBVIOUS
<1>3. Untouched'
BY DEF Untouched, Constructing, NotLaunched
<1>4. NeverLaunched'
BY DEF NeverLaunched, Leaving, NotLaunched
<1>5. Unlaunched'
BY DEF Unlaunched
<1>6. RaiseUnknown'
BY DEF RaiseUnknown
<1>7. GroupOver'
BY DEF GroupOver, Leaving
<1>8. ReceiverOver'
BY DEF ReceiverOver, PastReceiver
<1>9. MonitorOver'
BY DEF MonitorOver, PastMonitor
<1>10. ScopeOver'
BY DEF ScopeOver, PastScope
<1>11. Unpinned'
BY DEF Unpinned, Concluding
<1>12. Listening'
BY DEF Listening
<1>13. ObserverDue'
BY DEF ObserverDue
<1>14. Counted'
  <2>1. mon'.count = mon.count /\ mon'.answered = mon.answered
    OBVIOUS
  <2>2. mon'.thread = mon.thread \/ (host.pc = "handoff" /\ mon'.thread = "ready")
    OBVIOUS
  <2>3. host.pc = "handoff" => mon.thread # "answered"
    BY DEF ObserverDue
  <2> QED BY <2>1, <2>2, <2>3 DEF Counted
<1>15. Lent'
BY DEF Lent
<1>16. Accepted'
BY DEF Accepted
<1>17. Framed'
  BY DEF Framed
<1>18. StepShaped' /\ HelperShaped' /\ WireShaped' /\ RxShaped' /\ ScopeShaped' /\ Acknowledged' /\ Unrun' /\
     LastSaid'
BY DEF Acknowledged, Unrun, LastSaid
<1> QED BY <1>1, <1>2, <1>3, <1>4, <1>5, <1>6, <1>7, <1>8, <1>9, <1>10, <1>11, <1>12, <1>13, <1>14, <1>15,
     <1>16, <1>17, <1>18

LEMMA AcknowledgeIfHealthyKeeps == ASSUME LinuxInv, AcknowledgeIfHealthy PROVE LinuxInv'
<1> USE DEF LinuxInv, Shaped, AcknowledgeIfHealthy, Abort, StepShaped, AsStep, HostShaped, AsHost, HelperShaped,
     AsHelper, WireShaped, AsWire, RxShaped, AsRx, MonShaped, AsMon, ScopeShaped, AsScope, HostPlaces
<1>1. HostShaped'
  OBVIOUS
<1>2. WireShaped'
  OBVIOUS
<1>3. MonShaped'
  OBVIOUS
<1>4. Untouched'
BY DEF Untouched, Constructing, NotLaunched
<1>5. NeverLaunched'
BY DEF NeverLaunched, Leaving, NotLaunched
<1>6. Unlaunched'
BY DEF Unlaunched
<1>7. RaiseUnknown'
BY DEF RaiseUnknown
<1>8. GroupOver'
BY DEF GroupOver, Leaving
<1>9. ReceiverOver'
BY DEF ReceiverOver, PastReceiver
<1>10. MonitorOver'
BY DEF MonitorOver, PastMonitor
<1>11. ScopeOver'
BY DEF ScopeOver, PastScope
<1>12. Unpinned'
BY DEF Unpinned, Concluding
<1>13. Acknowledged'
BY DEF Acknowledged
<1>14. Listening'
BY DEF Listening
<1>15. Framed'
  <2>1. wire'.frames = wire.frames /\ helper' = helper /\ rx' = rx
    OBVIOUS
  <2> HIDE DEF AcknowledgeIfHealthy
  <2> QED BY <2>1 DEF Framed
<1>16. ObserverDue'
BY DEF ObserverDue
<1>17. Counted'
BY DEF Counted
<1>18. Lent'
BY DEF Lent
<1>19. Accepted'
BY DEF Accepted
<1>20. StepShaped' /\ HelperShaped' /\ RxShaped' /\ ScopeShaped' /\ Unrun' /\ LastSaid'
BY DEF Unrun, LastSaid
<1> QED BY <1>1, <1>2, <1>3, <1>4, <1>5, <1>6, <1>7, <1>8, <1>9, <1>10, <1>11, <1>12, <1>13, <1>14, <1>15,
     <1>16, <1>17, <1>18, <1>19, <1>20

LEMMA ReadOutputKeeps == ASSUME LinuxInv, ReadOutput PROVE LinuxInv'
<1> USE DEF LinuxInv, Shaped, ReadOutput, Fault, Spared, sandbox, threads, StepShaped, AsStep, HostShaped,
     AsHost, HelperShaped, AsHelper, WireShaped, AsWire, RxShaped, AsRx, MonShaped, AsMon, ScopeShaped, AsScope,
     HostPlaces
<1>1. HostShaped'
  OBVIOUS
<1>2. Untouched'
BY DEF Untouched, Constructing, NotLaunched
<1>3. NeverLaunched'
BY DEF NeverLaunched, Leaving, NotLaunched
<1>4. Unlaunched'
BY DEF Unlaunched
<1>5. RaiseUnknown'
BY DEF RaiseUnknown
<1>6. GroupOver'
BY DEF GroupOver, Leaving
<1>7. ReceiverOver'
BY DEF ReceiverOver, PastReceiver
<1>8. MonitorOver'
BY DEF MonitorOver, PastMonitor
<1>9. ScopeOver'
BY DEF ScopeOver, PastScope
<1>10. Unpinned'
BY DEF Unpinned, Concluding
<1>11. ObserverDue'
BY DEF ObserverDue
<1>12. Lent'
BY DEF Lent
<1>13. Accepted'
BY DEF Accepted
<1>14. Framed'
  BY DEF Framed
<1>15. StepShaped' /\ HelperShaped' /\ WireShaped' /\ RxShaped' /\ MonShaped' /\ ScopeShaped' /\ Acknowledged'
     /\ Listening' /\ Unrun' /\ Counted' /\ LastSaid'
BY DEF Acknowledged, Listening, Unrun, Counted, LastSaid
<1> QED BY <1>1, <1>2, <1>3, <1>4, <1>5, <1>6, <1>7, <1>8, <1>9, <1>10, <1>11, <1>12, <1>13, <1>14, <1>15

LEMMA StopGroupKeeps == ASSUME LinuxInv, StopGroup PROVE LinuxInv'
<1> USE DEF LinuxInv, Shaped, StopGroup, Fault, Spared, threads, StepShaped, AsStep, HostShaped, AsHost,
     HelperShaped, AsHelper, WireShaped, AsWire, RxShaped, AsRx, MonShaped, AsMon, ScopeShaped, AsScope,
     HostPlaces
<1>1. HostShaped'
  OBVIOUS
<1>2. Untouched'
BY DEF Untouched, Constructing, NotLaunched
<1>3. NeverLaunched'
BY DEF NeverLaunched, Leaving, NotLaunched
<1>4. Unlaunched'
BY DEF Unlaunched
<1>5. RaiseUnknown'
BY DEF RaiseUnknown
<1>6. GroupOver'
BY DEF GroupOver, Leaving
<1>7. ReceiverOver'
BY DEF ReceiverOver, PastReceiver
<1>8. MonitorOver'
BY DEF MonitorOver, PastMonitor
<1>9. ScopeOver'
BY DEF ScopeOver, PastScope
<1>10. Unpinned'
BY DEF Unpinned, Concluding
<1>11. ObserverDue'
BY DEF ObserverDue
<1>12. Lent'
BY DEF Lent
<1>13. Accepted'
BY DEF Accepted
<1>14. Framed'
  BY DEF Framed
<1>15. StepShaped' /\ HelperShaped' /\ WireShaped' /\ RxShaped' /\ MonShaped' /\ ScopeShaped' /\ Acknowledged'
     /\ Listening' /\ Unrun' /\ Counted' /\ LastSaid'
BY DEF Acknowledged, Listening, Unrun, Counted, LastSaid
<1> QED BY <1>1, <1>2, <1>3, <1>4, <1>5, <1>6, <1>7, <1>8, <1>9, <1>10, <1>11, <1>12, <1>13, <1>14, <1>15

LEMMA DrainResourceKeeps == ASSUME LinuxInv, DrainResource PROVE LinuxInv'
<1> USE DEF LinuxInv, Shaped, DrainResource, sandbox, StepShaped, AsStep, HostShaped, AsHost, HelperShaped,
     AsHelper, WireShaped, AsWire, RxShaped, AsRx, MonShaped, AsMon, ScopeShaped, AsScope, HostPlaces
<1>1. HostShaped'
  OBVIOUS
<1>2. RxShaped'
  OBVIOUS
<1>3. Untouched'
BY DEF Untouched, Constructing, NotLaunched
<1>4. NeverLaunched'
BY DEF NeverLaunched, Leaving, NotLaunched
<1>5. Unlaunched'
BY DEF Unlaunched
<1>6. RaiseUnknown'
BY DEF RaiseUnknown
<1>7. GroupOver'
BY DEF GroupOver, Leaving
<1>8. ReceiverOver'
BY DEF ReceiverOver, PastReceiver
<1>9. MonitorOver'
BY DEF MonitorOver, PastMonitor
<1>10. ScopeOver'
BY DEF ScopeOver, PastScope
<1>11. Unpinned'
BY DEF Unpinned, Concluding
<1>12. Acknowledged'
BY DEF Acknowledged
<1>13. Framed'
BY DEF Framed, AreFrames
<1>14. ObserverDue'
BY DEF ObserverDue
<1>15. Lent'
BY DEF Lent
<1>16. Accepted'
BY DEF Accepted
<1>17. StepShaped' /\ HelperShaped' /\ WireShaped' /\ MonShaped' /\ ScopeShaped' /\ Listening' /\ Unrun' /\
     Counted' /\ LastSaid'
BY DEF Listening, Unrun, Counted, LastSaid
<1> QED BY <1>1, <1>2, <1>3, <1>4, <1>5, <1>6, <1>7, <1>8, <1>9, <1>10, <1>11, <1>12, <1>13, <1>14, <1>15,
     <1>16, <1>17

LEMMA JoinReceiverKeeps == ASSUME LinuxInv, JoinReceiver PROVE LinuxInv'
<1> USE DEF LinuxInv, Shaped, JoinReceiver, Fault, Spared, sandbox, StepShaped, AsStep, HostShaped, AsHost,
     HelperShaped, AsHelper, WireShaped, AsWire, RxShaped, AsRx, MonShaped, AsMon, ScopeShaped, AsScope,
     HostPlaces
<1>1. HostShaped'
  OBVIOUS
<1>2. MonShaped'
  OBVIOUS
<1>3. Untouched'
BY DEF Untouched, Constructing, NotLaunched
<1>4. NeverLaunched'
BY DEF NeverLaunched, Leaving, NotLaunched
<1>5. Unlaunched'
BY DEF Unlaunched
<1>6. RaiseUnknown'
BY DEF RaiseUnknown
<1>7. GroupOver'
BY DEF GroupOver, Leaving
<1>8. ReceiverOver'
BY DEF ReceiverOver, PastReceiver
<1>9. MonitorOver'
BY DEF MonitorOver, PastMonitor
<1>10. ScopeOver'
BY DEF ScopeOver, PastScope
<1>11. Unpinned'
BY DEF Unpinned, Concluding
<1>12. Listening'
BY DEF Listening
<1>13. ObserverDue'
BY DEF ObserverDue
<1>14. Counted'
BY DEF Counted
<1>15. Lent'
BY DEF Lent
<1>16. Accepted'
BY DEF Accepted
<1>17. Framed'
  BY DEF Framed
<1>18. StepShaped' /\ HelperShaped' /\ WireShaped' /\ RxShaped' /\ ScopeShaped' /\ Acknowledged' /\ Unrun' /\
     LastSaid'
  <2>1. UNCHANGED <<step, mode, helper, wire, rx, scope, last>>
    OBVIOUS
  <2> HIDE DEF JoinReceiver
  <2> QED BY <2>1 DEF Acknowledged, Unrun, LastSaid
<1> QED BY <1>1, <1>2, <1>3, <1>4, <1>5, <1>6, <1>7, <1>8, <1>9, <1>10, <1>11, <1>12, <1>13, <1>14, <1>15,
     <1>16, <1>17, <1>18

LEMMA JoinMonitorKeeps == ASSUME LinuxInv, JoinMonitor PROVE LinuxInv'
<1> USE DEF LinuxInv, Shaped, JoinMonitor, Fault, Spared, sandbox, StepShaped, AsStep, HostShaped, AsHost,
     HelperShaped, AsHelper, WireShaped, AsWire, RxShaped, AsRx, MonShaped, AsMon, ScopeShaped, AsScope,
     HostPlaces
<1>1. HostShaped'
  OBVIOUS
<1>2. MonShaped'
  OBVIOUS
<1>3. Untouched'
BY DEF Untouched, Constructing, NotLaunched
<1>4. NeverLaunched'
BY DEF NeverLaunched, Leaving, NotLaunched
<1>5. Unlaunched'
BY DEF Unlaunched
<1>6. RaiseUnknown'
BY DEF RaiseUnknown
<1>7. GroupOver'
BY DEF GroupOver, Leaving
<1>8. ReceiverOver'
BY DEF ReceiverOver, PastReceiver
<1>9. MonitorOver'
BY DEF MonitorOver, PastMonitor
<1>10. ScopeOver'
BY DEF ScopeOver, PastScope
<1>11. Unpinned'
BY DEF Unpinned, Concluding
<1>12. Listening'
BY DEF Listening
<1>13. ObserverDue'
BY DEF ObserverDue
<1>14. Counted'
BY DEF Counted
<1>15. Lent'
BY DEF Lent
<1>16. Accepted'
BY DEF Accepted
<1>17. Framed'
  BY DEF Framed
<1>18. StepShaped' /\ HelperShaped' /\ WireShaped' /\ RxShaped' /\ ScopeShaped' /\ Acknowledged' /\ Unrun' /\
     LastSaid'
BY DEF Acknowledged, Unrun, LastSaid
<1> QED BY <1>1, <1>2, <1>3, <1>4, <1>5, <1>6, <1>7, <1>8, <1>9, <1>10, <1>11, <1>12, <1>13, <1>14, <1>15,
     <1>16, <1>17, <1>18

LEMMA CollectKeeps == ASSUME LinuxInv, Collect PROVE LinuxInv'
<1> USE DEF LinuxInv, Shaped, Collect, sandbox, threads, StepShaped, AsStep, HostShaped, AsHost, HelperShaped,
     AsHelper, WireShaped, AsWire, RxShaped, AsRx, MonShaped, AsMon, ScopeShaped, AsScope, HostPlaces
<1>1. HostShaped'
  OBVIOUS
<1>2. Untouched'
BY DEF Untouched, Constructing, NotLaunched
<1>3. NeverLaunched'
BY DEF NeverLaunched, Leaving, NotLaunched
<1>4. Unlaunched'
BY DEF Unlaunched
<1>5. RaiseUnknown'
BY DEF RaiseUnknown
<1>6. GroupOver'
BY DEF GroupOver, Leaving
<1>7. ReceiverOver'
BY DEF ReceiverOver, PastReceiver
<1>8. MonitorOver'
BY DEF MonitorOver, PastMonitor
<1>9. ScopeOver'
BY DEF ScopeOver, Unlaunched, Untouched, Constructing, PastScope, NotLaunched, FreshHelper, FreshWire, FreshRx,
     FreshMon, FreshScope
<1>10. Unpinned'
BY DEF Unpinned, Concluding
<1>11. ObserverDue'
BY DEF ObserverDue
<1>12. Lent'
BY DEF Lent
<1>13. Accepted'
BY DEF Accepted
<1>14. Framed'
  BY DEF Framed
<1>15. StepShaped' /\ HelperShaped' /\ WireShaped' /\ RxShaped' /\ MonShaped' /\ ScopeShaped' /\ Acknowledged'
     /\ Listening' /\ Unrun' /\ Counted' /\ LastSaid'
BY DEF Acknowledged, Listening, Unrun, Counted, LastSaid
<1> QED BY <1>1, <1>2, <1>3, <1>4, <1>5, <1>6, <1>7, <1>8, <1>9, <1>10, <1>11, <1>12, <1>13, <1>14, <1>15

LEMMA CloseEndpointKeeps == ASSUME LinuxInv, CloseEndpoint PROVE LinuxInv'
<1> USE DEF LinuxInv, Shaped, CloseEndpoint, Fault, Spared, sandbox, threads, StepShaped, AsStep, HostShaped,
     AsHost, HelperShaped, AsHelper, WireShaped, AsWire, RxShaped, AsRx, MonShaped, AsMon, ScopeShaped, AsScope,
     HostPlaces
<1>1. HostShaped'
  OBVIOUS
<1>2. Untouched'
BY DEF Untouched, Constructing, NotLaunched
<1>3. NeverLaunched'
BY DEF NeverLaunched, Leaving, NotLaunched
<1>4. Unlaunched'
BY DEF Unlaunched
<1>5. RaiseUnknown'
BY DEF RaiseUnknown
<1>6. GroupOver'
BY DEF GroupOver, Leaving
<1>7. ReceiverOver'
BY DEF ReceiverOver, PastReceiver
<1>8. MonitorOver'
BY DEF MonitorOver, PastMonitor
<1>9. ScopeOver'
BY DEF ScopeOver, PastScope
<1>10. Unpinned'
BY DEF Unpinned, Concluding
<1>11. ObserverDue'
BY DEF ObserverDue
<1>12. Lent'
BY DEF Lent
<1>13. Accepted'
BY DEF Accepted
<1>14. Framed'
  BY DEF Framed
<1>15. StepShaped' /\ HelperShaped' /\ WireShaped' /\ RxShaped' /\ MonShaped' /\ ScopeShaped' /\ Acknowledged'
     /\ Listening' /\ Unrun' /\ Counted' /\ LastSaid'
BY DEF Acknowledged, Listening, Unrun, Counted, LastSaid
<1> QED BY <1>1, <1>2, <1>3, <1>4, <1>5, <1>6, <1>7, <1>8, <1>9, <1>10, <1>11, <1>12, <1>13, <1>14, <1>15

LEMMA CloseScopeKeeps == ASSUME LinuxInv, CloseScope PROVE LinuxInv'
<1> USE DEF LinuxInv, Shaped, CloseScope, sandbox, StepShaped, AsStep, HostShaped, AsHost, HelperShaped,
     AsHelper, WireShaped, AsWire, RxShaped, AsRx, MonShaped, AsMon, ScopeShaped, AsScope, HostPlaces
<1>1. HostShaped'
  OBVIOUS
<1>2. ScopeShaped'
  OBVIOUS
<1>3. Untouched'
BY DEF Untouched, Constructing, NotLaunched
<1>4. NeverLaunched'
BY DEF NeverLaunched, Leaving, NotLaunched
<1>5. Unlaunched'
BY DEF Unlaunched
<1>6. RaiseUnknown'
BY DEF RaiseUnknown
<1>7. GroupOver'
BY DEF GroupOver, Leaving
<1>8. ReceiverOver'
BY DEF ReceiverOver, PastReceiver
<1>9. MonitorOver'
BY DEF MonitorOver, PastMonitor
<1>10. ScopeOver'
BY DEF ScopeOver, PastScope
<1>11. Unpinned'
BY DEF Unpinned, Concluding
<1>12. Acknowledged'
BY DEF Acknowledged
<1>13. ObserverDue'
BY DEF ObserverDue
<1>14. Lent'
BY DEF Lent
<1>15. Accepted'
BY DEF Accepted
<1>16. Framed'
  BY DEF Framed
<1>17. StepShaped' /\ HelperShaped' /\ WireShaped' /\ RxShaped' /\ MonShaped' /\ Listening' /\ Unrun' /\
     Counted' /\ LastSaid'
BY DEF Listening, Unrun, Counted, LastSaid
<1> QED BY <1>1, <1>2, <1>3, <1>4, <1>5, <1>6, <1>7, <1>8, <1>9, <1>10, <1>11, <1>12, <1>13, <1>14, <1>15,
     <1>16, <1>17

\* A result without an error is one the broker has no doubt about.
LEMMA NoErrorMeans ==
  ASSUME FinalError = "none"
  PROVE  host.error = "none" /\ ObserverOk /\ host.collected = "yes"
BY DEF FinalError, Preserved, NotStarted

\* It is said not to have started when it was not launched, or when the launcher said so.
LEMMA NotStartedMeans ==
  ASSUME Started = "no"
  PROVE  host.started = "no" \/ rx.terminal = "preexec_failed"
BY DEF Started, NotStarted, Terminal

\* Whatever is left of the command, the broker does not know it gone.
LEMMA ResidueKnown ==
  ASSUME LinuxInv, host.pc = "return"
  PROVE  Outcome.residue \in BOOLEAN /\ (Outcome.residue => host.unknown \/ host.opaque)
<1>1. Outcome.residue = (\/ host.opaque \/ host.raised
                         \/ live # {} \/ scope.unit \/ scope.pinned
                         \/ {rx.thread, mon.thread} \cap {"run", "ready", "answered"} # {})
  BY DEF Outcome
<1>2. host.raised => host.unknown
  BY DEF LinuxInv, RaiseUnknown
<1>3. live # {} => host.unknown
  BY DEF LinuxInv, GroupOver, Leaving
<1>4. scope.unit => host.unknown
  BY DEF LinuxInv, Shaped, ScopeShaped, ScopeOver, PastScope
<1>5. scope.pinned => host.unknown
  BY <1>2 DEF LinuxInv, Shaped, ScopeShaped, Unpinned, Concluding
<1>6. {rx.thread, mon.thread} \cap {"run", "ready", "answered"} # {} => host.unknown
  <2>1. rx.thread \in {"none", "run", "done"} /\ (rx.thread = "run" => host.unknown)
    BY DEF LinuxInv, Shaped, RxShaped, ReceiverOver, PastReceiver
  <2>2. mon.thread \in {"none", "done"} \/ host.unknown
    BY DEF LinuxInv, MonitorOver, PastMonitor
  <2> QED BY <2>1, <2>2
<1>7. Outcome.residue \in BOOLEAN
  BY <1>1 DEF LinuxInv, Shaped, HostShaped, ScopeShaped
<1> QED BY <1>1, <1>2, <1>3, <1>4, <1>5, <1>6, <1>7

LEMMA ReturnOutcomeKeeps == ASSUME LinuxInv, ReturnOutcome PROVE LinuxInv'
<1> DEFINE shut == host.unknown \/ host.opaque \/ Terminal = "cleanup_failed"
<1>1. /\ host.pc = "return" /\ last' = Outcome /\ host' = [host EXCEPT !.pc = "idle"]
      /\ UNCHANGED <<mode, helper, live, wire, rx, mon, scope>>
      /\ step' = [step EXCEPT !.inflight = FALSE, !.consume = IF shut THEN "faulted" ELSE @]
  BY DEF ReturnOutcome, Returned, sandbox, threads
<1> HIDE DEF shut
<1>2. Shaped'
  <2>1. StepShaped'
    BY <1>1 DEF LinuxInv, Shaped, StepShaped, AsStep
  <2>2. HostShaped'
    BY <1>1 DEF LinuxInv, Shaped, HostShaped, AsHost, HostPlaces
  <2>3. HelperShaped' /\ WireShaped' /\ RxShaped' /\ MonShaped' /\ ScopeShaped'
    BY <1>1 DEF LinuxInv, Shaped, HelperShaped, WireShaped, RxShaped, MonShaped, ScopeShaped
  <2> QED BY <2>1, <2>2, <2>3 DEF Shaped
<1>3. host'.pc = "idle" /\ host'.launched = host.launched /\ host'.error = host.error
      /\ host'.started = host.started /\ host'.unknown = host.unknown /\ host'.opaque = host.opaque
      /\ host'.raised = host.raised /\ host'.monClosed = host.monClosed /\ host'.collected = host.collected
  BY <1>1 DEF LinuxInv, Shaped, HostShaped, AsHost
<1>4. Untouched' /\ NeverLaunched' /\ Unlaunched'
  BY <1>1, <1>3 DEF LinuxInv, Untouched, NeverLaunched, Unlaunched, NotLaunched, Constructing, Leaving
<1>5. RaiseUnknown' /\ GroupOver' /\ ReceiverOver' /\ MonitorOver' /\ ScopeOver' /\ Unpinned'
  BY <1>1, <1>3 DEF LinuxInv, RaiseUnknown, GroupOver, ReceiverOver, MonitorOver, ScopeOver, Unpinned, Leaving,
     PastReceiver, PastMonitor, PastScope, Concluding
<1>6. Acknowledged' /\ Listening' /\ Unrun' /\ Framed' /\ ObserverDue' /\ Counted'
  BY <1>1, <1>3 DEF LinuxInv, Acknowledged, Listening, Unrun, Framed, ObserverDue, Counted
<1>7. Lent'
  <2>1. last'.residue \in BOOLEAN /\ (last'.residue => shut)
    BY <1>1, ResidueKnown DEF shut
  <2>2. step'.inflight = FALSE /\ (shut => step'.consume = "faulted") /\ mode' = mode
    BY <1>1 DEF LinuxInv, Shaped, StepShaped, AsStep
  <2> QED BY <1>3, <2>1, <2>2 DEF Lent
<1>8. Accepted'
  <2>1. SUFFICES ASSUME last'.error = "none"
                 PROVE  /\ live = {} /\ scope.unit = FALSE /\ scope.pinned = FALSE
                        /\ mon.thread \in {"none", "done"} /\ last'.denials = mon.answered
    BY <1>1 DEF Accepted
  <2>2. ~host.raised /\ FinalError = "none"
    BY <1>1, <2>1 DEF Outcome
  <2>3. host.error = "none" /\ ObserverOk /\ host.collected = "yes"
    BY <2>2, NoErrorMeans
  <2>4. live = {}
    BY <1>1, <2>3 DEF LinuxInv, GroupOver, Leaving
  <2>5. scope.unit = FALSE
    BY <2>3 DEF LinuxInv, ScopeOver
  <2>6. scope.pinned = FALSE
    BY <1>1, <2>2 DEF LinuxInv, Unpinned, Concluding, Shaped, ScopeShaped
  <2>7. mon.thread \in {"none", "done"}
    BY <2>3 DEF LinuxInv, MonitorOver, ObserverOk
  <2>8. last'.denials = mon.answered
    BY <1>1, <2>3, <2>7 DEF LinuxInv, Counted, Outcome
  <2> QED BY <2>4, <2>5, <2>6, <2>7, <2>8
<1>9. LastSaid'
  <2>1. last'.residue \in BOOLEAN
    BY <1>1, ResidueKnown
  <2>2. ASSUME last'.started = "no" PROVE helper.ran = FALSE
    <3>1. host.started = "no" \/ rx.terminal = "preexec_failed"
      BY <1>1, <2>2, NotStartedMeans DEF Outcome
    <3>2. CASE host.started = "no"
      BY <3>2 DEF LinuxInv, NeverLaunched, NotLaunched, FreshHelper
    <3>3. CASE rx.terminal = "preexec_failed"
      BY <3>3 DEF LinuxInv, Framed, Unrun, Shaped, HelperShaped
    <3> QED BY <3>1, <3>2, <3>3
  <2>3. last'.ran = helper.ran
    BY <1>1 DEF Outcome
  <2> QED BY <2>1, <2>2, <2>3 DEF LastSaid
<1> QED BY <1>2, <1>4, <1>5, <1>6, <1>7, <1>8, <1>9 DEF LinuxInv

\* The receiver of the resource channel.
LEMMA RxEndsKeeps == ASSUME LinuxInv, RxEnds PROVE LinuxInv'
<1> USE DEF LinuxInv, Shaped, RxEnds, RxFail, StepShaped, AsStep, HostShaped, AsHost, HelperShaped, AsHelper,
     WireShaped, AsWire, RxShaped, AsRx, MonShaped, AsMon, ScopeShaped, AsScope, HostPlaces
<1>1. RxShaped'
  OBVIOUS
<1>2. Untouched'
BY DEF Untouched, Constructing, NotLaunched, FreshHelper, FreshWire, FreshRx, FreshMon, FreshScope
<1>3. NeverLaunched'
BY DEF NeverLaunched, Leaving, NotLaunched
<1>4. GroupOver'
BY DEF GroupOver, Leaving
<1>5. ReceiverOver'
BY DEF ReceiverOver, PastReceiver
<1>6. Unpinned'
BY DEF Unpinned, Concluding
<1>7. Acknowledged'
BY DEF Acknowledged
<1>8. Framed'
BY DEF Framed, AreFrames
<1>9. Accepted'
BY DEF Accepted
<1>10. StepShaped' /\ HostShaped' /\ HelperShaped' /\ WireShaped' /\ MonShaped' /\ ScopeShaped' /\ Unlaunched'
     /\ RaiseUnknown' /\ MonitorOver' /\ ScopeOver' /\ Listening' /\ Unrun' /\ ObserverDue' /\ Counted' /\ Lent' /\
     LastSaid'
BY DEF Unlaunched, RaiseUnknown, MonitorOver, ScopeOver, Listening, Unrun, ObserverDue, Counted, Lent, LastSaid,
     PastMonitor, PastScope
<1> QED BY <1>1, <1>2, <1>3, <1>4, <1>5, <1>6, <1>7, <1>8, <1>9, <1>10

LEMMA ConfigureScopeKeeps == ASSUME LinuxInv, ConfigureScope PROVE LinuxInv'
<1> USE DEF LinuxInv, Shaped, ConfigureScope, RxFail, StepShaped, AsStep, HostShaped, AsHost, HelperShaped,
     AsHelper, WireShaped, AsWire, RxShaped, AsRx, MonShaped, AsMon, ScopeShaped, AsScope, HostPlaces
<1>1. WireShaped'
  OBVIOUS
<1>2. RxShaped'
  OBVIOUS
<1>3. ScopeShaped'
  OBVIOUS
<1>4. Untouched'
BY DEF Untouched, Constructing, NotLaunched, FreshHelper, FreshWire, FreshRx, FreshMon, FreshScope
<1>5. NeverLaunched'
BY DEF NeverLaunched, Leaving, NotLaunched
<1>6. Unlaunched'
BY DEF Unlaunched
<1>7. GroupOver'
BY DEF GroupOver, Leaving
<1>8. ReceiverOver'
BY DEF ReceiverOver, PastReceiver
<1>9. ScopeOver'
BY DEF ScopeOver, PastScope
<1>10. Unpinned'
BY DEF Unpinned, Concluding
<1>11. Acknowledged'
BY DEF Acknowledged
<1>12. Listening'
BY DEF Listening
<1>13. Framed'
  <2>1. wire.frames # <<>> /\ wire'.frames = Tail(wire.frames) /\ helper' = helper
        /\ rx'.terminal \in {rx.terminal, "none"}
    OBVIOUS
  <2>2. AreFrames(Tail(wire.frames), helper.preexec)
    BY <2>1, TakeFrame DEF Framed
  <2> QED BY <2>1, <2>2 DEF Framed
<1>14. Accepted'
  <2>1. host' = host /\ last' = last /\ mon' = mon /\ live' \subseteq live /\ scope'.unit = scope.unit
    OBVIOUS
  <2>2. scope.pinned = FALSE /\ host.pc = "idle" => scope'.pinned = FALSE
    BY DEF Unpinned, Concluding
  <2> QED BY <2>1, <2>2 DEF Accepted
<1>15. StepShaped' /\ HostShaped' /\ HelperShaped' /\ MonShaped' /\ RaiseUnknown' /\ MonitorOver' /\ Unrun' /\
     ObserverDue' /\ Counted' /\ Lent' /\ LastSaid'
BY DEF RaiseUnknown, MonitorOver, Unrun, ObserverDue, Counted, Lent, LastSaid, PastMonitor
<1> QED BY <1>1, <1>2, <1>3, <1>4, <1>5, <1>6, <1>7, <1>8, <1>9, <1>10, <1>11, <1>12, <1>13, <1>14, <1>15

LEMMA AcknowledgeScopeKeeps == ASSUME LinuxInv, AcknowledgeScope PROVE LinuxInv'
<1> USE DEF LinuxInv, Shaped, AcknowledgeScope, Fault, Spared, RxFail, StepShaped, AsStep, HostShaped, AsHost,
     HelperShaped, AsHelper, WireShaped, AsWire, RxShaped, AsRx, MonShaped, AsMon, ScopeShaped, AsScope,
     HostPlaces
<1>1. WireShaped'
  OBVIOUS
<1>2. RxShaped'
  <2>1. rx' = AsRx(rx') /\ rx'.thread \in {"run", "done"} /\ (rx'.count = rx.count \/ rx'.count = 1)
    OBVIOUS
  <2> HIDE DEF AcknowledgeScope
  <2> QED BY <2>1
<1>3. ScopeShaped'
  OBVIOUS
<1>4. Untouched'
BY DEF Untouched, Constructing, NotLaunched, FreshHelper, FreshWire, FreshRx, FreshMon, FreshScope
<1>5. NeverLaunched'
BY DEF NeverLaunched, Leaving, NotLaunched
<1>6. Unlaunched'
BY DEF Unlaunched
<1>7. GroupOver'
BY DEF GroupOver, Leaving
<1>8. ReceiverOver'
BY DEF ReceiverOver, PastReceiver
<1>9. ScopeOver'
BY DEF ScopeOver, PastScope
<1>10. Unpinned'
BY DEF Unpinned, Concluding
<1>11. Acknowledged'
  <2>1. rx.count = 0 /\ wire.ack = FALSE /\ scope'.locked = FALSE /\ helper' = helper
    BY DEF Acknowledged
  <2>2. wire'.ack => scope'.owned /\ rx'.count = 1
    BY <2>1
  <2>3. wire'.ack = wire.ack \/ wire'.ack
    OBVIOUS
  <2> QED BY <2>1, <2>2, <2>3 DEF Acknowledged
<1>12. Listening'
BY DEF Listening
<1>13. Framed'
  <2>1. wire'.frames = wire.frames /\ helper' = helper /\ rx'.terminal \in {rx.terminal, "none"}
    OBVIOUS
  <2> QED BY <2>1 DEF Framed
<1>14. Accepted'
BY DEF Accepted
<1>15. StepShaped' /\ HostShaped' /\ HelperShaped' /\ MonShaped' /\ RaiseUnknown' /\ MonitorOver' /\ Unrun' /\
     ObserverDue' /\ Counted' /\ Lent' /\ LastSaid'
BY DEF RaiseUnknown, MonitorOver, Unrun, ObserverDue, Counted, Lent, LastSaid, PastMonitor
<1> QED BY <1>1, <1>2, <1>3, <1>4, <1>5, <1>6, <1>7, <1>8, <1>9, <1>10, <1>11, <1>12, <1>13, <1>14, <1>15

LEMMA ReceiveTerminalKeeps == ASSUME LinuxInv, ReceiveTerminal PROVE LinuxInv'
<1> USE DEF LinuxInv, Shaped, ReceiveTerminal, Terminals, StepShaped, AsStep, HostShaped, AsHost, HelperShaped,
     AsHelper, WireShaped, AsWire, RxShaped, AsRx, MonShaped, AsMon, ScopeShaped, AsScope, HostPlaces
<1>1. WireShaped'
  OBVIOUS
<1>2. RxShaped'
  <2>1. rx' = AsRx(rx') /\ rx'.thread = "run" /\ rx'.count = rx.count + 1
    OBVIOUS
  <2> HIDE DEF ReceiveTerminal
  <2> QED BY <2>1
<1>3. Untouched'
BY DEF Untouched, Constructing, NotLaunched, FreshHelper, FreshWire, FreshRx, FreshMon, FreshScope
<1>4. NeverLaunched'
BY DEF NeverLaunched, Leaving, NotLaunched
<1>5. ReceiverOver'
BY DEF ReceiverOver, PastReceiver
<1>6. Unpinned'
BY DEF Unpinned, Concluding
<1>7. Acknowledged'
BY DEF Acknowledged
<1>8. Listening'
BY DEF Listening
<1>9. Framed'
  <2>1. wire.frames # <<>> /\ wire'.frames = Tail(wire.frames) /\ helper' = helper
        /\ rx'.terminal = Head(wire.frames)
    OBVIOUS
  <2>2. AreFrames(Tail(wire.frames), helper.preexec) /\ (Head(wire.frames) = "preexec_failed" => helper.preexec)
    BY <2>1, TakeFrame DEF Framed
  <2> QED BY <2>1, <2>2 DEF Framed
<1>10. StepShaped' /\ HostShaped' /\ HelperShaped' /\ MonShaped' /\ ScopeShaped' /\ Unlaunched' /\ RaiseUnknown' /\
     GroupOver' /\ MonitorOver' /\ ScopeOver' /\ Unrun' /\ ObserverDue' /\ Counted' /\ Lent' /\ Accepted' /\
     LastSaid'
BY DEF Unlaunched, RaiseUnknown, GroupOver, MonitorOver, ScopeOver, Unrun, ObserverDue, Counted, Lent, Accepted,
     LastSaid, Leaving, PastMonitor, PastScope
<1> QED BY <1>1, <1>2, <1>3, <1>4, <1>5, <1>6, <1>7, <1>8, <1>9, <1>10

LEMMA ReceiveEofKeeps == ASSUME LinuxInv, ReceiveEof PROVE LinuxInv'
<1> USE DEF LinuxInv, Shaped, ReceiveEof, RxFail, StepShaped, AsStep, HostShaped, AsHost, HelperShaped,
     AsHelper, WireShaped, AsWire, RxShaped, AsRx, MonShaped, AsMon, ScopeShaped, AsScope, HostPlaces
<1>1. RxShaped'
  OBVIOUS
<1>2. Untouched'
BY DEF Untouched, Constructing, NotLaunched, FreshHelper, FreshWire, FreshRx, FreshMon, FreshScope
<1>3. NeverLaunched'
BY DEF NeverLaunched, Leaving, NotLaunched
<1>4. GroupOver'
BY DEF GroupOver, Leaving
<1>5. ReceiverOver'
BY DEF ReceiverOver, PastReceiver
<1>6. Unpinned'
BY DEF Unpinned, Concluding
<1>7. Acknowledged'
BY DEF Acknowledged
<1>8. Framed'
BY DEF Framed, AreFrames
<1>9. Accepted'
BY DEF Accepted
<1>10. StepShaped' /\ HostShaped' /\ HelperShaped' /\ WireShaped' /\ MonShaped' /\ ScopeShaped' /\ Unlaunched'
     /\ RaiseUnknown' /\ MonitorOver' /\ ScopeOver' /\ Listening' /\ Unrun' /\ ObserverDue' /\ Counted' /\ Lent' /\
     LastSaid'
BY DEF Unlaunched, RaiseUnknown, MonitorOver, ScopeOver, Listening, Unrun, ObserverDue, Counted, Lent, LastSaid,
     PastMonitor, PastScope
<1> QED BY <1>1, <1>2, <1>3, <1>4, <1>5, <1>6, <1>7, <1>8, <1>9, <1>10

LEMMA MalformedFrameKeeps == ASSUME LinuxInv, MalformedFrame PROVE LinuxInv'
<1> USE DEF LinuxInv, Shaped, MalformedFrame, Fault, RxFail, StepShaped, AsStep, HostShaped, AsHost,
     HelperShaped, AsHelper, WireShaped, AsWire, RxShaped, AsRx, MonShaped, AsMon, ScopeShaped, AsScope,
     HostPlaces
<1>1. RxShaped'
  OBVIOUS
<1>2. Untouched'
BY DEF Untouched, Constructing, NotLaunched, FreshHelper, FreshWire, FreshRx, FreshMon, FreshScope
<1>3. NeverLaunched'
BY DEF NeverLaunched, Leaving, NotLaunched
<1>4. GroupOver'
BY DEF GroupOver, Leaving
<1>5. ReceiverOver'
BY DEF ReceiverOver, PastReceiver
<1>6. Unpinned'
BY DEF Unpinned, Concluding
<1>7. Acknowledged'
BY DEF Acknowledged
<1>8. Framed'
BY DEF Framed, AreFrames
<1>9. Accepted'
BY DEF Accepted
<1>10. StepShaped' /\ HostShaped' /\ HelperShaped' /\ WireShaped' /\ MonShaped' /\ ScopeShaped' /\ Unlaunched'
     /\ RaiseUnknown' /\ MonitorOver' /\ ScopeOver' /\ Listening' /\ Unrun' /\ ObserverDue' /\ Counted' /\ Lent' /\
     LastSaid'
BY DEF Unlaunched, RaiseUnknown, MonitorOver, ScopeOver, Listening, Unrun, ObserverDue, Counted, Lent, LastSaid,
     PastMonitor, PastScope
<1> QED BY <1>1, <1>2, <1>3, <1>4, <1>5, <1>6, <1>7, <1>8, <1>9, <1>10

\* The thread that answers denied calls.
LEMMA MonFailKeeps == ASSUME LinuxInv, MonFail PROVE LinuxInv'
<1> USE DEF LinuxInv, Shaped, MonFail, Fault, StepShaped, AsStep, HostShaped, AsHost, HelperShaped, AsHelper,
     WireShaped, AsWire, RxShaped, AsRx, MonShaped, AsMon, ScopeShaped, AsScope, HostPlaces
<1>1. MonShaped'
  OBVIOUS
<1>2. Untouched'
BY DEF Untouched, Constructing, NotLaunched, FreshHelper, FreshWire, FreshRx, FreshMon, FreshScope
<1>3. NeverLaunched'
BY DEF NeverLaunched, Leaving, NotLaunched
<1>4. GroupOver'
BY DEF GroupOver, Leaving
<1>5. MonitorOver'
BY DEF MonitorOver, PastMonitor
<1>6. Listening'
BY DEF Listening
<1>7. ObserverDue'
BY DEF ObserverDue
<1>8. Counted'
BY DEF Counted
<1>9. Accepted'
BY DEF Accepted
<1>10. Framed'
  BY DEF Framed
<1>11. StepShaped' /\ HostShaped' /\ HelperShaped' /\ WireShaped' /\ RxShaped' /\ ScopeShaped' /\ Unlaunched' /\
     RaiseUnknown' /\ ReceiverOver' /\ ScopeOver' /\ Unpinned' /\ Acknowledged' /\ Unrun' /\ Lent' /\ LastSaid'
BY DEF Unlaunched, RaiseUnknown, ReceiverOver, ScopeOver, Unpinned, Acknowledged, Unrun, Lent, LastSaid, PastReceiver,
     PastScope, Concluding
<1> QED BY <1>1, <1>2, <1>3, <1>4, <1>5, <1>6, <1>7, <1>8, <1>9, <1>10, <1>11

LEMMA AnswerDenialKeeps == ASSUME LinuxInv, AnswerDenial PROVE LinuxInv'
<1> USE DEF LinuxInv, Shaped, AnswerDenial, sandbox, StepShaped, AsStep, HostShaped, AsHost, HelperShaped,
     AsHelper, WireShaped, AsWire, RxShaped, AsRx, MonShaped, AsMon, ScopeShaped, AsScope, HostPlaces
<1>1. MonShaped'
  <2>1. mon' = AsMon(mon') /\ mon'.thread = "answered" /\ mon'.answered = mon.answered + 1 /\ mon'.count = mon.count
        /\ mon'.started = mon.started
    OBVIOUS
  <2> HIDE DEF AnswerDenial
  <2> QED BY <2>1
<1>2. Untouched'
BY DEF Untouched, Constructing, NotLaunched
<1>3. NeverLaunched'
BY DEF NeverLaunched, Leaving, NotLaunched
<1>4. MonitorOver'
BY DEF MonitorOver, PastMonitor
<1>5. Listening'
BY DEF Listening
<1>6. ObserverDue'
BY DEF ObserverDue
<1>7. Counted'
BY DEF Counted
<1>8. Accepted'
BY DEF Accepted
<1>9. Framed'
  BY DEF Framed
<1>10. StepShaped' /\ HostShaped' /\ HelperShaped' /\ WireShaped' /\ RxShaped' /\ ScopeShaped' /\ Unlaunched' /\
     RaiseUnknown' /\ GroupOver' /\ ReceiverOver' /\ ScopeOver' /\ Unpinned' /\ Acknowledged' /\ Unrun' /\ Lent' /\
     LastSaid'
BY DEF Unlaunched, RaiseUnknown, GroupOver, ReceiverOver, ScopeOver, Unpinned, Acknowledged, Unrun, Lent, LastSaid,
     Leaving, PastReceiver, PastScope, Concluding
<1> QED BY <1>1, <1>2, <1>3, <1>4, <1>5, <1>6, <1>7, <1>8, <1>9, <1>10

LEMMA RecordDenialKeeps == ASSUME LinuxInv, RecordDenial PROVE LinuxInv'
<1> USE DEF LinuxInv, Shaped, RecordDenial, sandbox, StepShaped, AsStep, HostShaped, AsHost, HelperShaped,
     AsHelper, WireShaped, AsWire, RxShaped, AsRx, MonShaped, AsMon, ScopeShaped, AsScope, HostPlaces
<1>1. MonShaped'
  <2>1. mon' = AsMon(mon') /\ mon'.thread = "run" /\ mon'.answered = mon.answered /\ mon'.count = mon.count + 1
        /\ mon'.started = mon.started
    OBVIOUS
  <2> HIDE DEF RecordDenial
  <2> QED BY <2>1
<1>2. Untouched'
BY DEF Untouched, Constructing, NotLaunched, FreshHelper, FreshWire, FreshRx, FreshMon, FreshScope
<1>3. NeverLaunched'
BY DEF NeverLaunched, Leaving, NotLaunched
<1>4. MonitorOver'
BY DEF MonitorOver, PastMonitor
<1>5. Listening'
BY DEF Listening
<1>6. ObserverDue'
BY DEF ObserverDue
<1>7. Counted'
BY DEF Counted
<1>8. Accepted'
BY DEF Accepted
<1>9. Framed'
  BY DEF Framed
<1>10. StepShaped' /\ HostShaped' /\ HelperShaped' /\ WireShaped' /\ RxShaped' /\ ScopeShaped' /\ Unlaunched' /\
     RaiseUnknown' /\ GroupOver' /\ ReceiverOver' /\ ScopeOver' /\ Unpinned' /\ Acknowledged' /\ Unrun' /\ Lent' /\
     LastSaid'
BY DEF Unlaunched, RaiseUnknown, GroupOver, ReceiverOver, ScopeOver, Unpinned, Acknowledged, Unrun, Lent, LastSaid,
     Leaving, PastReceiver, PastScope, Concluding
<1> QED BY <1>1, <1>2, <1>3, <1>4, <1>5, <1>6, <1>7, <1>8, <1>9, <1>10

LEMMA MonEndsKeeps == ASSUME LinuxInv, MonEnds PROVE LinuxInv'
<1> USE DEF LinuxInv, Shaped, MonEnds, sandbox, StepShaped, AsStep, HostShaped, AsHost, HelperShaped, AsHelper,
     WireShaped, AsWire, RxShaped, AsRx, MonShaped, AsMon, ScopeShaped, AsScope, HostPlaces
<1>1. MonShaped'
  OBVIOUS
<1>2. Untouched'
BY DEF Untouched, Constructing, NotLaunched, FreshHelper, FreshWire, FreshRx, FreshMon, FreshScope
<1>3. NeverLaunched'
BY DEF NeverLaunched, Leaving, NotLaunched
<1>4. MonitorOver'
BY DEF MonitorOver, PastMonitor
<1>5. Listening'
BY DEF Listening
<1>6. ObserverDue'
BY DEF ObserverDue
<1>7. Counted'
BY DEF Counted
<1>8. Accepted'
BY DEF Accepted
<1>9. Framed'
  BY DEF Framed
<1>10. StepShaped' /\ HostShaped' /\ HelperShaped' /\ WireShaped' /\ RxShaped' /\ ScopeShaped' /\ Unlaunched' /\
     RaiseUnknown' /\ GroupOver' /\ ReceiverOver' /\ ScopeOver' /\ Unpinned' /\ Acknowledged' /\ Unrun' /\ Lent' /\
     LastSaid'
BY DEF Unlaunched, RaiseUnknown, GroupOver, ReceiverOver, ScopeOver, Unpinned, Acknowledged, Unrun, Lent, LastSaid,
     Leaving, PastReceiver, PastScope, Concluding
<1> QED BY <1>1, <1>2, <1>3, <1>4, <1>5, <1>6, <1>7, <1>8, <1>9, <1>10

\* The launcher, the init of its namespace and the payload.
LEMMA LauncherSetupKeeps == ASSUME LinuxInv, LauncherSetup PROVE LinuxInv'
<1> USE DEF LinuxInv, Shaped, LauncherSetup, Fault, Spared, QuotaFails, HelperOnly, threads, StepShaped, AsStep,
     HostShaped, AsHost, HelperShaped, AsHelper, WireShaped, AsWire, RxShaped, AsRx, MonShaped, AsMon,
     ScopeShaped, AsScope, HostPlaces
<1>1. HelperShaped'
  OBVIOUS
<1>2. WireShaped'
  OBVIOUS
<1>3. Untouched'
BY DEF Untouched, Constructing, NotLaunched
<1>4. NeverLaunched'
BY DEF NeverLaunched, Leaving, NotLaunched
<1>5. GroupOver'
BY DEF GroupOver, Leaving
<1>6. Acknowledged'
BY DEF Acknowledged
<1>7. Listening'
BY DEF Listening
<1>8. Unrun'
BY DEF Unrun
<1>9. Framed'
  <2>1. rx' = rx /\ (helper.preexec => helper'.preexec)
    BY DEF Unrun
  <2>2. wire'.frames = wire.frames \/ wire'.frames = <<"configured">>
    OBVIOUS
  <2>3. AreFrames(wire'.frames, helper'.preexec)
    BY <2>1, <2>2, FirstFrames DEF Framed, AreFrames
  <2> QED BY <2>1, <2>3 DEF Framed
<1>10. Accepted'
BY DEF Accepted
<1>11. StepShaped' /\ HostShaped' /\ RxShaped' /\ MonShaped' /\ ScopeShaped' /\ Unlaunched' /\ RaiseUnknown' /\
     ReceiverOver' /\ MonitorOver' /\ ScopeOver' /\ Unpinned' /\ ObserverDue' /\ Counted' /\ Lent' /\ LastSaid'
BY DEF Unlaunched, RaiseUnknown, ReceiverOver, MonitorOver, ScopeOver, Unpinned, ObserverDue, Counted, Lent, LastSaid,
     PastReceiver, PastMonitor, PastScope, Concluding
<1> QED BY <1>1, <1>2, <1>3, <1>4, <1>5, <1>6, <1>7, <1>8, <1>9, <1>10, <1>11

LEMMA LauncherAckedKeeps == ASSUME LinuxInv, LauncherAcked PROVE LinuxInv'
<1> USE DEF LinuxInv, Shaped, LauncherAcked, Fault, Spared, GivesUp, HelperOnly, threads, StepShaped, AsStep,
     HostShaped, AsHost, HelperShaped, AsHelper, WireShaped, AsWire, RxShaped, AsRx, MonShaped, AsMon,
     ScopeShaped, AsScope, HostPlaces
<1>1. HelperShaped'
  OBVIOUS
<1>2. Untouched'
BY DEF Untouched, Constructing, NotLaunched
<1>3. NeverLaunched'
BY DEF NeverLaunched, Leaving, NotLaunched
<1>4. GroupOver'
BY DEF GroupOver, Leaving
<1>5. Acknowledged'
BY DEF Acknowledged
<1>6. Listening'
BY DEF Listening
<1>7. Unrun'
BY DEF Unrun
<1>8. Framed'
BY DEF Framed, AreFrames
<1>9. Accepted'
BY DEF Accepted
<1>10. StepShaped' /\ HostShaped' /\ WireShaped' /\ RxShaped' /\ MonShaped' /\ ScopeShaped' /\ Unlaunched' /\
     RaiseUnknown' /\ ReceiverOver' /\ MonitorOver' /\ ScopeOver' /\ Unpinned' /\ ObserverDue' /\ Counted' /\ Lent' /\
     LastSaid'
BY DEF Unlaunched, RaiseUnknown, ReceiverOver, MonitorOver, ScopeOver, Unpinned, ObserverDue, Counted, Lent, LastSaid,
     PastReceiver, PastMonitor, PastScope, Concluding
<1> QED BY <1>1, <1>2, <1>3, <1>4, <1>5, <1>6, <1>7, <1>8, <1>9, <1>10

LEMMA SuperviseTaskKeeps == ASSUME LinuxInv, SuperviseTask PROVE LinuxInv'
<1> USE DEF LinuxInv, Shaped, SuperviseTask, Fault, Spared, GivesUp, HelperOnly, threads, StepShaped, AsStep,
     HostShaped, AsHost, HelperShaped, AsHelper, WireShaped, AsWire, RxShaped, AsRx, MonShaped, AsMon,
     ScopeShaped, AsScope, HostPlaces
<1>1. HelperShaped'
  OBVIOUS
<1>2. Untouched'
BY DEF Untouched, Constructing, NotLaunched
<1>3. NeverLaunched'
BY DEF NeverLaunched, Leaving, NotLaunched
<1>4. GroupOver'
BY DEF GroupOver, Leaving
<1>5. Acknowledged'
BY DEF Acknowledged
<1>6. Listening'
BY DEF Listening
<1>7. Unrun'
BY DEF Unrun
<1>8. Framed'
BY DEF Framed, AreFrames
<1>9. Accepted'
BY DEF Accepted
<1>10. StepShaped' /\ HostShaped' /\ WireShaped' /\ RxShaped' /\ MonShaped' /\ ScopeShaped' /\ Unlaunched' /\
     RaiseUnknown' /\ ReceiverOver' /\ MonitorOver' /\ ScopeOver' /\ Unpinned' /\ ObserverDue' /\ Counted' /\ Lent' /\
     LastSaid'
BY DEF Unlaunched, RaiseUnknown, ReceiverOver, MonitorOver, ScopeOver, Unpinned, ObserverDue, Counted, Lent, LastSaid,
     PastReceiver, PastMonitor, PastScope, Concluding
<1> QED BY <1>1, <1>2, <1>3, <1>4, <1>5, <1>6, <1>7, <1>8, <1>9, <1>10

LEMMA InitForksKeeps == ASSUME LinuxInv, InitForks PROVE LinuxInv'
<1> USE DEF LinuxInv, Shaped, InitForks, Fault, Spared, ChildFails, HelperOnly, threads, StepShaped, AsStep,
     HostShaped, AsHost, HelperShaped, AsHelper, WireShaped, AsWire, RxShaped, AsRx, MonShaped, AsMon,
     ScopeShaped, AsScope, HostPlaces
<1>1. HelperShaped'
  OBVIOUS
<1>2. WireShaped'
  OBVIOUS
<1>3. Untouched'
BY DEF Untouched, Constructing, NotLaunched
<1>4. NeverLaunched'
BY DEF NeverLaunched, Leaving, NotLaunched
<1>5. GroupOver'
BY DEF GroupOver, Leaving
<1>6. Acknowledged'
BY DEF Acknowledged
<1>7. Listening'
BY DEF Listening
<1>8. Unrun'
BY DEF Unrun
<1>9. Framed'
BY DEF Framed, AreFrames
<1>10. Accepted'
BY DEF Accepted
<1>11. StepShaped' /\ HostShaped' /\ RxShaped' /\ MonShaped' /\ ScopeShaped' /\ Unlaunched' /\ RaiseUnknown' /\
     ReceiverOver' /\ MonitorOver' /\ ScopeOver' /\ Unpinned' /\ ObserverDue' /\ Counted' /\ Lent' /\ LastSaid'
BY DEF Unlaunched, RaiseUnknown, ReceiverOver, MonitorOver, ScopeOver, Unpinned, ObserverDue, Counted, Lent, LastSaid,
     PastReceiver, PastMonitor, PastScope, Concluding
<1> QED BY <1>1, <1>2, <1>3, <1>4, <1>5, <1>6, <1>7, <1>8, <1>9, <1>10, <1>11

LEMMA ConfineKeeps == ASSUME LinuxInv, Confine PROVE LinuxInv'
<1> USE DEF LinuxInv, Shaped, Confine, Fault, Spared, ChildFails, HelperOnly, threads, StepShaped, AsStep,
     HostShaped, AsHost, HelperShaped, AsHelper, WireShaped, AsWire, RxShaped, AsRx, MonShaped, AsMon,
     ScopeShaped, AsScope, HostPlaces
<1>1. HelperShaped'
  OBVIOUS
<1>2. WireShaped'
  OBVIOUS
<1>3. Untouched'
BY DEF Untouched, Constructing, NotLaunched
<1>4. NeverLaunched'
BY DEF NeverLaunched, Leaving, NotLaunched
<1>5. GroupOver'
BY DEF GroupOver, Leaving
<1>6. Acknowledged'
BY DEF Acknowledged
<1>7. Listening'
BY DEF Listening
<1>8. Unrun'
BY DEF Unrun
<1>9. Framed'
BY DEF Framed, AreFrames
<1>10. Accepted'
BY DEF Accepted
<1>11. StepShaped' /\ HostShaped' /\ RxShaped' /\ MonShaped' /\ ScopeShaped' /\ Unlaunched' /\ RaiseUnknown' /\
     ReceiverOver' /\ MonitorOver' /\ ScopeOver' /\ Unpinned' /\ ObserverDue' /\ Counted' /\ Lent' /\ LastSaid'
BY DEF Unlaunched, RaiseUnknown, ReceiverOver, MonitorOver, ScopeOver, Unpinned, ObserverDue, Counted, Lent, LastSaid,
     PastReceiver, PastMonitor, PastScope, Concluding
<1> QED BY <1>1, <1>2, <1>3, <1>4, <1>5, <1>6, <1>7, <1>8, <1>9, <1>10, <1>11

LEMMA HandOverKeeps == ASSUME LinuxInv, HandOver PROVE LinuxInv'
<1> USE DEF LinuxInv, Shaped, HandOver, Fault, Spared, ChildFails, HelperOnly, threads, StepShaped, AsStep,
     HostShaped, AsHost, HelperShaped, AsHelper, WireShaped, AsWire, RxShaped, AsRx, MonShaped, AsMon,
     ScopeShaped, AsScope, HostPlaces
<1>1. HelperShaped'
  OBVIOUS
<1>2. WireShaped'
  OBVIOUS
<1>3. Untouched'
BY DEF Untouched, Constructing, NotLaunched
<1>4. NeverLaunched'
BY DEF NeverLaunched, Leaving, NotLaunched
<1>5. GroupOver'
BY DEF GroupOver, Leaving
<1>6. Acknowledged'
BY DEF Acknowledged
<1>7. Listening'
BY DEF Listening
<1>8. Unrun'
BY DEF Unrun
<1>9. Framed'
  <2>1. wire'.frames = wire.frames /\ rx' = rx /\ (helper.preexec => helper'.preexec)
    OBVIOUS
  <2> HIDE DEF HandOver
  <2> QED BY <2>1 DEF Framed, AreFrames
<1>10. Accepted'
BY DEF Accepted
<1>11. StepShaped' /\ HostShaped' /\ RxShaped' /\ MonShaped' /\ ScopeShaped' /\ Unlaunched' /\ RaiseUnknown' /\
     ReceiverOver' /\ MonitorOver' /\ ScopeOver' /\ Unpinned' /\ ObserverDue' /\ Counted' /\ Lent' /\ LastSaid'
BY DEF Unlaunched, RaiseUnknown, ReceiverOver, MonitorOver, ScopeOver, Unpinned, ObserverDue, Counted, Lent, LastSaid,
     PastReceiver, PastMonitor, PastScope, Concluding
<1> QED BY <1>1, <1>2, <1>3, <1>4, <1>5, <1>6, <1>7, <1>8, <1>9, <1>10, <1>11

LEMMA ExecKeeps == ASSUME LinuxInv, Exec PROVE LinuxInv'
<1> USE DEF LinuxInv, Shaped, Exec, Fault, Spared, ChildFails, HelperOnly, threads, StepShaped, AsStep,
     HostShaped, AsHost, HelperShaped, AsHelper, WireShaped, AsWire, RxShaped, AsRx, MonShaped, AsMon,
     ScopeShaped, AsScope, HostPlaces
<1>1. HelperShaped'
  OBVIOUS
<1>2. WireShaped'
  OBVIOUS
<1>3. Untouched'
BY DEF Untouched, Constructing, NotLaunched
<1>4. NeverLaunched'
BY DEF NeverLaunched, Leaving, NotLaunched
<1>5. GroupOver'
BY DEF GroupOver, Leaving
<1>6. Acknowledged'
BY DEF Acknowledged
<1>7. Listening'
BY DEF Listening
<1>8. Unrun'
BY DEF Unrun
<1>9. Framed'
BY DEF Framed, AreFrames
<1>10. Accepted'
BY DEF Accepted
<1>11. StepShaped' /\ HostShaped' /\ RxShaped' /\ MonShaped' /\ ScopeShaped' /\ Unlaunched' /\ RaiseUnknown' /\
     ReceiverOver' /\ MonitorOver' /\ ScopeOver' /\ Unpinned' /\ ObserverDue' /\ Counted' /\ Lent' /\ LastSaid'
BY DEF Unlaunched, RaiseUnknown, ReceiverOver, MonitorOver, ScopeOver, Unpinned, ObserverDue, Counted, Lent, LastSaid,
     PastReceiver, PastMonitor, PastScope, Concluding
<1> QED BY <1>1, <1>2, <1>3, <1>4, <1>5, <1>6, <1>7, <1>8, <1>9, <1>10, <1>11

LEMMA PayloadForksKeeps == ASSUME LinuxInv, PayloadForks PROVE LinuxInv'
<1> USE DEF LinuxInv, Shaped, PayloadForks, HelperOnly, threads, StepShaped, AsStep, HostShaped, AsHost,
     HelperShaped, AsHelper, WireShaped, AsWire, RxShaped, AsRx, MonShaped, AsMon, ScopeShaped, AsScope,
     HostPlaces
<1>1. Untouched'
BY DEF Untouched, Constructing, NotLaunched
<1>2. NeverLaunched'
BY DEF NeverLaunched, Leaving, NotLaunched
<1>3. GroupOver'
BY DEF GroupOver, Leaving
<1>4. Accepted'
BY DEF Accepted
<1>5. Framed'
  BY DEF Framed
<1>6. StepShaped' /\ HostShaped' /\ HelperShaped' /\ WireShaped' /\ RxShaped' /\ MonShaped' /\ ScopeShaped' /\
     Unlaunched' /\ RaiseUnknown' /\ ReceiverOver' /\ MonitorOver' /\ ScopeOver' /\ Unpinned' /\ Acknowledged' /\
     Listening' /\ Unrun' /\ ObserverDue' /\ Counted' /\ Lent' /\ LastSaid'
BY DEF Unlaunched, RaiseUnknown, ReceiverOver, MonitorOver, ScopeOver, Unpinned, Acknowledged, Listening, Unrun,
     ObserverDue, Counted, Lent, LastSaid, PastReceiver, PastMonitor, PastScope, Concluding
<1> QED BY <1>1, <1>2, <1>3, <1>4, <1>5, <1>6

LEMMA PayloadDeniedKeeps == ASSUME LinuxInv, PayloadDenied PROVE LinuxInv'
<1> USE DEF LinuxInv, Shaped, PayloadDenied, sandbox, StepShaped, AsStep, HostShaped, AsHost, HelperShaped,
     AsHelper, WireShaped, AsWire, RxShaped, AsRx, MonShaped, AsMon, ScopeShaped, AsScope, HostPlaces
<1>1. MonShaped'
  OBVIOUS
<1>2. Untouched'
BY DEF Untouched, Constructing, NotLaunched
<1>3. NeverLaunched'
BY DEF NeverLaunched, Leaving, NotLaunched
<1>4. MonitorOver'
BY DEF MonitorOver, PastMonitor
<1>5. Listening'
BY DEF Listening
<1>6. ObserverDue'
BY DEF ObserverDue
<1>7. Counted'
BY DEF Counted
<1>8. Accepted'
BY DEF Accepted
<1>9. Framed'
  BY DEF Framed
<1>10. StepShaped' /\ HostShaped' /\ HelperShaped' /\ WireShaped' /\ RxShaped' /\ ScopeShaped' /\ Unlaunched' /\
     RaiseUnknown' /\ GroupOver' /\ ReceiverOver' /\ ScopeOver' /\ Unpinned' /\ Acknowledged' /\ Unrun' /\ Lent' /\
     LastSaid'
BY DEF Unlaunched, RaiseUnknown, GroupOver, ReceiverOver, ScopeOver, Unpinned, Acknowledged, Unrun, Lent, LastSaid,
     Leaving, PastReceiver, PastScope, Concluding
<1> QED BY <1>1, <1>2, <1>3, <1>4, <1>5, <1>6, <1>7, <1>8, <1>9, <1>10

LEMMA PayloadExitsKeeps == ASSUME LinuxInv, PayloadExits PROVE LinuxInv'
<1> USE DEF LinuxInv, Shaped, PayloadExits, HelperOnly, threads, StepShaped, AsStep, HostShaped, AsHost,
     HelperShaped, AsHelper, WireShaped, AsWire, RxShaped, AsRx, MonShaped, AsMon, ScopeShaped, AsScope,
     HostPlaces
<1>1. HelperShaped'
  OBVIOUS
<1>2. Untouched'
BY DEF Untouched, Constructing, NotLaunched
<1>3. NeverLaunched'
BY DEF NeverLaunched, Leaving, NotLaunched
<1>4. GroupOver'
BY DEF GroupOver, Leaving
<1>5. Acknowledged'
BY DEF Acknowledged
<1>6. Listening'
BY DEF Listening
<1>7. Unrun'
BY DEF Unrun
<1>8. Framed'
BY DEF Framed, AreFrames
<1>9. Accepted'
BY DEF Accepted
<1>10. StepShaped' /\ HostShaped' /\ WireShaped' /\ RxShaped' /\ MonShaped' /\ ScopeShaped' /\ Unlaunched' /\
     RaiseUnknown' /\ ReceiverOver' /\ MonitorOver' /\ ScopeOver' /\ Unpinned' /\ ObserverDue' /\ Counted' /\ Lent' /\
     LastSaid'
BY DEF Unlaunched, RaiseUnknown, ReceiverOver, MonitorOver, ScopeOver, Unpinned, ObserverDue, Counted, Lent, LastSaid,
     PastReceiver, PastMonitor, PastScope, Concluding
<1> QED BY <1>1, <1>2, <1>3, <1>4, <1>5, <1>6, <1>7, <1>8, <1>9, <1>10

LEMMA InitExitsKeeps == ASSUME LinuxInv, InitExits PROVE LinuxInv'
<1> USE DEF LinuxInv, Shaped, InitExits, StepShaped, AsStep, HostShaped, AsHost, HelperShaped, AsHelper,
     WireShaped, AsWire, RxShaped, AsRx, MonShaped, AsMon, ScopeShaped, AsScope, HostPlaces
<1>1. MonShaped'
  OBVIOUS
<1>2. Untouched'
BY DEF Untouched, Constructing, NotLaunched
<1>3. NeverLaunched'
BY DEF NeverLaunched, Leaving, NotLaunched
<1>4. GroupOver'
BY DEF GroupOver, Leaving
<1>5. MonitorOver'
BY DEF MonitorOver, PastMonitor
<1>6. Listening'
BY DEF Listening
<1>7. ObserverDue'
BY DEF ObserverDue
<1>8. Counted'
BY DEF Counted
<1>9. Accepted'
BY DEF Accepted
<1>10. Framed'
  BY DEF Framed
<1>11. StepShaped' /\ HostShaped' /\ HelperShaped' /\ WireShaped' /\ RxShaped' /\ ScopeShaped' /\ Unlaunched' /\
     RaiseUnknown' /\ ReceiverOver' /\ ScopeOver' /\ Unpinned' /\ Acknowledged' /\ Unrun' /\ Lent' /\ LastSaid'
BY DEF Unlaunched, RaiseUnknown, ReceiverOver, ScopeOver, Unpinned, Acknowledged, Unrun, Lent, LastSaid, PastReceiver,
     PastScope, Concluding
<1> QED BY <1>1, <1>2, <1>3, <1>4, <1>5, <1>6, <1>7, <1>8, <1>9, <1>10, <1>11

LEMMA LauncherFinishKeeps == ASSUME LinuxInv, LauncherFinish PROVE LinuxInv'
<1> USE DEF LinuxInv, Shaped, LauncherFinish, Fault, Spared, HelperOnly, threads, StepShaped, AsStep,
     HostShaped, AsHost, HelperShaped, AsHelper, WireShaped, AsWire, RxShaped, AsRx, MonShaped, AsMon,
     ScopeShaped, AsScope, HostPlaces
<1>1. HelperShaped'
  OBVIOUS
<1>2. Untouched'
BY DEF Untouched, Constructing, NotLaunched
<1>3. NeverLaunched'
BY DEF NeverLaunched, Leaving, NotLaunched
<1>4. Acknowledged'
BY DEF Acknowledged
<1>5. Listening'
BY DEF Listening
<1>6. Unrun'
BY DEF Unrun
<1>7. Framed'
BY DEF Framed, AreFrames
<1>8. StepShaped' /\ HostShaped' /\ WireShaped' /\ RxShaped' /\ MonShaped' /\ ScopeShaped' /\ Unlaunched' /\
     RaiseUnknown' /\ GroupOver' /\ ReceiverOver' /\ MonitorOver' /\ ScopeOver' /\ Unpinned' /\ ObserverDue' /\
     Counted' /\ Lent' /\ Accepted' /\ LastSaid'
BY DEF Unlaunched, RaiseUnknown, GroupOver, ReceiverOver, MonitorOver, ScopeOver, Unpinned, ObserverDue, Counted,
     Lent, Accepted, LastSaid, Leaving, PastReceiver, PastMonitor, PastScope, Concluding
<1> QED BY <1>1, <1>2, <1>3, <1>4, <1>5, <1>6, <1>7, <1>8

LEMMA LauncherReportsKeeps == ASSUME LinuxInv, LauncherReports PROVE LinuxInv'
<1> USE DEF LinuxInv, Shaped, LauncherReports, HelperOnly, TerminalFrame, threads, StepShaped, AsStep,
     HostShaped, AsHost, HelperShaped, AsHelper, WireShaped, AsWire, RxShaped, AsRx, MonShaped, AsMon,
     ScopeShaped, AsScope, HostPlaces
<1>1. HelperShaped'
  OBVIOUS
<1>2. WireShaped'
  OBVIOUS
<1>3. Untouched'
BY DEF Untouched, Constructing, NotLaunched
<1>4. NeverLaunched'
BY DEF NeverLaunched, Leaving, NotLaunched
<1>5. GroupOver'
BY DEF GroupOver, Leaving
<1>6. Acknowledged'
BY DEF Acknowledged
<1>7. Listening'
BY DEF Listening
<1>8. Unrun'
BY DEF Unrun
<1>9. Framed'
  <2>1. rx' = rx /\ helper'.preexec = helper.preexec /\ wire'.frames = Append(wire.frames, TerminalFrame)
    OBVIOUS
  <2>2. TerminalFrame \in FrameNames /\ (TerminalFrame = "preexec_failed" => helper.preexec)
    BY DEF FrameNames
  <2> HIDE DEF TerminalFrame
  <2>3. AreFrames(wire'.frames, helper.preexec)
    BY <2>1, <2>2, PutFrame DEF Framed
  <2> QED BY <2>1, <2>3 DEF Framed
<1>10. Accepted'
BY DEF Accepted
<1>11. StepShaped' /\ HostShaped' /\ RxShaped' /\ MonShaped' /\ ScopeShaped' /\ Unlaunched' /\ RaiseUnknown' /\
     ReceiverOver' /\ MonitorOver' /\ ScopeOver' /\ Unpinned' /\ ObserverDue' /\ Counted' /\ Lent' /\ LastSaid'
BY DEF Unlaunched, RaiseUnknown, ReceiverOver, MonitorOver, ScopeOver, Unpinned, ObserverDue, Counted, Lent, LastSaid,
     PastReceiver, PastMonitor, PastScope, Concluding
<1> QED BY <1>1, <1>2, <1>3, <1>4, <1>5, <1>6, <1>7, <1>8, <1>9, <1>10, <1>11

\* The surroundings and the creator of the step.
LEMMA DeadlinePassesKeeps == ASSUME LinuxInv, DeadlinePasses PROVE LinuxInv'
<1> USE DEF LinuxInv, Shaped, DeadlinePasses, sandbox, threads, StepShaped, AsStep, HostShaped, AsHost,
     HelperShaped, AsHelper, WireShaped, AsWire, RxShaped, AsRx, MonShaped, AsMon, ScopeShaped, AsScope,
     HostPlaces
<1>1. Framed'
  BY DEF Framed
<1>2. StepShaped' /\ HostShaped' /\ HelperShaped' /\ WireShaped' /\ RxShaped' /\ MonShaped' /\ ScopeShaped' /\
     Untouched' /\ NeverLaunched' /\ Unlaunched' /\ RaiseUnknown' /\ GroupOver' /\ ReceiverOver' /\ MonitorOver' /\
     ScopeOver' /\ Unpinned' /\ Acknowledged' /\ Listening' /\ Unrun' /\ ObserverDue' /\ Counted' /\ Lent' /\
     Accepted' /\ LastSaid'
BY DEF Untouched, NeverLaunched, Unlaunched, RaiseUnknown, GroupOver, ReceiverOver, MonitorOver, ScopeOver, Unpinned,
     Acknowledged, Listening, Unrun, ObserverDue, Counted, Lent, Accepted, LastSaid, Constructing, Leaving,
     PastReceiver, PastMonitor, PastScope, Concluding, NotLaunched
<1> QED BY <1>1, <1>2

LEMMA ChannelClosesKeeps == ASSUME LinuxInv, ChannelCloses PROVE LinuxInv'
<1> USE DEF LinuxInv, Shaped, ChannelCloses, threads, StepShaped, AsStep, HostShaped, AsHost, HelperShaped,
     AsHelper, WireShaped, AsWire, RxShaped, AsRx, MonShaped, AsMon, ScopeShaped, AsScope, HostPlaces
<1>1. WireShaped'
  OBVIOUS
<1>2. Untouched'
BY DEF Untouched, Constructing, NotLaunched
<1>3. Acknowledged'
BY DEF Acknowledged
<1>4. Listening'
BY DEF Listening
<1>5. Framed'
BY DEF Framed, AreFrames
<1>6. StepShaped' /\ HostShaped' /\ HelperShaped' /\ RxShaped' /\ MonShaped' /\ ScopeShaped' /\ NeverLaunched'
     /\ Unlaunched' /\ RaiseUnknown' /\ GroupOver' /\ ReceiverOver' /\ MonitorOver' /\ ScopeOver' /\ Unpinned' /\
     Unrun' /\ ObserverDue' /\ Counted' /\ Lent' /\ Accepted' /\ LastSaid'
  <2>1. UNCHANGED <<step, mode, host, helper, live, rx, mon, scope, last>>
    OBVIOUS
  <2> HIDE DEF ChannelCloses
  <2>2. NeverLaunched' /\ Unlaunched' /\ RaiseUnknown' /\ GroupOver' /\ ReceiverOver'
    BY <2>1 DEF NeverLaunched, NotLaunched, Unlaunched, RaiseUnknown, GroupOver, ReceiverOver
  <2>3. MonitorOver' /\ ScopeOver' /\ Unpinned' /\ Unrun' /\ ObserverDue' /\ Counted'
    BY <2>1 DEF MonitorOver, ScopeOver, Unpinned, Unrun, ObserverDue, Counted
  <2>4. Lent' /\ Accepted' /\ LastSaid'
    BY <2>1 DEF Lent, Accepted, LastSaid
  <2> QED BY <2>1, <2>2, <2>3, <2>4
<1> QED BY <1>1, <1>2, <1>3, <1>4, <1>5, <1>6

LEMMA ScopeCollectedKeeps == ASSUME LinuxInv, ScopeCollected PROVE LinuxInv'
<1> USE DEF LinuxInv, Shaped, ScopeCollected, sandbox, StepShaped, AsStep, HostShaped, AsHost, HelperShaped,
     AsHelper, WireShaped, AsWire, RxShaped, AsRx, MonShaped, AsMon, ScopeShaped, AsScope, HostPlaces
<1>1. ScopeShaped'
  OBVIOUS
<1>2. Untouched'
BY DEF Untouched, Constructing, NotLaunched
<1>3. NeverLaunched'
BY DEF NeverLaunched, Leaving, NotLaunched
<1>4. Unlaunched'
BY DEF Unlaunched
<1>5. ScopeOver'
BY DEF ScopeOver, PastScope
<1>6. Unpinned'
BY DEF Unpinned, Concluding
<1>7. Acknowledged'
BY DEF Acknowledged
<1>8. Accepted'
BY DEF Accepted
<1>9. Framed'
  BY DEF Framed
<1>10. StepShaped' /\ HostShaped' /\ HelperShaped' /\ WireShaped' /\ RxShaped' /\ MonShaped' /\ RaiseUnknown' /\
     GroupOver' /\ ReceiverOver' /\ MonitorOver' /\ Listening' /\ Unrun' /\ ObserverDue' /\ Counted' /\ Lent' /\
     LastSaid'
BY DEF RaiseUnknown, GroupOver, ReceiverOver, MonitorOver, Listening, Unrun, ObserverDue, Counted, Lent, LastSaid,
     Leaving, PastReceiver, PastMonitor
<1> QED BY <1>1, <1>2, <1>3, <1>4, <1>5, <1>6, <1>7, <1>8, <1>9, <1>10

LEMMA AttachKeeps == ASSUME LinuxInv, Attach PROVE LinuxInv'
<1> USE DEF LinuxInv, Shaped, Attach, Fault, Spared, CheckFails, sandbox, threads, StepShaped, AsStep,
     HostShaped, AsHost, HelperShaped, AsHelper, WireShaped, AsWire, RxShaped, AsRx, MonShaped, AsMon,
     ScopeShaped, AsScope, HostPlaces
<1>1. StepShaped'
  OBVIOUS
<1>2. Lent'
BY DEF Lent
<1>3. Framed'
  BY DEF Framed
<1>4. HostShaped' /\ HelperShaped' /\ WireShaped' /\ RxShaped' /\ MonShaped' /\ ScopeShaped' /\ Untouched' /\
     NeverLaunched' /\ Unlaunched' /\ RaiseUnknown' /\ GroupOver' /\ ReceiverOver' /\ MonitorOver' /\ ScopeOver' /\
     Unpinned' /\ Acknowledged' /\ Listening' /\ Unrun' /\ ObserverDue' /\ Counted' /\ Accepted' /\ LastSaid'
BY DEF Untouched, NeverLaunched, Unlaunched, RaiseUnknown, GroupOver, ReceiverOver, MonitorOver, ScopeOver, Unpinned,
     Acknowledged, Listening, Unrun, ObserverDue, Counted, Accepted, LastSaid, Constructing, Leaving,
     PastReceiver, PastMonitor, PastScope, Concluding, NotLaunched
<1> QED BY <1>1, <1>2, <1>3, <1>4

LEMMA BindAttemptKeeps == ASSUME LinuxInv, BindAttempt PROVE LinuxInv'
<1> USE DEF LinuxInv, Shaped, BindAttempt, Fault, Spared, CheckFails, sandbox, threads, StepShaped, AsStep,
     HostShaped, AsHost, HelperShaped, AsHelper, WireShaped, AsWire, RxShaped, AsRx, MonShaped, AsMon,
     ScopeShaped, AsScope, HostPlaces
<1>1. StepShaped'
  OBVIOUS
<1>2. Lent'
BY DEF Lent
<1>3. Framed'
  BY DEF Framed
<1>4. HostShaped' /\ HelperShaped' /\ WireShaped' /\ RxShaped' /\ MonShaped' /\ ScopeShaped' /\ Untouched' /\
     NeverLaunched' /\ Unlaunched' /\ RaiseUnknown' /\ GroupOver' /\ ReceiverOver' /\ MonitorOver' /\ ScopeOver' /\
     Unpinned' /\ Acknowledged' /\ Listening' /\ Unrun' /\ ObserverDue' /\ Counted' /\ Accepted' /\ LastSaid'
BY DEF Untouched, NeverLaunched, Unlaunched, RaiseUnknown, GroupOver, ReceiverOver, MonitorOver, ScopeOver, Unpinned,
     Acknowledged, Listening, Unrun, ObserverDue, Counted, Accepted, LastSaid, Constructing, Leaving,
     PastReceiver, PastMonitor, PastScope, Concluding, NotLaunched
<1> QED BY <1>1, <1>2, <1>3, <1>4

LEMMA FinishStepKeeps == ASSUME LinuxInv, FinishStep PROVE LinuxInv'
<1> USE DEF LinuxInv, Shaped, FinishStep, sandbox, threads, StepShaped, AsStep, HostShaped, AsHost,
     HelperShaped, AsHelper, WireShaped, AsWire, RxShaped, AsRx, MonShaped, AsMon, ScopeShaped, AsScope,
     HostPlaces
<1>1. StepShaped'
  OBVIOUS
<1>2. Lent'
BY DEF Lent
<1>3. Framed'
  BY DEF Framed
<1>4. HostShaped' /\ HelperShaped' /\ WireShaped' /\ RxShaped' /\ MonShaped' /\ ScopeShaped' /\ Untouched' /\
     NeverLaunched' /\ Unlaunched' /\ RaiseUnknown' /\ GroupOver' /\ ReceiverOver' /\ MonitorOver' /\ ScopeOver' /\
     Unpinned' /\ Acknowledged' /\ Listening' /\ Unrun' /\ ObserverDue' /\ Counted' /\ Accepted' /\ LastSaid'
BY DEF Untouched, NeverLaunched, Unlaunched, RaiseUnknown, GroupOver, ReceiverOver, MonitorOver, ScopeOver, Unpinned,
     Acknowledged, Listening, Unrun, ObserverDue, Counted, Accepted, LastSaid, Constructing, Leaving,
     PastReceiver, PastMonitor, PastScope, Concluding, NotLaunched
<1> QED BY <1>1, <1>2, <1>3, <1>4

LEMMA CloseStepKeeps == ASSUME LinuxInv, CloseStep PROVE LinuxInv'
<1> USE DEF LinuxInv, Shaped, CloseStep, Fault, Spared, sandbox, threads, StepShaped, AsStep, HostShaped,
     AsHost, HelperShaped, AsHelper, WireShaped, AsWire, RxShaped, AsRx, MonShaped, AsMon, ScopeShaped, AsScope,
     HostPlaces
<1>1. StepShaped'
  OBVIOUS
<1>2. Lent'
BY DEF Lent
<1>3. Framed'
  BY DEF Framed
<1>4. HostShaped' /\ HelperShaped' /\ WireShaped' /\ RxShaped' /\ MonShaped' /\ ScopeShaped' /\ Untouched' /\
     NeverLaunched' /\ Unlaunched' /\ RaiseUnknown' /\ GroupOver' /\ ReceiverOver' /\ MonitorOver' /\ ScopeOver' /\
     Unpinned' /\ Acknowledged' /\ Listening' /\ Unrun' /\ ObserverDue' /\ Counted' /\ Accepted' /\ LastSaid'
BY DEF Untouched, NeverLaunched, Unlaunched, RaiseUnknown, GroupOver, ReceiverOver, MonitorOver, ScopeOver, Unpinned,
     Acknowledged, Listening, Unrun, ObserverDue, Counted, Accepted, LastSaid, Constructing, Leaving,
     PastReceiver, PastMonitor, PastScope, Concluding, NotLaunched
<1> QED BY <1>1, <1>2, <1>3, <1>4

LEMMA LinuxInvInitially == ASSUME LinuxInit PROVE LinuxInv
<1>1. Shaped
  BY DEF LinuxInit, Shaped, StepShaped, HostShaped, HelperShaped, WireShaped, RxShaped, MonShaped, ScopeShaped,
     AsStep, AsHost, AsHelper, AsWire, AsRx, AsMon, AsScope, FreshHost, FreshHelper, FreshWire, FreshRx, FreshMon,
     FreshScope, HostPlaces
<1>2. host.pc = "idle" /\ host.launched = FALSE /\ host.error = "none" /\ host.started = "unknown"
      /\ host.unknown = FALSE /\ host.raised = FALSE /\ host.monClosed = FALSE /\ host.collected = "none"
  BY DEF LinuxInit, FreshHost
<1>3. Untouched /\ NeverLaunched /\ Unlaunched
  BY <1>2 DEF LinuxInit, Untouched, NeverLaunched, Unlaunched, Constructing, FreshScope
<1>4. RaiseUnknown /\ GroupOver /\ ReceiverOver /\ MonitorOver /\ ScopeOver /\ Unpinned
  BY <1>2 DEF LinuxInit, RaiseUnknown, GroupOver, ReceiverOver, MonitorOver, ScopeOver, Unpinned, Leaving, PastReceiver,
     PastMonitor, PastScope, Concluding, FreshRx, FreshMon, FreshScope
<1>5. Acknowledged /\ Listening /\ Unrun /\ ObserverDue /\ Counted
  BY DEF LinuxInit, Acknowledged, Listening, Unrun, ObserverDue, Counted, FreshHelper, FreshWire, FreshRx, FreshMon, FreshScope
<1>6. Framed
  BY FirstFrames DEF LinuxInit, Framed, FreshWire, FreshRx
<1>7. Lent /\ Accepted /\ LastSaid
  BY <1>2 DEF LinuxInit, Lent, Accepted, LastSaid, NoOutcome
<1> QED BY <1>1, <1>3, <1>4, <1>5, <1>6, <1>7 DEF LinuxInv

LEMMA MainKeeps == ASSUME LinuxInv, Main PROVE LinuxInv'
BY Zenon, BeginCommandKeeps, ConstructKeeps, SpawnKeeps, ObserveEndpointsKeeps, StartReceiverKeeps,
   ReceiveListenerKeeps, AcknowledgeIfHealthyKeeps, ReadOutputKeeps, StopGroupKeeps, DrainResourceKeeps,
   JoinReceiverKeeps, JoinMonitorKeeps, CollectKeeps, CloseEndpointKeeps, CloseScopeKeeps, ReturnOutcomeKeeps
   DEF Main

LEMMA ThreadsKeep == ASSUME LinuxInv, Receiver \/ Monitor PROVE LinuxInv'
BY Zenon, RxEndsKeeps, ConfigureScopeKeeps, AcknowledgeScopeKeeps, ReceiveTerminalKeeps, ReceiveEofKeeps,
   MalformedFrameKeeps, MonFailKeeps, AnswerDenialKeeps, RecordDenialKeeps, MonEndsKeeps
   DEF Receiver, Monitor

LEMMA NativeKeeps == ASSUME LinuxInv, Native PROVE LinuxInv'
BY Zenon, LauncherSetupKeeps, LauncherAckedKeeps, SuperviseTaskKeeps, InitForksKeeps, ConfineKeeps, HandOverKeeps,
   ExecKeeps, PayloadForksKeeps, PayloadDeniedKeeps, PayloadExitsKeeps, InitExitsKeeps, LauncherFinishKeeps,
   LauncherReportsKeeps
   DEF Native

LEMMA OthersKeep == ASSUME LinuxInv, Outside \/ Creator PROVE LinuxInv'
BY Zenon, DeadlinePassesKeeps, ChannelClosesKeeps, ScopeCollectedKeeps, AttachKeeps, BindAttemptKeeps,
   FinishStepKeeps, CloseStepKeeps
   DEF Outside, Creator

LEMMA LinuxStuttering == ASSUME LinuxInv, UNCHANGED linuxVars PROVE LinuxInv'
BY DEF linuxVars, sandbox, threads, LinuxInv, Shaped, StepShaped, HostShaped, HelperShaped, WireShaped, RxShaped, MonShaped,
   ScopeShaped, Untouched, NotLaunched, NeverLaunched, Unlaunched, RaiseUnknown, GroupOver, ReceiverOver, MonitorOver,
   ScopeOver, Unpinned, Acknowledged, Listening, Unrun, Framed, ObserverDue, Counted, Lent, Accepted, LastSaid

\* For any number of commands, faults and denied calls, whatever the parties interleave.
THEOREM LinuxInvariant == LinuxSpec => []LinuxInv
<1>1. LinuxInit => LinuxInv
  BY LinuxInvInitially
<1>2. LinuxInv /\ [LinuxNext]_linuxVars => LinuxInv'
  BY Zenon, MainKeeps, ThreadsKeep, NativeKeeps, OthersKeep, LinuxStuttering DEF LinuxNext
<1> QED BY <1>1, <1>2, PTL DEF LinuxSpec

\* A payload runs only under observation; a result without an error is about a command that
\* is over and whose denials are all counted; one that is said not to have started has not.
THEOREM CommandReportsTrue == LinuxSpec => []ReportTrue
<1>1. LinuxInv => ReportTrue
  <2> SUFFICES ASSUME LinuxInv PROVE ReportTrue
    OBVIOUS
  <2>1. PayloadObserved
    BY DEF PayloadObserved, LinuxInv, Acknowledged, Listening
  <2>2. AcceptedIsWhole
    BY DEF AcceptedIsWhole, LinuxInv, Accepted
  <2>3. NotStartedTrue
    BY DEF NotStartedTrue, LinuxInv, LastSaid
  <2> QED BY <2>1, <2>2, <2>3 DEF ReportTrue
<1> QED BY <1>1, LinuxInvariant, PTL

\* What one command may have left behind shuts the prepared step for every later one.
THEOREM UsedStepStaysShut == LinuxSpec => []StepShut
<1>1. LinuxInv => StepShut
  BY DEF LinuxInv, Lent, StepShut
<1> QED BY <1>1, LinuxInvariant, PTL
=============================================================================
