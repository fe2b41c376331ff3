----------------------------- MODULE FileTools ------------------------------
(* The tools read_file, write_file and edit_file on POSIX, step by step       *)
(* (src/icode/tools/builtin.py), after the guard's decision (guard.py).       *)
(* The path is d/f. A command that is still running may rebind the name d,    *)
(* replace f or write it between any two steps of a tool.                     *)
EXTENDS Naturals

CONSTANT MaxForeign     \* bound: changes by others
ASSUME FileAssumption == MaxForeign \in Nat

\* Directories: D and E in the workspace, P protected by the policy, O outside.
FileDirs == {"D", "E", "P", "O"}

VARIABLES confined,   \* the tool context has a sandbox policy
          name,     \* what the name d is: D itself, a link to E, P or O, or nothing
          dirEntry,    \* f in each directory: its kind and the version of its content
          tool,     \* the tool call under way
          touched,  \* directories whose f was shown or replaced, and by which operation
          foreign   \* changes by others so far

fileVars == <<confined, name, dirEntry, tool, touched, foreign>>

NoCall == [op |-> "none", pc |-> "idle", dir |-> "none", prior |-> 0, kind |-> "none",
           body |-> 0, over |-> 0, late |-> FALSE, outcome |-> "none"]

FileInit ==
    /\ confined \in BOOLEAN
    /\ name = "D"
    /\ \E missing \in BOOLEAN :
         dirEntry = [d \in FileDirs |-> IF d = "D" /\ missing THEN [kind |-> "none", ver |-> 0]
                                 ELSE [kind |-> "file", ver |-> 1]]
    /\ tool = NoCall /\ touched = {} /\ foreign = 0

\* Path.resolve: the directory d/f is in once links are followed. A link in
\* the place of f leads to the protected directory.
Where == IF name = "none" THEN "D"
         ELSE IF dirEntry[name].kind = "link" THEN "P" ELSE name

InWorkspace(dir) == dir # "O"

\* Guard.check_read and check_write on the path as it resolves now; a read
\* outside the workspace may be approved by a human.
GuardAllows(op, dir) ==
    \/ confined /\ dir \in {"D", "E"}
    \/ ~confined /\ InWorkspace(dir)
Approvable(op, dir) == op = "read" /\ ~confined /\ ~InWorkspace(dir)

\* _policy_allows_read and _write_target, on the path as it resolves then; an
\* edit needs both.
ReadAllowed(dir) == confined => dir \in {"D", "E"}
WriteAllowed(dir) == InWorkspace(dir) /\ (confined => dir \in {"D", "E"})
ToolAllows(op, dir) == /\ op # "write" => ReadAllowed(dir)
                       /\ op # "read" => WriteAllowed(dir)

Raise(code) == tool' = [NoCall EXCEPT !.op = tool.op, !.outcome = code]
ToolAt(pc) == tool.pc = pc

Call(op) ==
    /\ ToolAt("idle")
    /\ \/ /\ GuardAllows(op, Where) \/ Approvable(op, Where)
          /\ tool' = [NoCall EXCEPT !.op = op, !.pc = "check"]
       \/ /\ ~GuardAllows(op, Where)
          /\ tool' = [NoCall EXCEPT !.op = op, !.outcome = "denied"]
    /\ UNCHANGED <<confined, name, dirEntry, touched, foreign>>

\* The tool's own look at the path: from here on it works with the resolved one.
CheckPath ==
    /\ ToolAt("check")
    /\ IF ToolAllows(tool.op, Where) THEN tool' = [tool EXCEPT !.pc = "open", !.dir = Where]
       ELSE Raise("denied")
    /\ UNCHANGED <<confined, name, dirEntry, touched, foreign>>

\* The directory is opened from its anchor, and links are not followed: only D
\* has a name that others change. write_file makes a missing directory.
OpensBug(dir) == IF dir # "D" THEN dir ELSE IF name = "none" THEN "missing" ELSE name
Opens(dir) == IF dir # "D" \/ name = "D" THEN dir
              ELSE IF name = "none" THEN "missing" ELSE "refused"

OpenParent ==
    /\ ToolAt("open")
    /\ LET opened == Opens(tool.dir) IN
       IF opened = "missing" /\ tool.op = "write"
       THEN /\ name' = "D"
            /\ dirEntry' = [dirEntry EXCEPT !["D"] = [kind |-> "none", ver |-> 0]]
            /\ tool' = [tool EXCEPT !.pc = "stat"]
       ELSE /\ IF opened \in {"missing", "refused"} THEN Raise("unavailable")
               ELSE tool' = [tool EXCEPT !.dir = opened,
                                         !.pc = IF tool.op = "read" THEN "show" ELSE "stat"]
            /\ UNCHANGED <<name, dirEntry>>
    /\ UNCHANGED <<confined, touched, foreign>>

TargetNow == dirEntry[tool.dir]

\* _read_anchored_text: a regular file, opened without following a link.
Show ==
    /\ ToolAt("show")
    /\ IF TargetNow.kind = "file"
       THEN /\ tool' = [NoCall EXCEPT !.op = "read", !.outcome = "ok"]
            /\ touched' = touched \union {<<"read", tool.dir>>}
       ELSE Raise("unavailable") /\ UNCHANGED touched
    /\ UNCHANGED <<confined, name, dirEntry, foreign>>

\* _regular_at before the work begins.
Stat ==
    /\ ToolAt("stat")
    /\ IF TargetNow.kind = "link" \/ (tool.op = "edit" /\ TargetNow.kind = "none")
       THEN Raise("denied")
       ELSE tool' = [tool EXCEPT !.prior = TargetNow.ver, !.kind = TargetNow.kind,
                                 !.pc = IF tool.op = "edit" THEN "body" ELSE "temp"]
    /\ UNCHANGED <<confined, name, dirEntry, touched, foreign>>

\* edit_file reads the text and finds the one place to change, or gives up.
ReadBody ==
    /\ ToolAt("body")
    /\ \/ TargetNow.kind = "file" /\ tool' = [tool EXCEPT !.body = TargetNow.ver, !.pc = "temp"]
       \/ Raise("no_match")
    /\ UNCHANGED <<confined, name, dirEntry, touched, foreign>>

\* _atomic_write_at: a temporary file beside the target, which may fail ...
WriteTemporary ==
    /\ ToolAt("temp")
    /\ tool' = [tool EXCEPT !.pc = "compare"] \/ Raise("unavailable")
    /\ UNCHANGED <<confined, name, dirEntry, touched, foreign>>

\* ... the target must be what it was: device, inode, time and size ...
Unchanged(current) == current.kind # "link" /\ current.kind = tool.kind /\ current.ver = tool.prior

Compare ==
    /\ ToolAt("compare")
    /\ IF Unchanged(TargetNow) THEN tool' = [tool EXCEPT !.pc = "replace"] ELSE Raise("unavailable")
    /\ UNCHANGED <<confined, name, dirEntry, touched, foreign>>

\* ... and is replaced, whatever has become of it since.
Replace ==
    /\ ToolAt("replace")
    /\ dirEntry' = [dirEntry EXCEPT ![tool.dir] = [kind |-> "file", ver |-> foreign + 2]]
    /\ tool' = [tool EXCEPT !.pc = "idle", !.over = TargetNow.ver, !.outcome = "ok"]
    /\ touched' = touched \union {<<tool.op, tool.dir>>}
    /\ UNCHANGED <<confined, name, foreign>>

\* Others: the name d is moved away, put back or made a link; f is written,
\* replaced, removed or made a link.
Foreign ==
    /\ foreign < MaxForeign
    /\ foreign' = foreign + 1
    /\ \/ \E to \in (FileDirs \union {"none"}) \ {name} : name' = to /\ UNCHANGED <<dirEntry, tool>>
       \/ \E dir \in {"D", "E"}, kind \in {"file", "none", "link"} :
            /\ dirEntry' = [dirEntry EXCEPT ![dir] =
                           [kind |-> kind, ver |-> IF kind = "none" THEN 0 ELSE foreign + 10]]
            /\ tool' = [tool EXCEPT !.late = @ \/ tool.pc = "replace"]
            /\ UNCHANGED name
    /\ UNCHANGED <<confined, touched>>

FileNext == \/ \E op \in {"read", "write", "edit"} : Call(op)
            \/ CheckPath \/ OpenParent \/ Show \/ Stat \/ ReadBody \/ WriteTemporary
            \/ Compare \/ Replace \/ Foreign

FileSpec == FileInit /\ [][FileNext]_fileVars

-----------------------------------------------------------------------------
\* However names are rebound while a tool works, under a policy nothing outside
\* the allowed directories is shown or replaced, and without one nothing
\* outside the workspace is replaced (builtin.py, _open_parent_at,
\* _read_anchored_text).
ToolsStayInside ==
    /\ confined => \A t \in touched : t[2] \in {"D", "E"}
    /\ \A t \in touched : t[1] # "read" => InWorkspace(t[2])

\* A write or edit that reports success replaced the version it started from,
\* and an edit put its change into that version: an update by others is never
\* lost, except one made in the instant between the last comparison and the
\* replacement (builtin.py, _atomic_write_at).
UpdatesKept ==
    tool.outcome = "ok" /\ tool.op # "read" /\ ~tool.late =>
      tool.over = tool.prior /\ (tool.op = "edit" => tool.body = tool.prior)

\* The file tools reach nothing outside their directories and lose no update of
\* others (builtin.py).
FileToolsSafe == ToolsStayInside /\ UpdatesKept
=============================================================================
