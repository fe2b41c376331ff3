------------------------------ MODULE Isolation ------------------------------
(* A command on its way into a sandbox (src/icode/isolation.py, the command    *)
(* side of tools/base.py ToolContext): the policy is tightened, a backend is   *)
(* selected, the context pins its workspace, the command is wrapped and        *)
(* launched. Meanwhile another process of the host may put another directory   *)
(* at the workspace's path. The command then reads, writes and renames what    *)
(* the backend lets it.                                                        *)
EXTENDS SandboxPolicy

CONSTANTS Hosts,          \* what a host has: see the fields below
          Bases,          \* the step policies a command may start from
          Proposals,      \* the policies a hook may propose
          MaxTightenings, \* bound: hooks that run before the command
          MaxSwaps,       \* bound: times the workspace's path is taken over
          MaxMoves        \* bound: renames of the command

VARIABLES host,      \* [platform, found, works, helper]: binaries, which of them isolate
          policy,    \* the policy of the step
          hooks,     \* hooks that ran
          ctx,       \* the ToolContext
          backend,   \* the selected sandbox
          pin,       \* the directory object the context pinned, or "none"
          cmd,       \* the wrapped command
          guarded,   \* objects the policy denied to write when the command was wrapped
          location,     \* object |-> its path
          swaps, moves,
          cage,      \* the running command's confinement
          wrote, seen  \* objects the command wrote and read

isoVars == <<host, policy, hooks, ctx, backend, pin, cmd, guarded, location, swaps, moves,
             cage, wrote, seen>>

\* the directories of the host: the workspace with a source directory that holds a
\* protected one, and the ticket ledger; a directory elsewhere; the system
Objects == {"ws", "src", "key", "ledger", "alt", "usr"}
Task == {"ws", "src", "key", "ledger"}
Root == <<"w">>
Elsewhere == <<"v">>
Ledger == <<"w", "l">>
System == {<<"u">>}
FreeName == "z"

ASSUME IsolationAssumption ==
    /\ Bases \subseteq {p \in Policies : Valid(p) /\ p.workspace = Root}
    /\ Proposals \subseteq Policies /\ Ledger \in Paths

At(path) == {o \in Objects : location[o] = path}
Beneath(o, dir) == Within(location[o], location[dir])
\* the path beneath one directory, seen from another
Relocated(path, from, to) == to \o SubSeq(path, Len(from) + 1, Len(path))

NoCommand == [by |-> "none", fd |-> "none", writable |-> FALSE, hidden |-> {},
              read |-> {}, write |-> {}, denyRead |-> {}, denyWrite |-> {}, anchors |-> {}]
NoCage == [by |-> "none", tree |-> "none", hidden |-> {}]

IsoInit ==
    /\ host \in Hosts /\ policy \in Bases /\ hooks = 0
    /\ ctx = [state |-> "new", readOnly |-> FALSE, bound |-> FALSE, session |-> "none"]
    /\ backend = "unset" /\ pin = "none" /\ cmd = NoCommand /\ guarded = {}
    /\ location = [ws |-> Root, src |-> <<"w", "s">>, key |-> <<"w", "s", "k">>, ledger |-> Ledger,
                alt |-> Elsewhere, usr |-> <<"u">>]
    /\ swaps = 0 /\ moves = 0 /\ cage = NoCage /\ wrote = {} /\ seen = {}

Run == <<cmd, guarded, cage, wrote, seen, moves>>

-----------------------------------------------------------------------------
(* Before the command.                                                       *)

\* apply_policy_tightenings: one hook; what does not tighten is passed over
HookTightens(candidate) ==
    /\ ctx.state = "new" /\ hooks < MaxTightenings /\ hooks' = hooks + 1
    /\ policy' = IF Tightens(policy, candidate) THEN candidate ELSE policy
    /\ UNCHANGED <<host, ctx, backend, pin, location, swaps>> /\ UNCHANGED Run

\* converge_policy_to_region
ConvergeToRegion(region) ==
    /\ ctx.state = "new" /\ RegionMay(policy, region)
    /\ policy' = Converged(policy, region)
    /\ UNCHANGED <<host, hooks, ctx, backend, pin, location, swaps>> /\ UNCHANGED Run

\* probe_native_sandbox: the real backend, with real commands
ProbePasses(name) == name \in host.works

AvailableBug(name) == name \in host.found

\* probe_capabilities: a native backend of this platform counts when its probe passed
Available(name) ==
    /\ name \in host.found
    /\ name = "bwrap" => host.platform = "linux" /\ ProbePasses("bwrap")
    /\ name = "sandbox-exec" => host.platform = "darwin" /\ ProbePasses("sandbox-exec")

Ranking == <<"bwrap", "sandbox-exec", "docker", "podman">>
FirstAvailable ==
    IF \E i \in 1..Len(Ranking) : Available(Ranking[i])
    THEN Ranking[CHOOSE i \in 1..Len(Ranking) :
                   Available(Ranking[i]) /\ \A j \in 1..(i - 1) : ~ Available(Ranking[j])]
    ELSE "none"

Preferences == {"auto", "none", "bwrap", "seatbelt", "wsl", "container"}

\* select_sandbox
SelectSandbox(preference) ==
    /\ backend = "unset"
    /\ backend' =
         CASE preference = "auto" -> FirstAvailable
           [] preference = "bwrap" /\ Available("bwrap") -> "bwrap"
           [] preference = "seatbelt" /\ Available("sandbox-exec") -> "sandbox-exec"
           [] preference = "wsl" /\ Available("wsl") -> "wsl"
           [] preference = "container" /\ Available("docker") -> "docker"
           [] preference = "container" /\ ~ Available("docker") /\ Available("podman") -> "podman"
           [] OTHER -> "none"
    /\ UNCHANGED <<host, policy, hooks, ctx, pin, location, swaps>> /\ UNCHANGED Run

\* LandlockSandbox.from_bundle: the helper's digest is that of the manifest
UseBundledHelper ==
    /\ backend = "unset" /\ host.platform = "linux" /\ host.helper
    /\ backend' = "landlock"
    /\ UNCHANGED <<host, policy, hooks, ctx, pin, location, swaps>> /\ UNCHANGED Run

\* The context of a step (runner._run_loop) or of an agent (derive_agent_policy):
\* the review step and the roles without writes get a read-only workspace. A ticket's
\* session holds the workspace's own directory since it was made.
NewContext(readOnly, bound, session) ==
    /\ ctx.state = "new" /\ backend # "unset"
    /\ session # "none" => bound /\ ~ readOnly
    /\ policy.step = "review" => readOnly
    /\ LET derived == IF readOnly THEN ReadOnly(policy, {Ledger}) ELSE policy
           may == readOnly => IF policy.step = "review" THEN ReviewerMay(policy, {Ledger})
                              ELSE Tightens(policy, derived)
       IN IF bound /\ ~ may
          THEN ctx' = [ctx EXCEPT !.state = "refused"] /\ UNCHANGED policy
          ELSE /\ ctx' = [state |-> "open", readOnly |-> readOnly, bound |-> bound,
                          session |-> session]
               /\ policy' = IF bound THEN derived ELSE policy
    /\ UNCHANGED <<host, hooks, backend, pin, location, swaps>> /\ UNCHANGED Run

\* another process exchanges the workspace's directory for another one
Swap ==
    /\ swaps < MaxSwaps /\ swaps' = swaps + 1
    /\ location' = [o \in Objects |->
                   CASE Within(location[o], Root) -> Relocated(location[o], Root, Elsewhere)
                     [] Within(location[o], Elsewhere) -> Relocated(location[o], Elsewhere, Root)
                     [] OTHER -> location[o]]
    /\ UNCHANGED <<host, policy, hooks, ctx, backend, pin>> /\ UNCHANGED Run

Pins == {"bwrap", "landlock"}

\* pin_read_only_workspace, before the first turn of the model
PinWorkspace ==
    /\ ctx.state = "open" /\ ctx' = [ctx EXCEPT !.state = "ready"]
    /\ pin' \in IF ctx.readOnly /\ backend \in Pins THEN At(Root) ELSE {"none"}
    /\ UNCHANGED <<host, policy, hooks, backend, location, swaps>> /\ UNCHANGED Run

-----------------------------------------------------------------------------
(* Wrapping: ToolContext.wrap_command and the backends' wrappers.            *)

Wrapped(by, fd, writable, hidden) ==
    [NoCommand EXCEPT !.by = by, !.fd = fd, !.writable = writable, !.hidden = hidden]

\* _validated_read_only_exclusions: directories strictly inside the workspace, found
\* from the pinned object when there is one
ExclusionsHold(hidden, root) ==
    \A path \in hidden :
        /\ Within(path, Root) /\ path # Root
        /\ \E o \in Objects : location[o] = Relocated(path, Root, location[root])

\* an exclusion inside another one is already hidden
Minimal(hidden) == {path \in hidden : ~ \E other \in hidden \ {path} : Within(path, other)}

\* MacSeatbeltSandbox._profile
Profile(writable, hidden) ==
    [Wrapped("profile", "none", writable, {}) EXCEPT
        !.read = {Root} \cup System, !.write = IF writable THEN {Root} ELSE {},
        !.denyRead = hidden]

Parents(path) == {SubSeq(path, 1, n) : n \in 1..(Len(path) - 1)}

\* MacSeatbeltSandbox._policy_profile: what must not be unlinked, so that a denied
\* directory is not moved along with one above it
Anchors(p) ==
    p.write \cup {dir \in UNION {Parents(blocked) : blocked \in p.denyWrite} : Covered(dir, p.write)}

PolicyProfile(p) ==
    [Wrapped("profile", "none", TRUE, {}) EXCEPT
        !.read = p.read \cup System, !.write = p.write,
        !.denyRead = p.denyRead, !.denyWrite = p.denyWrite,
        !.anchors = Anchors(p)]

Overlap(left, right) == Within(left, right) \/ Within(right, left)

\* LandlockSandbox._checked_policy_workspace
LandlockExpresses(p) ==
    /\ Denied(p) /\ p.read = {p.workspace} /\ p.write = {p.workspace}
    /\ \A path \in p.denyRead \cup p.denyWrite : ~ Overlap(path, p.workspace)
    /\ \A path \in p.denyRead, root \in System : ~ Overlap(path, root)

\* _with_workspace_object_fd, wrap_read_only: the path still leads to the object
SameObject(object) == object \in At(Root)

\* wrap_read_only_policy_excluding, for Bubblewrap only
ReviewerPolicyCommands ==
    {c \in {Wrapped("mount", pin, FALSE, Minimal(policy.denyRead))} :
       /\ backend = "bwrap" /\ pin # "none" /\ policy.step = "review"
       /\ policy.read = {Root} /\ policy.write = {} /\ Denied(policy)
       /\ Ledger \in policy.denyRead /\ ExclusionsHold(policy.denyRead, pin)}

\* wrap_read_only_excluding: the ledger is always among the exclusions
ReviewerCommands ==
    CASE backend = "bwrap" /\ pin # "none" ->
           {c \in {Wrapped("mount", pin, FALSE, {Ledger})} : ExclusionsHold({Ledger}, pin)}
      [] backend = "sandbox-exec" ->
           {c \in {Profile(FALSE, {Ledger})} : At(Ledger) # {}}
      [] backend \in {"docker", "podman"} /\ host.platform = "linux" ->
           {c \in {Wrapped("mount", "none", FALSE, {Ledger})} : At(Ledger) # {}}
      [] OTHER -> {}

\* wrap_policy, and the wrappers with a receipt channel: Landlock only
PolicyCommands ==
    {c \in {Wrapped("landlock", ctx.session, TRUE, {})} :
       /\ backend = "landlock" /\ LandlockExpresses(policy)
       /\ ctx.session # "none" => SameObject(ctx.session)}

\* experimental_wrap_policy
ProfileCommands ==
    {c \in {PolicyProfile(policy)} :
       /\ backend = "sandbox-exec" /\ Denied(policy)
       /\ \A path \in policy.denyRead, root \in System : ~ Overlap(path, root)}

\* wrap: the ordinary wrapper of each backend
OrdinaryCommands ==
    CASE backend \in {"none", "wsl"} -> {Wrapped("bare", "none", TRUE, {})}
      [] backend = "landlock" -> {Wrapped("landlock", "none", TRUE, {})}
      [] backend = "sandbox-exec" -> {Profile(TRUE, {})}
      [] OTHER -> {Wrapped("mount", "none", TRUE, {})}

\* wrap_command: nothing falls back to a weaker wrapper
Commands ==
    CASE ctx.readOnly /\ ctx.bound -> ReviewerPolicyCommands
      [] ctx.readOnly /\ ~ ctx.bound -> ReviewerCommands
      [] ~ ctx.readOnly /\ ctx.bound -> PolicyCommands \cup ProfileCommands
      [] OTHER -> OrdinaryCommands

WrapCommand ==
    /\ ctx.state = "ready"
    /\ IF Commands = {}
       THEN ctx' = [ctx EXCEPT !.state = "refused"] /\ UNCHANGED <<cmd, guarded>>
       ELSE /\ ctx' = [ctx EXCEPT !.state = "wrapped"]
            /\ cmd' \in Commands
            /\ guarded' = IF ctx.bound THEN {o \in Objects : Covered(location[o], policy.denyWrite)}
                                       ELSE {}
    /\ UNCHANGED <<host, policy, hooks, backend, pin, location, swaps, moves, cage, wrote, seen>>

-----------------------------------------------------------------------------
(* The running command.                                                      *)

\* a native backend that does not isolate runs the command as it is
Isolates == /\ cmd.by # "bare"
            /\ backend \in {"bwrap", "sandbox-exec"} => backend \in host.works

HiddenIn(tree) ==
    {o \in Objects : \E path \in cmd.hidden :
        location[o] = Relocated(path, Root, location[tree])}

Launch ==
    /\ ctx.state = "wrapped"
    /\ LET tree == CHOOSE o \in Objects : IF cmd.fd # "none" THEN o = cmd.fd ELSE o \in At(Root)
       IN CASE ~ Isolates ->
                 /\ ctx' = [ctx EXCEPT !.state = "running"]
                 /\ cage' = [NoCage EXCEPT !.by = "bare"]
            [] Isolates /\ cmd.by = "profile" ->
                 /\ ctx' = [ctx EXCEPT !.state = "running"]
                 /\ cage' = [NoCage EXCEPT !.by = "profile"]
            [] Isolates /\ cmd.by \in {"mount", "landlock"} ->
                 IF ExclusionsHold(cmd.hidden, tree)
                 THEN /\ ctx' = [ctx EXCEPT !.state = "running"]
                      /\ cage' = [by |-> cmd.by, tree |-> tree, hidden |-> HiddenIn(tree)]
                 ELSE ctx' = [ctx EXCEPT !.state = "failed"] /\ UNCHANGED cage
    /\ UNCHANGED <<host, policy, hooks, backend, pin, cmd, guarded, location, swaps, moves, wrote, seen>>

Reaches(o) ==
    /\ Beneath(o, cage.tree)
    /\ \A h \in cage.hidden : ~ Beneath(o, h)

MayRead(o) ==
    CASE cage.by = "bare" -> TRUE
      [] cage.by = "profile" -> Covered(location[o], cmd.read) /\ ~ Covered(location[o], cmd.denyRead)
      [] OTHER -> Reaches(o) \/ o = "usr"

PathWritable(path) == Covered(path, cmd.write) /\ ~ Covered(path, cmd.denyWrite)

MayWrite(o) ==
    CASE cage.by = "bare" -> TRUE
      [] cage.by = "profile" -> PathWritable(location[o])
      [] OTHER -> cmd.writable /\ Reaches(o)

\* o becomes the entry name of dir
MayMove(o, dir, name) ==
    CASE cage.by = "bare" -> TRUE
      [] cage.by = "profile" -> /\ PathWritable(location[o]) /\ location[o] \notin cmd.anchors
                                /\ PathWritable(Append(location[dir], name))
      [] OTHER -> cmd.writable /\ Reaches(o) /\ o # cage.tree /\ Reaches(dir)

\* one access after the renames is enough: no access changes what another may do
Accessed == wrote # {} \/ seen # {}

Read(o) ==
    /\ ctx.state = "running" /\ MayRead(o) /\ ~ Accessed
    /\ seen' = {o}
    /\ UNCHANGED <<host, policy, hooks, ctx, backend, pin, cmd, guarded, location, swaps, moves,
                   cage, wrote>>

Write(o) ==
    /\ ctx.state = "running" /\ MayWrite(o) /\ ~ Accessed
    /\ wrote' = {o}
    /\ UNCHANGED <<host, policy, hooks, ctx, backend, pin, cmd, guarded, location, swaps, moves,
                   cage, seen>>

Move(o, dir) ==
    /\ ctx.state = "running" /\ ~ Accessed /\ moves < MaxMoves /\ moves' = moves + 1
    /\ ~ Beneath(dir, o) /\ MayMove(o, dir, FreeName)
    /\ At(Append(location[dir], FreeName)) = {}
    /\ location' = [x \in Objects |->
                   IF Beneath(x, o) THEN Relocated(location[x], location[o], Append(location[dir], FreeName))
                   ELSE location[x]]
    /\ UNCHANGED <<host, policy, hooks, ctx, backend, pin, cmd, guarded, swaps, cage, wrote, seen>>

IsoNext ==
    \/ ctx.state = "new" /\ hooks < MaxTightenings
       /\ \E candidate \in Proposals : HookTightens(candidate)
    \/ \E region \in Paths : ConvergeToRegion(region)
    \/ \E preference \in Preferences : SelectSandbox(preference)
    \/ UseBundledHelper
    \/ \E readOnly, bound \in BOOLEAN, session \in {"none", "ws"} :
          NewContext(readOnly, bound, session)
    \/ Swap \/ PinWorkspace \/ WrapCommand \/ Launch
    \/ \E o \in Objects : Read(o) \/ Write(o)
    \/ \E o, dir \in Objects : Move(o, dir)

IsoSpec == IsoInit /\ [][IsoNext]_isoVars

-----------------------------------------------------------------------------
(* Properties.                                                               *)

\* Tightening: whatever hooks, roles and regions do to the policy of a step, in
\* whatever order, the policy that results allows no access, no domain and no limit
\* that the one before did not, and keeps every protected path out of reach.
TightenNarrows == [][policy' # policy => AllowsNoMore(policy', policy)]_policy

\* The command keeps to its task's directories: a read-only context writes nothing
\* whatever the backend and whatever happens to the workspace's path, and a command
\* under a policy or a selected sandbox writes only in the task's workspace, even if
\* the path was taken over after the workspace was pinned.
StaysInWorkspace ==
    /\ ctx.readOnly => wrote = {}
    /\ (ctx.bound \/ backend \notin {"none", "wsl"}) /\ (cmd.fd # "none" \/ swaps = 0)
          => wrote \subseteq Task

\* What the policy denied stays denied: no sequence of renames lets a command write
\* what lay under a deny-write root when it was wrapped, and no Reviewer's command
\* reads the ticket ledger.
DeniesHold ==
    /\ (cmd.fd # "none" \/ swaps = 0) => wrote \cap guarded = {}
    /\ ctx.readOnly => "ledger" \notin seen

\* A wrapped command neither leaves its task's directories nor gets around what
\* its policy denies (isolation.py).
CommandConfined == StaysInWorkspace /\ DeniesHold
=============================================================================
