----------------------------- MODULE MCHostSide -----------------------------
(* Model checking of the host's side of a command, in one run: a behaviour is *)
(* one command under an isolation policy, one call of                         *)
(* run_windows_appcontainer, one session of the Windows runner's pipe, one    *)
(* verification plan with its checks, or one walk of a work tree that is      *)
(* written meanwhile.                                                         *)
EXTENDS Isolation, WindowsSandbox, RunnerPipe, Verification, WorktreeWalk

W == <<"w">>
S == <<"w", "s">>
K == <<"w", "s", "k">>
L == <<"w", "l">>
V == <<"v">>
MCPaths == {W, S, K, L, V, <<"u">>}

Base(step, read, denyWrite, protected, domains) ==
    [step |-> step, workspace |-> W, read |-> read, write |-> {W}, denyRead |-> {},
     denyWrite |-> denyWrite, protected |-> protected, domains |-> domains, limit |-> 2]
MCBases ==
    {Base("code", {W}, {V}, {V}, {}), Base("code", {W}, {K}, {K}, {"d"}),
     Base("code", {W}, {}, {}, {}),
     Base("review", {W}, {V}, {V}, {"d"}), Base("review", {W, V}, {}, {}, {})}
MCProposals ==
    {p \in [step : {"code"}, workspace : {W}, read : {{W}, {W, V}},
            write : {{W}, {S}}, denyRead : {{}, {K}}, denyWrite : {{}, {K}, {S}, {V}, {K, V}},
            protected : {{}, {K}, {V}}, domains : SUBSET {"d"}, limit : {2}] : Valid(p)}

HostWith(platform, found, works, helper) ==
    [platform |-> platform, found |-> found, works |-> works, helper |-> helper]
AnyHost == HostWith("linux", {"bwrap", "docker"}, {"bwrap"}, TRUE)
MCHosts ==
    {AnyHost, HostWith("linux", {"bwrap", "podman"}, {}, FALSE),
     HostWith("darwin", {"bwrap", "sandbox-exec"}, {"sandbox-exec"}, FALSE),
     HostWith("darwin", {"sandbox-exec"}, {}, FALSE), HostWith("win32", {"wsl"}, {}, FALSE)}

VARIABLE what

mcVars == <<what, isoVars, sandVars, pipeVars, verifyVars, walkVars>>

\* The machines that stand still have one initial state.
MCInit ==
    /\ IsoInit /\ SandInit /\ PipeInit /\ VerifyInit /\ WalkInit
    /\ what \in {"command", "sandbox", "pipe", "plan", "walk"}
    /\ what # "command" => host = AnyHost /\ policy = Base("code", {W}, {}, {}, {})
    /\ what # "sandbox" => launch = "plain" /\ ~anyApp
    /\ what # "plan" => plat = "linux" /\ plan.go
    /\ what # "walk" => walk.how = "tree" /\ tree["f"].kind = "file"

CommandStep ==
    what = "command" /\ IsoNext /\ UNCHANGED <<what, sandVars, pipeVars, verifyVars, walkVars>>
SandboxStep ==
    what = "sandbox" /\ SandNext /\ UNCHANGED <<what, isoVars, pipeVars, verifyVars, walkVars>>
PipeStep ==
    what = "pipe" /\ PipeNext /\ UNCHANGED <<what, isoVars, sandVars, verifyVars, walkVars>>
PlanStep ==
    what = "plan" /\ VerifyNext /\ UNCHANGED <<what, isoVars, sandVars, pipeVars, walkVars>>
WalkStep ==
    what = "walk" /\ WalkNext /\ UNCHANGED <<what, isoVars, sandVars, pipeVars, verifyVars>>

MCNext == CommandStep \/ SandboxStep \/ PipeStep \/ PlanStep \/ WalkStep

MCSpec == MCInit /\ [][MCNext]_mcVars
=============================================================================
