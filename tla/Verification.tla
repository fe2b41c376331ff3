---------------------------- MODULE Verification ----------------------------
(* The host's own verification of a step.                                     *)
(*   - execute_verification_plan runs the checks of a frozen plan between     *)
(*     snapshots of the source, with one cache directory it owns, and         *)
(*     build_engineering_evidence binds what it observed                      *)
(*     (src/icode/engineering_verification.py, engineering_evidence.py);      *)
(*   - the process of one check: the POSIX selector loop, or the Windows job  *)
(*     with two reader threads (verification_process.py,                      *)
(*     windows_process_tree.py), or the dispatch under a policy.              *)
(* The payload is anything: it forks, leaves the session, keeps or closes the *)
(* pipes, writes the source, replaces the cache directory.                    *)
EXTENDS Naturals, FiniteSets

CONSTANTS Checks,       \* checks of the plan
          Limit,        \* output bytes a check may produce
          MaxOutput,    \* bound: output a payload writes, above Limit
          MaxFaults     \* bound: system calls that fail in one behaviour

ASSUME VerificationAssumption == /\ Checks \in Nat \ {0}
                                 /\ Limit \in Nat
                                 /\ MaxOutput \in Nat /\ MaxOutput > Limit
                                 /\ MaxFaults \in Nat

VARIABLES plat,     \* "linux", "darwin", "windows", or "policy" (Linux, enforced)
          proc,     \* the process of the running check and the host's locals
          live,     \* payload processes that are alive, of any check
          held,     \* those of them that hold the output pipe open
          pipe,     \* output written, read and retained
          instant,    \* deadlines that have passed: the process's, the drain's
          plan,     \* execute_verification_plan: its locals
          source,   \* the content of the workspace
          cache,    \* what the name of the cache directory refers to
          receipt,  \* the engineering evidence bound to the run
          faults

verifyVars == <<plat, proc, live, held, pipe, instant, plan, source, cache, receipt, faults>>
payloadVars == <<live, held>>
planned == <<plan, cache, receipt>>

Posix == plat \in {"linux", "darwin"}
Group == {"leader", "child"}        \* "stray" has left the session

NoProc == [pc |-> "idle", leader |-> "none", code |-> FALSE, attempted |-> FALSE,
           ok |-> TRUE, timedOut |-> FALSE, incomplete |-> FALSE, readError |-> FALSE,
           assigned |-> FALSE, stop |-> FALSE, scoped |-> FALSE,
           signals |-> 0, result |-> "none"]
NoPipe == [written |-> 0, read |-> 0]
NoReceipt == [passed |-> FALSE, tested |-> 0]

VerifyInit ==
    /\ plat \in {"linux", "darwin", "windows", "policy"}
    /\ proc = NoProc
    /\ live = {} /\ held = {}
    /\ pipe = NoPipe
    /\ instant = {}
    /\ \E go \in BOOLEAN :
         plan = [pc |-> "context", go |-> go, check |-> 0, status |-> "passed",
                 confirmed |-> TRUE, before |-> 0, after |-> 2, enforced |-> FALSE,
                 foreign |-> FALSE, early |-> FALSE]
    /\ source = 0
    /\ cache = "none"
    /\ receipt = NoReceipt
    /\ faults = 0

Fault == faults < MaxFaults /\ faults' = faults + 1
Spared == faults' = faults

-----------------------------------------------------------------------------
(* The payload and the clock.                                                *)

Running == proc.leader = "running"

PayloadForks(p) ==
    /\ Running /\ "leader" \in live /\ p \in {"child", "stray"} \ live
    /\ live' = live \cup {p} /\ held' = held \cup {p}
    /\ UNCHANGED <<plat, proc, pipe, instant, planned, source, faults>>

PayloadWrites ==
    /\ plat # "policy" /\ held # {} /\ proc.leader # "suspended" /\ pipe.written < MaxOutput
    /\ pipe' = [pipe EXCEPT !.written = @ + 1]
    /\ UNCHANGED <<plat, proc, payloadVars, instant, planned, source, faults>>

PayloadCloses(p) ==
    /\ p \in held \cap {"stray"}
    /\ held' = held \ {p}
    /\ UNCHANGED <<plat, proc, live, pipe, instant, planned, source, faults>>

PayloadExits(p) ==
    /\ p \in live /\ (p = "leader" => Running)
    /\ live' = live \ {p} /\ held' = held \ {p}
    /\ proc' = [proc EXCEPT !.leader = IF p = "leader" THEN "zombie" ELSE @]
    /\ UNCHANGED <<plat, pipe, instant, planned, source, faults>>

\* to another content, or back to the one before
PayloadEdits ==
    /\ live # {} /\ proc.leader # "suspended"
    /\ source' = 1 - source
    /\ UNCHANGED <<plat, proc, payloadVars, pipe, instant, planned, faults>>

\* the directory renamed away and another one put in its place
PayloadReplacesCache ==
    /\ live # {} /\ proc.leader # "suspended" /\ cache = "owned"
    /\ cache' = "foreign"
    /\ UNCHANGED <<plat, proc, payloadVars, pipe, instant, plan, source, receipt, faults>>

DeadlinePasses ==
    /\ proc.pc \in {"loop", "wait", "policy", "join"}
    /\ \E d \in {"process", "drain"} \ instant :
         /\ d = "drain" => proc.code
         /\ instant' = instant \cup {d}
    /\ UNCHANGED <<plat, proc, payloadVars, pipe, planned, source, faults>>

\* someone else in the host waits for the verifier: its status is lost, and its
\* number is free once the group is empty
ExternalReap ==
    /\ proc.leader = "zombie" /\ Posix /\ Fault
    /\ proc' = [proc EXCEPT !.leader = "lost"]
    /\ UNCHANGED <<plat, payloadVars, pipe, instant, planned, source>>

-----------------------------------------------------------------------------
(* POSIX: _run_posix_bounded_output.                                         *)

Killed(survivors) == live' = live \cap survivors /\ held' = held \cap survivors
Gone(p) == IF p.leader \in {"running", "suspended"} THEN "zombie" ELSE p.leader

\* Popen in a session of its own; then the selector and the exit monitor
StartPosix ==
    /\ proc.pc = "start" /\ Posix
    /\ \/ /\ proc' = [proc EXCEPT !.pc = "monitor", !.leader = "running"]
          /\ live' = live \cup {"leader"} /\ held' = {"leader"}
          /\ Spared
       \/ proc' = [proc EXCEPT !.pc = "returned", !.result = "error"]
          /\ Fault /\ UNCHANGED payloadVars
    /\ pipe' = NoPipe /\ instant' = {}
    /\ UNCHANGED <<plat, planned, source>>

StartMonitor ==
    /\ proc.pc = "monitor"
    /\ \/ proc' = [proc EXCEPT !.pc = "loop"] /\ Spared
       \/ proc' = [proc EXCEPT !.pc = "except", !.result = "error"] /\ Fault
    /\ UNCHANGED <<plat, payloadVars, pipe, instant, planned, source>>

\* the exit is observed without reaping: the group keeps its number meanwhile,
\* unless someone else reaps.  waitid then raises on Linux, kqueue has seen it.
ObserveExit ==
    /\ proc.pc = "loop" /\ Posix /\ ~proc.code
    /\ \/ /\ proc.leader = "zombie" \/ (plat = "darwin" /\ proc.leader = "lost")
          /\ proc' = [proc EXCEPT !.pc = "kill", !.attempted = TRUE] /\ Spared
       \/ /\ "process" \in instant /\ Spared
          /\ proc' = [proc EXCEPT !.pc = "kill", !.attempted = TRUE, !.timedOut = TRUE]
       \/ /\ (plat = "linux" /\ proc.leader = "lost" /\ Spared) \/ Fault
          /\ proc' = [proc EXCEPT !.pc = "except", !.result = "error"]
    /\ UNCHANGED <<plat, payloadVars, pipe, instant, planned, source>>

\* _darwin_process_group_has_live_members: only zombies, and the audit ran
AuditClean == plat = "darwin" /\ live \cap Group = {} /\ faults' = faults

\* _terminate_posix_verification_group.  killpg reports EPERM for a group of
\* zombies on Darwin, and anywhere for a member it may not signal; then the
\* leader is killed alone, unless its exit was observed.
KillGroup ==
    /\ proc.pc \in {"kill", "kill2"}
    /\ LET next == IF proc.pc = "kill" THEN "reap" ELSE "reap2"
           exited == proc.pc = "kill" /\ ~proc.timedOut
           zombies == plat = "darwin" /\ live \cap Group = {} /\ proc.leader # "lost"
           signalled == [proc EXCEPT !.pc = next, !.signals = @ + 1]
       IN  \/ /\ ~zombies /\ Spared
              /\ Killed({"stray"})
              /\ proc' = [signalled EXCEPT !.leader = Gone(proc)]
           \/ /\ (zombies /\ Spared) \/ Fault
              /\ \E kill \in {TRUE} \cup (IF exited THEN {} ELSE {FALSE}) :
                   /\ Killed(IF kill /\ ~exited THEN live \ {"leader"} ELSE live)
                   /\ proc' = [signalled EXCEPT !.ok = exited /\ AuditClean,
                                                !.leader = IF kill /\ ~exited THEN Gone(proc) ELSE @]
    /\ UNCHANGED <<plat, pipe, instant, planned, source>>

\* _reap_posix_verification_process: a status someone else took, or a leader
\* that does not go away, is an error; but Popen.kill, tried when killpg found
\* no group, has polled and made up a status for one that was lost
Reap ==
    /\ proc.pc \in {"reap", "reap2"}
    /\ \/ /\ proc.leader = "zombie" \/ (proc.leader = "lost" /\ (proc.timedOut \/ proc.pc = "reap2"))
          /\ proc' = [proc EXCEPT !.leader = "reaped", !.code = TRUE,
                                  !.pc = IF @ = "reap" THEN "loop" ELSE "returned"]
       \/ /\ proc.leader # "zombie"
          /\ proc' = [proc EXCEPT !.pc = IF @ = "reap" THEN "except" ELSE "returned",
                                  !.result = "incomplete"]
    /\ UNCHANGED <<plat, payloadVars, pipe, instant, planned, source, faults>>

\* over the limit the reader goes on so that the payload is not blocked
ReadChunk ==
    /\ proc.pc \in {"loop", "wait", "join"} /\ pipe.read < pipe.written
    /\ plat # "policy" /\ ~proc.readError /\ ~proc.stop
    /\ pipe' = [pipe EXCEPT !.read = @ + 1]
    /\ UNCHANGED <<plat, proc, payloadVars, instant, planned, source, faults>>

ReadFails ==
    /\ proc.pc \in {"loop", "wait", "join"} /\ plat # "policy" /\ ~proc.readError
    /\ Fault
    /\ proc' = [proc EXCEPT !.readError = TRUE]
    /\ UNCHANGED <<plat, payloadVars, pipe, instant, planned, source>>

\* every writer is gone and all is read, or the stream was given up
Eof == proc.readError \/ (held = {} /\ pipe.read = pipe.written)

EndLoop ==
    /\ proc.pc = "loop" /\ Posix /\ proc.code
    /\ \/ Eof /\ proc' = [proc EXCEPT !.pc = "finish"]
       \/ ~Eof /\ "drain" \in instant /\ proc' = [proc EXCEPT !.pc = "finish", !.incomplete = TRUE]
    /\ UNCHANGED <<plat, payloadVars, pipe, instant, planned, source, faults>>

\* the order in which the reasons are raised
Verdict == IF proc.timedOut THEN "timeout"
           ELSE IF proc.incomplete \/ ~proc.ok THEN "incomplete"
           ELSE IF proc.readError THEN "error"
           ELSE IF pipe.read > Limit THEN "limit" ELSE "ok"

FinishCheck ==
    /\ proc.pc = "finish"
    /\ proc' = [proc EXCEPT !.result = Verdict,
                            !.pc = IF ~Posix THEN "close"
                                   ELSE IF Verdict = "ok" THEN "returned" ELSE "except"]
    /\ UNCHANGED <<plat, payloadVars, pipe, instant, planned, source, faults>>

\* a group number is signalled once: after a lost status it may be another's
MustStillKill == ~proc.code /\ ~proc.attempted

ExceptPosix ==
    /\ proc.pc = "except" /\ Posix
    /\ proc' = [proc EXCEPT !.pc = IF MustStillKill THEN "kill2" ELSE "returned",
                            !.attempted = TRUE]
    /\ UNCHANGED <<plat, payloadVars, pipe, instant, planned, source, faults>>

-----------------------------------------------------------------------------
(* Windows: a kill-on-close job around a process that starts suspended.      *)

StartWindows ==
    /\ proc.pc = "start" /\ plat = "windows"
    /\ \/ /\ proc' = [proc EXCEPT !.pc = "readers", !.leader = "suspended"]
          /\ live' = live \cup {"leader"} /\ held' = {"leader"}
          /\ Spared
       \/ proc' = [proc EXCEPT !.pc = "returned", !.result = "error"]
          /\ Fault /\ UNCHANGED payloadVars
    /\ pipe' = NoPipe /\ instant' = {}
    /\ UNCHANGED <<plat, planned, source>>

\* the two drain threads
StartReaders ==
    /\ proc.pc = "readers"
    /\ \/ proc' = [proc EXCEPT !.pc = "assign"] /\ Spared
       \/ proc' = [proc EXCEPT !.pc = "terminate", !.result = "raised"] /\ Fault
    /\ UNCHANGED <<plat, payloadVars, pipe, instant, planned, source>>

AssignBug ==
    /\ proc.pc = "assign"
    /\ proc' = [proc EXCEPT !.pc = "resume"]
    /\ UNCHANGED <<plat, payloadVars, pipe, instant, planned, source, faults>>
\* assign_and_resume: into the job first, then the one suspended thread
Assign ==
    /\ proc.pc = "assign"
    /\ \/ proc' = [proc EXCEPT !.pc = "resume", !.assigned = TRUE] /\ Spared
       \/ proc' = [proc EXCEPT !.pc = "terminate"] /\ Fault
    /\ UNCHANGED <<plat, payloadVars, pipe, instant, planned, source>>

Resume ==
    /\ proc.pc = "resume"
    /\ \/ proc' = [proc EXCEPT !.pc = "wait", !.leader = "running"] /\ Spared
       \/ /\ Fault      \* not resumed, or resumed and then refused
          /\ \E leader \in {"suspended", "running"} :
               proc' = [proc EXCEPT !.pc = "terminate", !.leader = leader]
    /\ UNCHANGED <<plat, payloadVars, pipe, instant, planned, source>>

WaitCheck ==
    /\ proc.pc = "wait"
    /\ \/ proc.leader = "zombie" /\ proc' = [proc EXCEPT !.pc = "empty", !.code = TRUE]
       \/ /\ "process" \in instant
          /\ proc' = [proc EXCEPT !.pc = "terminate", !.timedOut = TRUE]
    /\ UNCHANGED <<plat, payloadVars, pipe, instant, planned, source, faults>>

JobMembers == IF proc.assigned THEN live ELSE {}

\* wait_until_empty asks the job; a descendant left over rejects the result
JobEmpty ==
    /\ proc.pc = "empty"
    /\ \/ JobMembers = {} /\ proc' = [proc EXCEPT !.pc = "join"] /\ Spared
       \/ JobMembers # {} /\ proc' = [proc EXCEPT !.pc = "terminate"] /\ Spared
       \/ proc' = [proc EXCEPT !.pc = "terminate"] /\ Fault
    /\ UNCHANGED <<plat, payloadVars, pipe, instant, planned, source>>

\* _terminate_threaded_verification_tree: the job, else the root alone
TerminateTree ==
    /\ proc.pc = "terminate"
    /\ \/ /\ Killed(IF proc.assigned THEN {} ELSE live \ {"leader"})
          /\ proc' = [proc EXCEPT !.pc = "cancel", !.leader = Gone(proc)]
          /\ Spared
       \/ /\ Fault /\ UNCHANGED payloadVars
          /\ proc' = [proc EXCEPT !.pc = "cancel", !.ok = FALSE]
    /\ UNCHANGED <<plat, pipe, instant, planned, source>>

\* _join_or_cancel_threaded_readers after a failure
CancelReaders ==
    /\ proc.pc = "cancel"
    /\ proc' = [proc EXCEPT !.pc = "close", !.stop = TRUE,
                            !.result = IF ~proc.ok THEN "incomplete"
                                       ELSE IF proc.timedOut THEN "timeout"
                                       ELSE IF @ = "raised" THEN @ ELSE "incomplete"]
    /\ UNCHANGED <<plat, payloadVars, pipe, instant, planned, source, faults>>

JoinReaders ==
    /\ proc.pc = "join"
    /\ \/ Eof /\ proc' = [proc EXCEPT !.pc = "finish"]
       \/ /\ ~Eof /\ "drain" \in instant
          /\ proc' = [proc EXCEPT !.pc = "close", !.stop = TRUE, !.result = "incomplete"]
    /\ UNCHANGED <<plat, payloadVars, pipe, instant, planned, source, faults>>

\* closing the job's last handle kills what is still in it
CloseTree ==
    /\ proc.pc = "close"
    /\ \/ /\ Killed(IF proc.assigned THEN {} ELSE live)
          /\ proc' = [proc EXCEPT !.pc = "returned", !.leader = IF proc.assigned THEN Gone(proc) ELSE @]
          /\ Spared
       \/ proc' = [proc EXCEPT !.pc = "returned", !.result = "error"] /\ Fault /\ UNCHANGED payloadVars
    /\ UNCHANGED <<plat, pipe, instant, planned, source>>

-----------------------------------------------------------------------------
(* Under a policy the check is a command of LinuxExecution: its result counts *)
(* only if the scope was seen to be gone, and then nothing of it is alive.    *)

StartPolicy ==
    /\ proc.pc = "start" /\ plat = "policy"
    /\ proc' = [proc EXCEPT !.pc = "policy", !.leader = "running"]
    /\ live' = live \cup {"leader"}
    /\ instant' = {}
    /\ UNCHANGED <<plat, held, pipe, planned, source, faults>>

PolicyReturns ==
    /\ proc.pc = "policy"
    /\ proc.leader = "zombie" \/ "process" \in instant
    /\ \/ /\ live' = {}
          /\ \E result \in {"incomplete"} \cup (IF proc.leader = "zombie" THEN {"ok"} ELSE {}) :
               proc' = [proc EXCEPT !.pc = "returned", !.leader = "reaped", !.scoped = TRUE,
                                    !.result = result]
          /\ Spared
       \/ /\ live' \in {live, live \ {"leader"}, {}}
          /\ proc' = [proc EXCEPT !.pc = "returned", !.leader = "reaped", !.result = "incomplete"]
          /\ Fault
    /\ held' = {}
    /\ UNCHANGED <<plat, pipe, instant, planned, source>>

-----------------------------------------------------------------------------
(* execute_verification_plan.                                                *)

Host == UNCHANGED <<plat, payloadVars, pipe, instant, source>>
PlanEnds(status) == [plan EXCEPT !.pc = "returned", !.status = status]
CacheHeld == plan.go => cache = "owned"

\* the context, the platform and, under a policy, the resource dispatch
Admit ==
    /\ plan.pc = "context"
    /\ \/ plan' = [plan EXCEPT !.pc = "before"] /\ Spared
       \/ plan' = PlanEnds("execution_unavailable") /\ Fault
    /\ UNCHANGED <<proc, cache, receipt>> /\ Host

SnapshotBefore ==
    /\ plan.pc = "before"
    /\ \/ plan' = [plan EXCEPT !.pc = "cache", !.before = source] /\ Spared
       \/ plan' = PlanEnds("source_unavailable") /\ Fault
    /\ UNCHANGED <<proc, cache, receipt>> /\ Host

\* _PinnedVerificationCache: a fresh directory object, held open; POSIX only
PinCache ==
    /\ plan.pc = "cache"
    /\ \/ /\ plan.go /\ plat # "windows" /\ Spared
          /\ plan' = [plan EXCEPT !.pc = "check"] /\ cache' = "owned"
       \/ /\ plan.go /\ plan' = PlanEnds("execution_unavailable")
          /\ (plat = "windows" /\ Spared) \/ Fault
          /\ UNCHANGED cache
       \/ ~plan.go /\ plan' = [plan EXCEPT !.pc = "check"] /\ Spared /\ UNCHANGED cache
    /\ UNCHANGED <<proc, receipt>> /\ Host

\* a check that does not start: the binding or the tool is not the frozen one
NotStarted(status, owned) ==
    [plan EXCEPT !.pc = "check", !.check = @ + 1,
                 !.confirmed = @ /\ (owned \/ ~plan.go),
                 !.status = IF plan.go /\ ~owned THEN "cache_cleanup_unconfirmed" ELSE status]

BeginCheck ==
    /\ plan.pc = "check" /\ plan.check < Checks /\ plan.status = "passed"
    /\ \/ /\ Spared
          /\ IF CacheHeld
             THEN /\ plan' = [plan EXCEPT !.pc = "running", !.check = @ + 1]
                  /\ proc' = [NoProc EXCEPT !.pc = "start"]
             ELSE /\ plan' = [plan EXCEPT !.check = @ + 1, !.status = "cache_cleanup_unconfirmed"]
                  /\ UNCHANGED proc
       \/ /\ CacheHeld /\ Fault /\ UNCHANGED proc
          /\ \/ plan' = NotStarted("execution_unavailable", FALSE)
             \/ plan' = NotStarted("tool_changed", TRUE)
    /\ UNCHANGED <<cache, receipt>> /\ Host

\* the POSIX reader confirms its process group only, not detached writers
OwnerConfirmed == (plat = "windows" /\ proc.result = "ok") \/ proc.scoped

\* _execute_check after the process: the tool again, the exit code, the count
EndCheck ==
    /\ plan.pc = "running" /\ proc.pc = "returned"
    /\ proc' = [proc EXCEPT !.pc = "idle"]
    /\ \E status \in {"passed", "failed", "tool_changed"} :
         /\ status = "passed" => proc.result = "ok"
         /\ (status = "tool_changed" /\ Fault /\ proc.result = "ok")
            \/ (status # "tool_changed" /\ Spared)
         /\ plan' = IF proc.result = "raised" THEN PlanEnds("raised")
                    ELSE IF plan.go /\ ~OwnerConfirmed
                    THEN [plan EXCEPT !.pc = "check", !.confirmed = FALSE,
                                      !.status = "cache_cleanup_unconfirmed"]
                    ELSE IF status = "passed" THEN [plan EXCEPT !.pc = "observe"]
                    ELSE [plan EXCEPT !.pc = "check", !.status = status,
                                      !.confirmed = @ /\ proc.result = "ok"]
    /\ UNCHANGED <<cache, receipt>> /\ Host

\* between two checks: the cache, the binding, the source
ObserveSource ==
    /\ plan.pc = "observe"
    /\ \/ /\ Spared
          /\ plan' = [plan EXCEPT !.pc = "check",
                                  !.status = IF ~CacheHeld THEN "cache_cleanup_unconfirmed"
                                             ELSE IF source # plan.before THEN "source_changed"
                                             ELSE "passed"]
       \/ /\ Fault
          /\ \E status \in {"binding_changed", "source_unavailable"} :
               plan' = [plan EXCEPT !.pc = "check", !.status = status]
    /\ UNCHANGED <<proc, cache, receipt>> /\ Host

ChecksOver ==
    /\ plan.pc = "check" /\ (plan.check = Checks \/ plan.status # "passed")
    /\ plan' = [plan EXCEPT !.pc = IF plan.go THEN "remove" ELSE "final"]
    /\ UNCHANGED <<proc, cache, receipt, faults>> /\ Host

\* remove: the held object is emptied, then the name is removed if it is still
\* that object
EmptyCache ==
    /\ plan.pc = "remove"
    /\ \/ /\ plan.confirmed /\ cache = "owned" /\ Spared
          /\ plan' = [plan EXCEPT !.pc = "rmdir", !.early = live # {}]
       \/ /\ (~plan.confirmed \/ cache # "owned") /\ Spared
          /\ plan' = [plan EXCEPT !.pc = "final", !.status = "cache_cleanup_unconfirmed"]
       \/ /\ plan.confirmed /\ cache = "owned" /\ Fault
          /\ plan' = [plan EXCEPT !.pc = "final", !.status = "cache_cleanup_unconfirmed"]
    /\ UNCHANGED <<proc, cache, receipt>> /\ Host

RemoveCache ==
    /\ plan.pc = "rmdir"
    /\ \/ /\ Spared /\ cache' = "none"
          /\ plan' = [plan EXCEPT !.pc = "final", !.foreign = (cache = "foreign")]
       \/ /\ Fault /\ UNCHANGED cache
          /\ plan' = [plan EXCEPT !.pc = "final", !.status = "cache_cleanup_unconfirmed"]
    /\ UNCHANGED <<proc, receipt>> /\ Host

SnapshotAfter ==
    /\ plan.pc = "final"
    /\ \/ plan' = [plan EXCEPT !.pc = "compare", !.after = source] /\ Spared
       \/ \E status \in {"binding_changed", "source_unavailable"} :
            plan' = PlanEnds(status) /\ Fault
    /\ UNCHANGED <<proc, cache, receipt>> /\ Host

Compare ==
    /\ plan.pc = "compare"
    /\ LET status == IF plan.status = "passed" /\ plan.before # plan.after
                     THEN "source_changed" ELSE plan.status
       IN  \/ /\ plan' = [PlanEnds(status) EXCEPT !.enforced = (plat = "policy" /\ status = "passed")]
              /\ Spared
           \/ plan.status = "passed" /\ plan' = PlanEnds("binding_changed") /\ Fault
    /\ UNCHANGED <<proc, cache, receipt>> /\ Host

\* build_engineering_evidence: the caller's fingerprint of the tested source is
\* the run's, or there is no evidence
BindEvidence ==
    /\ plan.pc = "returned" /\ plan.after \in {0, 1} /\ receipt = NoReceipt
    /\ \E tested \in {0, 1} :
         /\ tested = plan.after
         /\ receipt' = [passed |-> plan.status = "passed", tested |-> tested]
    /\ plan' = [plan EXCEPT !.pc = "bound"]
    /\ UNCHANGED <<proc, cache, faults>> /\ Host

Check == StartPosix \/ StartMonitor \/ ObserveExit \/ KillGroup \/ Reap \/ EndLoop \/ FinishCheck
         \/ ExceptPosix \/ StartWindows \/ StartReaders \/ Assign \/ Resume \/ WaitCheck
         \/ JobEmpty \/ TerminateTree \/ CancelReaders \/ JoinReaders \/ CloseTree
         \/ StartPolicy \/ PolicyReturns
Plan == Admit \/ SnapshotBefore \/ PinCache \/ BeginCheck \/ EndCheck \/ ObserveSource
        \/ ChecksOver \/ EmptyCache \/ RemoveCache \/ SnapshotAfter \/ Compare \/ BindEvidence
Payload == \/ \E p \in {"leader", "child", "stray"} :
                 PayloadForks(p) \/ PayloadCloses(p) \/ PayloadExits(p)
           \/ PayloadWrites \/ PayloadEdits \/ PayloadReplacesCache

VerifyNext == Check \/ Plan \/ Payload \/ ReadChunk \/ ReadFails \/ DeadlinePasses \/ ExternalReap

VerifySpec == VerifyInit /\ [][VerifyNext]_verifyVars

-----------------------------------------------------------------------------
(* Properties.                                                               *)

\* On every path the group's number is signalled once at most, and the host
\* reaps only after that signal: it never signals a number it has given up, nor
\* a second time one whose status was lost (verification_process.py:371).
\* Where someone else reaped the verifier before, that one signal may go to a
\* number that is free: nothing in the code prevents it.
SignalledBeforeReaped ==
    /\ proc.signals <= 1
    /\ Posix /\ proc.leader = "reaped" => proc.signals = 1

\* A result that is returned is the whole output of a check that is over: all
\* that was written was read within the limit, no process of the group (of the
\* job) is alive and none holds the pipe.
OutputWhole ==
    proc.result = "ok" /\ proc.pc = "returned" /\ plat # "policy" =>
        /\ pipe.read = pipe.written /\ pipe.read <= Limit /\ held = {}
        /\ live \cap Group = {}
        /\ plat = "windows" => live = {}

\* A plan that passed on Windows or under a policy is about the source as it
\* still is: no process of any check is left to change it, and evidence that
\* passed names the content the checks started from.
SourceAttested ==
    /\ plan.pc \in {"returned", "bound"} /\ plan.status = "passed" /\ ~Posix =>
         live = {} /\ source = plan.before
    /\ receipt.passed => receipt.tested = plan.before

\* The cache directory is emptied only when no process that wrote to it is
\* alive, and what a payload put in its place is never removed.
CacheAfterWriters == ~plan.early /\ ~plan.foreign

\* What a check is said to have shown, it has shown, on the source that is
\* attested, and the verifier gave up no number it still signals and emptied no
\* directory but its own (verification_process.py, engineering_verification.py).
VerificationSound == SignalledBeforeReaped /\ OutputWhole /\ SourceAttested /\ CacheAfterWriters
=============================================================================
