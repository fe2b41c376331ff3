---------------------------- MODULE WindowsSandbox ---------------------------
(* One command in a temporary AppContainer (src/icode/windows_appcontainer.py *)
(* run_windows_appcontainer) and its Job (windows_job.py run_windows_job).    *)
(* The package SID gets access to directories for the time of the command;    *)
(* the call returns a result whose cleanup_ok says that nothing is left.      *)
(* A directory is its root and one child, which inherits the root's entries   *)
(* some time after the root's DACL was set.                                   *)
EXTENDS Integers, FiniteSets

CONSTANT MaxApiFaults    \* bound: native calls that fail and DACLs that others edit

ASSUME SandboxAssumption == MaxApiFaults \in Nat

VARIABLES launch,      \* the kind of call, with its diagnostic options
          anyApp,      \* the workspace's own DACL lets any AppContainer write
          odd,         \* the command left a link in the workspace
          appCall,     \* the locals of run_windows_appcontainer
          winJob,      \* the locals of run_windows_job
          winProc,     \* the processes of the Job at hand
          acl,         \* directory |-> which of its objects name the SID
          dacl,        \* directory |-> its DACL otherwise
          taken,       \* directory |-> the dacl in the transaction, or NoVersion
          modified,    \* modified_roots of the transactions
          skipped,     \* directories in which a walk could not list the root
          appProfile,  \* the AppContainer profile in the registry, its directory
          probe,       \* the revocation check: did its process write the marker
          apiFaults

sandVars == <<launch, anyApp, odd, appCall, winJob, winProc, acl, dacl, taken, modified,
              skipped, appProfile, probe, apiFaults>>

Dirs == {"work", "runtime", "review"}
NoVersion == -1
Launches == {"plain", "compare", "runtime", "review", "network"}
UsesRuntime == launch \in {"runtime", "review", "network"}
Staged == launch \in {"review", "network"}

NoJob == [pc |-> "idle", kind |-> "none", created |-> FALSE, assigned |-> FALSE,
          error |-> "none", clean |-> FALSE, released |-> TRUE]
NoResult == [executed |-> FALSE, clean |-> FALSE, error |-> "setup"]
NoProcess == [main |-> "none", child |-> "none"]

SandInit ==
    /\ launch \in Launches /\ anyApp \in BOOLEAN /\ odd = FALSE
    /\ appCall = [pc |-> "preflight", created |-> FALSE, sid |-> FALSE, dacl |-> FALSE, local |-> FALSE,
               main |-> NoResult, clean |-> TRUE, jobClean |-> TRUE, ran |-> FALSE,
               second |-> FALSE]
    /\ winJob = NoJob /\ winProc = NoProcess
    /\ acl = [d \in Dirs |-> {}] /\ dacl = [d \in Dirs |-> 0]
    /\ taken = [d \in Dirs |-> NoVersion] /\ modified = {} /\ skipped = {}
    /\ appProfile = [listed |-> FALSE, dir |-> FALSE]
    /\ probe = "none" /\ apiFaults = 0

ApiFails == apiFaults < MaxApiFaults /\ apiFaults' = apiFaults + 1
ApiWorks == apiFaults' = apiFaults
CallAt(pc) == appCall.pc = pc
CallGoto(pc) == appCall' = [appCall EXCEPT !.pc = pc]

\* an exception in the body: the outer handlers make the result, then finally
CallRaises(error) ==
    appCall' = [appCall EXCEPT !.pc = "restoreReview",
                         !.main = [executed |-> FALSE, clean |-> appCall.jobClean, error |-> error]]

Acls == <<acl, dacl, taken, modified, skipped>>
Given == <<launch, anyApp>>

-----------------------------------------------------------------------------
(* The body of run_windows_appcontainer.                                     *)

\* The values of cleanup_ok an early return has: for options that do not go
\* together, for the command, for a workspace that is not a plain directory, and
\* for roots that are not plain, or not apart from each other and the workspace.
OptionRefusals == BOOLEAN
CommandRefusals == {FALSE}
WorkspaceRefusals == {FALSE}
RootRefusals == IF launch = "review" THEN BOOLEAN ELSE IF Staged THEN {TRUE} ELSE {}

Preflight ==
    /\ CallAt("preflight")
    /\ \/ CallGoto("profile")
       \/ \E clean \in OptionRefusals \cup CommandRefusals \cup WorkspaceRefusals \cup RootRefusals :
             appCall' = [appCall EXCEPT !.pc = "done", !.main.clean = clean]
    /\ ApiWorks /\ UNCHANGED <<Given, odd, winJob, winProc, Acls, appProfile, probe>>

\* CreateAppContainerProfile, and a SID that turns out to be invalid
CreateProfile ==
    /\ CallAt("profile")
    /\ \/ /\ ApiWorks /\ appProfile' = [listed |-> TRUE, dir |-> TRUE]
          /\ appCall' = [appCall EXCEPT !.pc = "grantWork", !.created = TRUE, !.sid = TRUE]
       \/ /\ ApiFails
          /\ \/ UNCHANGED appProfile /\ CallRaises("setup")
             \/ /\ appProfile' = [listed |-> TRUE, dir |-> TRUE]
                /\ appCall' = [appCall EXCEPT !.pc = "restoreReview", !.created = TRUE, !.sid = TRUE,
                                        !.main = [executed |-> FALSE, clean |-> TRUE, error |-> "setup"]]
    /\ UNCHANGED <<Given, odd, winJob, winProc, Acls, probe>>

\* what is read of a directory: _read_dacl_state, _contains_sid, and
\* _walk_workspace, which refuses a directory with a link in it.  os.walk has no
\* onerror: where the listing fails, what lies below is passed over.
AsTaken(d) == dacl[d] = taken[d]
NamesSid(d) == acl[d] # {}
NamesSeen(d, passes) == acl[d] \ (IF passes THEN {"child"} ELSE {})
Walkable == ~odd

AfterGrant == IF Staged THEN "normalize" ELSE IF UsesRuntime THEN "snapRuntime" ELSE "local"

\* _grant_workspace_acl: the caller learns the old DACL only if all went well.
\* An error may come after the root was changed, as for the runtime's roots.
GrantWorkspace ==
    /\ CallAt("grantWork")
    /\ \/ /\ ApiWorks /\ acl' = [acl EXCEPT !["work"] = @ \cup {"root"}]
          /\ appCall' = [appCall EXCEPT !.pc = AfterGrant,
                                  !.dacl = TRUE]
       \/ ApiFails /\ UNCHANGED acl /\ CallRaises("setup")
       \/ ApiFails /\ acl' = [acl EXCEPT !["work"] = @ \cup {"root"}] /\ CallRaises("grant")
    /\ UNCHANGED <<Given, odd, winJob, winProc, dacl, taken, modified, skipped, appProfile, probe>>

\* _normalize_staged_runtime_acl_baseline, before anything is granted there
Normalize ==
    /\ CallAt("normalize")
    /\ \/ ApiWorks /\ CallGoto("snapRuntime")
       \/ ApiFails /\ CallRaises("setup")
    /\ UNCHANGED <<Given, odd, winJob, winProc, Acls, appProfile, probe>>

\* _snapshot_runtime_acl_roots
SnapshotRoots(d, here, next) ==
    /\ CallAt(here)
    /\ \/ /\ CallGoto(next) /\ taken' = [taken EXCEPT ![d] = dacl[d]]
          /\ \/ ApiWorks /\ UNCHANGED skipped
             \/ ApiFails /\ skipped' = skipped \cup {d}
       \/ ApiFails /\ CallRaises("setup") /\ UNCHANGED <<taken, skipped>>
    /\ UNCHANGED <<Given, odd, winJob, winProc, acl, dacl, modified, appProfile, probe>>

\* _grant_runtime_acl_roots: the root is in modified_roots before it is changed
GrantRuntime(d, here, next) ==
    /\ CallAt(here)
    /\ IF ~AsTaken(d) \/ NamesSid(d)
       THEN ApiWorks /\ CallRaises("setup") /\ UNCHANGED <<acl, modified>>
       ELSE /\ modified' = modified \cup {d}
            /\ \/ ApiWorks /\ acl' = [acl EXCEPT ![d] = @ \cup {"root"}] /\ CallGoto(next)
               \/ ApiFails /\ CallRaises("setup") /\ acl' \in {acl, [acl EXCEPT ![d] = @ \cup {"root"}]}
    /\ UNCHANGED <<Given, odd, winJob, winProc, dacl, taken, skipped, appProfile, probe>>

\* _get_appcontainer_localappdata_path
LocalAppData ==
    /\ CallAt("local")
    /\ \/ ApiWorks /\ appCall' = [appCall EXCEPT !.pc = "launch", !.local = TRUE]
       \/ ApiFails /\ CallRaises("setup")
    /\ UNCHANGED <<Given, odd, winJob, winProc, Acls, appProfile, probe>>

\* closed before each launch; only the Job's own result opens it again
LaunchContainer ==
    /\ CallAt("launch") /\ ApiWorks
    /\ appCall' = [appCall EXCEPT !.pc = "job", !.jobClean = FALSE]
    /\ winJob' = [NoJob EXCEPT !.pc = "create",
                            !.kind = IF launch # "compare" THEN "main"
                                     ELSE IF appCall.second THEN "candidate" ELSE "baseline"]
    /\ winProc' = NoProcess
    /\ UNCHANGED <<Given, odd, Acls, appProfile, probe>>

-----------------------------------------------------------------------------
(* run_windows_job.                                                          *)

JobAt(pc) == CallAt("job") /\ winJob.pc = pc
Except == [winJob EXCEPT !.pc = "finally", !.error = "native"]

\* what the caller does with the result
JobReturns(executed, clean, error) ==
    LET result == [executed |-> executed, clean |-> clean, error |-> error]
        ran == [appCall EXCEPT !.pc = "restoreReview", !.main = result, !.jobClean = clean]
    IN  \/ winJob.kind = "main" /\ appCall' = ran
        \/ /\ winJob.kind = "baseline"
           /\ appCall' = [appCall EXCEPT !.pc = IF clean THEN "launch" ELSE "restoreReview",
                                !.second = TRUE, !.ran = executed, !.jobClean = clean, !.clean = clean,
                                !.main = IF clean THEN @
                                         ELSE [executed |-> FALSE, clean |-> FALSE, error |-> "setup"]]
        \/ /\ winJob.kind = "candidate"
           /\ appCall' = [ran EXCEPT !.clean = @ /\ clean, !.ran = @ \/ executed]
        \/ /\ winJob.kind = "revoke"
           /\ appCall' = [appCall EXCEPT !.pc = "revoked", !.clean = @ /\ executed /\ clean]

\* arguments that are refused before there is anything to clean up
JobRefused == JobReturns(FALSE, FALSE, "job")

CreateJob ==
    /\ JobAt("create")
    /\ \/ ApiWorks /\ winJob' = [winJob EXCEPT !.pc = "setup"] /\ UNCHANGED appCall
       \/ ApiFails /\ winJob' = NoJob /\ JobRefused
    /\ UNCHANGED <<Given, odd, winProc, Acls, appProfile, probe>>

\* limits, environment, attribute list; an error there that is no OSError goes
\* through finally to the caller
SetUpJob ==
    /\ JobAt("setup")
    /\ \/ ApiWorks /\ winJob' = [winJob EXCEPT !.pc = "process"] /\ UNCHANGED appCall
       \/ ApiFails /\ winJob' = Except /\ UNCHANGED appCall
       \/ /\ ApiFails /\ winJob' = NoJob
          /\ IF winJob.kind = "revoke" THEN appCall' = [appCall EXCEPT !.pc = "revoked", !.clean = FALSE]
             ELSE CallRaises("setup")
    /\ UNCHANGED <<Given, odd, winProc, Acls, appProfile, probe>>

CreateProcess ==
    /\ JobAt("process")
    /\ \/ /\ ApiWorks /\ winJob' = [winJob EXCEPT !.pc = "assign", !.created = TRUE]
          /\ winProc' = [winProc EXCEPT !.main = "suspended"]
       \/ ApiFails /\ winJob' = Except /\ UNCHANGED winProc
    /\ UNCHANGED <<Given, odd, appCall, Acls, appProfile, probe>>

AssignProcess ==
    /\ JobAt("assign")
    /\ \/ ApiWorks /\ winJob' = [winJob EXCEPT !.pc = IF launch = "network" /\ winJob.kind = "main" THEN "token" ELSE "resume",
                                       !.assigned = TRUE]
       \/ ApiFails /\ winJob' = Except
    /\ UNCHANGED <<Given, odd, appCall, winProc, Acls, appProfile, probe>>

\* _read_windows_appcontainer_token_receipt: whatever it finds, the handle it
\* opened must be closed
ReadToken ==
    /\ JobAt("token")
    /\ \/ ApiWorks /\ winJob' = [winJob EXCEPT !.pc = "resume"]
       \/ ApiFails /\ winJob' = [winJob EXCEPT !.pc = "resume", !.released = FALSE]
    /\ UNCHANGED <<Given, odd, appCall, winProc, Acls, appProfile, probe>>

ResumeThread ==
    /\ JobAt("resume")
    /\ \/ ApiWorks /\ winJob' = [winJob EXCEPT !.pc = "wait"] /\ winProc' = [winProc EXCEPT !.main = "running"]
       \/ ApiFails /\ winJob' = Except /\ UNCHANGED winProc
    /\ UNCHANGED <<Given, odd, appCall, Acls, appProfile, probe>>

WaitProcess ==
    /\ JobAt("wait")
    /\ \/ winProc.main = "dead" /\ ApiWorks /\ winJob' = [winJob EXCEPT !.pc = "finally"]
       \/ winProc.main # "dead" /\ ApiWorks /\ winJob' = [winJob EXCEPT !.pc = "finally", !.error = "timeout"]
       \/ ApiFails /\ winJob' = Except
    /\ UNCHANGED <<Given, odd, appCall, winProc, Acls, appProfile, probe>>

Doomed == [p \in DOMAIN winProc |-> IF winProc[p] \in {"suspended", "running"} THEN "dying" ELSE winProc[p]]

\* finally: the Job is terminated, or the one process that is not in it
Terminate ==
    /\ JobAt("finally")
    /\ IF ~winJob.assigned
       THEN /\ winJob' = [winJob EXCEPT !.pc = "close", !.clean = ~winJob.created]
            /\ \/ ApiWorks /\ winProc' = Doomed
               \/ winJob.created /\ ApiFails /\ UNCHANGED winProc
       ELSE \/ ApiWorks /\ winJob' = [winJob EXCEPT !.pc = "query"] /\ winProc' = Doomed
            \/ ApiFails /\ winJob' = [winJob EXCEPT !.pc = "close", !.error = "cleanup"] /\ UNCHANGED winProc
    /\ UNCHANGED <<Given, odd, appCall, Acls, appProfile, probe>>

Alive == {p \in DOMAIN winProc : winProc[p] \in {"suspended", "running", "dying"}}

\* until no process is left, for five seconds
QueryJob ==
    /\ JobAt("query")
    /\ \/ Alive = {} /\ ApiWorks /\ winJob' = [winJob EXCEPT !.pc = "close", !.clean = TRUE]
       \/ Alive # {} /\ ApiWorks /\ winJob' = [winJob EXCEPT !.pc = "close", !.error = "cleanup"]
       \/ ApiFails /\ winJob' = [winJob EXCEPT !.pc = "close", !.error = "cleanup"]
    /\ UNCHANGED <<Given, odd, appCall, winProc, Acls, appProfile, probe>>

\* the last handle of the Job: what is still in it is killed by the kernel
CloseJob ==
    /\ JobAt("close") /\ ApiWorks
    /\ winProc' = IF winJob.assigned THEN Doomed ELSE winProc
    /\ JobReturns(winJob.created, winJob.clean /\ winJob.released, winJob.error)
    /\ winJob' = NoJob
    /\ UNCHANGED <<Given, odd, Acls, appProfile, probe>>

-----------------------------------------------------------------------------
(* The command, the propagation of entries, other programs.                  *)

\* The command may start a process of its own, leave a link, and end.  The one
\* of the revocation check tries to write in the workspace.
CommandRuns ==
    /\ winProc.main = "running" \/ winProc.child = "running"
    /\ \/ \E p \in DOMAIN winProc : /\ winProc[p] = "running" /\ winProc' = [winProc EXCEPT ![p] = "dead"]
                                      /\ UNCHANGED <<odd, probe>>
       \/ /\ winJob.kind # "revoke" /\ winProc.child = "none"
          /\ winProc' = [winProc EXCEPT !.child = "running"] /\ UNCHANGED <<odd, probe>>
       \/ winJob.kind # "revoke" /\ ~odd /\ odd' = TRUE /\ UNCHANGED <<winProc, probe>>
       \/ /\ winJob.kind = "revoke" /\ (anyApp \/ acl["work"] # {}) /\ probe # "written"
          /\ probe' = "written" /\ UNCHANGED <<winProc, odd>>
    /\ ApiWorks /\ UNCHANGED <<Given, appCall, winJob, Acls, appProfile>>

ProcessDies ==
    /\ ApiWorks
    /\ \E p \in DOMAIN winProc : winProc[p] = "dying" /\ winProc' = [winProc EXCEPT ![p] = "dead"]
    /\ UNCHANGED <<Given, odd, appCall, winJob, Acls, appProfile, probe>>

Inherited(d) == IF "root" \in acl[d] THEN {"root", "child"} ELSE {}

Propagate(d) ==
    /\ acl[d] # Inherited(d) /\ ApiWorks
    /\ acl' = [acl EXCEPT ![d] = Inherited(d)]
    /\ UNCHANGED <<Given, odd, appCall, winJob, winProc, dacl, taken, modified, skipped, appProfile, probe>>

\* another program edits the DACL of a runtime's root
ForeignEdit(d) ==
    /\ UsesRuntime /\ appCall.pc # "done" /\ ApiFails
    /\ dacl' = [dacl EXCEPT ![d] = @ + 1]
    /\ UNCHANGED <<Given, odd, appCall, winJob, winProc, acl, taken, modified, skipped, appProfile, probe>>

-----------------------------------------------------------------------------
(* finally.                                                                  *)

\* _restore_runtime_acl_roots: the roots that were modified get their old DACL
RestoreRoots(d, here, check, next) ==
    /\ CallAt(here)
    /\ IF taken[d] = NoVersion
       THEN ApiWorks /\ CallGoto(next) /\ UNCHANGED <<acl, dacl>>
       ELSE \/ /\ ApiWorks /\ CallGoto(check)
               /\ IF d \in modified
                  THEN /\ acl' = [acl EXCEPT ![d] = @ \ {"root"}]
                       /\ dacl' = [dacl EXCEPT ![d] = taken[d]]
                  ELSE UNCHANGED <<acl, dacl>>
            \/ /\ d \in modified /\ ApiFails
               /\ appCall' = [appCall EXCEPT !.pc = next, !.clean = FALSE]
               /\ UNCHANGED <<acl, dacl>>
    /\ UNCHANGED <<Given, odd, winJob, winProc, taken, modified, skipped, appProfile, probe>>

\* _runtime_acl_matches_snapshot, up to 21 times: the walk must find the objects
\* of the snapshot, so it passes over what that one has passed over, or differs
VerifyRoots(d, here, next) ==
    /\ CallAt(here)
    /\ \/ /\ NamesSeen(d, d \in skipped) = {} /\ AsTaken(d)
          /\ CallGoto(next) /\ modified' = modified \ {d} /\ ApiWorks
       \/ /\ \/ (NamesSid(d) \/ ~AsTaken(d) \/ d \in skipped) /\ ApiWorks
             \/ ApiFails
          /\ appCall' = [appCall EXCEPT !.pc = next, !.clean = FALSE] /\ UNCHANGED modified
    /\ UNCHANGED <<Given, odd, winJob, winProc, acl, dacl, taken, skipped, appProfile, probe>>

\* _restore_workspace_acl
RestoreWorkspace ==
    /\ CallAt("restoreWork")
    /\ IF ~appCall.dacl
       THEN ApiWorks /\ CallGoto("delete") /\ UNCHANGED acl
       ELSE \/ ApiWorks /\ acl' = [acl EXCEPT !["work"] = @ \ {"root"}] /\ CallGoto("checkWork")
            \/ ApiFails /\ appCall' = [appCall EXCEPT !.pc = "delete", !.clean = FALSE] /\ UNCHANGED acl
    /\ UNCHANGED <<Given, odd, winJob, winProc, dacl, taken, modified, skipped, appProfile, probe>>

CheckWorkspaceBug ==
    /\ CallAt("checkWork") /\ ApiWorks
    /\ LET restored == "root" \notin acl["work"] /\ Walkable
       IN  appCall' = [appCall EXCEPT
              !.clean = @ /\ restored,
              !.pc = IF restored /\ appCall.clean /\ appCall.main.clean /\ (appCall.main.executed \/ appCall.ran)
                     THEN "revoke" ELSE "delete"]
    /\ UNCHANGED <<Given, odd, winJob, winProc, Acls, appProfile, probe>>
\* no object of the workspace that the walk finds names the SID any more; then
\* the SID is tried
CheckWorkspace ==
    /\ CallAt("checkWork")
    /\ \E passes \in BOOLEAN :
         LET restored == NamesSeen("work", passes) = {} /\ (passes \/ Walkable)
         IN  /\ IF passes THEN ApiFails /\ skipped' = skipped \cup {"work"} ELSE ApiWorks /\ UNCHANGED skipped
             /\ appCall' = [appCall EXCEPT
                   !.clean = @ /\ restored,
                   !.pc = IF restored /\ appCall.clean /\ appCall.main.clean /\ (appCall.main.executed \/ appCall.ran)
                          THEN "revoke" ELSE "delete"]
    /\ UNCHANGED <<Given, odd, winJob, winProc, acl, dacl, taken, modified, appProfile, probe>>

Revoke ==
    /\ CallAt("revoke") /\ ApiWorks
    /\ CallGoto("job") /\ winJob' = [NoJob EXCEPT !.pc = "create", !.kind = "revoke"] /\ winProc' = NoProcess
    /\ UNCHANGED <<Given, odd, Acls, appProfile, probe>>

\* A marker that is there is removed first, and missed only if that fails.
Revoked ==
    /\ CallAt("revoked")
    /\ \/ ApiWorks /\ probe' = (IF probe = "written" THEN "removed" ELSE probe) /\ CallGoto("delete")
       \/ /\ probe = "written" /\ ApiFails /\ UNCHANGED probe
          /\ appCall' = [appCall EXCEPT !.pc = "delete", !.clean = FALSE]
    /\ UNCHANGED <<Given, odd, winJob, winProc, Acls, appProfile>>

\* _delete_appcontainer_profile: tried again while the directory, if its path is
\* known, is still there
DeleteProfile ==
    /\ CallAt("delete")
    /\ IF ~appCall.created
       THEN ApiWorks /\ CallGoto("free") /\ UNCHANGED appProfile
       ELSE \/ /\ ApiWorks /\ appProfile' = [listed |-> FALSE, dir |-> FALSE]
               /\ appCall' = [appCall EXCEPT !.pc = "free", !.clean = @ /\ ~(launch = "network" /\ ~appCall.local)]
            \/ /\ ApiFails
               /\ \/ /\ appProfile' = [appProfile EXCEPT !.listed = FALSE]
                     /\ appCall' = [appCall EXCEPT !.pc = "free", !.clean = @ /\ ~appCall.local /\ launch # "network"]
                  \/ UNCHANGED appProfile /\ appCall' = [appCall EXCEPT !.pc = "free", !.clean = FALSE]
    /\ UNCHANGED <<Given, odd, winJob, winProc, Acls, probe>>

FreeSid ==
    /\ CallAt("free")
    /\ \/ ApiWorks /\ appCall' = [appCall EXCEPT !.pc = "done", !.main.clean = @ /\ appCall.clean, !.sid = FALSE]
       \/ appCall.sid /\ ApiFails /\ appCall' = [appCall EXCEPT !.pc = "done", !.main.clean = FALSE]
    /\ UNCHANGED <<Given, odd, winJob, winProc, Acls, appProfile, probe>>

\* the calling process dies: its handles are closed, nothing else is undone
HostDies ==
    /\ appCall.pc \notin {"preflight", "done", "dead"} /\ ApiFails
    /\ CallGoto("dead") /\ winJob' = NoJob
    /\ winProc' = IF winJob.assigned THEN Doomed ELSE winProc
    /\ UNCHANGED <<Given, odd, Acls, appProfile, probe>>

JobStep == CreateJob \/ SetUpJob \/ CreateProcess \/ AssignProcess \/ ReadToken \/ ResumeThread
           \/ WaitProcess \/ Terminate \/ QueryJob \/ CloseJob

SetUpStep ==
    \/ Preflight \/ CreateProfile \/ GrantWorkspace \/ Normalize
    \/ SnapshotRoots("runtime", "snapRuntime", "grantRuntime")
    \/ GrantRuntime("runtime", "grantRuntime", IF launch = "review" THEN "snapReview" ELSE "local")
    \/ SnapshotRoots("review", "snapReview", "grantReview")
    \/ GrantRuntime("review", "grantReview", "local")
    \/ LocalAppData \/ LaunchContainer

FinallyStep ==
    \/ RestoreRoots("review", "restoreReview", "verifyReview", "restoreRuntime")
    \/ VerifyRoots("review", "verifyReview", "restoreRuntime")
    \/ RestoreRoots("runtime", "restoreRuntime", "verifyRuntime", "restoreWork")
    \/ VerifyRoots("runtime", "verifyRuntime", "restoreWork")
    \/ RestoreWorkspace \/ CheckWorkspace \/ Revoke \/ Revoked \/ DeleteProfile \/ FreeSid

HostStep == SetUpStep \/ JobStep \/ FinallyStep

SandNext == \/ HostStep \/ CommandRuns \/ ProcessDies \/ HostDies
            \/ \E d \in Dirs : Propagate(d)
            \/ \E d \in {"runtime", "review"} : ForeignEdit(d)

SandSpec == SandInit /\ [][SandNext]_sandVars

-----------------------------------------------------------------------------
(* Properties.                                                               *)

\* no object of the directory names the SID, but what a walk passed over
Off(d) == /\ "root" \notin acl[d]
          /\ "child" \in acl[d] => d \in skipped

\* A result that says the cleanup succeeded is true: no process of the call is
\* left, no object of the three directories names its SID, and the profile is
\* gone, with its directory if the path of that was known.
\* Two cases are excepted: the grant of the workspace itself reported an error,
\* when it may have changed the root and nothing puts it back; and an object
\* below a directory whose listing failed in a walk, which is checked by nothing
\* (windows_appcontainer.py:231).
CleanIsTrue ==
    CallAt("done") /\ appCall.main.clean /\ appCall.main.error # "grant" =>
        /\ Alive = {}
        /\ \A d \in Dirs : Off(d)
        /\ ~appProfile.listed /\ (appCall.local => ~appProfile.dir)

\* A process that runs is in a Job the host still holds, or its end is certain,
\* whichever call fails and whenever the host dies: the process is created
\* suspended and resumed only in the Job (windows_job.py:1247).
RunsInJob == \A p \in DOMAIN winProc : winProc[p] = "running" => winJob.assigned

\* The sandbox keeps its process while the call lasts and leaves nothing behind
\* when it says so (windows_job.py, windows_appcontainer.py).
SandboxSound == CleanIsTrue /\ RunsInJob
=============================================================================
