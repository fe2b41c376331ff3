------------------------------ MODULE TaskRun -------------------------------
(* A coding task from the model's first turn to its report.                   *)
(*   - run_task: the model works, the host runs the tests itself between two  *)
(*     looks at the workspace, and repairs are allowed a bounded number of    *)
(*     times on new evidence (src/icode/runner.py, self_verify.py);           *)
(*   - _run_task_reviewer: a second model reads the changed files and         *)
(*     submits a verdict; its conclusion is bound to the tested content       *)
(*     (runner.py, reviewer.py). The deepcheck gate of a contract step uses   *)
(*     it on a fixed set of files;                                            *)
(*   - bind_task_result_commit compares the tested tree with a commit.        *)
(* Whatever else runs on the machine (a process a test left behind, the user  *)
(* in an editor) may write the workspace at any moment. The agent loop itself *)
(* is AgentLoop's subject: here it edits, and ends well or not.               *)
EXTENDS Naturals, FiniteSets, FiniteSetsExt

CONSTANTS WsFiles,      \* the files of the workspace
          ContentOf,    \* what each file can be: see Lines
          MaxRepairs,   \* run_task's max_repairs
          MaxReads,     \* bound: pieces of files the reviewer reads
          MaxWrites     \* bound: writes by others, between the model's turns

ASSUME TaskAssumption == /\ MaxRepairs \in Nat
                         /\ MaxReads \in Nat /\ MaxWrites \in Nat
                         /\ ContentOf \in [WsFiles -> SUBSET {"base", "empty", "long", "gone", "link"}]

VARIABLES ws,       \* the workspace: the content of each file
          git,      \* it is the root of a Git repository
          run,      \* locals of run_task
          ev,       \* the VerificationEvidence of the last attempt
          ledger,   \* VerificationLedger: repair keys it has seen
          rev,      \* locals of _run_task_reviewer
          report,   \* the TaskReport, or the outcome of the fixed review
          writes    \* writes by others so far

taskVars == <<ws, git, run, ev, ledger, rev, report, writes>>

\* Lines of a file; a name that is missing or a link has none to read.
Lines == [base |-> 1, empty |-> 0, long |-> 2, gone |-> 0, link |-> 0]
IsFile(c) == c \notin {"gone", "link"}

NoEvidence == [outcome |-> "none", category |-> "none", output |-> 0, tested |-> <<>>,
               hashes |-> <<>>, tree |-> <<>>, status |-> "none", ran |-> <<>>]
NoReview == [reads |-> {}, attempts |-> 0, lastValid |-> FALSE, exhausted |-> FALSE,
             payload |-> "none", last |-> "none", denied |-> FALSE, stop |-> "none",
             base |-> FALSE, files |-> {}, final |-> <<>>, upTo |-> 0, reviewed |-> FALSE,
             ok |-> FALSE]
NoReport == [ok |-> FALSE, verified |-> FALSE, commit |-> "none"]

AutoRepairable == {"code", "test", "model_capability"}

TaskInit ==
    /\ ws \in [WsFiles -> {"base"}]
    /\ git \in BOOLEAN
    /\ \E kind \in {"task", "fixed"} :
         run = [kind |-> kind, pc |-> "git", before |-> ws,
                after |-> ws, treeBefore |-> <<>>, treeAfter |-> <<>>, changed |-> {}, frozen |-> {},
                loopOk |-> FALSE, round |-> 0, attempt |-> 0, repaired |-> {}]
    /\ ev = NoEvidence /\ ledger = {} /\ rev = NoReview /\ report = NoReport
    /\ writes = 0

TaskAt(pc) == run.pc = pc
Goto(pc) == run' = [run EXCEPT !.pc = pc]
Changed(old, new) == {f \in WsFiles : old[f] # new[f]}

\* A process the task does not control writes one file.
Disturb ==
    /\ run.pc \notin {"git", "model", "done", "raised"}
    /\ writes < MaxWrites
    /\ \E f \in WsFiles : \E c \in ContentOf[f] \ {ws[f]} : ws' = [ws EXCEPT ![f] = c]
    /\ writes' = writes + 1
    /\ UNCHANGED <<git, run, ev, ledger, rev, report>>

-----------------------------------------------------------------------------
(* run_task                                                                   *)

\* _read_task_git_state: an unreadable identity raises out of run_task.
GitState ==
    /\ TaskAt("git")
    /\ \/ Goto("model")
       \/ git /\ Goto("raised")
    /\ UNCHANGED <<ws, git, ev, ledger, rev, report, writes>>

\* loop.run and the snapshot that follows it.
ModelTurn ==
    /\ TaskAt("model")
    /\ \E f \in WsFiles, ok \in BOOLEAN : \E c \in ContentOf[f] :
         /\ ws' = [ws EXCEPT ![f] = c]
         /\ run' = [run EXCEPT !.pc = IF run.kind = "task" THEN "before" ELSE "gate", !.after = ws', !.loopOk = ok,
                               !.attempt = run.attempt + 1]
    /\ UNCHANGED <<git, ev, ledger, rev, report, writes>>

\* _capture_task_git_tree_oid: the tree, or the reason there is none.
Trees == IF git THEN {ws, <<>>} ELSE {<<>>}

\* The Git state and tree before the tests.
BeforeTest ==
    /\ TaskAt("before")
    /\ \/ \E tree \in Trees : run' = [run EXCEPT !.pc = "test", !.treeBefore = tree]
       \/ git /\ Goto("raised")
    /\ UNCHANGED <<ws, git, ev, ledger, rev, report, writes>>

\* run_unittest's exit code, and classify_failure of a test run. A run that
\* finds no test is a failure whatever its exit code.
TestCategory(outcome) ==
    IF outcome = "pass" THEN "none"
    ELSE IF outcome = "empty" THEN "test"
    ELSE IF outcome = "fail" THEN "code" ELSE "environment"
ExitZero(outcome) == TestCategory(outcome) = "none"

\* The tests run on what is there; output that is incomplete, a timeout or a
\* failed launch ends the task without evidence (_task_report_for_output_failure).
RunTests ==
    /\ TaskAt("test")
    /\ \/ \E outcome \in {"pass", "empty", "fail", "env"} :
          \E output \in (IF outcome = "fail" THEN {1, 2} ELSE {1}) :
            /\ ev' = [NoEvidence EXCEPT !.outcome = outcome, !.output = output,
                                        !.category = TestCategory(outcome), !.ran = ws]
            /\ Goto("after")
       \/ ev' = NoEvidence /\ Goto("done")
    /\ UNCHANGED <<ws, git, ledger, rev, report, writes>>

AfterTest ==
    /\ TaskAt("after")
    /\ \/ \E tree \in Trees : run' = [run EXCEPT !.pc = "bind", !.treeAfter = tree]
       \/ git /\ Goto("raised")
    /\ UNCHANGED <<ws, git, ev, ledger, rev, report, writes>>

\* _resolve_tested_git_tree with the snapshot after the tests.
TestedTree(afterTest) ==
    IF run.treeBefore = <<>> \/ run.treeAfter = <<>> THEN <<<<>>, "unavailable">>
    ELSE IF run.treeBefore # run.treeAfter \/ run.after # afterTest
    THEN <<<<>>, "unstable">> ELSE <<run.treeBefore, "stable">>

\* _bind_task_evidence: the evidence names the snapshot taken before the tests;
\* the hashes of the changed files are read now.
BindEvidence ==
    /\ TaskAt("bind")
    /\ LET changed == Changed(run.before, run.after) IN
       /\ ev' = [ev EXCEPT !.tested = run.after, !.tree = TestedTree(ws)[1],
                           !.status = TestedTree(ws)[2],
                           !.hashes = [f \in {g \in changed : ws[g] # "gone"} |-> ws[f]]]
       /\ run' = [run EXCEPT !.pc = "decide", !.changed = changed, !.treeBefore = <<>>,
                             !.treeAfter = <<>>]
    /\ UNCHANGED <<ws, git, ledger, rev, report, writes>>

\* evidence_fingerprint: the attempt's number and what the tests really saw
\* are not in it.
RepairKey == [outcome |-> ev.outcome, output |-> ev.output, tested |-> ev.tested,
              hashes |-> ev.hashes, tree |-> ev.tree, status |-> ev.status]

\* VerificationLedger.decide_repair for evidence that was not recorded before.
Decision ==
    IF run.round + 1 > Max({1, MaxRepairs}) THEN "too_many_attempts"
    ELSE IF RepairKey \in ledger THEN "no_new_evidence" ELSE "allow"

\* The condition and the head of the repair loop.
MayRepair == ~ExitZero(ev.outcome) /\ ev.category \in AutoRepairable /\ run.round < MaxRepairs

\* The loop is left: its ledger, its history and what only the key is made of
\* are not read again.
LeaveLoop == /\ run' = [run EXCEPT !.pc = "review", !.round = 0, !.attempt = 0, !.repaired = {}]
             /\ ev' = [ev EXCEPT !.output = 0, !.hashes = <<>>]
             /\ ledger' = {}

RepairRound ==
    /\ TaskAt("decide") /\ MayRepair
    /\ IF Decision = "allow"
       THEN /\ run' = [run EXCEPT !.pc = "model", !.round = run.round + 1,
                       !.repaired = run.repaired \union
                         {[round |-> run.round, failure |-> [ev EXCEPT !.ran = <<>>]]}]
            /\ ledger' = ledger \union {RepairKey}
            /\ ev' = NoEvidence
       ELSE LeaveLoop
    /\ UNCHANGED <<ws, git, rev, report, writes>>

NoRepair ==
    /\ TaskAt("decide") /\ ~MayRepair
    /\ LeaveLoop
    /\ UNCHANGED <<ws, git, rev, report, writes>>

\* The deepcheck gate comes to its review with engineering evidence of source
\* that did not change while it was checked (Verification).
EngineeringGate ==
    /\ TaskAt("gate")
    /\ ev' = [NoEvidence EXCEPT !.outcome = "pass", !.tested = ws, !.ran = ws,
                                !.tree = IF git THEN ws ELSE <<>>,
                                !.status = IF git THEN "stable" ELSE "unavailable"]
    /\ \E frozen \in SUBSET WsFiles :
         run' = [run EXCEPT !.pc = "review", !.changed = Changed(run.before, ws),
                            !.frozen = frozen]
    /\ UNCHANGED <<ws, git, ledger, rev, report, writes>>

-----------------------------------------------------------------------------
(* _run_task_reviewer                                                         *)

\* A failed review still ends in a report.
ReviewFails == Goto("report") /\ rev' = NoReview

\* The scope: the changed files, or in deepcheck the files the control plane
\* froze, which must include them.
ScopeTrusted == run.kind = "fixed" => run.frozen # {} /\ run.changed \subseteq run.frozen
ReviewFiles == IF run.kind = "fixed" THEN run.frozen ELSE run.changed

\* What is refused before the model is asked (more than 64 files and the shapes
\* of paths are a choice here), and the evidence's own verdict
\* (IndependentReviewer.review).
BeginReview ==
    /\ TaskAt("review")
    /\ \/ ReviewFails
       \/ /\ ScopeTrusted /\ ReviewFiles # {}
          /\ \A f \in ReviewFiles : ws[f] # "link"
          /\ Goto("reading")
          /\ rev' = [NoReview EXCEPT !.base = ExitZero(ev.outcome), !.files = ReviewFiles]
    /\ UNCHANGED <<ws, git, ev, ledger, report, writes>>

Pieces(c) == IF ~IsFile(c) THEN {}
             ELSE IF Lines[c] = 0 THEN {<<1, 0>>}
             ELSE {p \in (1 .. Lines[c]) \X (1 .. Lines[c]) : p[1] <= p[2]}

\* read_file inside the allowed files; a piece that is clipped does not count.
ReviewerReads ==
    /\ TaskAt("reading") /\ Cardinality(rev.reads) < MaxReads
    /\ \E f \in rev.files : \E piece \in Pieces(ws[f]) :
         rev' = [rev EXCEPT !.reads = @ \union
                   {[file |-> f, first |-> piece[1], last |-> piece[2],
                     total |-> Lines[ws[f]], content |-> ws[f]]}]
    /\ UNCHANGED <<ws, git, run, ev, ledger, report, writes>>

\* A call the guard denies in either context: another path, another tool (the
\* finalizing context has submit_review only).
ReviewerDenied ==
    /\ run.pc \in {"reading", "finalizing"} /\ ~rev.denied
    /\ rev' = [rev EXCEPT !.denied = TRUE]
    /\ UNCHANGED <<ws, git, run, ev, ledger, report, writes>>

\* The tool submit_review: a valid conclusion with or without a blocking
\* finding, or one that breaks the contract (merge_model_review).
Submit(verdict) ==
    LET attempts == rev.attempts + 1 IN
    rev' = IF attempts > 2
           THEN [rev EXCEPT !.attempts = attempts, !.lastValid = FALSE, !.exhausted = TRUE,
                            !.last = verdict]
           ELSE IF verdict = "invalid"
           THEN [rev EXCEPT !.attempts = attempts, !.lastValid = FALSE, !.last = verdict]
           ELSE [rev EXCEPT !.attempts = attempts, !.lastValid = TRUE, !.payload = verdict,
                            !.last = verdict]

ReviewerSubmits ==
    /\ run.pc \in {"reading", "finalizing"} /\ rev.attempts < 3
    /\ \E verdict \in {"clean", "blocking", "invalid"} : Submit(verdict)
    /\ UNCHANGED <<ws, git, run, ev, ledger, report, writes>>

\* _reviewer_read_all_changed_files: for every file the pieces have one total
\* and together reach every line.
ReadsOf(f) == {r \in rev.reads : r.file = f}
CoversAll ==
    \A f \in rev.files :
      /\ IsFile(ws[f]) /\ ReadsOf(f) # {}
      /\ \E total \in 0 .. 2 :
           /\ \A r \in ReadsOf(f) : r.total = total
           /\ \A line \in 1 .. total : \E r \in ReadsOf(f) : line \in r.first .. r.last

\* _reviewer_read_changed_sources: two reads of a line must agree.
SourcesAgree ==
    \A r, s \in rev.reads :
      (r.file = s.file /\ r.first <= s.last /\ s.first <= r.last) => r.content = s.content

\* The reading loop ends. A denied call fails the review; a model that read
\* everything and never submitted gets a second context with that tool only.
ReadingEnds ==
    /\ TaskAt("reading")
    /\ \E stop \in {"no_tool_calls", "required_tool_not_called", "other"}, fits \in BOOLEAN :
         IF rev.denied THEN ReviewFails
         ELSE IF stop = "required_tool_not_called" /\ rev.attempts = 0 /\ CoversAll
         THEN IF SourcesAgree /\ fits THEN Goto("finalizing") /\ UNCHANGED rev ELSE ReviewFails
         ELSE Goto("judge") /\ rev' = [rev EXCEPT !.stop = stop]
    /\ UNCHANGED <<ws, git, ev, ledger, report, writes>>

\* The finalizing loop ends: its stop reason stands for both, and a denied call
\* of either fails the review.
FinalizingEndsBug ==
    /\ TaskAt("finalizing")
    /\ \E stop \in {"no_tool_calls", "required_tool_not_called", "other"} :
         rev' = [rev EXCEPT !.stop = stop]
    /\ Goto("judge")
    /\ UNCHANGED <<ws, git, ev, ledger, report, writes>>
FinalizingEnds ==
    /\ TaskAt("finalizing")
    /\ \E stop \in {"no_tool_calls", "required_tool_not_called", "other"} :
         IF rev.denied THEN ReviewFails
         ELSE Goto("judge") /\ rev' = [rev EXCEPT !.stop = stop]
    /\ UNCHANGED <<ws, git, ev, ledger, report, writes>>

\* What the two loops must have produced.
Judge ==
    /\ TaskAt("judge")
    /\ IF \/ rev.stop # "no_tool_calls"
          \/ rev.exhausted
          \/ rev.attempts > 0 /\ ~rev.lastValid
          \/ ~CoversAll
       THEN ReviewFails ELSE Goto("recheck") /\ UNCHANGED rev
    /\ UNCHANGED <<ws, git, ev, ledger, report, writes>>

\* The workspace must still be the tested one: changed files, diff, fingerprint.
SameAsTested(now) == /\ Changed(run.before, now) = run.changed
                     /\ now = ev.tested

Recheck ==
    /\ TaskAt("recheck")
    /\ \/ /\ SameAsTested(ws) /\ Goto("tree")
          /\ rev' = [rev EXCEPT !.final = ws, !.upTo = writes]
       \/ ReviewFails                 \* changed, or the snapshot cannot be taken
    /\ UNCHANGED <<ws, git, ev, ledger, report, writes>>

\* The Git tree is compared again when the tests had a stable one; then the
\* submitted conclusion is merged with the evidence's verdict.
ConcludeReview ==
    /\ TaskAt("tree")
    /\ \E tree \in Trees :
         IF (ev.tree = <<>> \/ tree = ev.tree) /\ rev.payload # "none"
         THEN /\ rev' = [rev EXCEPT !.reviewed = TRUE, !.ok = rev.base /\ rev.payload = "clean"]
              /\ Goto("report")
         ELSE ReviewFails
    /\ UNCHANGED <<ws, git, ev, ledger, report, writes>>

-----------------------------------------------------------------------------
(* The report                                                                 *)

\* TaskReport.ok; the fixed review reports its own conclusion.
ReportOk(commit) ==
    /\ rev.reviewed /\ rev.ok
    /\ run.kind = "task" => /\ run.loopOk /\ ExitZero(ev.outcome) /\ run.changed # {}
                            /\ commit \in {"none", "matched"}

\* bind_task_result_commit, for a commit whose tree is the one tested, another
\* one, or cannot be read.
CommitStatus(tree) ==
    IF ev.status # "stable" THEN "tested_tree_unavailable"
    ELSE IF tree = <<>> THEN "result_commit_unavailable"
    ELSE IF tree = ev.tree THEN "matched" ELSE "mismatch"

MakeReport ==
    /\ TaskAt("report")
    /\ \/ report' = [ok |-> ReportOk("none"), verified |-> TRUE, commit |-> "none"]
       \/ \E tree \in {<<>>, run.before, ws, ev.tested} :
            /\ run.kind = "task"
            /\ report' = [ok |-> ReportOk(CommitStatus(tree)), verified |-> TRUE,
                          commit |-> CommitStatus(tree)]
    /\ Goto("done")
    /\ UNCHANGED <<ws, git, ev, ledger, rev, writes>>

-----------------------------------------------------------------------------
HostStep ==
    \/ GitState \/ BeforeTest \/ RunTests \/ AfterTest \/ BindEvidence \/ RepairRound \/ NoRepair
    \/ EngineeringGate
    \/ BeginReview \/ Judge \/ Recheck \/ ConcludeReview \/ MakeReport
LoopStep == \/ ModelTurn \/ ReviewerReads \/ ReviewerDenied \/ ReviewerSubmits
            \/ ReadingEnds \/ FinalizingEnds

TaskNext == HostStep \/ LoopStep \/ Disturb
TaskSpec == TaskInit /\ [][TaskNext]_taskVars

-----------------------------------------------------------------------------
\* A task is reported done only for content that was changed, whose tests
\* really ran and passed, and that is still there after the review; unless
\* others wrote it and put it back, the tests ran on it, the reviewer read it,
\* and a commit reported as matching has it (runner.py, TaskReport.ok and the
\* re-check at the end of _run_task_reviewer).
TaskEarned ==
    report.ok =>
      /\ ev.outcome = "pass"
      /\ rev.final = ev.tested
      /\ run.kind = "task" => rev.final # run.before
      /\ rev.upTo <= 1 => /\ ev.ran = rev.final
                          /\ report.commit = "matched" => ev.tree = rev.final
                          /\ \A r \in rev.reads : r.content = rev.final[r.file]

\* A review that counts rests on the model's last word: at most two
\* submissions, the last of them valid and without a blocking finding, no
\* denied request; and every line of every file in scope was shown, unless
\* others wrote it and put it back (runner.py, submit_review and
\* _reviewer_read_all_changed_files).
ReviewIsLastWord ==
    rev.reviewed /\ rev.ok =>
      /\ rev.last = "clean" /\ rev.attempts \in {1, 2} /\ ~rev.denied
      /\ rev.upTo <= 1 => \A f \in rev.files : \A line \in 1 .. Lines[rev.final[f]] :
                            \E r \in ReadsOf(f) : line \in r.first .. r.last

\* Every repair was started on a failure that differs from all the failures
\* repaired before it, and there are at most MaxRepairs of them
\* (self_verify.py, decide_repair; runner.py, the loop of run_task).
RepairsOnNews ==
    /\ run.attempt <= 1 + MaxRepairs
    /\ \A p, q \in run.repaired : p.failure = q.failure => p = q

\* A task's report, its review and its repairs each rest on what happened last
\* (runner.py, run_task).
TaskSound == TaskEarned /\ ReviewIsLastWord /\ RepairsOnNews
=============================================================================
