--------------------------- MODULE LinuxExecution ---------------------------
(* One policy command on Linux, from the host's broker to the payload:        *)
(*   - the prepared step that lends its verified helper object to a command   *)
(*     (src/icode/linux_prepared_step.py, linux_helper_object.py);            *)
(*   - the broker's main thread (src/icode/execution_broker.py);              *)
(*   - the receiver thread of the resource channel and the task scope it pins *)
(*     (linux_task_resource.py, linux_task_scope.py);                         *)
(*   - the thread that answers seccomp notifications (linux_seccomp_notify.py)*)
(*   - the native launcher, its namespace init and the payload                *)
(*     (native/linux/icode_landlock.c, icode_task_quota.h,                    *)
(*     icode_task_resource.h).                                                *)
(* A command's output counts only if every one of these agrees afterwards.    *)
EXTENDS Naturals, Sequences, FiniteSets

CONSTANTS Commands,     \* commands one prepared step is asked to run
          MaxFaults,    \* bound: system calls that fail in one behaviour
          MaxDenials    \* bound: denied system calls of one payload

ASSUME BoundsAssumption == /\ Commands \in Nat \ {0}
                           /\ MaxFaults \in Nat
                           /\ MaxDenials \in Nat

VARIABLES mode,    \* "borrowed": from a prepared step; "owned": helper opened here
          step,    \* the LinuxPreparedStep
          host,    \* the broker's main thread and its locals
          helper,  \* the launcher's progress and the child's
          live,    \* the sandbox's tasks that are alive
          wire,    \* what is in flight on the two private channels
          rx,      \* the LinuxTaskResourceReceiver
          mon,     \* the LinuxSeccompViolationMonitor
          scope,   \* the systemd scope and the LinuxTaskScope that watches it
          late,    \* the command's deadline has passed
          last,    \* what the last command returned
          faults

linuxVars == <<mode, step, host, helper, live, wire, rx, mon, scope, late, last, faults>>
sandbox == <<helper, live, wire>>
threads == <<rx, mon, scope>>

Parts == <<"scope", "resource", "violation", "receiver", "monitor">>
Endpoints(made) == (IF made >= 2 THEN <<"resSender", "resHost">> ELSE <<>>)
                   \o (IF made >= 3 THEN <<"vioSender", "vioHost">> ELSE <<>>)
Terminals == {"preexec_failed", "finished", "cleanup_failed"}

FreshHost(n) == [pc |-> "idle", n |-> n, made |-> 0, launched |-> FALSE,
                 error |-> "none", started |-> "unknown", cleanupOk |-> TRUE,
                 unknown |-> FALSE, opaque |-> FALSE, raised |-> FALSE,
                 tried |-> {}, rxClosed |-> FALSE, monClosed |-> FALSE,
                 collected |-> "none"]
FreshHelper == [at |-> "none", child |-> "none", preexec |-> FALSE,
                leaked |-> FALSE, ran |-> FALSE]
FreshWire == [frames |-> <<>>, ack |-> FALSE, hand |-> "none", eof |-> FALSE]
FreshRx == [thread |-> "none", count |-> 0, configured |-> FALSE,
            terminal |-> "none", complete |-> FALSE, expired |-> FALSE,
            stop |-> FALSE]
FreshMon == [thread |-> "none", started |-> FALSE, failed |-> FALSE,
             stop |-> FALSE, pending |-> 0, asked |-> 0, answered |-> 0,
             count |-> 0]
FreshScope == [unit |-> FALSE, pinned |-> FALSE, owned |-> FALSE,
               locked |-> FALSE, closeReq |-> FALSE]
NoOutcome == [error |-> "no command yet", started |-> "unknown", output |-> FALSE,
              denials |-> 0, ran |-> FALSE, residue |-> FALSE]

LinuxInit ==
    /\ mode \in {"borrowed", "owned"}
    /\ step = [consume |-> "prepared", owner |-> "active", inflight |-> FALSE]
    /\ host = FreshHost(0)
    /\ helper = FreshHelper
    /\ live = {}
    /\ wire = FreshWire
    /\ rx = FreshRx
    /\ mon = FreshMon
    /\ scope = FreshScope
    /\ late = FALSE
    /\ last = NoOutcome
    /\ faults = 0

Fault == faults < MaxFaults /\ faults' = faults + 1
Spared == faults' = faults

-----------------------------------------------------------------------------
(* The prepared step, driven by its creator.                                 *)

\* _check: the session, the lease, the workspace object, the helper object and
\* its source are the ones the step was prepared with.  A failed observation of
\* the source blocks every later use.
CheckFails == step' = [step EXCEPT !.consume = "faulted"] /\ Fault

Attach ==
    /\ mode = "borrowed"
    /\ step.consume = "prepared" /\ step.owner = "active"
    /\ \/ step' = [step EXCEPT !.consume = "attached_pending"] /\ Spared
       \/ CheckFails
    /\ UNCHANGED <<mode, host, sandbox, threads, late, last>>

\* _bind_attempt: a refused attempt leaves the step pending
BindAttempt ==
    /\ step.consume = "attached_pending" /\ ~step.inflight /\ step.owner = "active"
    /\ \/ step' = [step EXCEPT !.consume = "attached_bound"] /\ Spared
       \/ CheckFails
    /\ UNCHANGED <<mode, host, sandbox, threads, late, last>>

FinishStep ==
    /\ ~step.inflight
    /\ step.consume \in {"attached_pending", "attached_bound"}
    /\ step' = [step EXCEPT !.consume = "spent"]
    /\ UNCHANGED <<mode, host, sandbox, threads, late, last, faults>>

\* close: a close that raises leaves the owner "unknown" and is never repeated
CloseStep ==
    /\ ~step.inflight
    /\ step.owner = "active"
    /\ \E answer \in {"closed", "unknown"} :
         /\ (answer = "closed" /\ Spared) \/ (answer = "unknown" /\ Fault)
         /\ step' = [step EXCEPT !.owner = answer,
                                 !.consume = IF @ = "faulted" THEN @ ELSE "spent"]
    /\ UNCHANGED <<mode, host, sandbox, threads, late, last>>

ReturnedBug(unknown) == [step EXCEPT !.inflight = FALSE]
\* _mark_faulted, then the return of the borrow
Returned(unknown) ==
    [step EXCEPT !.inflight = FALSE,
                 !.consume = IF unknown THEN "faulted" ELSE @]

-----------------------------------------------------------------------------
(* The broker: construction.                                                 *)

RefusedCommand == [NoOutcome EXCEPT !.error = "isolation_unavailable", !.started = "no",
                             !.residue = last.residue]

\* borrow, or open_linux_helper_object: nothing of the command exists yet
MayBorrow == step.consume = "attached_bound" /\ ~step.inflight /\ step.owner = "active"

\* a path, a manifest or a digest that does not match: the descriptor is closed
HelperRefused == UNCHANGED step /\ Fault

BeginCommand ==
    /\ host.pc = "idle"
    /\ host.n < (IF mode = "owned" THEN 1 ELSE Commands)
    /\ \/ /\ mode = "borrowed" => MayBorrow
          /\ host' = [FreshHost(host.n + 1) EXCEPT !.pc = "construct"]
          /\ step' = [step EXCEPT !.inflight = (mode = "borrowed")]
          /\ helper' = FreshHelper /\ live' = {} /\ wire' = FreshWire
          /\ rx' = FreshRx /\ mon' = FreshMon /\ scope' = FreshScope
          /\ late' = FALSE
          /\ Spared
          /\ UNCHANGED last
       \/ /\ \/ mode = "borrowed" /\ ~MayBorrow /\ UNCHANGED step /\ Spared
             \/ mode = "borrowed" /\ MayBorrow /\ CheckFails
             \/ mode = "owned" /\ HelperRefused
          /\ host' = [host EXCEPT !.n = @ + 1]
          /\ last' = RefusedCommand
          /\ UNCHANGED <<sandbox, threads, late>>
    /\ UNCHANGED mode

Fails(error) == [host EXCEPT !.pc = "drain", !.error = error, !.started = "no"]

\* A constructor that raises is opaque to a borrower: what it left is not known.
\* Wrapping the command (part "receiver") can also fail before any construction.
Construct ==
    /\ host.pc = "construct"
    /\ \/ /\ host' = [host EXCEPT !.made = @ + 1,
                                  !.pc = IF host.made + 1 = Len(Parts) THEN "spawn" ELSE @]
          /\ Spared
       \/ /\ Fault
          /\ \E opaque \in IF Parts[host.made + 1] = "receiver" THEN BOOLEAN ELSE {TRUE} :
               host' = [Fails("isolation_unavailable") EXCEPT !.opaque = opaque]
    /\ UNCHANGED <<mode, step, sandbox, threads, late, last>>

\* before_spawn repeats every check of the launch contract; then Popen
LaunchErrors == {"isolation_unavailable", "launch_failed"}

Spawn ==
    /\ host.pc = "spawn"
    /\ \/ /\ host' = [host EXCEPT !.pc = "observe", !.launched = TRUE]
          /\ helper' = [helper EXCEPT !.at = "setup"]
          /\ live' = {"launcher"}
          /\ scope' = [scope EXCEPT !.unit = TRUE]
          /\ Spared
       \/ /\ Fault
          /\ \E error \in LaunchErrors :
               host' = [Fails(error) EXCEPT !.launched = TRUE]
          /\ UNCHANGED <<helper, live, scope>>
    /\ UNCHANGED <<mode, step, wire, rx, mon, late, last>>

-----------------------------------------------------------------------------
(* start_observer: close the helper's ends, start the receiver, and only then *)
(* wait for the listener; acknowledge it when the thread is healthy.          *)

\* abort() fails the monitor and kills the process; the command is over
Abort(h, m) ==
    /\ mon' = [m EXCEPT !.failed = TRUE]
    /\ live' = live \ {"launcher"}
    /\ host' = [h EXCEPT !.pc = "stop", !.error = "proxy_setup_failed"]

ObserveEndpoints ==
    /\ host.pc = "observe"
    /\ \/ /\ host' = [host EXCEPT !.pc = "receiver", !.tried = {"vioSender", "resSender"}]
          /\ Spared /\ UNCHANGED <<mon, live>>
       \/ /\ Fault
          /\ \E tried \in {{"vioSender"}, {"vioSender", "resSender"}} :
               Abort([host EXCEPT !.tried = tried, !.unknown = TRUE, !.raised = TRUE], mon)
    /\ UNCHANGED <<mode, step, helper, wire, rx, scope, late, last>>

StartReceiver ==
    /\ host.pc = "receiver"
    /\ \/ /\ ~late
          /\ rx' = [rx EXCEPT !.thread = "run"]
          /\ host' = [host EXCEPT !.pc = "handoff"]
          /\ Spared /\ UNCHANGED <<mon, live>>
       \/ late /\ Abort(host, mon) /\ Spared /\ UNCHANGED rx
       \/ Fault /\ Abort(host, mon) /\ rx' = [rx EXCEPT !.stop = TRUE]
    /\ UNCHANGED <<mode, step, helper, wire, scope, late, last>>

\* _parse_handoff and the start of the observer thread
ReceiveListener ==
    /\ host.pc = "handoff"
    /\ \/ /\ wire.hand = "sent" /\ ~late
          /\ mon' = [mon EXCEPT !.thread = "ready"]
          /\ host' = [host EXCEPT !.pc = "acknowledge"]
          /\ Spared /\ UNCHANGED live
       \/ (late \/ (wire.hand = "none" /\ live = {})) /\ Abort(host, mon) /\ Spared
       \/ Fault /\ Abort(host, mon)
    /\ UNCHANGED <<mode, step, helper, wire, rx, scope, late, last>>

AcknowledgeIfHealthy ==
    /\ host.pc = "acknowledge"
    /\ \/ /\ ~late /\ ~mon.failed /\ mon.thread = "ready"
          /\ mon' = [mon EXCEPT !.started = TRUE, !.thread = "run"]
          /\ wire' = [wire EXCEPT !.hand = "acked"]
          /\ host' = [host EXCEPT !.pc = "read"]
          /\ UNCHANGED live
       \/ (late \/ mon.failed \/ mon.thread # "ready") /\ Abort(host, mon) /\ UNCHANGED wire
    /\ UNCHANGED <<mode, step, helper, rx, scope, late, last, faults>>

-----------------------------------------------------------------------------
(* The output loop and the end of the process group.                         *)

ReadOutputBug ==
    /\ host.pc = "read"
    /\ \/ live = {} /\ host' = [host EXCEPT !.pc = "stop"]
       \/ /\ helper.child = "exec"
          /\ host' = [host EXCEPT !.pc = "stop", !.error = "output_limit"]
    /\ UNCHANGED <<mode, step, sandbox, threads, late, last, faults>>
ReadOutput ==
    /\ host.pc = "read"
    /\ \/ live = {} /\ host' = [host EXCEPT !.pc = "stop"] /\ Spared
       \/ late /\ host' = [host EXCEPT !.pc = "stop", !.error = "timeout"] /\ Spared
       \/ /\ helper.child = "exec" /\ Spared
          /\ host' = [host EXCEPT !.pc = "stop", !.error = "output_limit"]
       \/ /\ Fault
          /\ \E error \in {"read_failed", "manager_output_limit"} :
               host' = [host EXCEPT !.pc = "stop", !.error = error]
    /\ UNCHANGED <<mode, step, sandbox, threads, late, last>>

\* _stop_group: poll, SIGKILL to the group (whose init takes the namespace with
\* it), wait; a refused signal falls back to the leader alone
StopGroup ==
    /\ host.pc = "stop"
    /\ \/ /\ live' = {}
          /\ host' = [host EXCEPT !.pc = "drain"]
          /\ Spared
       \/ /\ Fault
          /\ live' \in {live, live \ {"launcher"}}
          /\ host' = [host EXCEPT !.pc = "drain", !.error = "cleanup_failed",
                                  !.cleanupOk = FALSE, !.unknown = TRUE]
    /\ UNCHANGED <<mode, step, helper, wire, threads, late, last>>

-----------------------------------------------------------------------------
(* The finally blocks: drain the two threads, see the scope collected, close. *)

\* resource.wait gives the receiver 0.2 s; close then tells it to stop
DrainResource ==
    /\ host.pc = "drain"
    /\ rx' = [rx EXCEPT !.stop = TRUE]
    /\ host' = [host EXCEPT !.pc = "joinRx"]
    /\ UNCHANGED <<mode, step, sandbox, mon, scope, late, last, faults>>

JoinReceiver ==
    /\ host.pc = "joinRx"
    /\ \/ /\ rx.thread \in {"none", "done"}
          /\ host' = [host EXCEPT !.pc = "joinMon", !.rxClosed = TRUE]
          /\ Spared
       \/ /\ Fault
          /\ \E raised \in BOOLEAN :
               host' = [host EXCEPT !.pc = "joinMon", !.unknown = TRUE, !.raised = @ \/ raised]
    /\ mon' = [mon EXCEPT !.stop = TRUE]
    /\ UNCHANGED <<mode, step, sandbox, rx, scope, late, last>>

JoinMonitorBug ==
    /\ host.pc = "joinMon"
    /\ host' = [host EXCEPT !.pc = "collect", !.monClosed = ~mon.failed,
                            !.unknown = @ \/ mon.failed]
    /\ UNCHANGED <<mode, step, sandbox, rx, mon, scope, late, last, faults>>
JoinMonitor ==
    /\ host.pc = "joinMon"
    /\ \/ /\ mon.thread \in {"none", "done"}
          /\ host' = [host EXCEPT !.pc = "collect", !.monClosed = ~mon.failed,
                                  !.unknown = @ \/ mon.failed]
          /\ Spared /\ UNCHANGED mon
       \/ /\ Fault
          /\ mon' = [mon EXCEPT !.failed = TRUE]
          /\ host' = [host EXCEPT !.pc = "collect", !.unknown = TRUE]
    /\ UNCHANGED <<mode, step, sandbox, rx, scope, late, last>>

\* LinuxTaskScope.collected: only a scope it has pinned can be seen to be gone
Collect ==
    /\ host.pc = "collect"
    /\ \E answer \in {"none", "yes", "no"} :
         /\ answer = "yes" => scope.owned /\ ~scope.locked /\ ~scope.unit
         /\ answer = "no" => scope.owned /\ ~scope.locked /\ scope.unit
         /\ answer = "none" => \/ ~host.launched \/ scope.locked \/ ~scope.owned
                               \/ faults < MaxFaults
         /\ faults' = IF answer = "none" /\ host.launched /\ scope.owned /\ ~scope.locked
                      THEN faults + 1 ELSE faults
         /\ host' = [host EXCEPT !.pc = "close", !.collected = answer,
                                 !.unknown = @ \/ (host.launched /\ answer # "yes")]
    /\ UNCHANGED <<mode, step, sandbox, threads, late, last>>

\* close_endpoint: one attempt each; an ambiguous close is detached, not retried
Untried == SelectSeq(Endpoints(host.made), LAMBDA e : e \notin host.tried)

CloseEndpoint ==
    /\ host.pc = "close"
    /\ Untried # <<>>
    /\ \/ /\ host' = [host EXCEPT !.tried = @ \cup {Head(Untried)}]
          /\ Spared
       \/ /\ host' = [host EXCEPT !.tried = @ \cup {Head(Untried)},
                                  !.unknown = TRUE, !.raised = TRUE]
          /\ Fault
    /\ UNCHANGED <<mode, step, sandbox, threads, late, last>>

\* task_scope.close: while the callback holds the lifecycle lock it only asks. A
\* descriptor of the scope whose close failed, now or before, counts as held.
CloseScope ==
    /\ host.pc = "close"
    /\ Untried = <<>>
    /\ \E failed \in BOOLEAN :
         /\ IF failed THEN Fault ELSE Spared
         /\ scope' = [scope EXCEPT !.closeReq = TRUE, !.pinned = @ /\ (scope.locked \/ failed)]
         /\ host' = [host EXCEPT !.pc = "return", !.unknown = @ \/ scope.locked \/ failed,
                                 !.raised = @ \/ scope.locked \/ failed]
    /\ UNCHANGED <<mode, step, sandbox, rx, mon, late, last>>

-----------------------------------------------------------------------------
(* What the command returns.                                                 *)

Preserved == {"timeout", "output_limit", "cleanup_failed", "launch_failed"}
ObserverOk == host.monClosed /\ mon.started /\ ~mon.failed
Complete == rx.complete /\ host.rxClosed
Terminal == IF Complete THEN rx.terminal ELSE "none"
NotStarted == host.started = "no" /\ host.error = "isolation_unavailable"

\* the errors in the order the broker lets them override each other
FinalError ==
    LET known == IF host.error = "none" /\ rx.expired THEN "timeout" ELSE host.error
        observed == IF ~ObserverOk /\ known \notin Preserved /\ ~NotStarted
                    THEN "violation_observer_failed" ELSE known
        channel == IF observed = "none" /\ ~Complete THEN "resource_channel_failed" ELSE observed
        scoped == IF channel = "none" /\ host.collected # "yes"
                  THEN "scope_cleanup_failed" ELSE channel
    IN  CASE Terminal = "preexec_failed" -> "resource_setup_failed"
          [] Terminal = "cleanup_failed" -> "resource_cleanup_failed"
          [] OTHER -> scoped

Started == CASE NotStarted -> "no"
             [] Complete /\ ~NotStarted -> IF Terminal = "preexec_failed" THEN "no" ELSE "unknown"
             [] OTHER -> host.started

Outcome ==
    [error |-> IF host.raised THEN "raised" ELSE FinalError,
     started |-> Started,
     output |-> Started # "no" /\ Terminal # "cleanup_failed",
     denials |-> IF ObserverOk THEN mon.count ELSE 0,
     ran |-> helper.ran,
     residue |-> \/ host.opaque \/ host.raised
                 \/ live # {} \/ scope.unit \/ scope.pinned
                 \/ {rx.thread, mon.thread} \cap {"run", "ready", "answered"} # {}]

ReturnOutcome ==
    /\ host.pc = "return"
    /\ last' = Outcome
    /\ step' = Returned(host.unknown \/ host.opaque \/ Terminal = "cleanup_failed")
    /\ host' = [host EXCEPT !.pc = "idle"]
    /\ UNCHANGED <<mode, sandbox, threads, late, faults>>

-----------------------------------------------------------------------------
(* The receiver thread of the resource channel.                              *)

\* _fail: nothing of the transcript counts, and the process is killed
RxFail(r) ==
    /\ rx' = [r EXCEPT !.thread = "done", !.terminal = "none", !.complete = FALSE]
    /\ live' = live \ {"launcher"}

\* the deadline or the stop ends the receive loop
RxEnds ==
    /\ rx.thread = "run" /\ ~scope.locked
    /\ late \/ rx.stop
    /\ RxFail([rx EXCEPT !.expired = late /\ ~rx.stop])
    /\ UNCHANGED <<mode, step, host, helper, wire, mon, scope, late, last, faults>>

\* LinuxTaskScope.configured, first half: the callback takes the lifecycle lock
ConfigureScope ==
    /\ rx.thread = "run" /\ ~scope.locked
    /\ wire.frames # <<>> /\ Head(wire.frames) = "configured" /\ rx.count = 0
    /\ wire' = [wire EXCEPT !.frames = Tail(@)]
    /\ \/ /\ ~scope.closeReq
          /\ scope' = [scope EXCEPT !.locked = TRUE, !.pinned = TRUE]
          /\ UNCHANGED <<rx, live>>
       \/ scope.closeReq /\ RxFail(rx) /\ UNCHANGED scope
    /\ UNCHANGED <<mode, step, host, helper, mon, late, last, faults>>

\* its second half: the checks hold, or not; a close asked meanwhile is served
\* here.  Then the acknowledgement.
AcknowledgeScope ==
    /\ rx.thread = "run" /\ scope.locked
    /\ \/ /\ live # {} /\ ~scope.closeReq /\ Spared
          /\ scope' = [scope EXCEPT !.locked = FALSE, !.owned = TRUE]
          /\ \/ /\ ~rx.stop /\ ~late
                /\ rx' = [rx EXCEPT !.configured = TRUE, !.count = 1]
                /\ wire' = [wire EXCEPT !.ack = TRUE]
                /\ UNCHANGED live
             \/ (rx.stop \/ late) /\ RxFail(rx) /\ UNCHANGED wire
       \/ /\ \/ (live = {} \/ scope.closeReq \/ late) /\ Spared
             \/ Fault
          /\ scope' = [scope EXCEPT !.locked = FALSE, !.owned = FALSE, !.pinned = FALSE]
          /\ RxFail(rx)
          /\ UNCHANGED wire
    /\ UNCHANGED <<mode, step, host, helper, mon, late, last>>

\* one terminal frame, and "finished" only after "configured"
ReceiveTerminal ==
    /\ rx.thread = "run" /\ ~scope.locked
    /\ wire.frames # <<>> /\ Head(wire.frames) \in Terminals
    /\ rx.terminal = "none"
    /\ rx.count = 1 \/ Head(wire.frames) # "finished"
    /\ wire' = [wire EXCEPT !.frames = Tail(@)]
    /\ rx' = [rx EXCEPT !.terminal = Head(wire.frames), !.count = @ + 1]
    /\ UNCHANGED <<mode, step, host, helper, live, mon, scope, late, last, faults>>

\* the last holder of the sending end is gone
ReceiveEof ==
    /\ rx.thread = "run" /\ ~scope.locked
    /\ wire.frames = <<>> /\ wire.eof /\ "resSender" \in host.tried
    /\ \/ /\ rx.terminal # "none"
          /\ rx' = [rx EXCEPT !.thread = "done", !.complete = TRUE]
          /\ UNCHANGED live
       \/ rx.terminal = "none" /\ RxFail(rx)
    /\ UNCHANGED <<mode, step, host, helper, wire, mon, scope, late, last, faults>>

\* a frame of another shape, or out of this order
MalformedFrame ==
    /\ rx.thread = "run" /\ ~scope.locked
    /\ Fault
    /\ RxFail(rx)
    /\ UNCHANGED <<mode, step, host, helper, wire, mon, scope, late, last>>

-----------------------------------------------------------------------------
(* The thread that answers denied system calls.                              *)

MonFail ==
    /\ mon.thread \in {"ready", "run"}
    /\ Fault
    /\ mon' = [mon EXCEPT !.thread = "done", !.failed = @ \/ ~mon.stop]
    /\ live' = IF mon.stop THEN live ELSE live \ {"launcher"}
    /\ UNCHANGED <<mode, step, host, helper, wire, rx, scope, late, last>>

\* the answer lets the payload go on before the denial is recorded
AnswerDenial ==
    /\ mon.thread = "run" /\ mon.pending > 0 /\ "payload" \in live
    /\ mon' = [mon EXCEPT !.thread = "answered", !.pending = @ - 1, !.answered = @ + 1]
    /\ UNCHANGED <<mode, step, host, sandbox, rx, scope, late, last, faults>>

RecordDenial ==
    /\ mon.thread = "answered"
    /\ mon' = [mon EXCEPT !.thread = "run", !.count = @ + 1]
    /\ UNCHANGED <<mode, step, host, sandbox, rx, scope, late, last, faults>>

\* stopped, or the filter has no task left, or the process has exited
MonEnds ==
    /\ \/ mon.thread \in {"ready", "run"} /\ mon.stop
       \/ /\ mon.thread = "run" /\ "launcher" \notin live
          /\ mon.pending = 0 \/ "payload" \notin live
    /\ mon' = [mon EXCEPT !.thread = "done"]
    /\ UNCHANGED <<mode, step, host, sandbox, rx, scope, late, last, faults>>

-----------------------------------------------------------------------------
(* The native launcher, the namespace's init and the payload.                *)

HelperOnly == UNCHANGED <<mode, step, host, threads, late, last>>

\* icode_task_quota_prepare: no leaf for the payload, nothing of it is left
QuotaFails ==
    /\ Fault
    /\ helper' = [helper EXCEPT !.at = "report", !.preexec = TRUE]
    /\ UNCHANGED <<wire, live>>

\* run_helper up to the first frame: options, channels, inherited descriptors,
\* the parent, the workspace object (any refusal exits); then the quota
LauncherSetup ==
    /\ "launcher" \in live /\ helper.at = "setup"
    /\ \/ /\ helper' = [helper EXCEPT !.at = "await"]
          /\ wire' = [wire EXCEPT !.frames = <<"configured">>]
          /\ Spared /\ UNCHANGED live
       \/ QuotaFails
       \/ /\ Fault
          /\ live' = live \ {"launcher"}
          /\ UNCHANGED <<helper, wire>>
    /\ HelperOnly

\* the launcher gives up before the payload: it still empties its quota
GivesUp == Fault /\ helper' = [helper EXCEPT !.at = "finish", !.preexec = TRUE]
           /\ UNCHANGED live

\* icode_resource_ack: no answer within its time is a failure
LauncherAcked ==
    /\ "launcher" \in live /\ helper.at = "await"
    /\ \/ /\ wire.ack /\ Spared
          /\ helper' = [helper EXCEPT !.at = "namespaces"]
          /\ UNCHANGED live
       \/ GivesUp
    /\ UNCHANGED wire
    /\ HelperOnly

\* supervise_task: the namespaces, then the fork of their init
SuperviseTask ==
    /\ "launcher" \in live /\ helper.at = "namespaces"
    /\ \/ /\ helper' = [helper EXCEPT !.at = "waitInit", !.child = "init"]
          /\ live' = live \cup {"init"} /\ Spared
       \/ GivesUp
    /\ UNCHANGED wire
    /\ HelperOnly

\* the marker that a task of the namespace writes before it exits unconfined
ChildFails(task) ==
    /\ Fault
    /\ helper' = [helper EXCEPT !.child = "over", !.preexec = TRUE]
    /\ live' = live \ {task}
    /\ UNCHANGED wire

\* init forks the payload into the charged leaf
InitForks ==
    /\ "init" \in live /\ helper.child = "init"
    /\ \/ /\ helper' = [helper EXCEPT !.child = "setup"]
          /\ live' = live \cup {"payload"}
          /\ Spared /\ UNCHANGED wire
       \/ ChildFails("init")
    /\ HelperOnly

\* capabilities, filesystem rules, then the filter and its listener
Confine ==
    /\ "payload" \in live /\ helper.child = "setup"
    /\ \/ /\ helper' = [helper EXCEPT !.child = "confined"]
          /\ Spared /\ UNCHANGED <<live, wire>>
       \/ ChildFails("payload")
    /\ HelperOnly

\* the child hands the listener over
HandOver ==
    /\ "payload" \in live /\ helper.child = "confined"
    /\ \/ /\ wire' = [wire EXCEPT !.hand = "sent"]
          /\ helper' = [helper EXCEPT !.child = "handed"]
          /\ Spared /\ UNCHANGED live
       \/ ChildFails("payload")
    /\ HelperOnly

\* execvp, only after the answer to the handoff
Exec ==
    /\ "payload" \in live /\ helper.child = "handed"
    /\ \/ /\ wire.hand = "acked" /\ Spared
          /\ helper' = [helper EXCEPT !.child = "exec", !.ran = TRUE]
          /\ UNCHANGED <<live, wire>>
       \/ ChildFails("payload")
    /\ HelperOnly

\* the payload: a descendant of its own, a denied system call, its exit
PayloadForks ==
    /\ "payload" \in live /\ helper.child = "exec" /\ mon.pending = 0
    /\ "stray" \notin live
    /\ live' = live \cup {"stray"}
    /\ UNCHANGED <<helper, wire, faults>>
    /\ HelperOnly

PayloadDenied ==
    /\ "payload" \in live /\ helper.child = "exec" /\ mon.pending = 0
    /\ mon.asked < MaxDenials
    /\ mon' = [mon EXCEPT !.pending = 1, !.asked = @ + 1]
    /\ UNCHANGED <<mode, step, host, sandbox, rx, scope, late, last, faults>>

PayloadExits ==
    /\ "payload" \in live /\ helper.child = "exec" /\ mon.pending = 0
    /\ live' = live \ {"payload"}
    /\ helper' = [helper EXCEPT !.child = "over"]
    /\ UNCHANGED <<wire, faults>>
    /\ HelperOnly

\* init returns when the payload has ended or its parent is gone; its exit takes
\* every task of the namespace with it
InitExits ==
    /\ "init" \in live
    /\ "launcher" \notin live \/ ("payload" \notin live /\ helper.child # "init")
    /\ live' = live \cap {"launcher"}
    /\ mon' = [mon EXCEPT !.pending = 0]
    /\ UNCHANGED <<mode, step, host, helper, wire, rx, scope, late, last, faults>>

\* supervise_task returns; icode_task_quota_finish removes the empty leaf
LauncherFinish ==
    /\ "launcher" \in live
    /\ helper.at = "finish" \/ (helper.at = "waitInit" /\ "init" \notin live)
    /\ \E leaked \in BOOLEAN :
         /\ (leaked /\ Fault) \/ (~leaked /\ Spared)
         /\ helper' = [helper EXCEPT !.at = "report", !.leaked = leaked]
    /\ UNCHANGED <<live, wire>>
    /\ HelperOnly

\* the one terminal frame, then exit
TerminalFrame == CASE helper.leaked -> "cleanup_failed"
                   [] helper.preexec /\ ~helper.leaked -> "preexec_failed"
                   [] OTHER -> "finished"

LauncherReports ==
    /\ "launcher" \in live /\ helper.at = "report"
    /\ wire' = [wire EXCEPT !.frames = Append(@, TerminalFrame)]
    /\ helper' = [helper EXCEPT !.at = "over"]
    /\ live' = live \ {"launcher"}
    /\ UNCHANGED faults
    /\ HelperOnly

-----------------------------------------------------------------------------
(* The surroundings.                                                         *)

DeadlinePasses ==
    /\ ~late /\ host.pc # "idle"
    /\ late' = TRUE
    /\ UNCHANGED <<mode, step, host, sandbox, threads, last, faults>>

\* the kernel closes a dead launcher's end of the resource channel
ChannelCloses ==
    /\ host.launched /\ "launcher" \notin live /\ "init" \notin live /\ ~wire.eof
    /\ wire' = [wire EXCEPT !.eof = TRUE]
    /\ UNCHANGED <<mode, step, host, helper, live, threads, late, last, faults>>

\* systemd collects a scope once no task is left in it
ScopeCollected ==
    /\ scope.unit /\ live = {}
    /\ scope' = [scope EXCEPT !.unit = FALSE]
    /\ UNCHANGED <<mode, step, host, sandbox, rx, mon, late, last, faults>>

Main ==
    \/ BeginCommand \/ Construct \/ Spawn
    \/ ObserveEndpoints \/ StartReceiver \/ ReceiveListener \/ AcknowledgeIfHealthy
    \/ ReadOutput \/ StopGroup \/ DrainResource \/ JoinReceiver \/ JoinMonitor
    \/ Collect \/ CloseEndpoint \/ CloseScope \/ ReturnOutcome
Receiver == RxEnds \/ ConfigureScope \/ AcknowledgeScope \/ ReceiveTerminal
            \/ ReceiveEof \/ MalformedFrame
Monitor == MonFail \/ AnswerDenial \/ RecordDenial \/ MonEnds
Native == LauncherSetup \/ LauncherAcked \/ SuperviseTask \/ InitForks \/ Confine
          \/ HandOver \/ Exec \/ PayloadForks
          \/ PayloadDenied \/ PayloadExits \/ InitExits \/ LauncherFinish \/ LauncherReports
Outside == DeadlinePasses \/ ChannelCloses \/ ScopeCollected
Creator == Attach \/ BindAttempt \/ FinishStep \/ CloseStep

LinuxNext == Main \/ Receiver \/ Monitor \/ Native \/ Outside \/ Creator

LinuxSpec == LinuxInit /\ [][LinuxNext]_linuxVars

\* Threads of the host are scheduled, deadlines pass, the kernel reaps; nothing
\* is assumed of the payload or of the creator of the step.
LinuxFairSpec ==
    /\ LinuxSpec
    /\ WF_linuxVars(Construct \/ Spawn \/ ObserveEndpoints \/ StartReceiver \/ ReceiveListener
               \/ AcknowledgeIfHealthy \/ ReadOutput \/ StopGroup \/ DrainResource
               \/ JoinReceiver \/ JoinMonitor \/ Collect \/ CloseEndpoint
               \/ CloseScope \/ ReturnOutcome)
    /\ WF_linuxVars(RxEnds \/ AcknowledgeScope)
    /\ WF_linuxVars(RecordDenial \/ MonEnds)
    /\ WF_linuxVars(DeadlinePasses)

-----------------------------------------------------------------------------
(* Properties.                                                               *)

\* The payload runs only behind both barriers: the scope that will be watched
\* to its end is pinned before the resource acknowledgement, and the thread
\* that answers denied calls has acknowledged the listener.  Four actors take
\* part: launcher, child, receiver thread and main thread.
PayloadObserved == helper.child = "exec" => mon.started /\ scope.owned

\* A result without an error is about a command that is over: no task of the
\* sandbox is alive, its scope is gone, no pin is held, and the receipt counts
\* every denial the payload was answered with (execution_broker.py:730).
AcceptedIsWhole ==
    host.pc = "idle" /\ last.error = "none" =>
        /\ live = {} /\ ~scope.unit /\ ~scope.pinned
        /\ last.denials = mon.answered

\* "The payload did not start" is never said of a payload that ran, whatever
\* part of the launch failed or raced (the answer empties the output and lets
\* the caller retry without side effects).
NotStartedTrue == last.started = "no" => ~last.ran

\* What one command may have left behind (a task, a thread, a pin, a descriptor
\* whose close failed, the inside of a failed constructor) shuts the prepared
\* step: no later command borrows it (_mark_faulted).
StepShut == step.inflight => ~last.residue

\* Every command ends, with or without the payload's cooperation
\* (execution_broker.py:873, the deadline; the joins of 2 s).
CommandEnds == (host.pc = "construct") ~> (host.pc = "idle")

\* What is said of a command is so: it ran only under observation, it is over and
\* whole when it is accepted, and it did not run when that is the answer
\* (execution_broker.py).
ReportTrue == PayloadObserved /\ AcceptedIsWhole /\ NotStartedTrue
=============================================================================
