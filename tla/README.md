# A TLA+ verification project for icode

icode is a local agent that takes a ticket through a chain of contract steps: a
model proposes tool calls, a policy and a human decide which run, commands run in
a sandbox of the platform, and everything that had an effect is recorded by an
external control plane. The code under `src/src/icode` is mostly sequential Python
with many places where threads, processes, timeouts and restarts meet. This project
models those places, checks them with TLC on small instances, and proves the main
safety results with TLAPS for all instances.

## 1. Inventory

| Component | State | Operations | Why it is hard | Correct when |
|---|---|---|---|---|
| Network lease authority (`network_lease.py`) | generations, revoking scopes, table of active connections | request, register, promote, release, revoke, sweep, monitor start and stop | every method runs on its caller's thread; prompts, close callbacks and waits happen outside the lock | a revocation that returned left nothing of an older generation, and no connection is made beside it |
| Proxy scope, connector, proxy servers (`network_proxy_scope.py`, `network_connector.py`, `network_proxy_server.py`, `linux_proxy_handoff.py`) | tunnels, pending dials, accepted clients, the session | open, publish, close, cancel a dial, hand a listener off | a close races with a connection that is being opened, and may not confirm | every socket is owned until it is closed; a lease that ended is cut off |
| Autonomy manager (`autonomy.py`) | run record, receipts, registered workers, stop intents | start, resume, pause, cancel, takeover, shutdown, recovery, the worker thread | one worker per ticket over manager restarts, crashes and lost answers | one worker; each intent once; an accepted stop ends the run |
| Ticket workspaces (`workspace.py`, `git_broker.py`, `git_status.py`) | worktrees, snapshot copies, the ticket's lock file | open, create, reuse, leave, query | the lock is across processes, a workspace may be half built, others may put directories in its place | a session works alone on a complete workspace; what is not the workspace's is not removed |
| Walks of a work tree (`workspace_snapshot.py`, `windows_worktree.py`) | digests, stamps | four walks and their rechecks | the tree is written, and directories replaced, while it is walked | what an accepted walk returns was read whole, from the directories that are there |
| Write leases (`write_lease.py`) | table per board, lock files | acquire, release | two layers of exclusion, release in two halves | overlapping regions are not held at once |
| Agent team (`multi_agent.py`, `agent_conclusion.py`, `roles.py`) | ordinals, ledger, threads of a batch | spawn, run, run_parallel, step_gate | parallel jobs, a ledger that fills up, errors from threads | jobs at work are apart, every batch ends |
| Operation receipts (`operations.py`) | counters, event log | start, execute, finish | restart with counters at zero, lost answers | nothing that was admitted runs twice |
| Agent loop (`loop.py`, `compaction.py`, `budget.py`) | transcript, turns, budget, demanded tool | run, _invoke, compact_history | long sequences of replies that ignore the demanded tool | requests are well formed, a success delivered its outputs |
| File tools and guard (`tools/builtin.py`, `guard.py`) | the call under way | read_file, write_file, edit_file | names are rebound and files written between two steps of a tool | nothing outside is reached, no update is lost |
| Web approvals (`webui.py`, `approvals.py`) | pending items, history | ask, resolve | a click racing the timeout | an action ran only if the human approved it, and once |
| MCP client (`extensions/mcp_client.py`) | pending request, frames, the reader thread | start, request, close | late, repeated and foreign frames | an answer belongs to the call |
| Step runner and chain (`runner.py`, `chain.py`, `checkpoint.py`, `recovery.py`) | attempts, registered outputs, checkpoint file | run, resume, register, gate, finish, transition, recover | a step is a dozen control-plane calls, any of which may fail or lose its answer; nothing locks the ticket | a success was earned, a plan runs once |
| Coding tasks and their review (`runner.py`, `self_verify.py`, `reviewer.py`) | the result of the tests, the verdict, digests | run_task, repair, review, bind a commit | the workspace is written after it was tested | what is reported was tested and reviewed |
| Host verification (`verification_process.py`, `engineering_verification.py`, `windows_process_tree.py`) | the plan's checks, snapshots, the cache directory | run a plan, run a check, bind evidence | the payload forks, outlives its check and writes the source | a passed plan is about the source it names |
| Execution broker and Linux process control (`execution_broker.py`, `linux_*.py`, `native/linux`) | prepared step, task scope, notifications | borrow, admit, count, terminate | five parties agree on one exit; a step is borrowed again | a result counts only if all agree, and a step is left shut |
| Windows process control (`windows_appcontainer.py`, `windows_job.py`, `windows_runner_pipe.py`) | DACL entries, the Job, the pipe's session | grant, run, revoke, transfer | any call may fail, deadlines pass within a frame | "clean" is true; a frame is delivered whole and in order |
| Isolation and sandbox policy (`isolation.py`, `sandbox_policy.py`) | the policy, the pinned workspace | tighten, select, wrap | the workspace's path changes hands; a command renames | a command stays within its policy |
| Evidence packs (`evidence.py`, `pack_*.py`) | the published pack, anchors, signature | export, swap, attach, sign, verify, replay | a ticket that is still written, renames that fail | a sound pack is about one moment, a generation stays |
| Backends, ACP server, failure policy, control plane client, step material, CLI, benchmark, conformance | requests, or none | | mostly parsing and formats | |

How they interact. The workbench builds one `AutonomyManager`; its worker thread
runs the chain, each step runs an agent loop, and the loop executes tool calls
under operation receipts, asking the web approver when the policy says so. A step
may hand work to an agent team, whose jobs hold write leases. A step works in the
ticket's workspace, under its lock. Commands run under a tightened policy in a
sandbox of the platform and get network access only through the proxies, which
register every connection with the lease authority. A step's outputs are verified by
the host's own plan between two walks of the tree, and what was decided is exported
as an evidence pack. The control plane (`nblane`, not part of this repository) keeps
the ticket's record and the event log and is called through a subprocess that may
time out after its write was applied.

`PROJECT.json` lists every component with its status, the hazards at the line where
they bite, and the properties that address them.

## 2. Modules and the code

Every module splits an operation where the code lets another thread in: at an
unlock, a callback, a wait, a system or subprocess call. What happens under one lock
is one action.

**LeaseTable** is an abstract specification: what the authority promises to the code
that opens sockets. **NetworkLease** models all of `NetworkLeaseAuthority` and the
expiry monitor, and implements it. `active`, `connLease`, `pending`, `closing` and
`releasable` are the fields of `_active_connections`; `generations` and `revoking` the
two dictionaries. A thread has a place (`pc`), a frame (`fr`: the operation and its
arguments) and the locals of `_close_active_connections` (`todo`, `failed`, `cur`),
because revoke, the sweep and register all run that loop. The instant a sweep compares
with is read before the lock and kept in the frame. Signatures, domain names and
purposes are abstracted: they only reject a caller's own arguments.

**ProxySession** is built on LeaseTable: the runtime, scope, connector, both servers
and the Linux session of one lease, with three threads (the one that serves, the host
that starts and closes, and the authority's that closes the table's entries once the
lease has ended). A locked section, or a call that may block, is one step.

**Autonomy** models `AutonomyManager`, its worker thread and `NativeChainExecutor`
for one ticket. `store` is the record in the control plane, `done` the steps it has
recorded. A section under a manager's `_lock` is split at its read and its write of
the record (`Take` ... `Drop`), because managers of other processes, and an old
manager's worker, do not take that lock. A write is applied, refused, or applied
with its answer lost (`Persist`). A run, its `RunControl` and its thread are one
element of `Runs`, since the code never reuses a run id.

**WriteLease** models `WriteLeaseBoard`: regions as sequences of segments, the table
of each board, the lock file of each exact region, release in its two halves, and
the death of a process, at which the kernel drops its locks. **AgentTeam** extends it
with `run_parallel`, `run`, the conclusion ledger and `step_gate`. A job is an owner
of WriteLease; `Conclude` keeps the order of the code's attempts to record a
conclusion when the ledger is full.

**Operations** models `OperationRecorder` and what its callers do with its answers (the
event log is external), **WebApproval** the `ApprovalRegistry`, `WebApprover.ask` and
the decision handler, with `resolve` split after each of its steps as only its pop is
locked. **ToolCall** models `AgentLoop._invoke` by composing the two. A loop is known
by its recorder; a loop and its successor after a restart share a scope, hence their
request keys. Read-only tools have no receipt and are left out.

**StepRunner** models `run_contract_step`, `resume_contract_step`, the chain over them,
the recovery analysis and the checkpoint. A process has a control point (`pc`) and the
`StepReport` it fills in (`r`); each call of the control plane is one action that may
succeed, be refused, or be applied with its answer lost, and a process may die between
any two (`Crash`). An early return is `Leave`. The checkpoint is one file for the
ticket, whoever wrote it. Of the control plane two things are assumed: a request key it
knows gets the first answer again, and an attempt belongs to one step.

**TaskRun** models `run_task` from the model's first turn to its report: the host's own
run of the tests between two looks at the workspace, the bounded repairs, the reviewer
and the commit that is bound to a result, while anybody may write the workspace.

**AgentLoop** models `AgentLoop.run` and `compact_history`. `ctl` has the locals that
steer the loop, with their code names beside them. A request and the reply to it are
one action; every call of the reply is one of `CallRefused`, `CallRuns` and
`CallsSkipped`; `TurnEnds` applies the deferred transition and appends the prompts. The
`With...` operators are the `if` blocks after `_invoke`, in their order. Of the history
only the messages since the last assistant message are kept, as every request was
checked when it was the last.

**FileTools** models the three file tools on POSIX from the guard's decision to the
replacement, while others rebind the directory's name and write, replace and remove the
file. **McpClient** models the client of one server process, the thread that cuts its
output into frames, and a server that may write anything.

**Workspace** models the opening, creation, reuse and end of a ticket's workspace by
several processes, with the fixed status query of the Git broker; a directory is
identified by who made it, the device and inode pair of the code. **WorktreeWalk**
models the four walks of a tree, in which others write, make, remove, move and replace what they like meanwhile, the root excepted. The
walker goes by handles: a directory that loses its name while it is walked goes on under
the path "old". A listing, the look at an entry, its opening, each half of its contents,
the second listing on Windows and the last query of a handle are steps of their own.
`listings` is a history variable: what a directory held when its walk ended.

**LinuxExecution** models one policy command after another under a prepared step: the
broker's thread, the receiver of the resource channel, the seccomp monitor, the native
launcher with its namespace's init, and the payload. **Verification** models a plan of
the host's own checks with their snapshots and cache, on POSIX, on Windows and under a
policy. **SandboxPolicy** has the policy and the ways it is tightened, **Isolation** the
command on its way into a backend and what the backend lets it do. **WindowsSandbox**
models one AppContainer call with its Job, its changes of access control and their
revocation, **RunnerPipe** the pipe to a Windows runner, piece by piece.

**EvidencePack** models the export of a pack while the ticket is written, its swap with
the pack before it, anchors, signature and verdict; a hash is its content.
**EventReplay** models the four mirrors by which a pack's event chain is judged; what may
stand in a chain and in the metadata is a constant.

The MC modules give the constants their values. Most put several machines that do not
share state into one run: the initial value of `what` chooses the one that moves, the
others keep one initial state. Operators whose names end in `Bug`, `Never` or `Leak`
are deliberately wrong variants of the operator that follows them; they are used by no
specification, and `PROJECT.json` names the property each of them breaks.

## 3. Runs

| Run | What it shows |
|---|---|
| `lease_authority` | Two threads do everything the authority offers, on two connections of one scope, with an expiry and two revocations. An old generation keeps its scope blocked, a revoke that returned left nothing behind, and everything is a behaviour of LeaseTable. |
| `tool_call` | The loop of a step and of its successor, tool calls with and without approval, two approvals, one handler, timeouts, lost answers and finishes. An action that needed an approval ran only if the browser approved it, and once; no admission is executed twice; `ask` returns. And the authority with its monitor: an expired connection is closed at last, although closes may fail any finite number of times. |
| `network_proxy` | One client of the proxy and one lease that may end at any moment: dials, tunnels, closes that do not confirm, a session closed at any moment. Every socket has an owner until it is closed, a lease that ended is cut off, a close succeeds at last. |
| `autonomy_evidence` | Two managers of one process, the second built while the worker of the first may still run: one worker, each intent once. The replay of every chain of up to five events against a definition over the whole chain. Two exporters with failing renames and deaths, then edits, anchors and a signature: an accepted pack is about one moment, and a generation stays on disk. |
| `autonomy_restart` | The process may die at any point of a chain of two steps and another one is built; one write may be refused or lose its answer. A record that says active has a thread, and an accepted stop ends the run. |
| `agent_team` | Two teams on one lease directory: nested regions in one team, an equal region in the other, a reader, a ledger of two entries for three conclusions, and the death of either process. Jobs at work are apart, every batch ends, and between the two halves of any release no overlapping regions of one team and no equal regions of two are held. |
| `agent_turn` | A code step, its recovery, a review step, a read-only reviewer and a step without a broker, seven turns each, against a model that replies anything: well-formed requests, outputs on disk before a success, the machine check after the reads of an unedited tree, no unclosed effect forgotten. The file tools while others change the directories. A server that answers late, twice or not at all. |
| `agent_loop_compaction` (violation) | With compaction switched on (no shipped configuration does), the kept tail can begin with a result whose call was dropped. |
| `work` | Two processes run, resume and chain an engineering step and an entry step, with lost answers, one crash and a failed attempt in the past: a success has its outputs registered and, if an engineering run finished it, passed the gate; the plan of an attempt is executed once; a chain reports delivery only of steps that succeeded. And a coding task with its repairs, review and commit while others write: what is reported was tested and reviewed. |
| `workspace` | Two processes open one ticket's workspace while the source is edited, processes die, steps fail and another program replaces directories. A session works alone on a complete workspace, what is not the workspace's stays, and the lock is freed. |
| `linux_execution` | Two commands on one prepared step, one system call that fails, one that is denied, and a payload that forks and never ends. A report is true, the step is shut between commands, a command ends. |
| `host_side` | A wrapped command on each platform, an AppContainer call with two failing calls, the pipe of the runner, a plan of two checks with any payload, also when somebody else reaps the verifier, and the walks of a tree whose files and directories are written, moved and replaced meanwhile. |

The violation is a disagreement between the comments of the loop and what its
compaction does; `PROJECT.json` quotes both sides under `findings`.

Bounds, and why they are enough. Every hazard listed needs two parties: two threads,
two managers, two overlapping regions, a predecessor and a successor; each run has
two of what it is about and a third where a bystander could interfere. In
`lease_authority` three generations let a revocation overlap another, and the clock
needs two instants because only "expired or not" is compared. A fault budget of one or
two is what a fault and its recovery need: a second fault in the same recovery finds a
state the first can leave. In `autonomy_restart` that is one lost answer and the deaths
of either process. Replies of the model have up to two calls, and three of one kind to
pass the limit of two; seven turns are what the longest path to a success takes. In
`tool_call` the successor makes one start: what it meets is what its predecessor left.
In `network_proxy` the Unix transport's closes always confirm, as the path that
handles one that does not is shared with TCP; one client is enough because the server
serves one after another. In `workspace` there are two faults, where a fault is a
death, a step that raises, one edit of a source entry, or one intervention of the other
program (put in place and, for Git's metadata, put back). In `work` the two steps are
the two kinds the code treats differently, two attempts beside the past one are one for
each process. `ReceiptLimit` is larger than the number of requests, as the real limit
is larger than the number of requests a client repeats. A tree of three entries has a
file and a directory with a file, which is where a stamp, or another directory of the same
name, can be missed. Files of a task
have two contents each: a base and one other (too long, or empty).

Deadlock is checked in `lease_authority`, where callers may always call again, and in
`agent_turn`, where the loop must be able to go on until it has ended; in the others the
system may come to rest when its jobs are done.

Fairness. `NetworkLease`: threads go on, callbacks and waits end since their own
timeouts bound them, a running monitor sweeps again, and a close that is retried for
ever succeeds at last (strong fairness; without it nothing can be promised, as a peer
could refuse to be closed for ever). `ProxySession`: each thread goes on, its blocking
calls having timeouts, and a session whose close failed is closed again. `Autonomy`:
handlers and workers go on, and steps return, because the broker bounds the run time of
what a step executes; nothing is assumed of clients or of who restarts a process.
`AgentTeam`: while some thread can run, some thread does, and a callable ends.
`ToolCall`: the asking thread and a `resolve` under way go on; nothing is assumed of the
browser. `Workspace`: a process that is not dead goes on, and a session is left at last.
`LinuxExecution`: the broker, its threads and the launcher go on and the deadline
passes; nothing is assumed of the payload.

## 4. Proofs

The proofs hold for any constants that satisfy the named `ASSUME`s, which are evaluated
by the runs. Each module has one inductive invariant per machine, a lemma per action
that it is kept, and lemmas about the operators and records those need. Every invariant
was checked by TLC on an instance before it was proved.

* **NetworkLeaseProofs.** `Typed` (types, and which locals are set at each place)
  proves `TypeCorrect`. `CallbacksExclusive` is inductive with it. The generation
  results need `Epochs`: besides `OldGenerationBlocked` itself, that no revoke works
  for a generation the counter has not reached, and `RevokeCovers`: a revoke without
  a failure has still to visit every older connection or is at it. That last part is
  what a revoke's return value rests on; `RevocationComplete` alone says nothing
  about a loop under way. `GenerationsNeverOverlap` is an action property derived from
  `Epochs`. `AuthorityImplementsTable` is the refinement of LeaseTable: every step of the
  authority is a step of the table or a stutter.
  `ProxySocketsAccounted`, for any clients, addresses and failing closes: `ProxyInv` says
  for each place of the serving thread which socket it has in hand, whether the table and
  the scope know it, and which are certainly gone (`InHand`, `Owned`, `Dialled`, `Silent`);
  and for each step of a close under way what the steps before it have made sure of
  (`Closing`, `Listed`, `Forgotten`): the listener is closed before the thread is joined,
  so a join that says the thread is over says that nobody enters a socket any more. Each
  action is one of a few kinds (`Stepping`, `Discarded`, `Shut`, `Serves`), and what a kind
  keeps is shown once.
* **AutonomyProofs.** `SingleWorker`: at most one worker, if all managers live in one
  process or the workspace lease is used, whatever writes fail. `OneWorker` is not
  inductive: a second start is refused because of the registrations of the first, so
  the invariant says that a reserved or living run still has all of them (`Held`), and
  that the section which starts a thread works on a reserved run (`Starting`).
  `RequestsAppliedOnce` and `ActiveRunHasWorker` have hypotheses the code needs too, and
  they are named: `Solo`, one process at a time (managers of two processes read and write
  the record under different locks); `FewRequests`, that the requests of the ticket fit in
  the receipts that are kept; and for the second that no write has failed, since a
  record that was written and whose answer was lost says active without a worker.
* **AgentTeamProofs.** `LeaseInv` ties table, lock files and leases of WriteLease to each
  other; from it `BoardsExclude`, `RegionsExclude` and `NoGhosts`. AgentTeam is built from
  the actions of WriteLease, so a team inherits `LeaseInv` (a lemma, not a result);
  `TeamKeepsRegions` is what it then says of the two halves of release, and
  `TeamWorkersApart` follows from it and from the fact that a job at work has the lease
  of its region.
* **ToolCallProofs.** `AttemptsExecutedOnce`, `SingleFlight` and `OnlyExecutedIsClosed`
  rest on one invariant of Operations: an admitted attempt is open, has not run, and
  belongs to one recorder, and of each name at most one attempt is open.
  ToolCall is built from the actions of Operations, so `CallsExecutedOnce` carries over to
  the composition. `ActionsApproved` needs two more parts. `Human` says what the registry
  knows: an item that is new or pending has been decided by nobody, a grant and a True of
  `ask` go back to an approval without a denial. `Uses` and `Spent` say that a loop past
  `ask` has the True of its item, that no two loops hold one item, and that an item under
  which something ran is held only by the loop that has run it; without the last a second
  execution under one approval cannot be excluded.
  `TighteningOnlyNarrows`: whatever hooks, regions and roles do to a step's policy, in any
  order, every path that may be read or written afterwards could be before, and what was
  protected stays so. It rests on the transitivity of `Within` and on the roots of
  the narrower policy being covered one by one. `CommandIsConfined`, for every host and policy
  and any number of hooks, exchanges and renames: each wrapper stands for what it denies
  (`MountIs`, `ProfileIs`); while a command runs under one, what lies at the top of the file
  system is not renamed (`PlacesAre`), so a path below the workspace's is a directory of the
  task; and a denied directory cannot be carried elsewhere, because whatever lies above it
  is an anchor of the profile or denied itself (`GuardedStays`, from `Comparable`). It uses
  `IsolationAssumption`: a step's policy is valid (`sandbox_policy.py:188` refuses another)
  and is for the workspace the run works in (`runner.py:548`). `VerificationIsSound`, for any payload: where
  a check is tells the platform (`Sited`), what the host may still signal and that it has
  signalled before it reaps (`Own`), who can
  still write (`Silent`) and how much of the pipe is read (`Drained`); a plan that goes on
  relies on that (`Quiet`, `Attested`). `SandboxIsSound`, for any failing calls and edits of
  others: `cleanup_ok` is built up along the call, who may be alive (`InJob`, `Reaped`), which
  directories may still name the SID (`WorkKept`, `WorkOut`, `RuntimeOut`, `ReviewOut`), what is
  left of the profile (`Unlisted`), each from the place on where it was taken away. A grant
  that reports an error may have changed the workspace's root all the same, and an object a
  walk passed over is checked by nothing; the invariant has to say so (`WorkKept`), and the
  property excepts both.
  `PipeUnderstood`, for the pipe of the Windows runner, wherever a call stops within a frame:
  each piece on its way up belongs to a frame that was begun and none is left out, counted
  from the frames whose header the host has read (`UpNumbered`), and a host that is inside a
  frame holds that very frame (`HostHolds`), so that what it hears is the beginning of what
  was said; down the pipe the pieces have the one order start before cancel (`DownOrdered`),
  and as long as the session has not failed none is further than what the host has written
  (`DownWritten`). The numbering is an existential over the pieces: its four lemmas, a piece
  taken or put, replace an induction. `WalkIsExact`, for any number of changes during a walk:
  stamps never go back and a new name stamps its directory, so an entry that still is what
  was opened was read from one version (`HandleHeld`), and a directory whose handle has its
  old stamp has the names that were listed, wherever it has been moved (`FramesHeld`); while
  the root has its stamp, a name in it is still the very directory that was walked under it
  (`NameKept`); what has been read is what was listed and is no longer to do (`ReadSoFar`),
  which makes a directory exact at its end (`DirectoriesExact`) and a second attempt on
  Windows start from nothing.
* **StepRunnerProofs.** `SuccessIsEarned`, `PlanExecutedOnce` and `DeliveriesEarned`, for
  any processes, steps and crashes. The report of a process stands for facts of the
  control plane only from certain points on: `Registered` and `Gated` say from which, and
  that is what makes a finish by any process sound. `Planning` says that who is about to
  execute a plan is alone and the first. `Frame` says what a step may do to the ticket
  without disturbing the processes and `Fit` what a report must satisfy at the point it is
  taken to, so that each action is left with showing these two.
* **EvidencePackProofs.** `PacksSound` and `GenerationsKept`, for any exporters, edits and
  faults. A manifest that is published is about one moment, its metadata the chain's where the chain
  is bound to it, and its bodies are those it lists (`Whole`); while the destination is empty some exporter still keeps the old
  generation and will not clean it up (`Safe`); and a signature is over the manifest and
  the anchors its signer has read (`Signed`), so a later edit cannot be accepted.
  `ReplayIsFaithful`, for chains of any length, any metadata, and any identities, names
  and results in them: what each mirror holds is a function of the chain consumed so far
  (`Described`, one definition for each mirror), and no problem has been found exactly if
  the chain so far is sound (`SoundSoFar`). The lemmas `Grown...` say what one event more
  does to the definitions over the whole chain, and each mirror's lemmas that it does the
  same. `ReplayAssumption` fixes the shape of an event and of the metadata: an event has
  its fields, an identity that is not the sentinel, and the vocabulary of its type (of
  `close_phase` the two phases, of `ticket_created` a known kind), which the code
  refuses in places that are not modelled or takes the control plane to have kept to.
* **AgentTurnProofs.** Five machines of a turn. *File tools* (`FileToolsKeepInside`): the
  directories a tool holds open are inside and its temporary file is its own (`Inside`),
  a version is never used twice (`Versions`), what it has seen of the file is
  a version that was there (`Seen`), and who is about to replace has compared
  (`Compared`). *MCP client* (`AnswersBelong`): every frame of a queue was said by the
  process of that session (`OfThisSession`), and an answer that is noted has the number
  of the request under way (`Noted`). *Agent loop* (`LoopIsSound`): every result in the
  transcript answers a call before it (`Laid`), a tool is no longer demanded only if
  nothing is missing (`Demanded`), and what the machine check lists was read or is still
  to be read (`InspectionDue`). It uses `StepAssumption`, what `runner.py` passes to the loop
  (`:1998`-`:2062`, `:2921`, `:2984`). `EffectsStayKnown` is an action property that holds
  of any state, however often the history is compacted. *Coding task* (`TaskIsSound`):
  what was seen, tested and shown is the same content as long as the workspace still is
  what it was, since one write by others shows (`Watched`; a second may put it back, which
  the property excepts), the last look carries that to the report (`Rechecked`), the
  verdict is the reviewer's last valid one and no call of its contexts, the last one's
  included, was denied (`Words`), and every repair was started on a
  failure not met before (`Rounds`). *Linux command* (`CommandReportsTrue`,
  `UsedStepStaysShut`): for each place of the broker's thread what is certainly gone, or
  else the broker has noted that it does not know (`GroupOver`, `ReceiverOver`,
  `MonitorOver`, `ScopeOver`, `Unpinned`), which is what shuts the step (`Lent`); what a
  party relies on when it goes on, the launcher on a scope that is pinned and the payload
  on an observer that runs (`Acknowledged`, `Listening`); and that a launch which failed
  before the payload has not run one (`Unrun`), as its one frame says (`Framed`).
* **WorkspaceProofs.** `SessionIsSound` and `ForeignStaysKept`, for any processes, edits,
  deaths and interventions. The lock file is never replaced while somebody may hold its
  lock (`LockHeld`), so who works on the directories is alone. `Promise` says what `workspace.json` may be relied on for: unless another
  program has been there, the checkout is the baseline it records. `Placed`, `Built` and
  `Tidy` say what a process has put in place at each point and that it takes away only
  that, and `Left` that, while nothing has failed to be removed, a ticket that is at rest
  has a complete workspace or none.

Only model-checked, because the provers cannot state it: liveness under fairness and
`ENABLED`, that is `ExpiredClosed`, `StopEnds`, `BatchEnds`, `AskEnds`, `LeaseEndCutsOff`,
`CloseSucceeds`, `LockFreed` and `CommandEnds`. No module declares
a `RECURSIVE` operator.

## 5. What is not modelled

Formats, hashes, signatures and HTTP parsing; the marshalling of kernel interfaces; the
control plane itself, of which only the answers the code reads are modelled; the text a
model produces. The Windows branches of the file tools and of the ticket's lock, the
diff and commit queries of the Git broker, the search tools, the start-up of the
standard-user runner, the Landlock rule set and the build of the native helper. In
FileTools a write in place that keeps time and size is not made by others, and a read
outside the workspace without a policy is one the human approved. In TaskRun a file that
becomes a link or vanishes is part of the module but not of the instance.

Some claims are deliberately not made, because the code does not keep them:

* Across processes only equal regions of the write leases exclude one another, because
  the lock file is on the exact region (`write_lease.py:216`).
* A sweep that read its clock early and got the lock late can unmark a scope in which
  another sweep has just failed to close an expired connection of the present generation
  (`network_lease.py:954`, `:969`); connections of an old generation stay blocked.
* While a write has failed, the record may say active without a worker
  (`autonomy.py:703`, recovered by the next manager). Two processes that run the same
  ticket at once contend for the record until the workspace lease refuses one.
* The gate of a role opens on a completed conclusion although another agent of that role
  failed on the same step (`agent_conclusion.py:153`).
* A click accepted between the timeout and the asker's own `resolve` is confirmed to the
  user and denied to the loop (`webui.py:96`); the action does not run.
* A grant to the workspace that failed part-way is left out of what `cleanup_ok`
  claims (`windows_appcontainer.py:1757`). So is what lies below a directory whose listing
  fails: the walk passes over it (`:231`) and the cleanup is reported as confirmed without
  it (`:1273`).
* A walk of the work tree is no snapshot of one moment (`workspace_snapshot.py:915`): files of
  different directories may have been read from the tree at different times, each whole.
* A file called `manifest.json` that somebody puts in a subdirectory of a published pack is
  accepted with the rest (`pack_verify.py:2410`), and the chain of a pack from before
  metadata hashes were recorded is not bound to its metadata (`evidence.py:951`,
  `pack_verify.py:2980`).
* If somebody else in the host process reaps a verifier before it is signalled, the one
  signal may go to a number that is free again (`verification_process.py:405`, `:496`). What
  is claimed is that the host itself reaps only after its signal, and signals once.
* An attempt that a run without a policy resumed after the checkpoint lost its pending mark
  succeeds without the gate (`runner.py:697`); the gate is claimed of what an engineering run
  finished.
* A step of the agent loop that delivered everything after a hand-off is asked for
  another submission when it ends in text, and fails when that is not made.

## 6. Plan

Every safety invariant and action property of the runs is proved, some under the hypotheses
section 4 names; liveness stays model-checked. Of the model there are
left the branches section 5 lists for Windows, the reload of a control plane's trace in
pages, and a second client of the proxy.
