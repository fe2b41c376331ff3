----------------------------- MODULE AgentLoop ------------------------------
(***************************************************************************)
(* The turns of the agent loop (loop.py, AgentLoop.run), with the          *)
(* compaction of its history (compaction.py): what the model is told to    *)
(* call, what is executed of what it calls, and when the loop may end.     *)
(*                                                                         *)
(* The model and the provider are free: a reply is any short sequence of   *)
(* calls, whatever tool was demanded.  _invoke (permission, approval,      *)
(* receipt, execution) is one step with an outcome; module Operations has  *)
(* its receipts, module WebApproval its approval.                          *)
(*                                                                         *)
(* Of the history the module keeps what follows the last assistant message *)
(* (recent), whether anything that may be dropped precedes it (older), and *)
(* which unclosed side effects its messages mention.                       *)
(***************************************************************************)
EXTENDS Integers, Sequences, FiniteSets

CONSTANTS
  MaxTurns,       \* max_turns
  MaxCalls,       \* max_tool_calls_per_turn
  RetryCount,     \* required_tool_retry_count
  Configs,        \* steps: the rest of LoopConfig, tools, outputs, and the calls
                  \* <<tool, argument>> that the model tries
  Files,          \* allowed_read_files
  Worklist,       \* paths of the worklist that inspection prepare writes
  UnclosedLimit,  \* length of _unclosed_operations
  MaxUnclosed,    \* bound of the side effects left unclosed
  Nothing

ASSUME AgentLoopAssumption ==
  /\ MaxTurns \in Nat /\ MaxCalls \in Nat \ {0} /\ RetryCount \in Nat
  /\ UnclosedLimit \in Nat /\ MaxUnclosed \in Nat
  /\ \A cf \in Configs : cf.reserve < MaxTurns /\ cf.forceAfter <= MaxTurns

\* The steps as runner.py configures them: a hand-off is to edit_file or to the
\* tool that is demanded of a reply without calls, and where that tool is
\* submit_artifact there is neither a switch after the reads nor a submit_review.
ASSUME StepAssumption ==
  /\ \A cf \in Configs :
       /\ cf.forceTool \in {Nothing, "edit_file"}
       /\ cf.onNoTool \in {Nothing, "submit_artifact", "write_file"}
       /\ cf.onNoTool = "submit_artifact" => cf.afterRead = Nothing /\ "submit_review" \notin cf.tools
       /\ \A call \in cf.calls : call = <<call[1], call[2]>> /\ call[1] # Nothing
  /\ Nothing \notin {"auto", "inspection", "submit_artifact", "submit_review_round", "edit_file",
                     "write_file", "prepare", "read", "check", "no_tool_calls"}

KeepTail == 2
MaxReply == MaxCalls + 1   \* bound of the calls in one reply
Submits == {"submit_review", "submit_artifact", "submit_review_round"}
Deliveries == {"submit_artifact", "submit_review_round"}
Effects == {"edit_file", "write_file", "inspection"} \cup Deliveries

VARIABLES
  config,     \* a member of Configs
  turn,       \* index
  place,      \* "top" of a turn, "calls", or "ended"
  ctl,        \* the locals of run that steer it
  missing,    \* outputs that are not on disk
  calls,      \* calls of this reply that have no result yet
  handled,    \* calls of this reply that were allowed
  over,       \* budget.verdict is over_budget
  recent,     \* messages since the last assistant message, with it
  older,      \* whether unprotected messages precede them
  compacted,  \* whether there is a summary of dropped messages
  unclosed,   \* _unclosed_operations
  effects,    \* side effects left unclosed so far
  mentioned,  \* those a tool message in the history mentions
  told,       \* those an injected system message mentions
  stop,       \* stop_reason
  inspected   \* history: whether a demanded inspection was prepared and the tree not
              \* edited after it, and the paths that were read since

histVars == <<recent, older, compacted, unclosed, effects, mentioned, told>>
loopVars == <<config, turn, place, ctl, missing, calls, handled, over, histVars, stop,
          inspected>>

Assistant(n) == <<"assistant", n>>
ToolMessage(e) == <<"tool", e>>   \* e: the effect it leaves unclosed, or 0
User == <<"user", 0>>

Phase(call) == IF call[2] \in {"prepare", "check"} THEN call[2] ELSE "read"

\* A worklist of an earlier attempt has to be rebound first.
Resumed(cf) == cf.worklist /\ cf.choice = "auto"

StartControl(cf) ==
  [choice   |-> IF Resumed(cf) THEN "inspection" ELSE cf.choice,  \* tool_choice
   forced   |-> IF Resumed(cf) THEN "inspection" ELSE Nothing,       \* forced_output_tool
   onNoTool |-> cf.onNoTool,                    \* tool_choice_on_no_tool
   retries  |-> IF cf.choice # "auto" THEN RetryCount ELSE 0,
   phase    |-> IF Resumed(cf) THEN "prepare" ELSE Nothing,  \* inspection_phase_required
   unread   |-> {},       \* inspection_expected_paths not in inspection_read_paths
   edits    |-> {},       \* forced_edit_paths
   editing  |-> FALSE,    \* delivery_edit_required
   complete |-> FALSE,    \* forced_delivery_complete
   read     |-> {},       \* completed_read_files
   deferred |-> Nothing,     \* deferred_tool_transition
   prompts  |-> 0]        \* post_tool_prompts

NoInspection == [made |-> FALSE, read |-> {}]

LoopInit ==
  /\ config \in Configs
  /\ turn = 1 /\ place = "top"
  /\ ctl = StartControl(config)
  /\ missing = IF ~config.broker THEN {}
               ELSE IF config.worklist THEN config.outputs \ {"worklist"}
               ELSE config.outputs
  /\ calls = <<>> /\ handled = 0
  /\ over \in BOOLEAN   \* the tracker may be shared with an earlier loop
  /\ recent = IF Resumed(config) THEN <<User>> ELSE <<>>
  /\ older = FALSE /\ compacted = FALSE
  /\ unclosed = <<>> /\ effects = 0 /\ mentioned = {} /\ told = {}
  /\ stop = Nothing
  /\ inspected = NoInspection

(***************************************************************************)
(* compact_history                                                         *)
(***************************************************************************)
MentionedIn(ms) == {ms[i][2] : i \in {j \in DOMAIN ms : ms[j][1] = "tool"}} \ {0}

\* The last KeepTail messages, if there are more than that after the head.
Tail2(ms) ==
  IF Len(ms) + (IF older \/ compacted THEN 1 ELSE 0) > KeepTail
  THEN SubSeq(ms, Len(ms) - KeepTail + 1, Len(ms)) ELSE <<>>

MayCompact(ms) == config.compact /\ (older \/ Len(ms) > Len(Tail2(ms)))

\* Earlier summaries and receipts stay; the present list is injected again.
ToldBug == {unclosed[i] : i \in DOMAIN unclosed}
Told == told \cup {unclosed[i] : i \in DOMAIN unclosed}

(***************************************************************************)
(* The top of a turn: the closed gates, the hand-off, and the request      *)
(***************************************************************************)
End(reason) == place' = "ended" /\ stop' = reason

ReserveSpent ==
  /\ config.reserve > 0 /\ config.afterRead # Nothing
  /\ ctl.choice = config.choice
  /\ turn > MaxTurns - config.reserve

\* The reason why no further request is made, if there is one.
Closed ==
  IF turn > MaxTurns THEN "max_turns"
  ELSE IF over THEN "budget_exceeded"
  ELSE IF ReserveSpent THEN "required_tool_turn_reserve_exhausted" ELSE Nothing

TurnStops ==
  /\ place = "top" /\ Closed # Nothing
  /\ End(Closed)
  /\ UNCHANGED <<config, turn, ctl, missing, calls, handled, over, histVars, inspected>>

\* From this turn on the output tool is demanded.
Forcing ==
  /\ config.forceAfter > 0 /\ turn >= config.forceAfter
  /\ ctl.choice = "auto" /\ ~ctl.complete
  /\ config.forceTool # Nothing \/ config.onNoTool # Nothing

HandedOff ==
  LET tool == IF config.forceTool # Nothing THEN config.forceTool ELSE config.onNoTool
  IN IF Forcing
     THEN [ctl EXCEPT !.choice = tool, !.forced = tool, !.retries = RetryCount,
                      !.editing = @ \/ tool = "edit_file"]
     ELSE ctl

Prompted == IF Forcing /\ config.prompt THEN Append(recent, User) ELSE recent

\* The messages of the request, and what is left of the rest.
Request(compacting) ==
  LET ms == IF compacting THEN Tail2(Prompted) ELSE Prompted IN
  /\ compacting => MayCompact(Prompted)
  /\ older' = (ms # <<>> \/ (older /\ ~compacting))
  /\ compacted' = (compacted \/ compacting)
  /\ mentioned' = IF compacting THEN MentionedIn(ms) ELSE mentioned
  /\ told' = IF compacting THEN Told ELSE told

\* backend.complete raised.
BackendFails(compacting) ==
  /\ place = "top" /\ Closed = Nothing
  /\ Request(compacting)
  /\ recent' = <<>>
  /\ End("backend_error")
  /\ UNCHANGED <<config, turn, ctl, missing, calls, handled, over, unclosed, effects, inspected>>

\* The reply made the run go over its budget: no call of it is executed, and
\* each has a result that says so.
ReplyOverBudget(compacting, n) ==
  /\ place = "top" /\ Closed = Nothing
  /\ Request(compacting)
  /\ over' = TRUE
  /\ ctl' = HandedOff
  /\ recent' = <<Assistant(n)>> \o [i \in 1 .. n |-> ToolMessage(0)]
  /\ End("budget_exceeded")
  /\ UNCHANGED <<config, turn, missing, calls, handled, unclosed, effects, inspected>>

NextTurn(t) == t + 1

\* A reply without calls: a first miss demands the output tool, a miss of a
\* demanded tool is answered RetryCount times, and otherwise it is the end.
ReplyText(compacting) ==
  LET c == HandedOff
      demand == c.onNoTool # Nothing /\ c.choice = "auto"
      ends == ~demand /\ (c.choice = "auto" \/ c.retries = 0)
  IN
  /\ place = "top" /\ Closed = Nothing
  /\ Request(compacting)
  /\ ctl' = IF demand
            THEN [c EXCEPT !.choice = c.onNoTool, !.forced = c.onNoTool,
                           !.retries = RetryCount, !.onNoTool = Nothing]
            ELSE IF ends THEN c ELSE [c EXCEPT !.retries = @ - 1]
  /\ recent' = IF ends THEN <<Assistant(0)>> ELSE <<Assistant(0), User>>
  /\ IF ends
     THEN /\ End(IF c.choice = "auto" THEN "no_tool_calls" ELSE "required_tool_not_called")
          /\ UNCHANGED turn
     ELSE turn' = NextTurn(turn) /\ UNCHANGED <<place, stop>>
  /\ UNCHANGED <<config, missing, calls, handled, over, unclosed, effects, inspected>>

ReplyCalls(compacting, reply) ==
  /\ place = "top" /\ Closed = Nothing
  /\ Request(compacting)
  /\ ctl' = HandedOff
  /\ recent' = <<Assistant(Len(reply))>>
  /\ calls' = reply /\ handled' = 0
  /\ place' = "calls"
  /\ UNCHANGED <<config, turn, missing, over, unclosed, effects, stop, inspected>>

(***************************************************************************)
(* The calls of a reply, one at a time: denied, executed or skipped        *)
(***************************************************************************)

\* A generic submission of a valid round is taken for the demanded one.
Meant(call, valid) ==
  IF ctl.forced = "submit_review_round" /\ call = <<"submit_artifact", "round">> /\ valid
  THEN <<"submit_review_round", "round">> ELSE call

Refused(call) ==
  \/ ctl.forced # Nothing /\ call[1] # ctl.forced
  \/ call[1] = "inspection" /\ ctl.phase # Nothing /\ Phase(call) # ctl.phase

RepliedToBug(ms, e) == ms
RepliedTo(ms, e) == Append(ms, ToolMessage(e))

Current == place = "calls" /\ calls # <<>> /\ handled < MaxCalls

CallRefused(valid) ==
  /\ Current /\ Refused(Meant(Head(calls), valid))
  /\ recent' = RepliedTo(recent, 0)
  /\ ctl' = [ctl EXCEPT !.prompts = @ + 1]
  /\ calls' = Tail(calls) /\ handled' = handled + 1
  /\ UNCHANGED <<config, turn, place, missing, over, older, compacted, unclosed, effects,
                 mentioned, told, stop, inspected>>

\* What _invoke comes to.  "failed" stands for an unknown tool and a refusal of
\* the guard or of a human too, "partial" for a read that leaves lines unread.
Outcomes(call) ==
  IF call[1] \notin config.tools THEN {"failed"}
  ELSE {"ok", "failed"} \cup (IF call[1] = "read_file" THEN {"partial"} ELSE {})
                        \cup (IF call[1] \in Effects THEN {"ambiguous"} ELSE {})

\* Outputs on disk after a call that succeeded.
Delivers(call) ==
  IF call[1] \in Deliveries THEN {call[2]}
  ELSE IF call = <<"inspection", "prepare">> THEN {"worklist"} ELSE {}

WithRead(c, call) ==
  IF call[1] = "read_file" /\ call[2] \in Files
  THEN [c EXCEPT !.read = @ \cup {call[2]}] ELSE c

\* All of the whitelist was read: the submission is demanded.
WithSwitch(c) ==
  IF config.afterRead # Nothing /\ c.choice = config.choice /\ Files \subseteq c.read
  THEN [c EXCEPT !.choice = config.afterRead] ELSE c

IsDelivery(tool, miss) == (tool \in Deliveries /\ miss = {}) \/ tool = "submit_review"

Released(c, tool) ==
  [c EXCEPT !.choice = "auto", !.complete = TRUE,
            !.forced = IF @ = tool THEN Nothing ELSE @]

WithSubmission(c, tool, miss) ==
  IF c.choice # "auto" /\ IsDelivery(tool, miss) THEN Released(c, tool) ELSE c

\* The second file is edited: the worklist has to be made again.
WithEdit(c, path, miss) ==
  LET edits == c.edits \cup {path} IN
  IF Cardinality(edits) >= 2 /\ miss # {}
  THEN [c EXCEPT !.edits = edits, !.phase = "prepare", !.unread = {}, !.prompts = @ + 1,
                 !.deferred = IF "inspection" \in config.tools THEN "inspection"
                              ELSE "submit_artifact"]
  ELSE [c EXCEPT !.edits = edits]

PhaseAfterRead(unread) == IF unread # {} THEN "read" ELSE "check"

\* Only code_worklist.json is consulted for the paths to read.
WithInspection(c, call, miss) ==
  LET listed == IF config.codeList THEN Worklist ELSE {}
      unread == c.unread \ {call[2]}
  IN
  IF Phase(call) = "prepare"
  THEN [c EXCEPT !.unread = IF listed # {} THEN listed ELSE c.edits,
                 !.phase = "read", !.prompts = @ + 1]
  ELSE IF Phase(call) = "read"
  THEN [c EXCEPT !.unread = unread, !.phase = PhaseAfterRead(unread), !.prompts = @ + 1]
  ELSE [c EXCEPT !.phase = Nothing,
                 !.prompts = IF miss # {} THEN @ + 1 ELSE @,
                 !.deferred = IF miss # {} THEN "submit_artifact" ELSE "auto"]

WithForced(c, call, miss) ==
  LET tool == call[1] IN
  IF (c.forced # tool /\ ~(c.editing /\ tool = "edit_file")) \/ tool \in Deliveries THEN c
  ELSE IF tool = "edit_file" /\ config.broker THEN WithEdit(c, call[2], miss)
  ELSE IF tool = "inspection" THEN WithInspection(c, call, miss)
  ELSE [c EXCEPT !.choice = "auto", !.forced = Nothing]

\* An output is still missing.
WithFollowUp(c, tool, miss) ==
  IF c.choice # "auto" /\ tool = "submit_artifact" /\ miss # {}
  THEN [c EXCEPT !.prompts = @ + 1,
                 !.deferred = IF "submit_review_round" \in config.tools /\ "round" \in miss
                              THEN "submit_review_round" ELSE @]
  ELSE c

After(c, call, outcome, miss) ==
  IF outcome # "ok" THEN WithSwitch(c)
  ELSE WithFollowUp(
         WithForced(WithSubmission(WithSwitch(WithRead(c, call)), call[1], miss), call, miss),
         call[1], miss)

Inspects(call, outcome) ==
  IF outcome # "ok" THEN inspected
  ELSE IF call[1] \in {"edit_file", "write_file"} THEN NoInspection
  ELSE IF call[1] # "inspection" \/ ctl.forced # "inspection" THEN inspected
  ELSE IF Phase(call) = "prepare" THEN [made |-> TRUE, read |-> {}]
  ELSE IF Phase(call) = "read" /\ inspected.made
  THEN [inspected EXCEPT !.read = @ \cup {call[2]}]
  ELSE inspected

\* finish failed or start found an action in doubt: the effect stays unclosed,
\* and only in the second case the result says so.
CallRuns(valid, outcome, closed) ==
  LET call == Meant(Head(calls), valid)
      miss == missing \ (IF outcome = "ok" THEN Delivers(call) ELSE {})
  IN
  /\ Current /\ ~Refused(call) /\ outcome \in Outcomes(call)
  /\ outcome = "ambiguous" => ~closed
  /\ ~closed => call[1] \in Effects \cap config.tools /\ effects < MaxUnclosed
  /\ missing' = miss
  /\ ctl' = After(ctl, call, outcome, miss)
  /\ inspected' = Inspects(call, outcome)
  /\ IF closed
     THEN recent' = RepliedTo(recent, 0) /\ UNCHANGED <<unclosed, effects, mentioned>>
     ELSE LET e == effects + 1
              all == Append(unclosed, e)
          IN /\ effects' = e
             /\ unclosed' = IF Len(all) > UnclosedLimit THEN Tail(all) ELSE all
             /\ recent' = RepliedTo(recent, IF outcome = "ambiguous" THEN e ELSE 0)
             /\ mentioned' = IF outcome = "ambiguous" THEN mentioned \cup {e} ELSE mentioned
  /\ calls' = Tail(calls) /\ handled' = handled + 1
  /\ UNCHANGED <<config, turn, place, over, older, compacted, told, stop>>

\* The calls above the limit of a turn have a result as well.
CallsSkipped ==
  /\ place = "calls" /\ calls # <<>> /\ handled = MaxCalls
  /\ recent' = RepliedTo(recent, 0)
  /\ calls' = Tail(calls)
  /\ UNCHANGED <<config, turn, place, ctl, missing, handled, over, older, compacted, unclosed,
                 effects, mentioned, told, stop, inspected>>

\* The deferred transition, and the prompts after all of the results.
TurnEnds ==
  LET next == ctl.deferred
      kept == [ctl EXCEPT !.deferred = Nothing, !.prompts = 0]
  IN
  /\ place = "calls" /\ calls = <<>>
  /\ ctl' = IF next = Nothing THEN kept
            ELSE [kept EXCEPT !.choice = next,
                              !.forced = IF next = "auto" THEN Nothing ELSE next,
                              !.complete = @ \/ next = "auto",
                              !.editing = @ /\ next # "inspection"]
  /\ recent' = recent \o [i \in 1 .. ctl.prompts |-> User]
  /\ handled' = 0
  /\ turn' = NextTurn(turn) /\ place' = "top"
  /\ UNCHANGED <<config, missing, calls, over, older, compacted, unclosed, effects, mentioned,
                 told, stop, inspected>>

\* Bound: a reply above the limit of a turn repeats one call.
Replies ==
  (UNION {[1 .. n -> config.calls] : n \in 1 .. MaxCalls})
    \cup {[i \in 1 .. MaxReply |-> call] : call \in config.calls}

LoopNext ==
  \/ TurnStops
  \/ \E compacting \in BOOLEAN :
       \/ BackendFails(compacting)
       \/ ReplyText(compacting)
       \/ \E reply \in Replies : ReplyCalls(compacting, reply)
       \/ \E n \in 0 .. MaxReply : ReplyOverBudget(compacting, n)
  \/ \E valid \in BOOLEAN :
       \/ CallRefused(valid)
       \/ \E outcome \in {"ok", "partial", "failed", "ambiguous"}, closed \in BOOLEAN :
            CallRuns(valid, outcome, closed)
  \/ CallsSkipped
  \/ TurnEnds
  \/ place = "ended" /\ UNCHANGED loopVars

LoopSpec == LoopInit /\ [][LoopNext]_loopVars

(***************************************************************************)
(* Properties                                                              *)
(***************************************************************************)

\* Every call of an assistant message is followed by its results, which come
\* one after another, and no result is without its call.
Paired(ms) ==
  LET tools == {i \in DOMAIN ms : ms[i][1] = "tool"} IN
  /\ \A i \in DOMAIN ms : ms[i][1] = "assistant" => i + 1 .. i + ms[i][2] \subseteq tools
  /\ \A i \in tools : \E j \in 1 .. i - 1 : ms[j][1] = "assistant" /\ i <= j + ms[j][2]

\* A request that is not compacted is well formed: refused, executed and
\* skipped calls of one reply have their results next to each other and the
\* prompts of the host follow them, whatever mixture the reply was.
PairedRequests == place = "top" /\ Closed = Nothing => Paired(Prompted)

\* The same of the requests that compact_history shortens.
RequestsPaired ==
  place = "top" /\ Closed = Nothing /\ MayCompact(Prompted) => Paired(Tail2(Prompted))

\* Compaction never makes an unclosed side effect unknown to the model: one it
\* was told of stays told, however often the history is compacted again, and
\* one a result mentions stays known while it is on the bounded list.
ContextKept ==
  [][/\ told \subseteq told'
     /\ mentioned \cap {unclosed[i] : i \in DOMAIN unclosed} \subseteq mentioned' \cup told']_loopVars

\* A step with outputs that must be submitted does not end as a success while
\* one of them is missing, whichever way its tools were demanded and released.
ArtifactsDelivered ==
  stop = "no_tool_calls" /\ config.broker /\ config.onNoTool = "submit_artifact"
    => missing = {}

\* The machine check is demanded of a tree whose listed files were all read
\* since the worklist was made and that was not edited since then.
CheckAfterReads ==
  ctl.forced = "inspection" /\ ctl.phase = "check" /\ config.codeList
    => inspected.made /\ Worklist \subseteq inspected.read

\* The loop's protocol: its requests are well formed, its outputs complete when
\* it ends as a success, its check demanded of a tree that was read (loop.py).
LoopSound == PairedRequests /\ ArtifactsDelivered /\ CheckAfterReads
=============================================================================
