---------------------------- MODULE MCAgentLoop -----------------------------
EXTENDS AgentLoop, TLC

\* What the steps have in common: no demand, no hand-off.
Plain ==
  [choice |-> "auto", afterRead |-> Nothing, onNoTool |-> Nothing, forceAfter |-> 0,
   forceTool |-> Nothing, reserve |-> 0, broker |-> TRUE, worklist |-> FALSE,
   codeList |-> FALSE, prompt |-> TRUE, compact |-> TRUE]

\* runner.py: the code step, which hands off to edit_file, and its recovery.
CodeStep ==
  [tools |-> {"edit_file", "inspection", "submit_artifact"}, outputs |-> {"report", "worklist"},
   calls |-> {<<"edit_file", "p">>, <<"edit_file", "q">>, <<"inspection", "prepare">>,
              <<"inspection", "p">>, <<"inspection", "q">>, <<"inspection", "check">>,
              <<"submit_artifact", "report">>}]
Code == [Plain EXCEPT !.onNoTool = "submit_artifact", !.forceAfter = 1,
                      !.forceTool = "edit_file", !.codeList = TRUE, !.compact = FALSE] @@ CodeStep
Resumption == [Plain EXCEPT !.onNoTool = "submit_artifact", !.forceAfter = 2, !.worklist = TRUE,
                            !.codeList = TRUE] @@ CodeStep
\* The review step with its typed round.
Review ==
  [Plain EXCEPT !.onNoTool = "submit_artifact", !.forceAfter = 2]
    @@ [tools |-> {"read_file", "submit_artifact", "submit_review_round"},
        outputs |-> {"report", "round"},
        calls |-> {<<"submit_artifact", "report">>, <<"submit_artifact", "round">>,
                   <<"submit_review_round", "round">>}]
\* The read-only reviewer.
Reviewer ==
  [Plain EXCEPT !.choice = "read_file", !.afterRead = "submit_review", !.reserve = 2,
                !.broker = FALSE]
    @@ [tools |-> {"read_file", "submit_review"}, outputs |-> {},
        calls |-> {<<"read_file", "f">>, <<"read_file", "g">>, <<"submit_review", "r">>}]
\* A step without a broker.
Writer ==
  [Plain EXCEPT !.onNoTool = "write_file", !.forceAfter = 3, !.broker = FALSE, !.prompt = FALSE]
    @@ [tools |-> {"read_file", "write_file"}, outputs |-> {},
        calls |-> {<<"read_file", "f">>, <<"write_file", "p">>}]

StepConfigs == {Code, Resumption, Review, Reviewer, Writer}
WorkPaths == {"p", "q"}
Reads == {"f", "g"}
=============================================================================
