------------------------------- MODULE MCWork -------------------------------
(* Model checking of the work on a ticket, in one run: a behaviour is two     *)
(* processes that run a contract's steps, or one coding task from its first   *)
(* turn to its report.                                                        *)
EXTENDS StepRunner, TaskRun, TLC

CONSTANTS f, g
VARIABLE what

MCContentOf == f :> {"base", "long"} @@ g :> {"base", "empty"}

mcVars == <<vars, taskVars, what>>

\* The machines that stand still have one initial state.
MCInit ==
    /\ Init /\ TaskInit
    /\ what \in {"steps", "task"}
    /\ what # "steps" => n = 0
    /\ what # "task" => run.kind = "task" /\ git

StepStep == what = "steps" /\ Next /\ UNCHANGED <<taskVars, what>>
TaskStep == what = "task" /\ TaskNext /\ UNCHANGED <<vars, what>>

MCSpec == MCInit /\ [][StepStep \/ TaskStep]_mcVars

Symmetry == Permutations(Procs)
=============================================================================
