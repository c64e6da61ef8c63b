---- MODULE MCWorkerBudget ----
(* Worker budgets: tokens read off the terminal or the transcript, percent  *)
(* budgets of a provider that reports its window, wall-clock budgets.       *)
(* Beside them, a workflow of at most three messages, one wake and one hop. *)
EXTENDS WorkerBudget, Workflows

CONSTANTS m1, m2, m3, stop

MCSetups == {<<"tokens", TRUE>>, <<"tokens", FALSE>>, <<"percent", TRUE>>, <<"wall-clock-ms", FALSE>>}

WorkflowSends == {[id |-> m1, wake |-> TRUE, cause |-> Nobody],
                  [id |-> m2, wake |-> TRUE, cause |-> m1],
                  [id |-> m3, wake |-> FALSE, cause |-> m2]}

VARIABLE part      \* the component that moves in this behaviour

allVars == <<part, vars, workflowVars>>

\* A component that does not move rests in the first of its settings.
MCInit ==
    /\ part \in {"budget", "workflow"}
    /\ Init /\ WorkflowInit
    /\ part # "budget" => setup = CHOOSE s \in Setups : TRUE
    /\ part # "workflow" => width = 1

MCNext ==
    \/ part = "budget" /\ Next /\ UNCHANGED <<part, workflowVars>>
    \/ part = "workflow" /\ WorkflowNext /\ UNCHANGED <<part, vars>>

MCSpec == MCInit /\ [][MCNext]_allVars /\ WF_vars(Enforcer)
====
