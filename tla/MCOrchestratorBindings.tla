---- MODULE MCOrchestratorBindings ----
(* Three sessions bound by two operators; beside them, one at a time, the   *)
(* control tools of one worker and an orchestrator's reads and waits.       *)
EXTENDS OrchestratorBindings, WorkerControl, AgentTools, TLC

CONSTANTS s1, s2, s3, o1, o2, selA, selB, w1, c1, c2, trust, login, other

\* Operator slots and the sessions not launched yet are interchangeable.
Interchangeable == Permutations({s2, s3}) \cup Permutations({o1, o2})

ControlSetups ==
    {{"acquire", "stop", "force", "handoff", "restart"},
     {"acquire", "adopt", "answer", "liveness"},
     {"acquire", "recover", "release", "handoff", "liveness"},
     {"acquire", "transfer", "renew", "redirect", "checkpoint", "handoff"}}
ControlTaskOf == [s \in {w1} |-> "task"]
ControlCreatorOf == [w \in {w1} |-> c1]

Scene(about, sizes, budgeted, intervene) ==
    [about |-> about, sizes |-> sizes, budgeted |-> budgeted, scouts |-> {"w2"} \ budgeted, intervene |-> intervene]
ToolScenes ==
    {Scene("read", <<1, 2, 1>>, {}, FALSE), Scene("read", <<3, 2>>, {}, FALSE),
     Scene("wait", <<>>, {}, FALSE), Scene("wait", <<>>, {}, TRUE),
     Scene("start", <<>>, {"w1"}, FALSE), Scene("start", <<>>, {"w1", "w2"}, FALSE)}

VARIABLE part     \* the component that moves in this behaviour

allVars == <<part, bindingsVars, controlVars, toolsVars>>

\* A component that does not move rests in the first of its settings.
MCInit ==
    /\ part \in {"bindings", "control", "tools"}
    /\ BindingsInit /\ ControlInit /\ ToolsInit
    /\ part # "bindings" => bindings[Primary].selection = selA
    /\ part # "control" => tools = CHOOSE s \in ControlSetups : TRUE
    /\ part # "tools" => scene = CHOOSE s \in ToolScenes : TRUE

MCNext ==
    \/ part = "bindings" /\ BindingsNext /\ UNCHANGED <<part, controlVars, toolsVars>>
    \/ part = "control" /\ ControlNext /\ UNCHANGED <<part, bindingsVars, toolsVars>>
    \/ part = "tools" /\ ToolsNext /\ UNCHANGED <<part, bindingsVars, controlVars>>

MCSpec == MCInit /\ [][MCNext]_allVars
====
