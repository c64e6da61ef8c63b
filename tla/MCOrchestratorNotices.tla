---- MODULE MCOrchestratorNotices ----
(* One worker of one orchestrator, with every operation of the feed;        *)
(* beside it, one at a time, an armed wait on two workers and the fleet     *)
(* client with two workers and one orchestrator.                            *)
EXTENDS OrchestratorNotices, AttentionWait, FleetClient

CONSTANTS w1, w2

VARIABLE part      \* the component that moves in this behaviour

AwaitedPair == <<w1, w2>>
allVars == <<part, vars, waitVars, clientVars>>

\* A component that does not move rests in the first of its settings.
MCInit ==
    /\ part \in {"notices", "wait", "fleet"}
    /\ Init /\ WaitInit /\ FleetInit
    /\ part # "notices" => worker[w1].done = 0
    /\ part # "wait" => ~active
    /\ part # "fleet" => operator = CHOOSE k \in Operators : TRUE

MCNext ==
    \/ part = "notices" /\ Next /\ UNCHANGED <<part, waitVars, clientVars>>
    \/ part = "wait" /\ WaitNext /\ UNCHANGED <<part, vars, clientVars>>
    \/ part = "fleet" /\ FleetNext /\ UNCHANGED <<part, vars, waitVars>>

MCSpec == MCInit /\ [][MCNext]_allVars
====
