---- MODULE MCControlPlane ----
(* The control plane of three jobs, the adapters that dispatch two jobs and *)
(* the container executions of two workers, one at a time.                  *)
EXTENDS ControlPlane, JobDispatch, ContainerExecutions, TLC

CONSTANTS j1, j2, j3, s1, s2

Completed == <<"completed", "known">>
Failed == <<"failed", "unknown">>
Interrupted == <<"interrupted", "unknown">>

\* Independent submissions, of which j1 and j2 share a repository.
Flat(jobs, cancels, ceiling, results, disturbances) ==
    [jobs |-> jobs, cancels |-> cancels, parent |-> [j \in Jobs |-> NoJob], bucket |-> [j \in Jobs |-> j = j3],
     ceiling |-> ceiling, tokens |-> 0, results |-> results, disturbances |-> disturbances]

\* j1 delegates j2, and j2 delegates j3.
Chain(cancels, tokens, results, disturbances) ==
    [jobs |-> Jobs, cancels |-> cancels, parent |-> (j1 :> NoJob @@ j2 :> j1 @@ j3 :> j2),
     bucket |-> [j \in Jobs |-> j], ceiling |-> 1, tokens |-> tokens,
     results |-> results, disturbances |-> disturbances]

MCSetups ==
    {Flat(Jobs, {j1}, 2, {Completed}, {}),
     Flat({j1, j2}, {j1, j2}, 1, {Completed}, {"fail", "report"}),
     Flat({j1, j3}, {j1}, 2, {Completed, Interrupted}, {"fail", "crash", "shutdown"}),
     Chain(Jobs, 2, {Completed, Failed}, {}),
     Chain({j2}, 2, {Completed}, {"crash"})}

\* Two Codex jobs that write, one that reads, and one job of every other kind.
DispatchScenes ==
    {[kind |-> "codex", jobs |-> {j1, j2}, writes |-> {j1, j2}, faults |-> {"append", "crash", "lapse", "cancel"}],
     [kind |-> "codex", jobs |-> {j1}, writes |-> {}, faults |-> {"crash", "cancel", "timeout", "artifact"}]}
    \cup {[kind |-> k, jobs |-> {j1}, writes |-> {}, faults |-> {"crash", "cancel", "timeout"}] :
            k \in {"claude", "cursor", "antigravity"}}

\* One worker that is launched and resumed, with an outage of the daemon, a
\* crash of the broker and an expired attempt, or with a cancelled resume that
\* is followed by another; two that compete for the slot, with an outage, or
\* with a cancelled start, an expired attempt and a lease renewal.
Allow(o, k, c, r, first, second, t) ==
    [outages |-> o, crashes |-> k, cancels |-> c, renewals |-> r,
     tries |-> (s1 :> first) @@ (s2 :> second), timed |-> t]
ContainerAllowances == {Allow(1, 1, 0, 0, 2, 0, {s1}), Allow(1, 0, 0, 0, 1, 1, {}),
                        Allow(0, 0, 1, 1, 1, 1, {s1}), Allow(0, 0, 1, 0, 3, 0, {s1})}

ContainerOrder == <<s1, s2>>

VARIABLE part      \* the component that moves in this behaviour

allVars == <<part, vars, dispatchVars, containersVars>>

ASSUME JobDispatchConstants

\* A component that does not move rests in the first of its settings.
MCInit ==
    /\ part \in {"plane", "dispatch", "containers"}
    /\ Init /\ DispatchInit /\ ContainersInit
    /\ part # "plane" => setup = CHOOSE s \in Setups : TRUE
    /\ part # "dispatch" => scene = CHOOSE s \in DispatchScenes : TRUE
    /\ part # "containers" => left = CHOOSE a \in ContainerAllowances : TRUE

MCNext ==
    \/ part = "plane" /\ Next /\ UNCHANGED <<part, dispatchVars, containersVars>>
    \/ part = "dispatch" /\ DispatchNext /\ UNCHANGED <<part, vars, containersVars>>
    \/ part = "containers" /\ ContainersNext /\ UNCHANGED <<part, vars, dispatchVars>>

MCSpec == MCInit /\ [][MCNext]_allVars
====
