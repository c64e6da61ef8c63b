---- MODULE MCWorkerWaits ----
(* A wait for two workers, of which one is a Scout; beside it, one at a     *)
(* time, the instruction queue of one session with two messages, and an     *)
(* orchestrator with a worker and a Scout under it.                         *)
EXTENDS WorkerWaits, SessionLifecycle, TLC

CONSTANTS m1, m2, lead, hand, scout, w1, w2

Case(a, b) == [m \in {m1, m2} |-> IF m = m1 THEN a ELSE b]

MailSetups == {Case("native", "ordinary"), Case("brief", "ordinary"), Case("policy", "wake")}

LifeParentOf == (hand :> lead) @@ (scout :> lead) @@ (lead :> NoOne)

VARIABLES
    part,      \* the component that moves in this behaviour
    kindOf, records, calls, chain, running, session, generation, controller, screen, observed,
    rendered, deliveryHeld, wakeHeld, fence, unavailable, written, withdrawn, unrecorded

Queue == INSTANCE InstructionQueue WITH
    Messages <- {m1, m2}, Setups <- MailSetups, MaxCalls <- 1, MaxBacklog <- 1,
    MaxGeneration <- 2, MaxMishaps <- 1
queueVars == <<kindOf, records, calls, chain, running, session, generation, controller, screen,
               observed, rendered, deliveryHeld, wakeHeld, fence, unavailable, written,
               withdrawn, unrecorded>>
allVars == <<part, vars, queueVars, sessionsVars>>

ASSUME WaitsConstants /\ Queue!QueueConstants /\ SessionAssumption

\* A component that does not move rests in the first of its settings.
MCInit ==
    /\ part \in {"waits", "queue", "life"}
    /\ Init /\ Queue!Init /\ SessionsInit
    /\ part # "queue" => kindOf = CHOOSE k \in MailSetups : TRUE

MCNext ==
    \/ part = "waits" /\ Next /\ UNCHANGED <<part, queueVars, sessionsVars>>
    \/ part = "queue" /\ Queue!Next /\ UNCHANGED <<part, vars, sessionsVars>>
    \/ part = "life" /\ SessionsNext /\ UNCHANGED <<part, vars, queueVars>>

MCSpec == MCInit /\ [][MCNext]_allVars

(* The payload of an instruction reaches the terminal once. *)
WrittenOnce == Queue!WrittenOnce

(* What keeps the head of the queue waiting is something that will be reported. *)
HeldIsWatched == Queue!HeldIsWatched
====
