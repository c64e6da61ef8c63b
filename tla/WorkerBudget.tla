---------------------------- MODULE WorkerBudget ----------------------------
(***************************************************************************)
(* One worker's scoped budget: the durable record of                       *)
(* src/broker/worker-coordination.ts (declareBudget, observeBudget,        *)
(* adjustBudget, advanceBudgetEnforcement), the measurement and            *)
(* enforcement loop of src/broker/worker-budget-enforcer.ts, and the       *)
(* registry calls the budget gates (resume) or makes (stop).               *)
(*                                                                         *)
(* refreshWorker awaits an instruction, a stop, a telemetry read and a     *)
(* commit; the operator, the worker and the provider move between them.    *)
(* Refreshes of one worker are chained, so there is one at a time.         *)
(***************************************************************************)
EXTENDS Integers, FiniteSets

CONSTANTS
    Setups,         \* <<allocation unit, provider writes token frames>>
    Allocation,     \* the declared allocation
    Steps,          \* amounts an operator extends or reduces it by
    SoftPercent,    \* softLimitRatio * 100; hardLimitRatio is 1
    Full,           \* a full provider window, and the most a percent budget may be
    MaxSpent,       \* bound: consumption
    MaxRevision,    \* bound: operator adjustments
    MaxGeneration,  \* bound: resumes
    MaxFaults       \* bound: failing awaits and broker crashes

Units == {"tokens", "percent", "wall-clock-ms"}

ASSUME BudgetConstants ==
    /\ Setups \subseteq Units \X BOOLEAN
    /\ SoftPercent \in 1..99
    /\ {Allocation, Full} \subseteq Nat \ {0}
    /\ Steps \subseteq Nat \ {0}
    /\ MaxRevision \in Nat \ {0} /\ {MaxSpent, MaxGeneration, MaxFaults} \subseteq Nat

VARIABLES
    setup,          \* the unit of the declaration and the provider's kind
    budget,         \* subject.budget, durable
    worker,         \* executionState, as far as the budget is concerned
    generation,     \* record.generation
    counter,        \* tokens this process generation shows on its terminal
    frame,          \* the last usage frame in the provider's transcript
    allowance,      \* what is left of the provider's window
    spent,          \* history: what the worker really consumed
    wrapUps,        \* revisions whose wrap-up instruction is in the queue
    refresh,        \* where refreshWorker stands
    resuming,       \* resume() passed the gate and awaits
    faults          \* history: faults so far

vars == <<setup, budget, worker, generation, counter, frame, allowance, spent,
          wrapUps, refresh, resuming, faults>>
world == <<setup, generation, counter, frame, allowance, spent, resuming>>

Undeclared == [revision |-> 0]
NoFrame == [tokens |-> 0, remaining |-> 0, old |-> TRUE]

EnforcementStates == {"active", "soft-pending", "soft-notified", "hard-reached", "hard-stop-requested"}
HardStates == {"hard-reached", "hard-stop-requested"}

\* `known` is measurement.status, `remaining` the stored provider allowance
\* and -1 while it is unavailable.
Budgets == [revision : Nat \ {0}, allocation : Nat \ {0}, enforcement : EnforcementStates,
            known : BOOLEAN, amount : Nat, generation : Nat, baseline : Nat,
            remaining : Nat \cup {-1}]

Unit == setup[1]
Telemetry == setup[2]

\* Every await of refreshWorker; `then` is where a pending enforcement
\* returns to, `revision` the revision it acts for, and the rest is the
\* runtime observation a measurement is made of.
Idle == [at |-> "idle"]
Awaits == {"idle", "wrap-up", "notify", "halt", "measure", "reading", "committed"}

Declared == budget.revision > 0
Terminal == worker = "terminal"
Exhausted == Declared /\ budget.enforcement \in HardStates

(***************************************************************************)
(* The durable record                                                      *)
(***************************************************************************)

\* Mutant: the cap itself is still within the budget.
ThresholdLate(b) ==
    IF ~b.known THEN "active"
    ELSE IF b.amount > b.allocation THEN "hard-reached"
    ELSE IF b.amount * 100 >= SoftPercent * b.allocation THEN "soft-pending"
    ELSE "active"

\* workerBudgetReading and workerBudgetThresholdEnforcement.
Threshold(b) ==
    IF ~b.known THEN "active"
    ELSE IF b.amount >= b.allocation THEN "hard-reached"
    ELSE IF b.amount * 100 >= SoftPercent * b.allocation THEN "soft-pending"
    ELSE "active"

ObservedEnforcement(b) ==
    IF \/ b.enforcement = "active"
       \/ Threshold(b) = "hard-reached" /\ b.enforcement \in {"soft-pending", "soft-notified"}
    THEN Threshold(b)
    ELSE b.enforcement

TransitionAllowed(from, to) ==
    \/ from = "active" /\ to \in {"soft-pending", "hard-reached"}
    \/ from = "soft-pending" /\ to \in {"soft-notified", "hard-reached"}
    \/ from = "soft-notified" /\ to = "hard-reached"
    \/ from = "hard-reached" /\ to = "hard-stop-requested"

\* assertBudgetRevision.
RevisionMatches(expected) == budget.revision = expected

Declare ==
    /\ ~Declared
    /\ Unit = "percent" => Allocation <= Full
    /\ budget' = [revision |-> 1, allocation |-> Allocation, enforcement |-> "active",
                  known |-> FALSE, amount |-> 0, generation |-> 0, baseline |-> 0,
                  remaining |-> -1]
    /\ UNCHANGED <<world, worker, wrapUps, refresh, faults>>

AllocationValid(amount) == amount > 0 /\ (Unit = "percent" => amount <= Full)

Adjusted(b, amount) ==
    LET next == [b EXCEPT !.allocation = amount, !.revision = @ + 1]
    IN  [next EXCEPT !.enforcement = Threshold(next)]

\* adjustBudget, as the local worker control service issues it: a terminal
\* worker's budget can only be extended.
Adjust(direction, step) ==
    LET amount == IF direction = "extend" THEN budget.allocation + step
                                          ELSE budget.allocation - step
    IN  /\ Declared
        /\ budget.revision < MaxRevision
        /\ ~(Terminal /\ direction = "reduce")
        /\ AllocationValid(amount)
        /\ budget' = Adjusted(budget, amount)
        /\ UNCHANGED <<world, worker, wrapUps, refresh, faults>>

(***************************************************************************)
(* The enforcement loop                                                    *)
(***************************************************************************)

\* stop(): a request that is already out is not repeated.
Stopped(w) == IF w = "running" THEN "stopping" ELSE w

\* Mutant: the stop is recorded without being requested.
EnforcePendingUnstopped(then) ==
    /\ refresh' = [at |-> IF budget.enforcement = "hard-reached" /\ ~Terminal THEN "halt" ELSE then,
                   then |-> then, revision |-> budget.revision]
    /\ UNCHANGED worker

\* enforcePending up to its first await. The stop is requested at once.
EnforcePending(then) ==
    \/ /\ budget.enforcement = "soft-pending" /\ ~Terminal
       /\ refresh' = [at |-> "wrap-up", then |-> then, revision |-> budget.revision]
       /\ UNCHANGED worker
    \/ /\ budget.enforcement = "hard-reached" /\ ~Terminal
       /\ refresh' = [at |-> "halt", then |-> then, revision |-> budget.revision]
       /\ worker' = Stopped(worker)
    \/ /\ Terminal \/ budget.enforcement \notin {"soft-pending", "hard-reached"}
       /\ refresh' = [at |-> then]
       /\ UNCHANGED worker

Refresh ==
    /\ refresh.at = "idle" /\ Declared
    /\ EnforcePending("measure")
    /\ UNCHANGED <<world, budget, wrapUps, faults>>

EnforceObserved ==
    /\ refresh.at = "committed"
    /\ EnforcePending("idle")
    /\ UNCHANGED <<world, budget, wrapUps, faults>>

\* enqueueBroker: the message id is made of the worker and the revision.
EnqueueWrapUp ==
    /\ refresh.at = "wrap-up"
    /\ wrapUps' = wrapUps \cup {refresh.revision}
    /\ refresh' = [refresh EXCEPT !.at = "notify"]
    /\ UNCHANGED <<world, budget, worker, faults>>

\* advanceBudgetEnforcement; a refused one fails the refresh.
Advance(state) ==
    /\ IF ~RevisionMatches(refresh.revision)
       THEN refresh' = Idle /\ UNCHANGED budget
       ELSE IF budget.enforcement = state
       THEN refresh' = [at |-> refresh.then] /\ UNCHANGED budget
       ELSE IF ~TransitionAllowed(budget.enforcement, state)
       THEN refresh' = Idle /\ UNCHANGED budget
       ELSE /\ refresh' = [at |-> refresh.then]
            /\ budget' = [budget EXCEPT !.enforcement = state]
    /\ UNCHANGED <<world, worker, wrapUps, faults>>

AdvanceSoft == refresh.at = "notify" /\ Advance("soft-notified")
AdvanceHard == refresh.at = "halt" /\ Advance("hard-stop-requested")

\* The second half of refreshWorker up to the telemetry read. The terminal
\* counter may be redrawn from zero or not be shown at all (-1).
Measure(count) ==
    /\ refresh.at = "measure"
    /\ refresh' = IF Terminal \/ Exhausted THEN Idle
                  ELSE [at |-> "reading", generation |-> generation, count |-> count, frame |-> frame]
    /\ UNCHANGED <<world, budget, worker, wrapUps, faults>>

\* Mutant: every reading is stacked on the last amount.
BaselineRestacked(gen) == budget.amount

\* The durable total of earlier generations, under this generation's counter.
Baseline(gen) ==
    IF ~budget.known \/ budget.generation # gen THEN budget.amount ELSE budget.baseline

\* consumedDelta: what the window lost since the last reading, resets aside.
ConsumedPercent(remaining) ==
    IF budget.remaining = -1 \/ budget.remaining < remaining THEN 0
    ELSE budget.remaining - remaining

AtLeast(m, n) == IF m >= n THEN m ELSE n

WithTokens(tokens) ==
    LET baseline == Baseline(refresh.generation) IN
    [budget EXCEPT !.known = TRUE, !.generation = refresh.generation, !.baseline = baseline,
                   !.amount = AtLeast(@, baseline + tokens)]

\* observeBudget of a new measurement.
Commit(measured) ==
    /\ budget' = [measured EXCEPT !.enforcement = ObservedEnforcement(measured)]
    /\ refresh' = [at |-> "committed"]

\* The telemetry read, the measurement and observeBudget. A frame older than
\* the stored measurement is ignored by monotonicBudgetMeasurement, and the
\* commit then leaves the record alone. Telemetry may fail to be read; a
\* reading of the terminal is dated before the await, so it makes only the
\* frames of that time old.
Observe(readable) ==
    LET framed == readable /\ Telemetry /\ frame # NoFrame IN
    /\ refresh.at = "reading"
    /\ \/ /\ Unit = "wall-clock-ms"
          /\ Commit([budget EXCEPT !.known = TRUE, !.amount = AtLeast(@, spent)])
          /\ UNCHANGED frame
       \/ /\ Unit = "percent" /\ framed
          /\ Commit([budget EXCEPT !.known = TRUE, !.remaining = frame.remaining,
                                   !.amount = @ + ConsumedPercent(frame.remaining)])
          /\ UNCHANGED frame
       \/ /\ Unit = "tokens" /\ framed
          /\ Commit(IF frame.old THEN budget ELSE WithTokens(frame.tokens))
          /\ UNCHANGED frame
       \/ /\ Unit = "tokens" /\ ~framed /\ refresh.count >= 0
          /\ Commit(WithTokens(refresh.count))
          /\ frame' = IF frame = refresh.frame THEN [frame EXCEPT !.old = TRUE] ELSE frame
       \/ /\ ~framed /\ Unit # "wall-clock-ms" /\ (Unit = "tokens" => refresh.count < 0)
          /\ refresh' = Idle
          /\ UNCHANGED <<budget, frame>>
    /\ UNCHANGED <<setup, worker, generation, counter, allowance, spent, wrapUps, resuming,
                   faults>>

(***************************************************************************)
(* The gated registry                                                      *)
(***************************************************************************)

\* assertMayConsume.
MayConsume == ~Exhausted

\* resume passes the gate, then awaits the outgoing turns and the launch.
Resume ==
    /\ Terminal /\ ~resuming /\ generation < MaxGeneration
    /\ MayConsume
    /\ resuming' = TRUE
    /\ UNCHANGED <<setup, budget, worker, generation, counter, frame, allowance, spent,
                   wrapUps, refresh, faults>>

\* A new process: its terminal counter starts at zero, the transcript stays.
ResumeRuntime ==
    /\ resuming
    /\ resuming' = FALSE
    /\ worker' = "running"
    /\ generation' = generation + 1
    /\ counter' = 0
    /\ UNCHANGED <<setup, budget, frame, allowance, spent, wrapUps, refresh, faults>>

Stop ==
    /\ worker = "running"
    /\ worker' = Stopped(worker)
    /\ UNCHANGED <<world, budget, wrapUps, refresh, faults>>

\* The process exits, on its own or because it was asked to.
Exit ==
    /\ ~Terminal
    /\ worker' = "terminal"
    /\ UNCHANGED <<world, budget, wrapUps, refresh, faults>>

(***************************************************************************)
(* The worker, its provider and the machine                                *)
(***************************************************************************)

\* Consumption in the budget's unit: tokens while the process lives, a
\* provider window whoever uses it, the clock in any case.
Consume ==
    /\ spent < MaxSpent
    /\ Unit = "tokens" => ~Terminal
    /\ Unit = "percent" => allowance > 0
    /\ spent' = spent + 1
    /\ counter' = IF Unit = "tokens" THEN counter + 1 ELSE counter
    /\ allowance' = IF Unit = "percent" THEN allowance - 1 ELSE allowance
    /\ UNCHANGED <<setup, budget, worker, generation, frame, wrapUps, refresh, resuming,
                   faults>>

\* The provider appends a usage frame to its transcript.
WriteFrame ==
    /\ Telemetry /\ ~Terminal
    /\ frame' = [tokens |-> counter, remaining |-> allowance, old |-> FALSE]
    /\ UNCHANGED <<setup, budget, worker, generation, counter, allowance, spent, wrapUps,
                   refresh, resuming, faults>>

WindowReset ==
    /\ Unit = "percent" /\ allowance < Full
    /\ allowance' = Full
    /\ UNCHANGED <<setup, budget, worker, generation, counter, frame, spent, wrapUps, refresh,
                   resuming, faults>>

\* An awaited call of the refresh throws; the next timer starts it again.
RefreshFails ==
    /\ faults < MaxFaults /\ refresh.at \in {"wrap-up", "notify", "halt", "reading"}
    /\ faults' = faults + 1
    /\ refresh' = Idle
    /\ UNCHANGED <<world, budget, worker, wrapUps>>

\* The broker dies and starts again; the process may have survived it.
Crash ==
    /\ faults < MaxFaults
    /\ faults' = faults + 1
    /\ refresh' = Idle
    /\ worker' \in {worker, "terminal"}
    /\ resuming' = FALSE
    /\ UNCHANGED <<setup, budget, generation, counter, frame, allowance, spent, wrapUps>>

(***************************************************************************)
(* The specification                                                       *)
(***************************************************************************)

Init ==
    /\ setup \in Setups
    /\ budget = Undeclared /\ refresh = Idle
    /\ worker = "running" /\ generation = 1 /\ counter = 0
    /\ frame = NoFrame /\ allowance = Full /\ spent = 0
    /\ wrapUps = {} /\ resuming = FALSE /\ faults = 0

Enforcer ==
    \/ Refresh \/ EnqueueWrapUp \/ AdvanceSoft \/ AdvanceHard
    \/ (\E count \in {-1, 0, counter} : Measure(count))
    \/ (\E readable \in BOOLEAN : Observe(readable))
    \/ EnforceObserved

Next ==
    \/ Declare
    \/ \E direction \in {"extend", "reduce"}, step \in Steps : Adjust(direction, step)
    \/ Enforcer
    \/ Resume \/ ResumeRuntime \/ Stop \/ Exit
    \/ Consume \/ WriteFrame \/ WindowReset
    \/ RefreshFails \/ Crash

Spec == Init /\ [][Next]_vars

(***************************************************************************)
(* Properties                                                              *)
(***************************************************************************)

\* Every variable has its type.
TypeOK ==
    /\ setup \in Setups
    /\ budget \in Budgets \cup {Undeclared}
    /\ worker \in {"running", "stopping", "terminal"}
    /\ generation \in Nat \ {0} /\ {counter, spent, faults} \subseteq Nat
    /\ frame \in [tokens : Nat, remaining : Nat, old : BOOLEAN]
    /\ allowance \in 0..Full
    /\ wrapUps \subseteq 1..MaxRevision
    /\ refresh.at \in Awaits
    /\ resuming \in BOOLEAN

\* "hard-stop-requested" is never recorded over a running worker: a stale
\* refresh, a resume that passed the gate earlier and an adjustment between
\* the stop and its record do not add up to a worker nobody will stop.
StopRecordedMeansStopped ==
    Declared /\ budget.enforcement = "hard-stop-requested" => worker # "running"

\* The durable measurement never exceeds what was really consumed, across
\* resumes whose counters start at zero and provider windows that are reset.
NeverOvercharged == Declared => budget.amount <= spent

\* The same for every meter but the provider's transcript: a redrawn terminal
\* counter, a window reset or a resume never charges the worker twice.
CounterNeverOvercharges == (Unit = "tokens" /\ Telemetry) \/ NeverOvercharged

Overrunning ==
    /\ Unit = "wall-clock-ms" /\ worker = "running"
    /\ Declared /\ spent >= budget.allocation

\* A worker that outlived its wall-clock allocation does not keep running
\* unless the allocation is extended, whatever failed in between.
OverrunIsStopped == Overrunning ~> ~Overrunning
===============================================================================
