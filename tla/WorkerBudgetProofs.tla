---- MODULE WorkerBudgetProofs ----
(* A worker is never charged for more than it consumed, and a recorded stop *)
(* is the stop of a worker that nobody starts again, for every allocation,  *)
(* every sequence of adjustments and every interleaving of refreshes.  The  *)
(* chains of a workflow's messages end.                                    *)
EXTENDS WorkerBudget, Workflows, TLAPS

-----------------------------------------------------------------------------
(* The inductive invariant *)

Frames == [tokens : Nat, remaining : Nat, old : BOOLEAN]

\* What refreshWorker holds at each of its awaits.
Enforcements == [at : {"wrap-up", "notify", "halt"}, then : {"measure", "idle"},
                 revision : 1..MaxRevision]
Readings == [at : {"reading"}, generation : Nat, count : Nat \cup {-1}, frame : Frames]
Refreshes == [at : {"idle", "measure", "committed"}] \cup Enforcements \cup Readings

Typed ==
    /\ TypeOK
    /\ refresh \in Refreshes
    /\ Declared => budget.revision <= MaxRevision
    /\ ~Declared => refresh = Idle

\* A process is started only over a terminal one.  While the stop of the current
\* revision waits for its record, and ever after that, the worker does not run,
\* no resume is past the gate, and none can pass it.
Halted ==
    /\ resuming => worker = "terminal"
    /\ refresh.at \in {"wrap-up", "notify", "halt"} => refresh.revision <= budget.revision
    /\ (refresh.at = "halt" /\ refresh.revision = budget.revision) =>
          worker # "running" /\ ~resuming /\ budget.enforcement \in HardStates
    /\ (Declared /\ budget.enforcement = "hard-stop-requested") =>
          worker # "running" /\ ~resuming

Above(m, n) == IF m > n THEN m - n ELSE 0
Amount == IF Declared THEN budget.amount ELSE 0
Left == IF Declared THEN budget.remaining ELSE -1
Standing(g) == IF Declared THEN Baseline(g) ELSE 0

\* What the stored window and the last frame still hold above the provider's
\* window was consumed and is not charged yet.
WindowMetered ==
    Unit = "percent" =>
        Amount + Above(Left, frame.remaining) + Above(frame.remaining, allowance) <= spent

\* The baseline of a generation was consumed before its counter started.  A
\* reading that outlives its generation was consumed before the next one.
CounterMetered ==
    Unit = "tokens" /\ ~Telemetry =>
        /\ Amount <= spent
        /\ Standing(generation) + counter <= spent
        /\ Declared => budget.generation <= generation
        /\ refresh.at = "reading" =>
              /\ budget.generation <= refresh.generation
              /\ refresh.generation <= generation
              /\ IF refresh.generation = generation THEN refresh.count <= counter
                 ELSE Standing(refresh.generation) + refresh.count + counter <= spent

ClockMetered == Unit = "wall-clock-ms" => Amount <= spent

Metered == WindowMetered /\ CounterMetered /\ ClockMetered

Inv == Typed /\ Halted /\ Metered

-----------------------------------------------------------------------------
(* What the actions do to the types *)

LEMMA AllocationsPositive ==
    ASSUME NEW b \in Budgets, NEW amount \in Nat \ {0}
    PROVE  /\ Adjusted(b, amount) \in Budgets
           /\ Adjusted(b, amount).revision = b.revision + 1
           /\ Adjusted(b, amount).enforcement # "hard-stop-requested"
           /\ \A f \in {"amount", "known", "generation", "baseline", "remaining"} :
                 Adjusted(b, amount)[f] = b[f]
  <1> DEFINE next == [b EXCEPT !.allocation = amount, !.revision = @ + 1]
  <1>0. b.revision + 1 \in Nat \ {0} /\ next.revision = b.revision + 1
    BY DEF Budgets
  <1>1. next \in Budgets
    <2>1. [b EXCEPT !.allocation = amount] \in Budgets
      BY DEF Budgets
    <2>2. next = [[b EXCEPT !.allocation = amount] EXCEPT !.revision = b.revision + 1]
      BY DEF Budgets
    <2> QED BY <1>0, <2>1, <2>2 DEF Budgets
  <1>2. \A f \in {"amount", "known", "generation", "baseline", "remaining"} : next[f] = b[f]
    BY DEF Budgets
  <1>3. Threshold(next) \in {"active", "soft-pending", "hard-reached"}
    BY DEF Threshold
  <1>4. Adjusted(b, amount) = [next EXCEPT !.enforcement = Threshold(next)]
    BY DEF Adjusted
  <1> HIDE DEF next
  <1> QED BY <1>0, <1>1, <1>2, <1>3, <1>4 DEF Budgets, EnforcementStates

LEMMA InitInv == Init => Inv
  <1> SUFFICES ASSUME Init PROVE Inv
    OBVIOUS
  <1>1. ~Declared
    BY DEF Init, Declared, Undeclared
  <1>2. TypeOK
    <2>1. frame \in [tokens : Nat, remaining : Nat, old : BOOLEAN]
      BY DEF Init, NoFrame
    <2>2. allowance \in 0 .. Full
      BY BudgetConstants DEF Init
    <2>3. setup \in Setups /\ budget \in Budgets \cup {Undeclared}
      BY DEF Init
    <2>4. /\ worker \in {"running", "stopping", "terminal"}
          /\ generation \in Nat \ {0} /\ {counter, spent, faults} \subseteq Nat
      BY DEF Init
    <2>5. wrapUps \subseteq 1 .. MaxRevision /\ resuming \in BOOLEAN
      BY DEF Init
    <2>6. refresh.at \in Awaits
      BY DEF Init, Idle, Awaits
    <2> QED BY <2>1, <2>2, <2>3, <2>4, <2>5, <2>6 DEF TypeOK
  <1>3. refresh \in Refreshes
    BY DEF Init, Refreshes, Idle
  <1>4. Typed
    BY <1>1, <1>2, <1>3 DEF Init, Typed
  <1>5. Halted
    BY <1>1 DEF Init, Halted, Idle
  <1>6. Metered
    <2>1. Amount = 0 /\ Left = -1 /\ \A g : Standing(g) = 0
      BY <1>1 DEF Amount, Left, Standing
    <2>2. Above(-1, 0) = 0 /\ Above(0, Full) = 0
      BY BudgetConstants DEF Above
    <2> QED BY <1>1, <2>1, <2>2
        DEF Init, NoFrame, Idle, Metered, WindowMetered, CounterMetered, ClockMetered
  <1> QED BY <1>4, <1>5, <1>6 DEF Inv

\* A declaration starts the meters of every unit at nothing charged.
LEMMA DeclareKeeps == Inv /\ Declare => Inv'
  <1> SUFFICES ASSUME Inv, Declare PROVE Inv'
    OBVIOUS
  <1> USE BudgetConstants
  <1>1. budget' \in Budgets /\ Declared' /\ ~Declared /\ refresh = Idle
    BY DEF Declare, Declared, Budgets, EnforcementStates, Inv, Typed
  <1>2. TypeOK'
    BY <1>1 DEF Declare, TypeOK, Inv, Typed, world
  <1>3. Typed'
    BY <1>1, <1>2 DEF Declare, Typed, Inv, world
  <1>4. Halted'
    BY <1>1 DEF Declare, Halted, Inv, world, Idle
  <1>5. Metered'
    BY <1>1, <1>2 DEF Declare, Metered, WindowMetered, CounterMetered, ClockMetered, Amount, Left,
       Standing, Above, TypeOK, Inv, world, Typed, Idle, Unit, Telemetry, Baseline, Declared
  <1> QED BY <1>3, <1>4, <1>5 DEF Inv

-----------------------------------------------------------------------------
(* Steps that leave the meters alone *)

MetersRest ==
    /\ UNCHANGED <<setup, generation, counter, frame, allowance, spent>>
    /\ Amount' = Amount /\ Left' = Left /\ \A g : Standing(g)' = Standing(g)
    /\ Declared' = Declared
    /\ Declared => budget'.generation = budget.generation
    /\ refresh'.at = "reading" => refresh' = refresh

LEMMA RestingMeters ==
    ASSUME Inv, MetersRest
    PROVE  Metered'
  <1>1. Unit' = Unit /\ Telemetry' = Telemetry
    BY DEF MetersRest, Unit, Telemetry
  <1>2. WindowMetered' /\ ClockMetered'
    BY <1>1 DEF MetersRest, Inv, Metered, WindowMetered, ClockMetered
  <1>3. refresh.at = "reading" => Declared
    BY DEF Inv, Typed, Idle
  <1>4. CounterMetered'
    BY <1>1, <1>3 DEF MetersRest, Inv, Metered, CounterMetered
  <1> QED BY <1>2, <1>4 DEF Metered

\* The budget does not move, and what refreshWorker holds is not a new reading.
LEMMA SameBudgetRests ==
    ASSUME UNCHANGED <<setup, generation, counter, frame, allowance, spent, budget>>,
           refresh'.at = "reading" => refresh' = refresh
    PROVE  MetersRest
  BY DEF MetersRest, Amount, Left, Standing, Baseline, Declared

LEMMA AdjustKeeps ==
    ASSUME Inv, NEW direction \in {"extend", "reduce"}, NEW step \in Steps,
           Adjust(direction, step)
    PROVE  Inv'
  <1> DEFINE amount == IF direction = "extend" THEN budget.allocation + step
                                               ELSE budget.allocation - step
  <1>1. budget \in Budgets /\ Declared /\ budget.revision < MaxRevision
    BY DEF Adjust, Inv, Typed, TypeOK, Declared, Undeclared
  <1>2. amount \in Nat \ {0}
    <2>1. step \in Nat /\ budget.allocation \in Nat
      BY <1>1, BudgetConstants DEF Budgets
    <2>2. amount > 0
      BY DEF Adjust, AllocationValid
    <2> QED BY <2>1, <2>2
  <1>3. budget' = Adjusted(budget, amount)
    BY DEF Adjust
  <1> HIDE DEF amount
  <1>4. /\ budget' \in Budgets /\ budget'.revision = budget.revision + 1
        /\ budget'.enforcement # "hard-stop-requested"
        /\ budget'.amount = budget.amount /\ budget'.known = budget.known
        /\ budget'.generation = budget.generation /\ budget'.baseline = budget.baseline
        /\ budget'.remaining = budget.remaining
    BY <1>1, <1>2, <1>3, AllocationsPositive
  <1>5. UNCHANGED <<world, worker, wrapUps, refresh, faults>>
    BY DEF Adjust
  <1>6. budget.revision \in Nat \ {0} /\ Declared'
    BY <1>1, <1>4 DEF Budgets, Declared
  <1>7. Typed'
    BY <1>1, <1>4, <1>5, <1>6, BudgetConstants DEF Inv, Typed, TypeOK, world
  <1>8. Halted'
    <2>1. refresh.at \in {"wrap-up", "notify", "halt"} => refresh.revision \in Nat
      BY BudgetConstants DEF Inv, Typed, Refreshes, Enforcements, Readings
    <2> QED BY <1>4, <1>5, <1>6, <2>1 DEF Inv, Halted, world
  <1>9. MetersRest
    BY <1>1, <1>4, <1>5, <1>6 DEF MetersRest, Amount, Left, Standing, Baseline, world
  <1> QED BY <1>7, <1>8, <1>9, RestingMeters DEF Inv

-----------------------------------------------------------------------------
(* The refresh *)

LEMMA PendingKeeps ==
    ASSUME Inv, NEW then \in {"measure", "idle"}, EnforcePending(then), Declared,
           UNCHANGED <<world, budget, wrapUps, faults>>
    PROVE  Inv'
  <1>1. budget \in Budgets /\ budget.revision \in 1 .. MaxRevision
    BY BudgetConstants DEF Inv, Typed, TypeOK, Declared, Undeclared, Budgets
  <1>2. /\ refresh' \in Refreshes /\ refresh'.at \in Awaits /\ refresh'.at # "reading"
        /\ refresh'.at \in {"wrap-up", "notify", "halt"} => refresh'.revision = budget.revision
        /\ refresh'.at = "halt" => ~Terminal /\ budget.enforcement = "hard-reached"
    BY <1>1 DEF EnforcePending, Refreshes, Enforcements, Awaits
  <1>3. /\ worker' \in {"running", "stopping", "terminal"}
        /\ worker = "terminal" => worker' = "terminal"
        /\ worker # "running" => worker' # "running"
        /\ refresh'.at = "halt" => worker' # "running"
    BY DEF EnforcePending, Stopped, Inv, Typed, TypeOK, Terminal
  <1>4. Typed'
    BY <1>2, <1>3 DEF Inv, Typed, TypeOK, world, Declared
  <1>5. Halted'
    BY <1>1, <1>2, <1>3 DEF Inv, Halted, world, Declared, Terminal, HardStates
  <1>6. MetersRest
    BY <1>2, SameBudgetRests DEF world
  <1> QED BY <1>4, <1>5, <1>6, RestingMeters DEF Inv

LEMMA EnqueueKeeps == Inv /\ EnqueueWrapUp => Inv'
  <1> SUFFICES ASSUME Inv, EnqueueWrapUp PROVE Inv'
    OBVIOUS
  <1>1. refresh \in Enforcements /\ Declared
    BY DEF EnqueueWrapUp, Inv, Typed, Refreshes, Enforcements, Readings, Idle
  <1>2. refresh' \in Enforcements /\ refresh'.at = "notify" /\ refresh'.revision = refresh.revision
    BY <1>1 DEF EnqueueWrapUp, Enforcements
  <1>3. wrapUps' \subseteq 1 .. MaxRevision
    BY <1>1 DEF EnqueueWrapUp, Enforcements, Inv, Typed, TypeOK
  <1>4. Typed'
    BY <1>1, <1>2, <1>3 DEF EnqueueWrapUp, Inv, Typed, TypeOK, world, Declared, Refreshes, Awaits
  <1>5. Halted'
    BY <1>1, <1>2 DEF EnqueueWrapUp, Inv, Halted, world, Declared, Enforcements
  <1>6. MetersRest
    BY <1>2, SameBudgetRests DEF EnqueueWrapUp, world
  <1> QED BY <1>4, <1>5, <1>6, RestingMeters DEF Inv

LEMMA AdvanceKeeps ==
    ASSUME Inv, NEW state \in {"soft-notified", "hard-stop-requested"}, Advance(state),
           refresh.at = IF state = "soft-notified" THEN "notify" ELSE "halt"
    PROVE  Inv'
  <1>1. refresh \in Enforcements /\ Declared
    BY DEF Inv, Typed, Refreshes, Enforcements, Readings, Idle
  <1>2. budget \in Budgets
    BY <1>1 DEF Inv, Typed, TypeOK, Declared, Undeclared
  <1>3. UNCHANGED <<world, worker, wrapUps, faults>>
    BY DEF Advance
  <1>4. refresh' \in [at : {"idle", "measure"}]
    BY <1>1 DEF Advance, Enforcements, Idle
  <1>5. \/ budget' = budget
        \/ /\ budget' = [budget EXCEPT !.enforcement = state]
           /\ refresh.revision = budget.revision
    BY DEF Advance, RevisionMatches
  <1>6. /\ budget' \in Budgets /\ budget'.revision = budget.revision
        /\ budget'.amount = budget.amount /\ budget'.known = budget.known
        /\ budget'.generation = budget.generation /\ budget'.baseline = budget.baseline
        /\ budget'.remaining = budget.remaining
        /\ \/ budget' = budget
           \/ budget'.enforcement = state /\ refresh.revision = budget.revision
    BY <1>2, <1>5 DEF Budgets, EnforcementStates
  <1>7. Declared'
    BY <1>1, <1>6 DEF Declared
  <1>8. Typed'
    BY <1>1, <1>3, <1>4, <1>6, <1>7 DEF Inv, Typed, TypeOK, world, Refreshes, Awaits
  <1>9. Halted'
    BY <1>1, <1>3, <1>4, <1>6, <1>7 DEF Inv, Halted, world
  <1>10. MetersRest
    BY <1>1, <1>3, <1>4, <1>6, <1>7 DEF MetersRest, Amount, Left, Standing, Baseline, world
  <1> QED BY <1>8, <1>9, <1>10, RestingMeters DEF Inv

\* A reading starts in the generation that is running, or that has just ended.
LEMMA MeasureKeeps ==
    ASSUME Inv, NEW count \in {-1, 0, counter}, Measure(count)
    PROVE  Inv'
  <1>0. Declared /\ budget \in Budgets
    BY DEF Measure, Inv, Typed, TypeOK, Idle, Declared, Undeclared
  <1>1. CASE Terminal \/ Exhausted
    <2>1. refresh' = Idle
      BY <1>1 DEF Measure
    <2>2. Typed'
      BY <1>0, <2>1 DEF Measure, Inv, Typed, TypeOK, world, Declared, Refreshes, Idle, Awaits
    <2>3. Halted'
      BY <1>0, <2>1 DEF Measure, Inv, Halted, world, Declared, Idle
    <2>4. MetersRest
      BY <2>1, SameBudgetRests DEF Measure, world, Idle
    <2> QED BY <2>2, <2>3, <2>4, RestingMeters DEF Inv
  <1>2. CASE ~(Terminal \/ Exhausted)
    <2>1. refresh' = [at |-> "reading", generation |-> generation, count |-> count, frame |-> frame]
      BY <1>2 DEF Measure
    <2>2. UNCHANGED <<world, budget, worker, wrapUps, faults>>
      BY DEF Measure
    <2>3. refresh' \in Readings
      BY <2>1 DEF Readings, Frames, Inv, Typed, TypeOK
    <2>4. Typed'
      BY <1>0, <2>1, <2>2, <2>3 DEF Inv, Typed, TypeOK, world, Declared, Refreshes, Awaits
    <2>5. Halted'
      BY <1>0, <2>1, <2>2 DEF Inv, Halted, world, Declared
    <2>6. CounterMetered'
      <3>1. counter \in Nat /\ count <= counter
        BY DEF Inv, Typed, TypeOK
      <3>2. /\ Unit' = Unit /\ Telemetry' = Telemetry /\ Amount' = Amount /\ Declared' = Declared
            /\ Standing(generation)' = Standing(generation)
        BY <2>2 DEF world, Unit, Telemetry, Amount, Standing, Baseline, Declared
      <3> QED BY <1>0, <2>1, <2>2, <3>1, <3>2 DEF Inv, Typed, TypeOK, Metered, CounterMetered, world
    <2>7. WindowMetered' /\ ClockMetered'
      BY <2>2 DEF Inv, Metered, WindowMetered, ClockMetered, Amount, Left, Declared, Unit, world
    <2> QED BY <2>4, <2>5, <2>6, <2>7 DEF Inv, Metered
  <1> QED BY <1>1, <1>2

\* What is committed of a measurement keeps the declaration and the enforcement it found.
LEMMA CommitKeepsTypes ==
    ASSUME Inv, Declared, NEW measured \in Budgets, Commit(measured),
           measured.revision = budget.revision, measured.enforcement = budget.enforcement,
           worker' = worker, resuming' = resuming
    PROVE  /\ budget' \in Budgets /\ Declared' /\ budget'.revision = budget.revision
           /\ budget'.amount = measured.amount /\ budget'.known = measured.known
           /\ budget'.generation = measured.generation /\ budget'.baseline = measured.baseline
           /\ budget'.remaining = measured.remaining
           /\ refresh' = [at |-> "committed"]
           /\ Halted'
  <1>1. Threshold(measured) \in {"active", "soft-pending", "hard-reached"}
    BY DEF Threshold
  <1>2. ObservedEnforcement(measured) \in EnforcementStates
    BY <1>1 DEF ObservedEnforcement, EnforcementStates, Budgets
  <1>3. ObservedEnforcement(measured) = "hard-stop-requested" => budget.enforcement = "hard-stop-requested"
    BY <1>1 DEF ObservedEnforcement
  <1>4. budget' = [measured EXCEPT !.enforcement = ObservedEnforcement(measured)]
    BY DEF Commit
  <1>5. /\ budget' \in Budgets /\ budget'.revision = budget.revision
        /\ budget'.enforcement = ObservedEnforcement(measured)
        /\ budget'.amount = measured.amount /\ budget'.known = measured.known
        /\ budget'.generation = measured.generation /\ budget'.baseline = measured.baseline
        /\ budget'.remaining = measured.remaining
    BY <1>2, <1>4 DEF Budgets
  <1>6. Declared'
    BY <1>5 DEF Declared
  <1>7. Halted'
    BY <1>3, <1>5, <1>6 DEF Inv, Halted, Commit
  <1> QED BY <1>5, <1>6, <1>7 DEF Commit

\* Three shapes of a measurement: the clock, the provider's window, a counter.
LEMMA ObserveKeeps ==
    ASSUME Inv, NEW readable \in BOOLEAN, Observe(readable)
    PROVE  Inv'
  <1> DEFINE framed == readable /\ Telemetry /\ frame # NoFrame
  <1>0. Declared /\ budget \in Budgets /\ refresh \in Readings
    BY DEF Observe, Inv, Typed, TypeOK, Declared, Undeclared, Refreshes, Enforcements, Idle
  <1>1. /\ UNCHANGED <<setup, worker, generation, counter, allowance, spent, wrapUps, resuming, faults>>
        /\ Unit' = Unit /\ Telemetry' = Telemetry
    BY DEF Observe, Unit, Telemetry
  <1>2. /\ refresh.generation \in Nat /\ refresh.count \in Int /\ refresh.at = "reading"
        /\ frame \in Frames /\ spent \in Nat /\ counter \in Nat /\ generation \in Nat
        /\ allowance \in Int
    BY <1>0, BudgetConstants DEF Readings, Inv, Typed, TypeOK, Frames
  <1>3. /\ budget.amount \in Nat /\ budget.baseline \in Nat /\ budget.generation \in Nat
        /\ budget.remaining \in Int /\ budget.known \in BOOLEAN
    BY <1>0 DEF Budgets
  <1>4. ASSUME NEW measured \in Budgets, Commit(measured), frame' \in Frames,
               measured.revision = budget.revision, measured.enforcement = budget.enforcement,
               Metered'
        PROVE  Inv'
    <2>1. /\ budget' \in Budgets /\ Declared' /\ budget'.revision = budget.revision
          /\ refresh' = [at |-> "committed"] /\ Halted'
      BY <1>0, <1>1, <1>4, CommitKeepsTypes
    <2>2. Typed'
      BY <1>0, <1>1, <1>4, <2>1 DEF Inv, Typed, TypeOK, Refreshes, Awaits, Frames
    <2> QED BY <1>4, <2>1, <2>2 DEF Inv
  <1>5. CASE Unit = "wall-clock-ms"
    <2> DEFINE measured == [budget EXCEPT !.known = TRUE, !.amount = AtLeast(budget.amount, spent)]
    <2>1. Commit(measured) /\ frame' = frame
      BY <1>5 DEF Observe
    <2>2. /\ measured \in Budgets /\ measured.revision = budget.revision
          /\ measured.enforcement = budget.enforcement
          /\ measured.amount = AtLeast(budget.amount, spent)
      BY <1>0, <1>2, <1>3 DEF Budgets, AtLeast
    <2> HIDE DEF measured
    <2>3. budget'.amount = measured.amount /\ Declared'
      BY <1>0, <1>1, <2>1, <2>2, CommitKeepsTypes
    <2>4. Metered'
      BY <1>0, <1>1, <1>2, <1>3, <1>5, <2>2, <2>3 DEF Inv, Metered, WindowMetered, CounterMetered, ClockMetered, Amount, AtLeast
    <2> QED BY <1>2, <1>4, <2>1, <2>2, <2>4
  <1>6. CASE Unit = "percent" /\ framed
    <2> DEFINE charged == budget.amount + ConsumedPercent(frame.remaining)
               measured == [budget EXCEPT !.known = TRUE, !.remaining = frame.remaining,
                                          !.amount = charged]
    <2>1. Commit(measured) /\ frame' = frame
      BY <1>6 DEF Observe
    <2>2. frame.remaining \in Nat /\ ConsumedPercent(frame.remaining) = Above(budget.remaining, frame.remaining)
      BY <1>0, <1>2, <1>3 DEF ConsumedPercent, Above, Frames, Budgets
    <2>3. charged \in Nat
      BY <1>3, <2>2 DEF Above
    <2> HIDE DEF charged
    <2>4. /\ measured \in Budgets /\ measured.revision = budget.revision
          /\ measured.enforcement = budget.enforcement
          /\ measured.amount = charged /\ measured.remaining = frame.remaining
      BY <1>0, <2>2, <2>3 DEF Budgets
    <2> HIDE DEF measured
    <2>5. budget'.amount = charged /\ budget'.remaining = frame.remaining /\ Declared'
      BY <1>0, <1>1, <2>1, <2>4, CommitKeepsTypes
    <2>6. WindowMetered'
      <3>1. budget.amount + Above(budget.remaining, frame.remaining) + Above(frame.remaining, allowance) <= spent
        BY <1>0, <1>6 DEF Inv, Metered, WindowMetered, Amount, Left
      <3>2. Above(frame.remaining, frame.remaining) = 0 /\ Above(frame.remaining, allowance) \in Nat
        BY <1>2, <2>2 DEF Above
      <3>3. charged + Above(frame.remaining, frame.remaining) + Above(frame.remaining, allowance) <= spent
        BY <1>2, <1>3, <2>2, <2>3, <3>1, <3>2 DEF charged
      <3> QED BY <1>1, <2>1, <2>5, <3>3 DEF WindowMetered, Amount, Left
    <2>7. Metered'
      BY <1>1, <1>6, <2>6 DEF Metered, CounterMetered, ClockMetered
    <2> QED BY <1>2, <1>4, <2>1, <2>4, <2>7
  <1>7. ASSUME Unit = "tokens", NEW tokens \in Nat, Commit(WithTokens(tokens)), frame' \in Frames,
               Telemetry \/ tokens = refresh.count
        PROVE  Inv'
    <2> DEFINE baseline == Baseline(refresh.generation)
               charged == AtLeast(budget.amount, baseline + tokens)
               measured == WithTokens(tokens)
    <2>1. baseline \in Nat /\ charged \in Nat
      BY <1>3, <1>7 DEF Baseline, AtLeast
    <2>2. measured = [budget EXCEPT !.known = TRUE, !.generation = refresh.generation,
                                    !.baseline = baseline, !.amount = charged]
      BY DEF WithTokens
    <2>3. /\ measured \in Budgets /\ measured.revision = budget.revision
          /\ measured.enforcement = budget.enforcement
          /\ measured.known = TRUE /\ measured.generation = refresh.generation
          /\ measured.baseline = baseline /\ measured.amount = charged
      <3> HIDE DEF baseline, charged, measured
      <3> QED BY <1>0, <1>2, <2>1, <2>2 DEF Budgets
    <2> HIDE DEF measured
    <2>4. /\ budget'.amount = charged /\ budget'.generation = refresh.generation
          /\ budget'.known = TRUE /\ budget'.baseline = baseline /\ Declared'
          /\ refresh' = [at |-> "committed"]
      <3>1. Commit(measured)
        BY <1>7 DEF measured
      <3> HIDE DEF baseline, charged
      <3> QED BY <1>0, <1>1, <2>3, <3>1, CommitKeepsTypes
    <2>5. CounterMetered'
      <3> SUFFICES ASSUME ~Telemetry
                   PROVE  /\ Amount' <= spent
                          /\ Standing(generation)' + counter <= spent
                          /\ budget'.generation <= generation
        BY <1>1, <2>4 DEF CounterMetered
      <3>1. /\ budget.amount <= spent
            /\ Baseline(generation) + counter <= spent
            /\ budget.generation <= refresh.generation /\ refresh.generation <= generation
            /\ IF refresh.generation = generation THEN refresh.count <= counter
               ELSE baseline + refresh.count + counter <= spent
        BY <1>0, <1>2, <1>7 DEF Inv, Metered, CounterMetered, Amount, Standing
      <3>2. tokens = refresh.count
        BY <1>7
      <3>3. Amount' = charged
        BY <2>4 DEF Amount
      <3>4. CASE refresh.generation = generation
        <4>1. Standing(generation)' = baseline
          BY <1>1, <2>4, <3>4 DEF Standing, Baseline
        <4>2. baseline + counter <= spent
          BY <3>1, <3>4
        <4>3. charged <= spent
          BY <1>2, <1>3, <2>1, <3>1, <3>2, <3>4, <4>2 DEF AtLeast
        <4> QED BY <2>4, <3>1, <3>3, <4>1, <4>2, <4>3
      <3>5. CASE refresh.generation # generation
        <4>1. Standing(generation)' = charged
          BY <1>1, <2>4, <3>5 DEF Standing, Baseline
        <4>2. budget.amount + counter <= spent
          BY <1>2, <1>3, <3>1, <3>5 DEF Baseline
        <4>3. charged + counter <= spent
          BY <1>2, <1>3, <2>1, <3>1, <3>2, <3>5, <4>2 DEF AtLeast
        <4> QED BY <1>2, <2>1, <2>4, <3>1, <3>3, <4>1, <4>3
      <3> QED BY <3>4, <3>5
    <2>6. Metered'
      BY <1>1, <1>7, <2>5 DEF Metered, WindowMetered, ClockMetered
    <2> QED BY <1>4, <1>7, <2>3, <2>6 DEF measured
  <1>8. CASE Unit = "tokens" /\ framed
    <2>1. CASE frame.old
      <3>1. Commit(budget) /\ frame' = frame
        BY <1>8, <2>1 DEF Observe
      <3>2. /\ Telemetry /\ budget.revision = budget.revision
        BY <1>8
      <3>3. Metered'
        BY <1>1, <1>8 DEF Metered, WindowMetered, CounterMetered, ClockMetered
      <3> QED BY <1>0, <1>2, <1>4, <3>1, <3>3
    <2>2. CASE ~frame.old
      <3>1. Commit(WithTokens(frame.tokens)) /\ frame' = frame
        BY <1>8, <2>2 DEF Observe
      <3> QED BY <1>2, <1>7, <1>8, <3>1 DEF Frames
    <2> QED BY <2>1, <2>2
  <1>9. CASE Unit = "tokens" /\ ~framed /\ refresh.count >= 0
    <2>1. Commit(WithTokens(refresh.count))
      BY <1>2, <1>9 DEF Observe
    <2>2. frame' \in Frames
      BY <1>2, <1>9 DEF Observe, Frames
    <2> QED BY <1>2, <1>7, <1>9, <2>1, <2>2
  <1>10. CASE ~framed /\ Unit # "wall-clock-ms" /\ (Unit = "tokens" => refresh.count < 0)
    <2>1. refresh' = Idle /\ UNCHANGED <<budget, frame>>
      BY <1>2, <1>10 DEF Observe
    <2>2. Typed'
      BY <1>0, <1>1, <2>1 DEF Inv, Typed, TypeOK, Declared, Refreshes, Idle, Awaits
    <2>3. Halted'
      BY <1>0, <1>1, <2>1 DEF Inv, Halted, Declared, Idle
    <2>4. MetersRest
      BY <1>1, <2>1, SameBudgetRests DEF Idle
    <2> QED BY <2>2, <2>3, <2>4, RestingMeters DEF Inv
  <1> QED BY <1>2, <1>5, <1>6, <1>8, <1>9, <1>10 DEF Observe

-----------------------------------------------------------------------------
(* The registry, the worker and the machine *)

LEMMA RegistryKeeps ==
    ASSUME Inv, Resume \/ Stop \/ Exit
    PROVE  Inv'
  <1>1. /\ UNCHANGED <<setup, budget, generation, counter, frame, allowance, spent, wrapUps, refresh, faults>>
        /\ worker' \in {"running", "stopping", "terminal"} /\ resuming' \in BOOLEAN
    BY DEF Resume, Stop, Exit, Stopped, world, Inv, Typed, TypeOK
  <1>2. Typed'
    BY <1>1 DEF Inv, Typed, TypeOK, Declared
  <1>3. Halted'
    <2>1. CASE Resume
      BY <1>1, <2>1 DEF Resume, MayConsume, Exhausted, HardStates, Terminal, Inv, Halted, Declared,
         Typed, Idle
    <2>2. CASE Stop
      BY <1>1, <2>2 DEF Stop, Stopped, world, Inv, Halted, Declared
    <2>3. CASE Exit
      BY <1>1, <2>3 DEF Exit, world, Inv, Halted, Declared
    <2> QED BY <2>1, <2>2, <2>3
  <1>4. MetersRest
    BY <1>1, SameBudgetRests
  <1> QED BY <1>2, <1>3, <1>4, RestingMeters DEF Inv

\* The counter of the new process starts at zero over what was consumed before.
LEMMA ResumeRuntimeKeeps == Inv /\ ResumeRuntime => Inv'
  <1> SUFFICES ASSUME Inv, ResumeRuntime PROVE Inv'
    OBVIOUS
  <1>1. /\ UNCHANGED <<setup, budget, frame, allowance, spent, wrapUps, refresh, faults>>
        /\ resuming /\ resuming' = FALSE /\ worker' = "running"
        /\ generation' = generation + 1 /\ counter' = 0
    BY DEF ResumeRuntime
  <1>2. generation \in Nat /\ counter \in Nat /\ spent \in Nat
    BY DEF Inv, Typed, TypeOK
  <1>3. Typed'
    <2>1. generation' \in Nat \ {0} /\ {counter', spent', faults'} \subseteq Nat
      BY <1>1, <1>2 DEF Inv, Typed, TypeOK
    <2> QED BY <1>1, <2>1 DEF Inv, Typed, TypeOK, Declared
  <1>4. Halted'
    BY <1>1 DEF Inv, Halted, Declared
  <1>5. Unit' = Unit /\ Telemetry' = Telemetry /\ Amount' = Amount /\ Declared' = Declared
    BY <1>1 DEF Unit, Telemetry, Amount, Declared
  <1>6. CounterMetered'
    <2> SUFFICES ASSUME Unit = "tokens", ~Telemetry
                 PROVE  CounterMetered'
      BY <1>5 DEF CounterMetered
    <2>1. /\ Amount <= spent /\ Standing(generation) + counter <= spent
          /\ Declared => budget.generation <= generation
      BY DEF Inv, Metered, CounterMetered
    <2>2. Declared => /\ budget.generation \in Nat /\ budget.amount \in Nat
                      /\ budget.baseline \in Nat
      BY DEF Inv, Typed, TypeOK, Declared, Undeclared, Budgets
    <2>3. Standing(generation)' = Amount
      BY <1>1, <1>2, <1>5, <2>1, <2>2 DEF Standing, Baseline, Amount
    <2>4. Amount \in Nat /\ \A g : Standing(g) \in Nat
      BY <2>2 DEF Amount, Standing, Baseline
    <2>5. Declared => budget.generation <= generation + 1
      BY <1>2, <2>1, <2>2
    <2>6. ASSUME refresh.at = "reading"
          PROVE  /\ budget.generation <= refresh.generation
                 /\ refresh.generation <= generation + 1 /\ refresh.generation # generation + 1
                 /\ Standing(refresh.generation) + refresh.count + 0 <= spent
                 /\ Standing(refresh.generation)' = Standing(refresh.generation)
      <3>1. refresh.generation \in Nat /\ refresh.count \in Int /\ Declared
        BY <2>6 DEF Inv, Typed, Refreshes, Readings, Enforcements, Idle
      <3>2. /\ budget.generation <= refresh.generation /\ refresh.generation <= generation
            /\ IF refresh.generation = generation THEN refresh.count <= counter
               ELSE Standing(refresh.generation) + refresh.count + counter <= spent
        BY <2>6 DEF Inv, Metered, CounterMetered
      <3>3. Standing(refresh.generation) \in Nat
        BY <2>4
      <3>4. Standing(refresh.generation)' = Standing(refresh.generation)
        BY <1>1, <1>5 DEF Standing, Baseline
      <3>5. Standing(refresh.generation) + refresh.count <= spent
        BY <1>2, <2>1, <3>1, <3>2, <3>3
      <3> QED BY <1>2, <3>1, <3>2, <3>3, <3>4, <3>5
    <2> QED BY <1>1, <1>2, <1>5, <2>1, <2>3, <2>4, <2>5, <2>6 DEF CounterMetered
  <1>7. WindowMetered' /\ ClockMetered'
    BY <1>1, <1>5 DEF Inv, Metered, WindowMetered, ClockMetered, Left, Declared
  <1> QED BY <1>3, <1>4, <1>6, <1>7 DEF Inv, Metered

\* What is consumed lowers the window or raises the counter by as much.
LEMMA ConsumeKeeps == Inv /\ Consume => Inv'
  <1> SUFFICES ASSUME Inv, Consume PROVE Inv'
    OBVIOUS
  <1>1. /\ UNCHANGED <<setup, budget, worker, generation, frame, wrapUps, refresh, resuming, faults>>
        /\ spent' = spent + 1
        /\ counter' = IF Unit = "tokens" THEN counter + 1 ELSE counter
        /\ allowance' = IF Unit = "percent" THEN allowance - 1 ELSE allowance
        /\ Unit = "percent" => allowance > 0
    BY DEF Consume
  <1>2. /\ spent \in Nat /\ counter \in Nat /\ generation \in Nat /\ allowance \in 0 .. Full
        /\ Full \in Nat /\ frame \in Frames
    BY BudgetConstants DEF Inv, Typed, TypeOK, Frames
  <1>3. spent' \in Nat /\ counter' \in Nat /\ allowance' \in 0 .. Full
    BY <1>1, <1>2
  <1>4. Typed'
    <2>1. {counter', spent', faults'} \subseteq Nat
      BY <1>1, <1>3 DEF Inv, Typed, TypeOK
    <2> QED BY <1>1, <1>3, <2>1 DEF Inv, Typed, TypeOK, Declared
  <1>5. Halted'
    BY <1>1 DEF Inv, Halted, Declared
  <1>6. /\ Unit' = Unit /\ Telemetry' = Telemetry /\ Amount' = Amount /\ Declared' = Declared
        /\ Left' = Left /\ Standing(generation)' = Standing(generation)
        /\ Standing(refresh.generation)' = Standing(refresh.generation)
    BY <1>1 DEF Unit, Telemetry, Amount, Left, Standing, Baseline, Declared
  <1>7. Declared => /\ budget.generation \in Nat /\ budget.amount \in Nat
                    /\ budget.baseline \in Nat /\ budget.remaining \in Int
    BY DEF Inv, Typed, TypeOK, Declared, Undeclared, Budgets
  <1>8. Amount \in Nat /\ Left \in Int /\ \A g : Standing(g) \in Nat
    BY <1>7 DEF Amount, Left, Standing, Baseline
  <1>9. WindowMetered'
    <2>1. frame.remaining \in Nat
      BY <1>2 DEF Frames
    <2>2. Unit = "percent" => Above(frame.remaining, allowance') <= Above(frame.remaining, allowance) + 1
      BY <1>1, <1>2, <2>1 DEF Above
    <2>3. Above(frame.remaining, allowance) \in Nat /\ Above(frame.remaining, allowance') \in Nat
          /\ Above(Left, frame.remaining) \in Nat
      BY <1>2, <1>3, <1>8, <2>1 DEF Above
    <2> QED BY <1>1, <1>2, <1>6, <1>8, <2>2, <2>3 DEF Inv, Metered, WindowMetered
  <1>10. CounterMetered'
    <2> SUFFICES ASSUME Unit = "tokens", ~Telemetry
                 PROVE  CounterMetered'
      BY <1>6 DEF CounterMetered
    <2>1. counter' = counter + 1
      BY <1>1
    <2>2. refresh.at = "reading" => refresh.count \in Int /\ refresh.generation \in Nat
      BY DEF Inv, Typed, Refreshes, Readings, Enforcements, Idle
    <2> QED BY <1>1, <1>2, <1>6, <1>8, <2>1, <2>2 DEF Inv, Metered, CounterMetered
  <1>11. ClockMetered'
    BY <1>1, <1>2, <1>6, <1>8 DEF Inv, Metered, ClockMetered
  <1> QED BY <1>4, <1>5, <1>9, <1>10, <1>11 DEF Inv, Metered

\* A newer frame, or a full window, accounts for no more than before.
LEMMA ProviderKeeps ==
    ASSUME Inv, WriteFrame \/ WindowReset
    PROVE  Inv'
  <1>1. UNCHANGED <<setup, budget, worker, generation, counter, spent, wrapUps, refresh, resuming, faults>>
    BY DEF WriteFrame, WindowReset
  <1>2. /\ counter \in Nat /\ allowance \in 0 .. Full /\ Full \in Nat /\ spent \in Nat
        /\ frame \in Frames
    BY BudgetConstants DEF Inv, Typed, TypeOK, Frames
  <1>3. /\ frame' \in Frames /\ allowance' \in 0 .. Full
        /\ \/ frame'.remaining = allowance /\ allowance' = allowance
           \/ frame' = frame /\ allowance' = Full
    <2>1. CASE WriteFrame
      <3>1. frame' = [tokens |-> counter, remaining |-> allowance, old |-> FALSE]
            /\ allowance' = allowance
        BY <2>1 DEF WriteFrame
      <3>2. allowance \in Nat
        BY <1>2
      <3> QED BY <1>2, <3>1, <3>2 DEF Frames
    <2>2. CASE WindowReset
      BY <1>2, <2>2 DEF WindowReset
    <2> QED BY <2>1, <2>2
  <1>4. Typed'
    BY <1>1, <1>3 DEF Inv, Typed, TypeOK, Declared, Frames
  <1>5. Halted'
    BY <1>1 DEF Inv, Halted, Declared
  <1>6. CounterMetered' /\ ClockMetered'
    BY <1>1 DEF Inv, Metered, CounterMetered, ClockMetered, Amount, Standing, Baseline, Declared,
       Unit, Telemetry
  <1>7. WindowMetered'
    <2>1. Amount' = Amount /\ Left' = Left /\ Unit' = Unit
      BY <1>1 DEF Amount, Left, Declared, Unit
    <2>2. Declared => budget.amount \in Nat /\ budget.remaining \in Int
      BY DEF Inv, Typed, TypeOK, Declared, Undeclared, Budgets
    <2>3. Amount \in Nat /\ Left \in Int /\ frame.remaining \in Nat /\ frame'.remaining \in Nat
      BY <1>2, <1>3, <2>2 DEF Amount, Left, Frames
    <2>4. Above(Left, frame'.remaining) + Above(frame'.remaining, allowance')
          <= Above(Left, frame.remaining) + Above(frame.remaining, allowance)
      BY <1>2, <1>3, <2>3 DEF Above
    <2>5. Above(Left, frame'.remaining) \in Nat /\ Above(frame'.remaining, allowance') \in Nat
          /\ Above(Left, frame.remaining) \in Nat /\ Above(frame.remaining, allowance) \in Nat
      BY <1>2, <1>3, <2>3 DEF Above
    <2> QED BY <1>1, <1>2, <2>1, <2>3, <2>4, <2>5 DEF Inv, Metered, WindowMetered
  <1> QED BY <1>4, <1>5, <1>6, <1>7 DEF Inv, Metered

\* A failed await and a crash drop what the refresh held, and nothing durable.
LEMMA FaultKeeps ==
    ASSUME Inv, RefreshFails \/ Crash
    PROVE  Inv'
  <1>1. /\ UNCHANGED <<setup, budget, generation, counter, frame, allowance, spent, wrapUps>>
        /\ refresh' = Idle /\ worker' \in {worker, "terminal"} /\ faults' = faults + 1
        /\ (resuming' = resuming /\ worker' = worker) \/ resuming' = FALSE
    BY DEF RefreshFails, Crash, world
  <1>2. {counter', spent', faults'} \subseteq Nat
    BY <1>1 DEF Inv, Typed, TypeOK
  <1>3. Typed'
    BY <1>1, <1>2 DEF Inv, Typed, TypeOK, Declared, Refreshes, Idle, Awaits
  <1>4. Halted'
    BY <1>1 DEF Inv, Halted, Declared, Idle
  <1>5. MetersRest
    BY <1>1, SameBudgetRests DEF Idle
  <1> QED BY <1>3, <1>4, <1>5, RestingMeters DEF Inv

-----------------------------------------------------------------------------
(* The theorems *)

LEMMA NextKeepsInv == Inv /\ [Next]_vars => Inv'
  <1> SUFFICES ASSUME Inv, [Next]_vars PROVE Inv'
    OBVIOUS
  <1>1. ASSUME NEW direction \in {"extend", "reduce"}, NEW step \in Steps, Adjust(direction, step)
        PROVE  Inv'
    BY <1>1, AdjustKeeps
  <1>2. CASE Refresh
    BY <1>2, PendingKeeps DEF Refresh
  <1>3. CASE EnforceObserved
    <2>1. Declared
      BY <1>3 DEF EnforceObserved, Inv, Typed, Idle
    <2> QED BY <1>3, <2>1, PendingKeeps DEF EnforceObserved
  <1>4. CASE AdvanceSoft \/ AdvanceHard
    BY <1>4, AdvanceKeeps DEF AdvanceSoft, AdvanceHard
  <1>5. ASSUME NEW count \in {-1, 0, counter}, Measure(count)
        PROVE  Inv'
    BY <1>5, MeasureKeeps
  <1>6. ASSUME NEW readable \in BOOLEAN, Observe(readable)
        PROVE  Inv'
    BY <1>6, ObserveKeeps
  <1>7. CASE UNCHANGED vars
    <2>1. Typed' /\ Halted'
      BY <1>7 DEF vars, Inv, Typed, TypeOK, Halted, Declared
    <2>2. MetersRest
      BY <1>7, SameBudgetRests DEF vars
    <2> QED BY <2>1, <2>2, RestingMeters DEF Inv
  <1> QED BY <1>1, <1>2, <1>3, <1>4, <1>5, <1>6, <1>7, DeclareKeeps, EnqueueKeeps, RegistryKeeps,
             ResumeRuntimeKeeps, ConsumeKeeps, ProviderKeeps, FaultKeeps DEF Next, Enforcer

LEMMA SpecInv == Spec => []Inv
  BY InitInv, NextKeepsInv, PTL DEF Spec

\* The durable record, the refresh and the meters are well formed in every
\* reachable state, for any allocation, any steps and any number of faults.
THEOREM BudgetTypeCorrect == Spec => []TypeOK
  <1>1. Inv => TypeOK
    BY DEF Inv, Typed
  <1> QED BY <1>1, SpecInv, PTL

\* "hard-stop-requested" is never recorded over a running worker: the revision
\* that assertBudgetRevision compares protects the stop from every adjustment, and
\* assertMayConsume protects it from every resume.
THEOREM BudgetStopIsStopped == Spec => []StopRecordedMeansStopped
  <1>1. Inv => StopRecordedMeansStopped
    BY DEF Inv, Halted, StopRecordedMeansStopped
  <1> QED BY <1>1, SpecInv, PTL

\* The baseline of a generation, consumedDelta and the clock never charge more than
\* was consumed, for any number of resumes, redrawn counters and window resets.
THEOREM BudgetNeverOvercharges == Spec => []CounterNeverOvercharges
  <1>1. ASSUME Inv PROVE CounterNeverOvercharges
    <2>1. setup \in Units \X BOOLEAN
      BY <1>1, BudgetConstants DEF Inv, Typed, TypeOK
    <2>2. Unit \in {"tokens", "percent", "wall-clock-ms"}
      BY <2>1 DEF Unit, Units
    <2>3. SUFFICES ASSUME Declared, ~(Unit = "tokens" /\ Telemetry)
                   PROVE  budget.amount <= spent
      BY DEF CounterNeverOvercharges, NeverOvercharged
    <2>4. Amount = budget.amount /\ budget.amount \in Nat /\ budget.remaining \in Int
      BY <1>1, <2>3 DEF Amount, Inv, Typed, TypeOK, Declared, Undeclared, Budgets
    <2>5. CASE Unit = "percent"
      <3>1. frame.remaining \in Nat /\ allowance \in Int /\ spent \in Nat
        BY <1>1, BudgetConstants DEF Inv, Typed, TypeOK
      <3>2. Left \in Int
        BY <2>3, <2>4 DEF Left
      <3>3. Above(Left, frame.remaining) \in Nat /\ Above(frame.remaining, allowance) \in Nat
        BY <3>1, <3>2 DEF Above
      <3> QED BY <1>1, <2>4, <2>5, <3>1, <3>3 DEF Inv, Metered, WindowMetered
    <2>6. CASE Unit = "tokens"
      BY <1>1, <2>3, <2>4, <2>6 DEF Inv, Metered, CounterMetered
    <2>7. CASE Unit = "wall-clock-ms"
      BY <1>1, <2>4, <2>7 DEF Inv, Metered, ClockMetered
    <2> QED BY <2>2, <2>5, <2>6, <2>7
  <1> QED BY <1>1, SpecInv, PTL

-----------------------------------------------------------------------------
(* Workflows                                                               *)

Stages == {"start", "read", "compose", "message", "wake", "done", "refused"}
Runs == [status : {"active", "cancelled"}, messageCount : Nat, turnCount : Nat]
Messages == [id : {r.id : r \in Sends}, cursor : Nat, cause : {r.cause : r \in Sends}, hop : Nat]
Reads == [run : Runs, message : Messages \cup {Nobody}]

\* Only a send composes a message, and it keeps it until it has put it.
WorkflowTyped ==
    /\ runs \in Seq(Runs) /\ runs # <<>>
    /\ messages \in Seq(Messages)
    /\ request \in [Requests -> Stages]
    /\ local \in [Requests -> Reads]
    /\ \A r \in Requests :
        /\ request[r] \in {"compose", "message", "wake"} => r \in Sends
        /\ request[r] = "compose" => local[r].message \in Messages

\* A message stands below one of the first n lines, within the limit.
Below(m, n) ==
    /\ m.hop <= MaxHops
    /\ m.cause # Nobody => \E j \in 1 .. n : messages[j].id = m.cause /\ m.hop > messages[j].hop

\* The cause that a send has read is still there when it puts its message.
Composed == \A r \in Requests : request[r] = "compose" => Below(local[r].message, Len(messages))

WorkflowInv == WorkflowTyped /\ Composed /\ ChainsEnd

LEMMA LastRunIsOne ==
    ASSUME WorkflowTyped
    PROVE  GetRun \in Runs
  BY DEF WorkflowTyped, GetRun, Last

LEMMA NextCursorIsNatural ==
    ASSUME WorkflowTyped
    PROVE  NextCursor \in Nat
  <1>1. CASE messages = <<>>
    BY <1>1 DEF NextCursor
  <1>2. CASE messages # <<>>
    <2>1. messages[Len(messages)] \in Messages
      BY <1>2 DEF WorkflowTyped
    <2> QED
      BY <1>2, <2>1 DEF NextCursor, Last, Messages
  <1> QED
    BY <1>1, <1>2

(* A cause of a request is a line that bears its causation id, and the hop  *)
(* of a message composed for it is one deeper.                              *)
LEMMA CausesAreLines ==
    ASSUME WorkflowTyped, NEW r \in Sends, NEW cause \in Causes(r)
    PROVE  /\ HopOf(cause) \in Nat
           /\ r.cause # Nobody =>
                /\ cause \in 1 .. Len(messages) /\ messages[cause].id = r.cause
                /\ HopOf(cause) > messages[cause].hop
  <1>1. DOMAIN messages = 1 .. Len(messages) /\ Len(messages) \in Nat
    BY DEF WorkflowTyped
  <1>2. \A j \in 1 .. Len(messages) : messages[j].hop \in Nat
    <2>1. \A j \in 1 .. Len(messages) : messages[j] \in Messages
      BY <1>1 DEF WorkflowTyped
    <2> QED
      BY <2>1 DEF Messages
  <1>3. CASE r.cause = Nobody
    BY <1>3 DEF Causes, HopOf
  <1>4. CASE r.cause # Nobody
    BY <1>1, <1>2, <1>4 DEF Causes, HopOf
  <1> QED
    BY <1>3, <1>4

LEMMA WorkflowInitInv == WorkflowInit => WorkflowInv
  <1> SUFFICES ASSUME WorkflowInit PROVE WorkflowInv
    OBVIOUS
  <1>1. Active \in Runs
    BY DEF Active, Runs
  <1>2. NothingRead \in Reads
    BY <1>1 DEF NothingRead, Reads
  <1>3. runs \in Seq(Runs) /\ runs # <<>>
    BY <1>1 DEF WorkflowInit
  <1>4. messages \in Seq(Messages) /\ messages = <<>>
    BY DEF WorkflowInit
  <1>5. request \in [Requests -> Stages] /\ \A r \in Requests : request[r] = "start"
    BY DEF WorkflowInit, Stages
  <1>6. local \in [Requests -> Reads]
    BY <1>2 DEF WorkflowInit
  <1>7. WorkflowTyped /\ Composed
    BY <1>3, <1>4, <1>5, <1>6 DEF WorkflowTyped, Composed
  <1> QED
    BY <1>4, <1>7 DEF WorkflowInv, ChainsEnd

(* A step that composes nothing and leaves the lines of the messages alone. *)
LEMMA LinesRest ==
    ASSUME WorkflowInv, messages' = messages, WorkflowTyped',
           \A r \in Requests : request'[r] = "compose" =>
               request[r] = "compose" /\ local'[r].message = local[r].message
    PROVE  WorkflowInv'
  <1>1. Composed'
    BY DEF WorkflowInv, Composed, Below
  <1>2. ChainsEnd'
    BY DEF WorkflowInv, ChainsEnd
  <1> QED
    BY <1>1, <1>2 DEF WorkflowInv

LEMMA ReadRunKeeps ==
    ASSUME WorkflowInv, NEW r \in Requests, ReadRun(r)
    PROVE  WorkflowInv'
  <1>1. PICK run \in Runs : run = GetRun
    BY LastRunIsOne DEF WorkflowInv
  <1>2. /\ local' = [local EXCEPT ![r].run = run]
        /\ \E to \in {"refused", "read"} : request' = [request EXCEPT ![r] = to]
        /\ runs' = runs /\ messages' = messages
    BY <1>1 DEF ReadRun, Goes
  <1>3. local' \in [Requests -> Reads]
    BY <1>2 DEF WorkflowInv, WorkflowTyped, Reads
  <1>4. \A q \in Requests : local'[q].message = local[q].message
    BY <1>2 DEF WorkflowInv, WorkflowTyped, Reads
  <1>5. request' \in [Requests -> Stages]
    BY <1>2 DEF WorkflowInv, WorkflowTyped, Stages
  <1>6. \A q \in Requests : request'[q] = request[q] \/ request'[q] \in {"refused", "read"}
    BY <1>2 DEF WorkflowInv, WorkflowTyped
  <1>7. WorkflowTyped'
    BY <1>2, <1>3, <1>4, <1>5, <1>6 DEF WorkflowInv, WorkflowTyped
  <1> QED
    BY <1>2, <1>4, <1>6, <1>7, LinesRest

LEMMA ReadMessagesKeeps ==
    ASSUME WorkflowInv, NEW r \in Requests, ReadMessages(r)
    PROVE  WorkflowInv'
  <1>1. WorkflowTyped /\ r \in Sends
    BY DEF WorkflowInv, ReadMessages
  <1>2. runs' = runs /\ messages' = messages
    BY DEF ReadMessages
  <1>3. CASE \E to \in {"done", "refused"} : Goes(r, to) /\ local' = local
    <2>1. \A q \in Requests : request'[q] = request[q] \/ request'[q] \in {"done", "refused"}
      BY <1>1, <1>3 DEF Goes, WorkflowTyped
    <2>2. WorkflowTyped'
      BY <1>1, <1>2, <1>3, <2>1 DEF Goes, WorkflowTyped, Stages
    <2> QED
      BY <1>2, <1>3, <2>1, <2>2, LinesRest
  <1>4. CASE ~\E to \in {"done", "refused"} : Goes(r, to) /\ local' = local
    <2>1. PICK cause \in Causes(r) :
            /\ Goes(r, "compose") /\ HopOf(cause) <= MaxHops
            /\ local' = [local EXCEPT ![r].message =
                 [id |-> r.id, cursor |-> NextCursor, cause |-> r.cause, hop |-> HopOf(cause)]]
      BY <1>4 DEF ReadMessages, WithinLimits
    <2>2. PICK m : m = [id |-> r.id, cursor |-> NextCursor, cause |-> r.cause, hop |-> HopOf(cause)]
      OBVIOUS
    <2>3. m \in Messages
      BY <1>1, <2>2, CausesAreLines, NextCursorIsNatural DEF Messages
    <2>4. local' = [local EXCEPT ![r].message = m]
      BY <2>1, <2>2
    <2>5. local' \in [Requests -> Reads] /\ local'[r].message = m
      BY <1>1, <2>3, <2>4 DEF WorkflowTyped, Reads
    <2>6. \A q \in Requests : q # r => local'[q] = local[q] /\ request'[q] = request[q]
      BY <1>1, <2>1, <2>4 DEF WorkflowTyped, Goes
    <2>7. request' \in [Requests -> Stages] /\ request'[r] = "compose"
      BY <1>1, <2>1 DEF WorkflowTyped, Goes, Stages
    <2>8. WorkflowTyped'
      BY <1>1, <1>2, <2>3, <2>5, <2>6, <2>7 DEF WorkflowTyped
    <2>9. Below(m, Len(messages))
      BY <1>1, <2>1, <2>2, CausesAreLines DEF Below
    <2>10. Composed'
      BY <1>2, <2>5, <2>6, <2>9 DEF WorkflowInv, Composed, Below
    <2>11. ChainsEnd'
      BY <1>2 DEF WorkflowInv, ChainsEnd
    <2> QED
      BY <2>8, <2>10, <2>11 DEF WorkflowInv
  <1> QED
    BY <1>3, <1>4

LEMMA PutMessageKeeps ==
    ASSUME WorkflowInv, NEW r \in Requests, PutMessage(r)
    PROVE  WorkflowInv'
  <1>1. WorkflowTyped /\ Composed /\ ChainsEnd
    BY DEF WorkflowInv
  <1>2. PICK m : m = local[r].message
    OBVIOUS
  <1>3. m \in Messages /\ Below(m, Len(messages)) /\ r \in Sends
    BY <1>1, <1>2 DEF PutMessage, WorkflowTyped, Composed
  <1>4. /\ messages' = Append(messages, m)
        /\ request' = [request EXCEPT ![r] = "message"]
        /\ local' = local /\ runs' = runs
    BY <1>2 DEF PutMessage, Goes
  <1>5. \A q \in Requests : request'[q] = request[q] \/ (q = r /\ request'[q] = "message")
    BY <1>1, <1>4 DEF WorkflowTyped
  <1>6. WorkflowTyped'
    <2>1. messages' \in Seq(Messages)
      BY <1>1, <1>3, <1>4 DEF WorkflowTyped
    <2>2. request' \in [Requests -> Stages]
      BY <1>1, <1>4 DEF WorkflowTyped, Stages
    <2> QED
      BY <1>1, <1>3, <1>4, <1>5, <2>1, <2>2 DEF WorkflowTyped
  <1>7. /\ Len(messages) \in Nat /\ Len(messages') = Len(messages) + 1
        /\ DOMAIN messages = 1 .. Len(messages)
        /\ DOMAIN messages' = 1 .. Len(messages) + 1
        /\ messages'[Len(messages) + 1] = m
        /\ \A j \in 1 .. Len(messages) : messages'[j] = messages[j]
    BY <1>1, <1>4 DEF WorkflowTyped
  <1>8. Composed'
    <2> SUFFICES ASSUME NEW q \in Requests, request'[q] = "compose"
                 PROVE  Below(local[q].message, Len(messages))'
      BY <1>4, <1>7 DEF Composed, Below
    <2>1. Below(local[q].message, Len(messages))
      BY <1>1, <1>5 DEF Composed
    <2> QED
      BY <1>4, <1>7, <2>1 DEF Below
  <1>9. ChainsEnd'
    <2> SUFFICES ASSUME NEW i \in 1 .. Len(messages) + 1
                 PROVE  /\ messages'[i].hop <= MaxHops
                        /\ messages'[i].cause # Nobody =>
                             \E j \in 1 .. i - 1 : /\ messages'[j].id = messages'[i].cause
                                                   /\ messages'[i].hop > messages'[j].hop
      BY <1>7 DEF ChainsEnd
    <2>1. CASE i = Len(messages) + 1
      BY <1>3, <1>7, <2>1 DEF Below
    <2>2. CASE i \in 1 .. Len(messages)
      BY <1>1, <1>7, <2>2 DEF ChainsEnd
    <2> QED
      BY <1>7, <2>1, <2>2
  <1> QED
    BY <1>6, <1>8, <1>9 DEF WorkflowInv

LEMMA PutRunKeeps ==
    ASSUME WorkflowInv, NEW r \in Requests, PutRun(r)
    PROVE  WorkflowInv'
  <1>1. WorkflowTyped /\ r \in Sends
    BY DEF WorkflowInv, PutRun, WorkflowTyped
  <1>2. Counted(r) \in Runs
    <2>1. PICK run \in Runs : run = local[r].run
      BY <1>1 DEF WorkflowTyped, Reads
    <2>2. PICK turn \in {0, 1} : turn = IF r.wake THEN 1 ELSE 0
      OBVIOUS
    <2>3. Counted(r) = [run EXCEPT !.messageCount = @ + 1, !.turnCount = @ + turn]
      BY <2>1, <2>2 DEF Counted
    <2>4. run.messageCount + 1 \in Nat /\ run.turnCount + turn \in Nat
      BY DEF Runs
    <2>5. \A a, b \in Nat : [run EXCEPT !.messageCount = a, !.turnCount = b] \in Runs
      BY DEF Runs
    <2> QED
      BY <2>3, <2>4, <2>5
  <1>3. /\ runs' \in Seq(Runs) /\ runs' # <<>>
        /\ messages' = messages /\ local' = local
    BY <1>1, <1>2 DEF PutRun, WorkflowTyped
  <1>4. PICK to \in {"wake", "done"} : request' = [request EXCEPT ![r] = to]
    BY DEF PutRun, Goes
  <1>5. \A q \in Requests : request'[q] = request[q] \/ (q = r /\ request'[q] \in {"wake", "done"})
    BY <1>1, <1>4 DEF WorkflowTyped
  <1>6. WorkflowTyped'
    BY <1>1, <1>3, <1>4, <1>5 DEF WorkflowTyped, Stages
  <1> QED
    BY <1>3, <1>5, <1>6, LinesRest

LEMMA WakeKeeps ==
    ASSUME WorkflowInv, NEW r \in Requests, Enqueue(r)
    PROVE  WorkflowInv'
  <1>1. request' = [request EXCEPT ![r] = "done"] /\ UNCHANGED <<runs, messages, local>>
    BY DEF Enqueue, Goes
  <1>2. \A q \in Requests : request'[q] = request[q] \/ request'[q] = "done"
    BY <1>1 DEF WorkflowInv, WorkflowTyped
  <1>3. WorkflowTyped'
    BY <1>1, <1>2 DEF WorkflowInv, WorkflowTyped, Stages
  <1> QED
    BY <1>1, <1>2, <1>3, LinesRest

LEMMA CancelKeeps ==
    ASSUME WorkflowInv, NEW r \in Requests, Cancel(r)
    PROVE  WorkflowInv'
  <1>1. [local[r].run EXCEPT !.status = "cancelled"] \in Runs
    <2>1. local[r].run \in Runs
      BY DEF WorkflowInv, WorkflowTyped, Reads
    <2> QED
      BY <2>1 DEF Runs
  <1>2. request' = [request EXCEPT ![r] = "done"] /\ UNCHANGED <<messages, local>>
    BY DEF Cancel, Goes
  <1>3. runs' \in Seq(Runs) /\ runs' # <<>>
    BY <1>1 DEF Cancel, WorkflowInv, WorkflowTyped
  <1>4. \A q \in Requests : request'[q] = request[q] \/ request'[q] = "done"
    BY <1>2 DEF WorkflowInv, WorkflowTyped
  <1>5. WorkflowTyped'
    BY <1>2, <1>3, <1>4 DEF WorkflowInv, WorkflowTyped, Stages
  <1> QED
    BY <1>2, <1>4, <1>5, LinesRest

LEMMA WorkflowCrashKeeps ==
    ASSUME WorkflowInv, WorkflowCrash
    PROVE  WorkflowInv'
  <1>1. NothingRead \in Reads
    BY DEF NothingRead, Active, Reads, Runs
  <1>2. /\ local' \in [Requests -> Reads] /\ UNCHANGED <<runs, messages>>
    BY <1>1 DEF WorkflowCrash
  <1>3. \A r \in Requests : request'[r] \in {"start", "done", "refused"}
    BY DEF WorkflowCrash, InProgress, WorkflowInv, WorkflowTyped, Stages
  <1>4. request' \in [Requests -> Stages]
    BY DEF WorkflowCrash, WorkflowInv, WorkflowTyped, Stages
  <1>5. WorkflowTyped'
    BY <1>2, <1>3, <1>4 DEF WorkflowInv, WorkflowTyped
  <1> QED
    BY <1>2, <1>3, <1>5, LinesRest

LEMMA WorkflowNextKeeps == WorkflowInv /\ [WorkflowNext]_workflowVars => WorkflowInv'
  <1> SUFFICES ASSUME WorkflowInv, [WorkflowNext]_workflowVars PROVE WorkflowInv'
    OBVIOUS
  <1>1. CASE UNCHANGED <<runs, messages, request, local>>
    <2>1. WorkflowTyped'
      BY <1>1 DEF WorkflowInv, WorkflowTyped
    <2> QED
      BY <1>1, <2>1, LinesRest
  <1>2. CASE Changes \/ UNCHANGED workflowVars
    BY <1>1, <1>2 DEF Changes, workflowVars
  <1> QED
    BY <1>2, ReadRunKeeps, ReadMessagesKeeps, PutMessageKeeps, PutRunKeeps, WakeKeeps,
       CancelKeeps, WorkflowCrashKeeps DEF WorkflowNext

(* For any requests, retries, crashes and number of requests in progress at *)
(* once, every message of a workflow stands one hop or more below an        *)
(* earlier one or is a first message, and none is deeper than the limit.    *)
THEOREM WorkflowChainsEnd == WorkflowSpec => []ChainsEnd
  <1>1. WorkflowInv => ChainsEnd
    BY DEF WorkflowInv
  <1> QED
    BY <1>1, WorkflowInitInv, WorkflowNextKeeps, PTL DEF WorkflowSpec

====
