----------------------------- MODULE TurnEngine -----------------------------
(***************************************************************************)
(* WorkerTurnEngine of src/orchestration/session for one worker, with the  *)
(* provider it watches, the transcript store that makes its receipts       *)
(* durable and the lifecycle controller that ends and resumes the process. *)
(*                                                                         *)
(* The provider runs turns.  The engine learns of them from frames of the  *)
(* screen and from the provider's own transcript, which lags behind.  Each *)
(* turn is banked under the next ordinal, by whichever observer gets       *)
(* there first, while processes are stopped, exit and are resumed.         *)
(*                                                                         *)
(* Time is the number of lines the provider has written: a moment is       *)
(* `now + 1`, and line k is at least as new as the moment iff k >= it.     *)
(* activityRevision only matters as "has it changed since": `fresh` holds  *)
(* what was recorded at the current revision.  observationEpoch and        *)
(* observationRevision are the identity of the owner.  A read of the       *)
(* transcript is as new as its continuation: the file only grows, and how  *)
(* far it is behind the provider is anybody's choice.                      *)
(***************************************************************************)
EXTENDS Naturals, Sequences, FiniteSets

CONSTANTS
    Instructions, Human,
    Setups,             \* the provider, and what goes wrong
    MaxTurns,           \* bound: turns the provider runs
    MaxOrdinal,         \* bound: ordinals that are reserved
    MaxGenerations,     \* bound: processes
    MaxDisturbances     \* bound: steps that are not the normal run of things

Disturbances == {"human", "stop", "fatal", "exit", "crash", "reject", "unreadable", "appear"}

SetupOK(s) ==
    /\ s.source \in {"bound", "missing", "none"}    \* none: a provider without a transcript
    /\ s.instructions \subseteq Instructions
    /\ s.disturbances \subseteq Disturbances

ASSUME TurnEngineConstants ==
    /\ Human \notin Instructions
    /\ {MaxTurns, MaxOrdinal, MaxGenerations} \subseteq Nat \ {0}
    /\ MaxDisturbances \in Nat
    /\ \A s \in Setups : SetupOK(s)

VARIABLES
    setup,
    turns,      \* the provider's turns: first and last line (0: none yet), and whose they are
    now,        \* lines written by the provider
    seen,       \* lines of the transcript that a read shows
    source,     \* the native transcript: bound, missing or none
    composer,   \* the inputs the process has not consumed
    phase,      \* executionState, terminalFinalizing and resuming
    generation,
    engine,     \* the volatile state of the WorkerTurnEngine
    admission,  \* WorkerInputAdmission
    barrier,    \* a finalization or a resume that waits for every ordinal
    store, fences,  \* durable: receipts, and the targets of rendered instructions
    disturbed   \* history: disturbances so far

providerVars == <<setup, turns, now, seen, source, composer>>
durable == <<store, fences>>
vars == <<providerVars, phase, generation, engine, admission, barrier, durable, disturbed>>

MaxOf(S) == CHOOSE n \in S \union {0} : \A m \in S : n >= m
MinOf(S) == CHOOSE n \in S : \A m \in S : n <= m
Native == setup.source # "none"
Busy == turns # <<>> /\ turns[Len(turns)].end = 0
Moment == now + 1

\* A receipt of the ledger or of the store: the provider's turn it reports (0 for
\* none), how it was learnt, and its outcome.
Receipt(t, via) ==
    [turn |-> t, via |-> via, outcome |-> IF via = "broker" THEN "cancelled" ELSE "completed"]

\* What can be fresh, beside captures and screens that were kept.
ViewNow == <<"view", 0>>
ScreenNow == <<"screen", 0>>
ArmedNow == <<"armed", 0>>
AdmitNow == <<"admit", 0>>

NoView == [activity |-> "none", current |-> FALSE]
NoNative(startedAt) ==
    [available |-> FALSE, refused |-> FALSE, view |-> NoView, evidence |-> 0,
     inputAt |-> 0, workingAt |-> 0, startedAt |-> startedAt]
NoCommit == [by |-> 0, through |-> 0, poisoned |-> FALSE]
NoAdmission == [at |-> "none", of |-> Human, waits |-> {}, readable |-> FALSE]
NoBarrier == [for |-> "none", at |-> "none", waits |-> {}, target |-> 0, since |-> 0, from |-> "ended"]

\* A new engine: told is history, what every instruction was told.
NewEngine(told) ==
    [activity |-> "unknown", observedWorking |-> FALSE, starting |-> TRUE, armed |-> FALSE,
     native |-> NoNative(0), fresh |-> {}, captures |-> {}, owner |-> 0, pending |-> NoCommit,
     deferred |-> 0, evidence |-> << >>, floor |-> 0, discarded |-> FALSE, book |-> <<>>,
     rendered |-> {}, targets |-> {}, retiring |-> <<>>, failed |-> FALSE, told |-> told]

Init ==
    /\ setup \in Setups
    /\ turns = <<>> /\ now = 0 /\ seen = 0 /\ source = setup.source /\ composer = {}
    /\ phase = "active" /\ generation = 1
    /\ engine = NewEngine([i \in Instructions |-> [state |-> "unsent", target |-> 0, at |-> 0]])
    /\ admission = NoAdmission /\ barrier = NoBarrier
    /\ store = <<>> /\ fences = {} /\ disturbed = 0

Disturb(kind) ==
    /\ kind \in setup.disturbances /\ disturbed < MaxDisturbances
    /\ disturbed' = disturbed + 1

-----------------------------------------------------------------------------
(* The engine's ledger and reservations.                                   *)

Completed(e) == Len(e.book)
Capture(e, id) == CHOOSE c \in e.captures : c.id = id
Ids(e) == {c.id : c \in e.captures}
OwnerTarget(e) == IF e.owner = 0 THEN 0 ELSE Capture(e, e.owner).target
OwnerBanked(e) == IF e.owner = 0 THEN 0 ELSE Capture(e, e.owner).banked

ReservationFloor(e) ==
    MaxOf({Completed(e), e.floor, e.deferred, e.pending.through, OwnerTarget(e)})

\* The screen of a finished turn is kept for the first ordinal that claims it.
Remember(e, target, shows, isFresh) ==
    IF target <= Completed(e) \/ target \in DOMAIN e.evidence THEN e
    ELSE [e EXCEPT !.evidence = [n \in DOMAIN @ \union {target} |-> IF n = target THEN shows ELSE @[n]],
                   !.fresh = IF isFresh THEN @ \union {<<"evidence", target>>} ELSE @]

Forget(e, through) ==
    [e EXCEPT !.evidence = [n \in {m \in DOMAIN @ : m > through} |-> @[n]],
              !.fresh = @ \ {<<"evidence", n>> : n \in 1..through}]

Acquire(e, kind, by, target, shows, busyIds) ==
    LET id == MinOf((1..10) \ (Ids(e) \union busyIds))
    IN  [e EXCEPT !.captures = @ \union {[id |-> id, kind |-> kind, by |-> by, target |-> target,
                                          at |-> "observe", turns |-> <<>>, banked |-> 0,
                                          shows |-> shows, rejected |-> FALSE]},
                  !.owner = id,
                  !.fresh = @ \union {<<"capture", id>>}]

\* The identities of finished captures that somebody still waits for are not reused.
Waited(e) ==
    admission.waits \union barrier.waits \union {e.pending.by} \union UNION {e.retiring[n].waits : n \in DOMAIN e.retiring}

ShownTurn == Cardinality({t \in DOMAIN turns : turns[t].end # 0})

\* drainNextDeferredScreenCompletion
DrainDeferred(e) ==
    IF e.pending.by # 0 \/ e.owner # 0 \/ Completed(e) + 1 \notin DOMAIN e.evidence THEN e
    ELSE Acquire(e, "screen", "deferred", Completed(e) + 1, e.evidence[Completed(e) + 1], Waited(e))

\* finishTurnCapture: only the owner gives the ledger to what was deferred behind it.
Finish(e, c) ==
    LET gone == [e EXCEPT !.captures = {d \in @ : d.id # c.id}, !.fresh = @ \ {<<"capture", c.id>>}]
        free == [gone EXCEPT !.owner = 0]
    IN  CASE e.owner # c.id -> gone
          [] e.owner = c.id /\ e.deferred = 0 -> Forget(free, c.banked)
          [] e.owner = c.id /\ e.deferred # 0 /\ c.banked >= e.deferred ->
                Forget([free EXCEPT !.deferred = 0,
                                    !.observedWorking = @ /\ <<"evidence", e.deferred>> \notin e.fresh],
                       c.banked)
          [] OTHER -> DrainDeferred(Forget(free, c.banked))

Update(e, c) == [e EXCEPT !.captures = {d \in @ : d.id # c.id} \union {c}]

ArmedTarget(e) ==
    CASE ~e.armed \/ e.activity # "awaiting-input" \/ ~e.observedWorking -> 0
      [] OTHER ->
            IF e.owner # 0 /\ Capture(e, e.owner).kind = "reconcile" /\ OwnerBanked(e) = 0 /\ e.deferred = 0
            THEN OwnerTarget(e)
            ELSE IF e.owner # 0 \/ e.pending.by # 0 \/ e.deferred # 0
            THEN ReservationFloor(e) + 1
            ELSE Completed(e) + 1

\* releaseTimers: every ordinal the outgoing process may own stays reserved.
ReleaseTimers(e) ==
    LET semantic == ~e.discarded
        armedTarget == IF semantic THEN ArmedTarget(e) ELSE 0
        kept == IF armedTarget = 0 THEN e
                ELSE Remember(e, armedTarget, ShownTurn, ArmedNow \in e.fresh)
        claimed == IF semantic /\ e.owner # 0 /\ Capture(e, e.owner).kind = "screen"
                   THEN OwnerTarget(e) ELSE 0
    IN  [kept EXCEPT
            !.floor = MaxOf({@, Completed(e), claimed, OwnerBanked(e), IF semantic THEN e.deferred ELSE 0,
                             e.pending.through, armedTarget}),
            !.armed = FALSE, !.owner = 0, !.deferred = 0, !.fresh = @ \ {AdmitNow, ArmedNow}]

\* discardPendingScreenTurns
Discard(e) ==
    LET lowered == IF e.discarded THEN e ELSE [e EXCEPT !.floor = Completed(e)]
        marked == [lowered EXCEPT !.captures = {[c EXCEPT !.rejected = TRUE] : c \in @},
                                  !.discarded = TRUE]
    IN  Forget([ReleaseTimers(marked) EXCEPT !.evidence = << >>], MaxTurns + MaxTurns)

-----------------------------------------------------------------------------
(* Instructions.                                                           *)

\* advanceRendered for the instructions of one target, or of every target.
Settle(e, entries, state) ==
    [e EXCEPT !.rendered = @ \ entries,
              !.told = [i \in DOMAIN @ |->
                           IF \E r \in entries : r.of = i THEN [@[i] EXCEPT !.state = state] ELSE @[i]]]

For(e, target) == {r \in e.rendered : r.target = target}
Unanswered(e, entries) ==
    Settle(Settle(e, {r \in entries : r.state = "acknowledged"}, "cancelled"),
           {r \in entries : r.state = "rendered"}, "undelivered")

\* applyCurrentTurnReceipt
ApplyReceipts(e, from, through) ==
    LET answered(o) == {r \in e.rendered : r.target \in from..through /\ e.book[r.target].outcome = o}
    IN  Settle(Settle(e, answered("completed"), "completed"), answered("cancelled"), "cancelled")

\* stopPendingInstructions with WorkerInputRetirement.retire
StopPending(e) ==
    LET uncertain == e.captures # {} \/ e.pending.by # 0 \/ e.floor > Completed(e)
        told == IF uncertain THEN e ELSE Unanswered(e, e.rendered)
        owed == {t \in e.targets : t.target > Completed(e) \/ For(told, t.target) # {}}
    IN  IF owed = {} THEN told
        ELSE [told EXCEPT !.retiring = Append(@, [targets |-> {t.target : t \in owed}, at |-> "wait",
                                                  waits |-> Ids(e), commit |-> e.pending.by # 0,
                                                  target |-> 0])]

RetirementBusy(e) == e.retiring # <<>> \/ e.failed

-----------------------------------------------------------------------------
(* What the transcript and the screen say: NativeTurnActivity.             *)

Bump(e) == [e EXCEPT !.fresh = {}]

NativeActivity(e) ==
    LET n == e.native
        viewFresh == n.view # NoView /\ ViewNow \in e.fresh
    IN  CASE n.refused -> IF e.activity = "working" THEN "working" ELSE "unknown"
          [] ~n.refused /\ ~n.available -> e.activity
          [] OTHER ->
               IF /\ e.activity = "awaiting-input" /\ ScreenNow \in e.fresh
                  /\ n.inputAt = 0 /\ n.workingAt = 0
                  /\ (~n.view.current \/ n.view.activity = "unknown")
               THEN "awaiting-input"
               ELSE IF viewFresh
               THEN IF e.activity = "working" /\ (~n.view.current \/ n.view.activity = "unknown")
                    THEN "working" ELSE n.view.activity
               ELSE IF e.activity = "working" \/ (n.view.current /\ n.view.activity = "working")
               THEN "working"
               ELSE IF /\ n.view.current /\ n.view.activity = "awaiting-input"
                       /\ e.activity = "awaiting-input" /\ ScreenNow \in e.fresh
               THEN "awaiting-input" ELSE "unknown"

\* The last line a read shows begins or ends a turn.
LineIdle(k) == \E t \in DOMAIN turns : turns[t].end = k

\* observe, for a read by a capture (isFresh: at the activityRevision it was acquired)
ObserveNative(e, isFresh, status) ==
    LET n == e.native
        since == MaxOf({n.startedAt, n.inputAt, IF LineIdle(seen) THEN n.workingAt ELSE 0})
        current == seen # 0 /\ seen >= since
        news == seen # 0 /\ seen # n.evidence /\ isFresh
        view == [activity |-> IF ~current THEN "unknown" ELSE IF LineIdle(seen) THEN "awaiting-input" ELSE "working",
                 current |-> current]
        next == IF status # "bound"
                THEN [n EXCEPT !.available = FALSE, !.refused = status = "unreadable", !.view = NoView]
                ELSE [n EXCEPT !.available = TRUE, !.refused = FALSE,
                               !.evidence = IF news THEN seen ELSE @,
                               !.view = IF news THEN view ELSE @]
        merged == [e EXCEPT !.native = next,
                            !.fresh = IF status = "bound" /\ news THEN @ \union {ViewNow} ELSE @]
    IN  IF NativeActivity(merged) = "working" THEN [merged EXCEPT !.observedWorking = TRUE] ELSE merged

\* The provider's turns a read shows that no receipt of the store closes yet.
LastNative(s) == MaxOf({s[n].turn : n \in {m \in DOMAIN s : s[m].via = "native"}})
\* nativeProjection: the finished turns of the lines a read shows.
Projected == {t \in DOMAIN turns : turns[t].end \in 1..seen}
Unseen ==
    LET new == {t \in Projected : t > LastNative(store)}
    IN  [n \in 1..Cardinality(new) |-> MinOf(new) + n - 1]

\* Bug: a receipt older than the rendered input may answer it.
OwnedLate(e, target) == [n \in DOMAIN Unseen |-> Receipt(Unseen[n], "native")]

\* turns: a late older receipt never owns a newer rendered input.
Owned(e, target) ==
    LET accept[n \in 0..Len(Unseen)] ==
            IF n = 0 THEN <<>>
            ELSE LET t == Unseen[n]
                     ordinal == target + Len(accept[n - 1])
                 IN  IF \E i \in e.targets : i.target = ordinal /\ turns[t].end < i.at
                     THEN accept[n - 1]
                     ELSE Append(accept[n - 1], Receipt(t, "native"))
    IN  accept[Len(Unseen)]

\* observeProviderTurns: what a read returns before the engine looks at it.  A screen
\* stands in for a transcript that is known to be absent, never for an ordinal that
\* the store has already closed.
Fallback(target, shows, status) ==
    IF status \in {"missing", "none"} /\ target > Len(store) THEN <<Receipt(shows, "screen")>> ELSE <<>>

OwnsCurrentEnd(e) ==
    ViewNow \in e.fresh /\ e.native.view.current /\ e.native.view.activity = "awaiting-input"

\* isCurrentCompletionHead
CompletionHead(e, c) ==
    /\ e.owner = c.id
    /\ e.native.available => OwnsCurrentEnd(e)
    /\ IF e.deferred = 0 THEN <<"capture", c.id>> \in e.fresh
       ELSE c.banked >= e.deferred /\ <<"evidence", e.deferred>> \in e.fresh

-----------------------------------------------------------------------------
(* The provider.                                                           *)

\* An admission goes on in the microtasks of the capture it waited for, before any
\* timer, frame, read or call is served.
AdmissionGoesOn ==
    admission.at = "recheck" \/ (admission.at = "waiting" /\ admission.waits \intersect Ids(engine) = {})
Serving == ~AdmissionGoesOn

Alive == phase \in {"active", "stopping", "resuming"}

StartTurn ==
    /\ Serving /\ Alive /\ ~Busy /\ composer # {} /\ Len(turns) < MaxTurns
    /\ turns' = Append(turns, [start |-> Moment, end |-> 0, of |-> composer])
    /\ now' = now + 1 /\ composer' = {}
    /\ UNCHANGED <<setup, seen, source, phase, generation, engine, admission, barrier, durable, disturbed>>

EndTurn ==
    /\ Serving /\ Alive /\ Busy
    /\ turns' = [turns EXCEPT ![Len(turns)].end = Moment]
    /\ now' = now + 1
    /\ UNCHANGED <<setup, seen, source, composer, phase, generation, engine, admission, barrier, durable, disturbed>>

\* A line of the transcript becomes visible to a read.
Write ==
    /\ Serving /\ source = "bound" /\ seen < now
    /\ seen' = seen + 1
    /\ UNCHANGED <<setup, turns, now, source, composer, phase, generation, engine, admission, barrier, durable, disturbed>>

\* The transcript that was missing is found.
Appear ==
    /\ Serving /\ source = "missing" /\ Disturb("appear")
    /\ source' = "bound"
    /\ UNCHANGED <<setup, turns, now, seen, composer, phase, generation, engine, admission, barrier, durable>>

\* noteHumanInput
HumanInput ==
    /\ Serving /\ phase = "active" /\ Disturb("human")
    /\ composer' = composer \union {Human}
    /\ engine' = [Bump(engine) EXCEPT !.native.inputAt = Moment, !.native.view = NoView]
    /\ UNCHANGED <<setup, turns, now, seen, source, phase, generation, admission, barrier, durable>>

\* appendOutput of a frame of the running process.
Frame ==
    /\ Serving /\ phase = "active" /\ ~engine.discarded
    /\ LET shown == IF Busy THEN "working" ELSE "awaiting-input"
           read == [Bump(engine) EXCEPT
                       !.activity = shown, !.fresh = {ScreenNow},
                       !.native.workingAt = IF Busy THEN Moment ELSE @,
                       !.starting = @ /\ (Busy \/ composer # {})]
           acknowledged == {[r EXCEPT !.state = "acknowledged"] : r \in engine.rendered}
       IN engine' = CASE engine.starting -> read
                      [] ~engine.starting /\ Busy ->
                            [read EXCEPT !.observedWorking = TRUE, !.armed = FALSE,
                                         !.rendered = IF composer = {} THEN acknowledged ELSE @]
                      [] OTHER ->
                            [read EXCEPT !.armed = @ \/ engine.observedWorking,
                                         !.fresh = IF engine.observedWorking THEN @ \union {ArmedNow} ELSE @]
    /\ UNCHANGED <<providerVars, phase, generation, admission, barrier, durable, disturbed>>

-----------------------------------------------------------------------------
(* Captures.                                                               *)

Unfenced == UNCHANGED <<providerVars, phase, generation, barrier, fences>>

\* bankScreenObservedTurn, 200 ms after the screen went idle.
BankScreen ==
    /\ Serving /\ phase = "active" /\ engine.armed /\ ReservationFloor(engine) < MaxOrdinal
    /\ LET e == [engine EXCEPT !.armed = FALSE]
           isFresh == ArmedNow \in e.fresh
           speculative == /\ e.owner # 0 /\ Capture(e, e.owner).kind = "reconcile"
                          /\ OwnerBanked(e) = 0 /\ e.deferred = 0
           behind == IF speculative THEN OwnerTarget(e) ELSE ReservationFloor(e) + 1
           claimed == Acquire(e, "screen", "timer", Completed(e) + 1, ShownTurn, Waited(e))
       IN engine' = CASE e.activity # "awaiting-input" \/ ~e.observedWorking \/ composer # {} -> e
                      [] OTHER ->
                           IF e.owner # 0
                           THEN Remember([e EXCEPT !.deferred = MaxOf({@, behind}), !.observedWorking = FALSE],
                                         behind, ShownTurn, isFresh)
                           ELSE IF e.pending.by # 0 THEN e
                           ELSE Remember([claimed EXCEPT !.observedWorking = FALSE],
                                         Completed(e) + 1, ShownTurn, isFresh)
    /\ UNCHANGED <<admission, store, disturbed>> /\ Unfenced

\* The quiet timer and the poll of WorkerTurnReconciler.
Reconcile ==
    /\ Serving /\ phase = "active" /\ Native /\ ~engine.armed
    /\ engine.owner = 0 /\ engine.pending.by = 0
    /\ engine' = Acquire(engine, "reconcile", "poll", Completed(engine) + 1, 0, Waited(engine))
    /\ UNCHANGED <<admission, store, disturbed>> /\ Unfenced

\* What the admission that asked for the capture is told when it ends.
Tell(c, readable) ==
    admission' = IF c.by = "admit" THEN [admission EXCEPT !.at = "recheck", !.readable = readable]
                 ELSE admission

\* commitObservedProviderTurns installs the reservation and enqueues the write.
StartCommit(e, c, receipts) ==
    [Update(e, [c EXCEPT !.at = "commit", !.turns = receipts]) EXCEPT
        !.pending = [by |-> c.id, through |-> c.target + Len(receipts) - 1, poisoned |-> FALSE]]

\* The read of a capture returns, its last attempt if nothing was found.
Observe(c, status) ==
    LET native == status = "bound"
        raw == IF native THEN [n \in DOMAIN Unseen |-> Receipt(Unseen[n], "native")]
               ELSE IF c.kind = "screen" THEN Fallback(c.target, c.shows, status) ELSE <<>>
        reserved == IF c.rejected /\ ~native THEN 0 ELSE Len(raw)
        merged == IF Native THEN ObserveNative(engine, <<"capture", c.id>> \in engine.fresh, status) ELSE engine
        receipts == IF native THEN Owned(engine, c.target) ELSE raw
        fenced == [engine EXCEPT !.floor = IF reserved = 0 THEN @ ELSE MaxOf({@, c.target + reserved - 1})]
    IN  /\ c.at = "observe"
        /\ IF engine.owner # c.id
           THEN engine' = Finish(fenced, c) /\ Tell(c, FALSE)
           ELSE IF receipts # <<>> /\ (c.kind = "screen" \/ Completed(engine) = c.target - 1)
           THEN engine' = StartCommit(merged, c, receipts) /\ UNCHANGED admission
           ELSE engine' = Finish(merged, c) /\ Tell(c, status # "unreadable" /\ Completed(engine) = c.target - 1)
        /\ UNCHANGED store /\ Unfenced

ReadReturns == Serving /\ \E c \in engine.captures : Observe(c, source) /\ UNCHANGED disturbed
ReadFails == Serving /\ \E c \in engine.captures : Native /\ Disturb("unreadable") /\ Observe(c, "unreadable")

Drains(c) == c.by \in {"barrier", "retirement"}

\* The receipt of a commit: durable, then banked if the ledger is still below it.
CommitSettles ==
    \E c \in engine.captures :
        LET after == SubSeq(c.turns, Len(store) - c.target + 2, Len(c.turns))   \* the rest is already durable
            banks == Completed(engine) = c.target - 1
            mine == engine.pending.by = c.id
            through == c.target + Len(c.turns) - 1
            banked == [c EXCEPT !.banked = through, !.at = "effects"]
            book == [engine EXCEPT !.book = @ \o c.turns, !.pending = IF mine THEN NoCommit ELSE @]
            applied == ApplyReceipts(book, c.target, through)
            settled == IF c.kind = "reconcile" /\ CompletionHead(applied, banked)
                       THEN [applied EXCEPT !.observedWorking = FALSE, !.activity = "awaiting-input"]
                       ELSE applied
        IN  /\ c.at = "commit"
            /\ store' = store \o after
            /\ CASE ~banks ->
                      /\ engine' = Finish([engine EXCEPT !.pending.poisoned = @ \/ mine], c)
                      /\ Tell(c, FALSE)
                 [] banks /\ Drains(c) ->
                      engine' = Forget(Finish(book, banked), through) /\ UNCHANGED admission
                 [] banks /\ ~Drains(c) /\ engine.owner # c.id ->
                      engine' = Finish(book, banked) /\ Tell(c, FALSE)
                 [] OTHER -> engine' = Update(settled, banked) /\ UNCHANGED admission
            /\ Serving /\ UNCHANGED disturbed /\ Unfenced

\* The write fails after a prefix of its receipts is durable.
CommitFails ==
    \E c \in engine.captures : \E durablePart \in 0..Len(c.turns) - 1 :
        /\ Serving /\ c.at = "commit" /\ Disturb("reject")
        /\ store' = store \o SubSeq(c.turns, 1, durablePart)
        /\ engine' = Finish([engine EXCEPT !.pending.poisoned = @ \/ engine.pending.by = c.id], c)
        /\ Tell(c, FALSE)
        /\ Unfenced

\* The preview, the model and the attention are refreshed: the claim is held until then.
CaptureEnds ==
    \E c \in engine.captures :
        /\ Serving /\ c.at = "effects"
        /\ engine' = Finish(engine, c)
        /\ Tell(c, c.kind = "reconcile" /\ engine.owner = c.id)
        /\ UNCHANGED <<store, disturbed>> /\ Unfenced

-----------------------------------------------------------------------------
(* Input.                                                                  *)

\* deliveryHold
Hold(e) ==
    LET captureFloor == MaxOf({Completed(e), IF OwnerBanked(e) # 0 THEN OwnerBanked(e) ELSE OwnerTarget(e)})
        seems == NativeActivity(e)
    IN  \/ composer # {}
        \/ \E r \in e.rendered : r.state = "rendered"
        \/ e.pending.poisoned \/ RetirementBusy(e)
        \/ e.deferred > captureFloor
        \/ seems = "working" \/ e.observedWorking
        \/ e.native.available /\ seems = "unknown"
        \/ e.starting

\* It banks what the transcript already holds before an ordinal is assigned.
AdmitReads(e, a) ==
    LET claimed == Acquire(e, "reconcile", "admit", Completed(e) + 1, 0, Waited(e))
        taken == e.owner # 0 \/ e.pending.by # 0
        reads == Native /\ phase \in {"active", "finalizing"}
    IN  CASE taken \/ (reads /\ e.armed) -> admission' = NoAdmission /\ engine' = e
          [] ~taken /\ ~reads -> admission' = [a EXCEPT !.at = "recheck", !.readable = TRUE] /\ engine' = e
          [] OTHER -> admission' = [a EXCEPT !.at = "reconciling"] /\ engine' = claimed

\* The admission is fenced, so that newer activity makes it void, and waits for the
\* capture it finds.
AdmitBegins(i) ==
    /\ Serving /\ phase = "active" /\ admission = NoAdmission
    /\ i \in setup.instructions /\ engine.told[i].state = "unsent"
    /\ ~Hold(engine)
    /\ LET n == engine.native
           kept == {x \in engine.fresh : \/ x = ViewNow /\ n.view.activity = "awaiting-input"
                                         \/ x = ScreenNow /\ n.inputAt = 0 /\ n.workingAt = 0}
           e == [engine EXCEPT !.fresh = kept \union {AdmitNow}]
           a == [NoAdmission EXCEPT !.at = "waiting", !.of = i, !.waits = {e.owner}]
       IN IF e.owner = 0 THEN AdmitReads(e, [a EXCEPT !.waits = {}])
          ELSE engine' = e /\ admission' = a
    /\ UNCHANGED <<store, disturbed>> /\ Unfenced

AdmitReconciles ==
    /\ admission.at = "waiting" /\ AdmissionGoesOn
    /\ AdmitReads(engine, [admission EXCEPT !.waits = {}])
    /\ UNCHANGED <<store, disturbed>> /\ Unfenced

\* renderInstruction, if nothing has happened since the fence.
AdmitRenders ==
    /\ admission.at = "recheck"
    /\ LET i == admission.of
           t == [target |-> ReservationFloor(engine) + 1, at |-> Moment]
           others(S) == {u \in S : u.target # t.target}
       IN IF admission.readable /\ phase = "active" /\ AdmitNow \in engine.fresh /\ ~Hold(engine)
          THEN /\ engine' = [engine EXCEPT
                    !.rendered = @ \union {[of |-> i, target |-> t.target, state |-> "rendered"]},
                    !.targets = others(@) \union {t},
                    !.native.inputAt = Moment, !.native.view = NoView,
                    !.fresh = @ \ {ViewNow, ScreenNow},
                    !.told[i] = [state |-> "rendered", target |-> t.target, at |-> Moment]]
               /\ composer' = {i}
               /\ fences' = others(fences) \union {t}
          ELSE UNCHANGED <<engine, composer, fences>>
    /\ admission' = NoAdmission
    /\ UNCHANGED <<setup, turns, now, seen, source, phase, generation, barrier, store, disturbed>>

-----------------------------------------------------------------------------
(* drainCompletionBarrier, run by a finalization, a resume or a retirement. *)

\* Its read returns: what it shows of the target, the screen that was kept for it, or
\* nothing after the last attempt.
DrainReceipts(target) ==
    IF source = "bound" THEN Owned(engine, target)
    ELSE IF target \in DOMAIN engine.evidence THEN Fallback(target, engine.evidence[target], source)
    ELSE <<>>

\* A late older receipt leaves the ordinal to nobody.
DrainUnowned(target) == source = "bound" /\ Unseen # <<>> /\ Owned(engine, target) = <<>>

Claimed(e, by, target, receipts) ==
    LET claimed == Acquire(e, "reconcile", by, target, 0, Waited(e))
    IN  StartCommit(claimed, Capture(claimed, claimed.owner), receipts)

\* The commit a drain waits for is over, and was it refused?
Committing(d) == d.waits \intersect Ids(engine) # {}
Refused(d) == engine.pending.poisoned /\ engine.pending.by \in d.waits

-----------------------------------------------------------------------------
(* WorkerInputRetirement: targets that will never be answered are closed.  *)

Retiring == engine.retiring # <<>>
Job == engine.retiring[1]
NextJob(e, job) == [e EXCEPT !.retiring = <<job>> \o Tail(@)]
\* Bug: `retiring` is not decremented.
EndJobNever(e) == [e EXCEPT !.failed = @]

EndJob(e) == [e EXCEPT !.retiring = Tail(@)]

RetireStep ==
    /\ Serving /\ Retiring
    /\ LET low == MinOf(Job.targets)
           rest == [Job EXCEPT !.targets = @ \ {low}, !.at = "ready"]
           afterCommit == IF Job.at = "broker"
                          THEN NextJob(Unanswered(engine, For(engine, low)), rest)
                          ELSE NextJob(engine, [Job EXCEPT !.at = "ready"])
           failing == [EndJob(engine) EXCEPT !.failed = TRUE]
           drained(r) == LET e == Claimed(engine, "retirement", Job.target, r)
                         IN  NextJob(e, [Job EXCEPT !.at = "drain", !.waits = {e.owner}])
           closed == LET e == Claimed(engine, "retirement", low, <<Receipt(0, "broker")>>)
                     IN  NextJob(e, [Job EXCEPT !.at = "broker", !.waits = {e.owner}])
           answered == IF low > Completed(engine) THEN engine ELSE ApplyReceipts(engine, low, low)
       IN CASE engine.failed -> engine' = EndJob(engine)
            [] ~engine.failed /\ Job.at = "wait" ->
                  /\ ~Committing(Job)
                  /\ Job.commit => engine.pending.by = 0 \/ engine.pending.poisoned
                  /\ engine' = IF Job.commit /\ engine.pending.poisoned THEN failing
                               ELSE NextJob(engine, [Job EXCEPT !.at = "ready", !.waits = {}])
            [] ~engine.failed /\ Job.at = "ready" ->
                  engine' = IF Completed(engine) < engine.floor
                            THEN NextJob(engine, [Job EXCEPT !.at = "read", !.target = Completed(engine) + 1])
                            ELSE IF Job.targets = {} THEN EndJob(engine)
                            ELSE IF low <= Completed(engine) THEN NextJob(answered, rest)
                            ELSE IF low = Completed(engine) + 1 THEN closed ELSE failing
            [] ~engine.failed /\ Job.at = "read" ->
                  engine' = IF DrainUnowned(Job.target)
                            THEN NextJob([engine EXCEPT !.floor = Completed(engine)], [Job EXCEPT !.at = "ready"])
                            ELSE IF DrainReceipts(Job.target) # <<>> THEN drained(DrainReceipts(Job.target))
                            ELSE failing
            [] OTHER ->
                  /\ ~Committing(Job)
                  /\ engine' = IF Refused(Job) THEN failing ELSE afterCommit
    /\ UNCHANGED <<admission, store, disturbed>> /\ Unfenced

-----------------------------------------------------------------------------
(* The lifecycle: SessionLifecycleController and SessionRuntimeObserver.   *)

\* The process is gone, with its input and the turn it was in.
ProcessGone ==
    /\ composer' = {}
    /\ turns' = IF Busy THEN SubSeq(turns, 1, Len(turns) - 1) ELSE turns
    /\ UNCHANGED <<setup, now, seen, source>>

Stop ==
    /\ Serving /\ phase = "active" /\ Disturb("stop")
    /\ engine' = Discard(engine)
    /\ phase' = "stopping"
    /\ UNCHANGED <<providerVars, generation, admission, barrier, durable>>

\* observeFatalTermination and handleFatalObservation
Fatal ==
    /\ Serving /\ phase = "active" /\ Disturb("fatal")
    /\ engine' = [Discard(StopPending(Bump(engine))) EXCEPT !.activity = "unknown", !.observedWorking = FALSE]
    /\ phase' = "stopping"
    /\ UNCHANGED <<providerVars, generation, admission, barrier, durable>>

\* handleExit after a stop or a fatal error, with publishTerminalExit.
ExitStopped ==
    /\ Serving /\ phase = "stopping" /\ ProcessGone
    /\ engine' = StopPending(Discard(engine))
    /\ phase' = "ended"
    /\ UNCHANGED <<generation, admission, barrier, durable, disturbed>>

\* handleExit of a process nobody stopped: startTerminalFinalization.
Exit ==
    /\ Serving /\ phase = "active" /\ Disturb("exit") /\ ProcessGone
    /\ LET e == ReleaseTimers(engine)
           settles == e.captures # {} \/ e.pending.by # 0 \/ Completed(e) < e.floor
       IN IF settles
          THEN /\ engine' = e /\ phase' = "finalizing"
               /\ barrier' = [NoBarrier EXCEPT !.for = "finalize", !.at = "wait", !.waits = Ids(e),
                                               !.since = Completed(e)]
          ELSE engine' = StopPending(e) /\ phase' = "ended" /\ UNCHANGED barrier
    /\ UNCHANGED <<generation, admission, durable>>

\* resumeRuntime up to its barrier, which settleForResume begins.
Resume ==
    /\ Serving /\ phase \in {"stopping", "ended"} /\ generation < MaxGenerations
    /\ LET e == ReleaseTimers(engine)
       IN /\ engine' = StopPending(e)
          /\ barrier' = [NoBarrier EXCEPT !.for = "resume", !.at = "wait", !.waits = Ids(e), !.from = phase]
    /\ phase' = "resuming"
    /\ UNCHANGED <<providerVars, generation, admission, durable, disturbed>>

\* The barrier waits for the captures it found, for the commit in flight and for the
\* retirements, then accounts for every reserved ordinal.
BarrierStep(fails, succeeds) ==
    LET receipts == DrainReceipts(barrier.target)
        claimed == Claimed(engine, "barrier", barrier.target, receipts)
        goOn(b, e) == barrier' = b /\ engine' = e /\ UNCHANGED <<turns, composer, phase, generation>>
    IN  CASE barrier.at = "wait" ->
                /\ ~Committing(barrier) /\ ~Retiring
                /\ engine.pending.by = 0 \/ engine.pending.poisoned
                /\ IF engine.pending.poisoned \/ engine.failed THEN fails
                   ELSE goOn([barrier EXCEPT !.at = "ready", !.waits = {}], engine)
          [] barrier.at = "ready" ->
                IF Completed(engine) >= engine.floor THEN succeeds
                ELSE goOn([barrier EXCEPT !.at = "read", !.target = Completed(engine) + 1], engine)
          [] barrier.at = "read" ->
                IF DrainUnowned(barrier.target)
                THEN goOn([barrier EXCEPT !.at = "ready"], [engine EXCEPT !.floor = Completed(engine)])
                ELSE IF receipts = <<>> THEN fails
                ELSE goOn([barrier EXCEPT !.at = "commit", !.waits = {claimed.owner}], claimed)
          [] OTHER ->
                /\ ~Committing(barrier)
                /\ IF Refused(barrier) THEN fails ELSE goOn([barrier EXCEPT !.at = "ready", !.waits = {}], engine)

\* publishTerminalExit, whether or not the finalization succeeded.
Publish(e) ==
    /\ engine' = StopPending(e) /\ phase' = "ended" /\ barrier' = NoBarrier
    /\ UNCHANGED <<turns, composer, generation>>

FinalizeStep ==
    /\ Serving /\ barrier.for = "finalize"
    /\ BarrierStep(Publish(engine),
                   Publish(Forget(ApplyReceipts(engine, barrier.since + 1, Completed(engine)), Completed(engine))))
    /\ UNCHANGED <<setup, now, seen, source, admission, durable, disturbed>>

\* The new process: resetForResume.
Respawn ==
    LET e == Forget(engine, Completed(engine))
        reset == [e EXCEPT !.native = NoNative(Moment), !.starting = TRUE, !.fresh = {},
                           !.activity = "unknown", !.observedWorking = FALSE]
    IN  /\ engine' = [ReleaseTimers(reset) EXCEPT !.discarded = FALSE]
        /\ generation' = generation + 1 /\ phase' = "active" /\ barrier' = NoBarrier
        /\ composer' = {} /\ turns' = IF Busy THEN SubSeq(turns, 1, Len(turns) - 1) ELSE turns

\* A resume that cannot account for an ordinal is refused.
RefuseResume ==
    /\ phase' = barrier.from /\ barrier' = NoBarrier
    /\ UNCHANGED <<engine, turns, composer, generation>>

ResumeStep ==
    /\ Serving /\ barrier.for = "resume"
    /\ BarrierStep(RefuseResume, Respawn)
    /\ UNCHANGED <<setup, now, seen, source, admission, durable, disturbed>>

\* The broker dies; the next one restores the ledger and the targets from the store.
Crash ==
    /\ Serving /\ Disturb("crash") /\ ProcessGone
    /\ engine' = [NewEngine(engine.told) EXCEPT !.book = store, !.targets = fences]
    /\ phase' = "ended" /\ admission' = NoAdmission /\ barrier' = NoBarrier
    /\ UNCHANGED <<generation, durable>>

-----------------------------------------------------------------------------
Provider == StartTurn \/ EndTurn \/ Write \/ Appear \/ HumanInput \/ Frame
Captures == BankScreen \/ Reconcile \/ ReadReturns \/ ReadFails \/ CommitSettles \/ CommitFails \/ CaptureEnds
Input == (\E i \in Instructions : AdmitBegins(i)) \/ AdmitReconciles \/ AdmitRenders
Lifecycle == Stop \/ Fatal \/ ExitStopped \/ Exit \/ Resume \/ FinalizeStep \/ ResumeStep \/ Crash \/ RetireStep

Next == Provider \/ Captures \/ Input \/ Lifecycle

\* Promises of the broker settle: reads, writes and the continuations behind them.
Broker ==
    \/ ReadReturns \/ CommitSettles \/ CaptureEnds \/ AdmitReconciles \/ AdmitRenders
    \/ RetireStep \/ FinalizeStep \/ ResumeStep
Fairness == WF_vars(Broker)

Spec == Init /\ [][Next]_vars /\ Fairness

-----------------------------------------------------------------------------
(* Properties.                                                             *)

Receipts == [turn : 0..MaxTurns, via : {"native", "screen", "broker"}, outcome : {"completed", "cancelled"}]

\* Type invariant: captures have distinct identities, the owner is one of them, and
\* everything that is reserved, kept or owed is an ordinal.
TypeOK ==
    /\ phase \in {"active", "stopping", "finalizing", "resuming", "ended"}
    /\ generation \in 1..MaxGenerations /\ seen \in 0..now
    /\ store \in Seq(Receipts) /\ engine.book \in Seq(Receipts)
    /\ engine.owner \in Ids(engine) \union {0}
    /\ Cardinality(Ids(engine)) = Cardinality(engine.captures)
    /\ (barrier.for = "finalize") <=> (phase = "finalizing")
    /\ (barrier.for = "resume") <=> (phase = "resuming")
    /\ DOMAIN engine.evidence \subseteq Nat \ {0}
    /\ \A c \in engine.captures : c.target \in Nat \ {0} /\ c.turns \in Seq(Receipts)

\* An instruction that is reported completed was answered: the turn banked under its
\* ordinal ended after it was rendered and, if no human types, is the turn it started.
\* A late receipt of older work never answers it, nor does a turn of the next process.
AnswersItsInstruction ==
    \A i \in Instructions : engine.told[i].state = "completed" =>
        LET r == store[engine.told[i].target]
        IN  /\ r.turn \in DOMAIN turns
            /\ turns[r.turn].end >= engine.told[i].at
            /\ "human" \notin setup.disturbances => i \in turns[r.turn].of

\* A finalization publishes the exit, and a resume exposes the new process or is
\* refused: neither waits forever, whatever the captures, commits and retirements it
\* waits for turn into.
BarrierEnds == (barrier.for # "none") ~> (barrier.for = "none")

=============================================================================
