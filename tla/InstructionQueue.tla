-------------------------- MODULE InstructionQueue --------------------------
(***************************************************************************)
(* The mailbox of one session: src/orchestration/instruction-queue.ts and  *)
(* the delivery boundary of the session it writes to                       *)
(* (session-io-surface.ts, worker-input-admission.ts and the delivery half *)
(* of worker-turn-engine.ts).                                              *)
(*                                                                         *)
(* All writers of a target run one after another on its promise chain:     *)
(* `chain` holds the works waiting, `running` the flush at the head, which *)
(* is split at the awaits between reading the store, asking the provider   *)
(* and recording the answer.  Only the first put of `enqueue` is outside   *)
(* the chain.  The screen, the operator and the process move in between.   *)
(***************************************************************************)
EXTENDS Integers, FiniteSets, Sequences, SequencesExt

CONSTANTS
    Messages,       \* message ids
    Setups,         \* what kind of instruction each of them carries
    MaxCalls,       \* bound: enqueue calls of one message id at a time
    MaxBacklog,     \* bound: works waiting when the session moves
    MaxGeneration,  \* bound: processes of the session
    MaxMishaps      \* bound: resumes and receipts that are lost, together

Kinds == {"ordinary",   \* from an orchestrator or a worker
          "policy",     \* brokerOwned
          "wake",       \* submissionKind "wake" of an orchestrator session
          "native",     \* launch: true, the brief in the launch arguments
          "brief"}      \* launch: false, the brief typed after the launch

QueueConstants ==
    /\ Setups \subseteq [Messages -> Kinds]
    /\ \A s \in Setups : Cardinality({m \in Messages : s[m] \in {"native", "brief"}}) <= 1
    /\ {MaxCalls, MaxBacklog, MaxMishaps} \subseteq Nat
    /\ MaxGeneration \in Nat \ {0}

VARIABLES
    kindOf,         \* the setup of this behaviour
    records,        \* the store: one record per instruction, oldest first
    calls,          \* enqueue calls between their duplicate check and their put
    chain,          \* writers waiting on the target's promise chain
    running,        \* the flush that runs
    session,        \* the target: its registry record and its process
    generation,     \* process generation
    controller,     \* a human controller is attached
    screen,         \* what the provider shows
    observed,       \* observedWorking: a turn whose end is not banked
    rendered,       \* the engine's rendered entries
    deliveryHeld,   \* the engine owes the queue a boundary
    wakeHeld,       \* heldWakes of the I/O surface
    fence,          \* no activity since the admission in progress began
    unavailable,    \* initialRecoveryFailures: the first turn cannot be read
    written,        \* history: what the present process was given
    withdrawn,      \* history: records cancelled by withdraw
    unrecorded      \* history: records whose receipt could not be stored

queue == <<records, calls, chain, running>>
process == <<session, generation, controller, unavailable>>
surface == <<screen, observed, rendered, deliveryHeld, wakeHeld, fence>>
history == <<written, withdrawn, unrecorded>>
vars == <<kindOf, queue, process, surface, history>>

Lifecycle == <<"accepted", "queued", "rendered", "submitted", "acknowledged", "completed">>
Settled == {"completed", "undelivered", "cancelled"}
Statuses == ToSet(Lifecycle) \cup Settled
Pending == {"accepted", "queued"}
ReachedProvider == {"submitted", "acknowledged", "completed"}

None == "none"
WakeHolds == {"wake-turn-in-flight", "wake-composer-occupied", "wake-operator-active"}
\* Why a delivery is refused, as far as the queue tells reasons apart: "engine" are
\* the holds of the turn engine, "terminal" also an exhausted budget, "unread" is
\* native-recovery-unavailable.
Reasons == WakeHolds \cup {"engine", "controller", "attention", "obsolete", "terminal", "unread"}
Screens == {"unknown",  \* no input surface yet: starting up, a trust dialog
            "idle", "typed", "modal", "working"}

\* `held`: the generation whose session owes a queued record another flush.
Record == [msg : Messages, status : Statuses, held : 0..MaxGeneration]
Entry == [rec : Nat, state : {"rendered", "submitted", "acknowledged"}]
Idle == [at |-> "idle"]

Flush == [do |-> "flush"]
Apply(r, s) == [do |-> "apply", rec |-> r, state |-> s]

Kind(r) == kindOf[records[r].msg]
IsWake(r) == Kind(r) = "wake"
Launches == {"native", "brief"}
Known(m) == \E r \in DOMAIN records : records[r].msg = m

Init ==
    /\ kindOf \in Setups
    /\ records = <<>> /\ calls = [m \in Messages |-> 0]
    /\ chain = <<>> /\ running = Idle
    /\ session = "launching" /\ generation = 1
    /\ controller = FALSE /\ unavailable = FALSE
    /\ screen = "unknown" /\ observed = FALSE
    /\ rendered = <<>> /\ deliveryHeld = FALSE /\ wakeHeld = None /\ fence = FALSE
    /\ written = <<>> /\ withdrawn = {} /\ unrecorded = {}

-----------------------------------------------------------------------------
(* The lifecycle *)

Rank(s) == CHOOSE i \in DOMAIN Lifecycle : Lifecycle[i] = s

\* instructionProgress.
InstructionProgress(current, next) ==
    IF \/ current \in Settled
       \/ next \in ToSet(Lifecycle) /\ Rank(next) < Rank(current)
    THEN current ELSE next

\* The session lifts what it holds back; the attention policy and the recovery of
\* a first turn lift theirs.
Owes(hold) == hold \notin {"attention", "unread"}

\* persistState of the record as it was read, by a flush that began in this generation.
Persisted(r, was, status, hold, gen) ==
    LET next == InstructionProgress(was, status) IN
    [records EXCEPT ![r].status = next,
                    ![r].held = IF next = "queued" /\ Owes(hold) THEN gen ELSE 0]

Accepted(m) == [msg |-> m, status |-> "accepted", held |-> 0]

-----------------------------------------------------------------------------
(* Callers *)

\* The broker takes calls once recovery is through.
Serving == \A i \in DOMAIN chain : chain[i].do # "recover"
InCatalog == session \notin {"launching", "gone"}

\* enqueue up to its put: authorised, the session in the catalog, no duplicate.
Enqueue(m) ==
    /\ kindOf[m] = "ordinary" /\ InCatalog /\ Serving
    /\ ~Known(m) /\ calls[m] < MaxCalls
    /\ calls' = [calls EXCEPT ![m] = @ + 1]
    /\ UNCHANGED <<kindOf, records, chain, running, process, surface, history>>

\* The put, then the flush.
EnqueuePut(m) ==
    /\ calls[m] > 0
    /\ calls' = [calls EXCEPT ![m] = @ - 1]
    /\ records' = Append(records, Accepted(m))
    /\ chain' = Append(chain, Flush)
    /\ UNCHANGED <<kindOf, running, process, surface, history>>

\* enqueueBroker, withdraw and a requested flush join the chain. Withdrawals are of wakes.
Call(work) ==
    /\ Serving /\ Len(chain) < MaxBacklog
    /\ chain' = Append(chain, work)
    /\ UNCHANGED <<kindOf, records, calls, running, process, surface, history>>

EnqueueBroker(m) ==
    /\ kindOf[m] \in {"policy", "wake"} /\ InCatalog
    /\ Call([do |-> "admit", msg |-> m])

Withdraw(m) == kindOf[m] = "wake" /\ Known(m) /\ Call([do |-> "withdraw", msg |-> m])

RequestFlush == records # <<>> /\ session # "launching" /\ Call(Flush)

\* prepareLaunch, during activation: nobody else knows the target yet.
PrepareLaunch(m) ==
    /\ kindOf[m] \in Launches /\ session = "launching" /\ ~Known(m)
    /\ records' = Append(records, Accepted(m))
    /\ UNCHANGED <<kindOf, calls, chain, running, process, surface, history>>

-----------------------------------------------------------------------------
(* The writers *)

\* Mutant: a writer does not wait for the one that runs.
TakeUnserialized(do) == chain # <<>> /\ Head(chain).do = do

\* The next writer starts when the one before it has settled.
Take(do) == running = Idle /\ chain # <<>> /\ Head(chain).do = do

\* enqueueBroker finds no earlier record of the message id.
Admits(m) == ~Known(m)

Admit ==
    /\ Take("admit")
    /\ LET m == Head(chain).msg
           first == {r \in DOMAIN records : records[r].msg = m}
       IN /\ records' = IF Admits(m) THEN Append(records, Accepted(m)) ELSE records
          /\ chain' = Tail(chain) \o
                IF \/ Admits(m)
                   \/ kindOf[m] = "wake" /\ \E r \in first : records[r].status \in Pending
                THEN <<Flush>> ELSE <<>>
    /\ UNCHANGED <<kindOf, calls, running, process, surface, history>>

Withdrawable == Pending

WithdrawNow ==
    /\ Take("withdraw")
    /\ chain' = Tail(chain)
    /\ LET r == CHOOSE i \in DOMAIN records :
                    /\ records[i].msg = Head(chain).msg
                    /\ \A j \in 1..(i - 1) : records[j].msg # Head(chain).msg
       IN IF records[r].status \in Withdrawable
          THEN /\ records' = Persisted(r, records[r].status, "cancelled", None, 0)
               /\ withdrawn' = withdrawn \cup {r}
          ELSE UNCHANGED <<records, withdrawn>>
    /\ UNCHANGED <<kindOf, calls, running, process, surface, written, unrecorded>>

\* applyState; the flush does not depend on whether the update was news.
ApplyState ==
    /\ Take("apply")
    /\ LET r == Head(chain).rec
           s == Head(chain).state
           was == records[r].status
       IN /\ records' = IF was # s /\ was \notin Settled /\ InstructionProgress(was, s) = s
                        THEN [records EXCEPT ![r].status = s, ![r].held = 0]
                        ELSE records
          /\ chain' = Tail(chain) \o IF s \in ReachedProvider THEN <<Flush>> ELSE <<>>
    /\ UNCHANGED <<kindOf, calls, running, process, surface, history>>

\* The flush reads the store.
StartFlush ==
    /\ Take("flush")
    /\ chain' = Tail(chain)
    /\ LET all == [r \in DOMAIN records |-> [rec |-> r, status |-> records[r].status]]
           todo == SelectSeq(all, LAMBDA e : e.status \in Pending)
       IN running' = IF todo = <<>> THEN Idle
                     ELSE [at |-> "head", todo |-> todo, blocked |-> None,
                           gen |-> generation]
    /\ UNCHANGED <<kindOf, records, calls, process, surface, history>>

\* recoverLaunchInstructions, for one launch record, with what the provider's
\* transcript said of its first turn. No process survives the broker, so
\* nothing is delivered here.
Recover ==
    /\ Take("recover")
    /\ chain' = Tail(chain)
    /\ LET r == Head(chain).rec
           evidence == IF Kind(r) = "native" THEN Head(chain).evidence ELSE None
       IN records' =
            CASE evidence \in {"cancelled", "completed"} ->
                    Persisted(r, records[r].status, evidence, None, 0)
              [] evidence = "unavailable" ->
                    Persisted(r, records[r].status, "queued", "unread", 0)
              [] OTHER -> Persisted(r, records[r].status, "undelivered", None, 0)
    /\ UNCHANGED <<kindOf, calls, running, process, surface, history>>

-----------------------------------------------------------------------------
(* The delivery boundary *)

HasNative(entries) == \E i \in DOMAIN entries : Kind(entries[i].rec) = "native"

\* A launch receipt and any rendered input own the next turn.
OwnsTurn(entries) ==
    HasNative(entries) \/ \E i \in DOMAIN entries : entries[i].state = "rendered"

\* deliveryHold of the engine, for an active session.
DeliveryHoldOf(scr, obs, entries) ==
    IF scr # "idle" \/ obs \/ OwnsTurn(entries) THEN "engine" ELSE None

DeliveryHold == DeliveryHoldOf(screen, observed, rendered)

\* wakeHold, the operator's recent input aside.
WakeHold ==
    IF screen = "working" \/ rendered # <<>> THEN "wake-turn-in-flight"
    ELSE IF screen = "typed" THEN "wake-composer-occupied" ELSE None

\* What the I/O surface holds against a write: for a wake its own boundary, for
\* anything else a human controller.
SurfaceHold(wake, operatorActive) ==
    CASE ~wake -> IF controller THEN "controller" ELSE None
      [] wake /\ WakeHold # None -> WakeHold
      [] wake /\ WakeHold = None -> IF operatorActive THEN "wake-operator-active" ELSE None

\* Why submitInstruction refuses before it looks at the native turns. Until the
\* exit is published a finalizing session is still an active record.
Refusal(wake, operatorActive) ==
    CASE session \in {"active", "finalizing"} ->
            IF SurfaceHold(wake, operatorActive) # None THEN SurfaceHold(wake, operatorActive)
            ELSE IF session = "finalizing" THEN "terminal" ELSE DeliveryHold
      [] OTHER -> "terminal"

\* What the queue records for a refusal.
Outcome(reason) ==
    CASE reason = "terminal" -> "undelivered"
      [] reason = "obsolete" -> "cancelled"
      [] OTHER -> "queued"

Answer(status, hold) ==
    running' = [at |-> "persist", todo |-> running.todo, blocked |-> running.blocked,
                gen |-> running.gen, status |-> status, hold |-> hold]

\* Mutant: a refusal is not remembered by the engine.
HeldForgetful(reason) == deliveryHeld

\* holdInstruction remembers that a boundary is owed.
Held(reason) == deliveryHeld \/ reason = "engine"

Refuse(reason) ==
    /\ Answer(Outcome(reason), reason)
    /\ deliveryHeld' = Held(reason)
    /\ wakeHeld' = IF reason \in WakeHolds THEN reason ELSE wakeHeld
    /\ UNCHANGED <<rendered, written>>

\* Behind a held head only a wake may be tried, past a human controller.
Bypasses(r) == IsWake(r) /\ running.blocked = "controller"

AtHead == running.at = "head"
Current == Head(running.todo).rec
Tries == running.blocked = None \/ Bypasses(Current)

Advance(blocked) ==
    running' = IF Len(running.todo) = 1 THEN Idle
               ELSE [at |-> "head", todo |-> Tail(running.todo), blocked |-> blocked,
                     gen |-> running.gen]

\* What is not tried behind a held head gets its hold.
HoldBehind ==
    /\ AtHead /\ ~Tries
    /\ records' = Persisted(Current, Head(running.todo).status, "queued",
                            running.blocked, running.gen)
    /\ Advance(running.blocked)
    /\ UNCHANGED <<kindOf, calls, chain, process, surface, history>>

\* tryDeliver of a launch record never writes: the brief was in the arguments. Only
\* an unread first turn leaves it queued.
DeliverNative ==
    /\ AtHead /\ Tries /\ Kind(Current) = "native"
    /\ IF session \in {"active", "finalizing"} THEN Answer("rendered", None)
       ELSE IF records[Current].status = "queued" THEN Answer("queued", "unread")
       ELSE Answer("undelivered", "terminal")
    /\ UNCHANGED <<kindOf, records, calls, chain, process, surface, history>>

\* submitInstruction up to the native preflight; the budget gate comes first. A
\* wake for a finalizing session is an error, which ends the flush.
Deliver ==
    /\ AtHead /\ Tries /\ Kind(Current) # "native"
    /\ \E exhausted \in BOOLEAN, operatorActive \in BOOLEAN :
          LET wake == IsWake(Current)
              reason == IF exhausted THEN "terminal" ELSE Refusal(wake, operatorActive)
              passes == wake /\ session = "active" /\ ~exhausted /\ reason \notin WakeHolds
          IN IF ~exhausted /\ wake /\ session = "finalizing"
             THEN running' = Idle /\ UNCHANGED <<deliveryHeld, wakeHeld, fence>>
             ELSE IF reason # None
             THEN /\ Answer(Outcome(reason), reason)
                  /\ deliveryHeld' = Held(reason)
                  /\ wakeHeld' = IF reason \in WakeHolds THEN reason
                                 ELSE IF passes THEN None ELSE wakeHeld
                  /\ fence' = fence
             ELSE /\ running' = [running EXCEPT !.at = "preflight"]
                  /\ fence' = TRUE
                  /\ wakeHeld' = IF passes THEN None ELSE wakeHeld
                  /\ UNCHANGED deliveryHeld
    /\ UNCHANGED <<kindOf, records, calls, chain, process, screen, observed, rendered, history>>

\* After the preflight the engine looks again: the process, the activity since, its holds.
Recheck ==
    CASE session # "active" -> "terminal"
      [] session = "active" -> IF fence THEN DeliveryHold ELSE "engine"

\* The native turns must be readable, the attention policy may hold a wake or
\* find it obsolete, and the surface is asked again synchronously with the write.
Write ==
    /\ running.at = "preflight"
    /\ \E readable \in BOOLEAN, operatorActive \in BOOLEAN,
         attention \in IF IsWake(Current) THEN {None, "attention", "obsolete"} ELSE {None} :
          LET reason == IF ~readable THEN "engine"
                        ELSE IF Recheck # None THEN Recheck
                        ELSE IF attention # None THEN attention
                        ELSE SurfaceHold(IsWake(Current), operatorActive)
          IN IF reason # None THEN Refuse(reason)
             ELSE /\ Answer("rendered", None)
                  /\ rendered' = Append(rendered, [rec |-> Current, state |-> "rendered"])
                  /\ written' = Append(written, Current)
                  /\ UNCHANGED <<deliveryHeld, wakeHeld>>
    /\ fence' = FALSE
    /\ UNCHANGED <<kindOf, records, calls, chain, process, screen, observed, withdrawn, unrecorded>>

\* The answer is recorded; it decides what happens to the records behind.
Persist ==
    /\ running.at = "persist"
    /\ LET status == InstructionProgress(Head(running.todo).status, running.status)
       IN /\ records' = Persisted(Current, Head(running.todo).status, running.status,
                                  running.hold, running.gen)
          /\ Advance(IF running.blocked # None \/ status \in ReachedProvider \cup Settled
                     THEN running.blocked
                     ELSE IF status = "rendered" THEN "engine" ELSE running.hold)
    /\ UNCHANGED <<kindOf, calls, chain, process, surface, history>>

Mishaps == Cardinality(unrecorded) + generation - 1

\* The transcript or the store refuses the write: the flush rejects.
PersistFails ==
    /\ running.at = "persist" /\ Mishaps < MaxMishaps
    /\ running' = Idle
    /\ unrecorded' = unrecorded \cup {Current}
    /\ UNCHANGED <<kindOf, records, calls, chain, process, surface, written, withdrawn>>

-----------------------------------------------------------------------------
(* The session *)

\* The engine's announcements join the chain of the target.
Announce(updates, boundary) == chain' = chain \o updates \o IF boundary THEN <<Flush>> ELSE <<>>
Moves == Len(chain) < MaxBacklog

\* advanceRendered: the announcements of an entry that takes these steps.
Path(e, steps) ==
    SelectSeq([i \in DOMAIN steps |-> Apply(e.rec, steps[i])],
              LAMBDA a : a.state \in Settled \/ Rank(a.state) > Rank(e.state))
Paths(steps) == FoldLeft(LAMBDA all, e : all \o Path(e, steps), <<>>, rendered)
Taken == <<"submitted", "acknowledged">>

\* stopPendingInstructions: what the dead process leaves of an entry.
Abandoned(e) == IF e.state = "rendered" THEN "undelivered" ELSE "cancelled"

\* A commit still in flight is taken to have settled: a resume waits for it.
Retired == FoldLeft(LAMBDA all, e :
                        all \o IF Abandoned(e) = "cancelled" THEN Path(e, Taken \o <<"cancelled">>)
                               ELSE <<Apply(e.rec, "undelivered")>>,
                    <<>>, rendered)

NativeRecords == {r \in DOMAIN records : Kind(r) = "native"}
\* The entry with which an engine starts when its brief is in the launch arguments.
GivenAtLaunch == [i \in 1..Cardinality(NativeRecords) |-> [rec |-> i, state |-> "rendered"]]
BriefRecords == {r \in DOMAIN records : Kind(r) = "brief"}

\* The spawn: a native brief is in its arguments, a typed one is flushed afterwards.
Activate ==
    /\ session = "launching"
    /\ session' = "active"
    /\ rendered' = GivenAtLaunch
    /\ written' = [i \in 1..Cardinality(NativeRecords) |-> i]
    /\ Announce([i \in 1..Cardinality(NativeRecords) |-> Apply(i, "rendered")], BriefRecords # {})
    /\ UNCHANGED <<kindOf, records, calls, running, generation, controller, unavailable,
                   screen, observed, deliveryHeld, wakeHeld, fence, withdrawn, unrecorded>>

\* The runtime and its engine are dropped.
Drop ==
    /\ session' = "gone" /\ controller' = FALSE
    /\ rendered' = <<>> /\ deliveryHeld' = FALSE /\ fence' = FALSE
    /\ screen' = "unknown" /\ observed' = FALSE /\ written' = <<>>
    /\ UNCHANGED <<kindOf, records, calls, running, generation, unavailable, wakeHeld,
                   withdrawn, unrecorded>>

\* The launch or the initialization fails: the prepared brief is flushed.
LaunchFails ==
    /\ session = "launching" \/ (session = "active" /\ generation = 1 /\ screen = "unknown")
    /\ Moves
    /\ Drop
    /\ Announce(<<>>, NativeRecords \cup BriefRecords # {})

\* appendOutput. Until the input surface has been seen, only a launch prompt makes
\* a working screen mean a turn; the announced boundary follows the new reading.
Output(s) ==
    LET taken == s = "working"
        entries == IF ~taken THEN rendered
                   ELSE [i \in DOMAIN rendered |-> [rendered[i] EXCEPT !.state = "acknowledged"]]
        boundary == deliveryHeld /\ DeliveryHoldOf(s, observed \/ taken, entries) = None
    IN /\ session = "active" /\ Moves
       /\ screen = "unknown" =>
             s \in {"unknown", "idle"} \/ (s = "working" /\ HasNative(rendered))
       /\ s = "unknown" => screen = "unknown"
       /\ screen' = s /\ observed' = (observed \/ taken)
       /\ rendered' = entries
       /\ deliveryHeld' = (deliveryHeld /\ ~boundary)
       /\ fence' = FALSE
       /\ Announce(IF taken THEN Paths(Taken) ELSE <<>>, boundary)
       /\ UNCHANGED <<kindOf, records, calls, running, process, wakeHeld, history>>

\* applyCurrentTurnReceipt, from the screen or the provider's transcript, and the
\* boundary after it unless newer activity made that stale.
Bank(outcome, announced) ==
    LET scr == IF screen = "working" THEN "idle" ELSE screen
        boundary == announced /\ deliveryHeld /\ DeliveryHoldOf(scr, FALSE, <<>>) = None
    IN /\ session = "active" /\ Moves
       /\ observed \/ rendered # <<>>
       /\ screen' = scr /\ observed' = FALSE /\ rendered' = <<>>
       /\ deliveryHeld' = (deliveryHeld /\ ~boundary)
       /\ Announce(Paths(Taken \o <<outcome>>), boundary)
       /\ UNCHANGED <<kindOf, records, calls, running, process, wakeHeld, fence, history>>

\* The screen shows the end of a turn of which the native source has no receipt.
BankRefused ==
    /\ session = "active" /\ observed /\ screen = "idle"
    /\ observed' = FALSE
    /\ UNCHANGED <<kindOf, queue, process, screen, rendered, deliveryHeld, wakeHeld, fence,
                   history>>

\* The session update listener of the I/O surface, or its quiet timer.
WakeReleased ==
    /\ wakeHeld # None /\ Moves
    /\ session # "active" \/ wakeHeld = "wake-operator-active" \/ WakeHold # wakeHeld
    /\ wakeHeld' = None
    /\ Announce(<<>>, TRUE)
    /\ UNCHANGED <<kindOf, records, calls, running, process, screen, observed,
                   rendered, deliveryHeld, fence, history>>

Controlled(to) ==
    /\ controller' = to
    /\ UNCHANGED <<kindOf, records, calls, running, session, generation, unavailable, surface,
                   history>>

Attach == session = "active" /\ ~controller /\ Controlled(TRUE) /\ UNCHANGED chain

\* detach, the release announced once the journal has it.
Detach == controller /\ Moves /\ Controlled(FALSE) /\ Announce(<<>>, TRUE)

\* stop: the record is cancelled, the process still to exit.
Stop ==
    /\ session = "active"
    /\ session' = "closing" /\ screen' = "unknown" /\ observed' = FALSE
    /\ UNCHANGED <<kindOf, queue, generation, controller, unavailable, rendered,
                   deliveryHeld, wakeHeld, fence, history>>

\* The process stops speaking for the session; nobody reads its screen any more.
Silence(to, gen, keeps) ==
    /\ session' = to /\ generation' = gen /\ controller' = (controller /\ keeps)
    /\ rendered' = <<>> /\ deliveryHeld' = FALSE /\ fence' = FALSE
    /\ screen' = "unknown" /\ observed' = FALSE /\ written' = <<>>
    /\ UNCHANGED <<kindOf, records, calls, running, wakeHeld, withdrawn, unrecorded>>

\* handleFatalObservation: the process may live on.
Fatal ==
    /\ session = "active" /\ Moves
    /\ Silence("closing", generation, FALSE)
    /\ Announce(Retired, deliveryHeld)
    /\ UNCHANGED unavailable

\* handleExit of a running process, and publishTerminalExit once its last turn is settled.
Exit ==
    /\ session = "active"
    /\ session' = "finalizing" /\ screen' = "unknown" /\ observed' = FALSE
    /\ UNCHANGED <<kindOf, queue, generation, controller, unavailable, rendered,
                   deliveryHeld, wakeHeld, fence, history>>

Publish ==
    /\ session \in {"finalizing", "closing"} /\ Moves
    /\ Silence("terminal", generation, FALSE)
    /\ \E last \in {None} \cup IF session = "finalizing" THEN {"completed", "cancelled"} ELSE {} :
          Announce(IF last = None THEN Retired ELSE Paths(Taken \o <<last>>), deliveryHeld)
    /\ UNCHANGED unavailable

\* resume: an unreadable first turn must be readable now. The spawn may fail.
Resume ==
    /\ session \in {"closing", "terminal"} /\ Serving
    /\ generation < MaxGeneration /\ Mishaps < MaxMishaps /\ Moves
    /\ unavailable' = FALSE
    /\ \E evidence \in {None} \cup IF unavailable THEN {"completed", "cancelled"} ELSE {},
         spawned \in BOOLEAN :
          LET told == IF evidence = None THEN <<>>
                      ELSE [i \in 1..Cardinality(NativeRecords) |-> Apply(i, evidence)]
          IN /\ Announce(told \o Retired, deliveryHeld)
             /\ Silence(IF spawned THEN "active" ELSE session,
                        generation + (IF spawned THEN 1 ELSE 0), ~spawned)

Delete == session = "terminal" /\ Serving /\ Drop /\ UNCHANGED chain

\* Which record recovery finds: an initialization that was not through is discarded
\* unless a native brief was given to the provider.
Survives ==
    IF NativeRecords # {} THEN {"terminal"} \cup IF session = "launching" THEN {"gone"} ELSE {}
    ELSE IF session = "launching" THEN {"gone"}
    ELSE {"terminal"} \cup IF generation = 1 /\ screen = "unknown" THEN {"gone"} ELSE {}

\* What recovery reads of the first turn, when it was given at launch.
Evidence(to) ==
    IF to = "gone" \/ NativeRecords = {} THEN {None}
    ELSE {None, "unavailable"} \cup IF session = "launching" THEN {} ELSE {"completed", "cancelled"}

\* The broker dies and recovers what it stored: no process survives it, and every
\* unfinished launch record is looked up in the provider's transcript.
Crash ==
    /\ session # "gone"
    /\ running.at = "persist" => Mishaps < MaxMishaps
    /\ \E to \in Survives : \E read \in Evidence(to) :
          LET open == SelectSeq([r \in DOMAIN records |-> r],
                                LAMBDA r : Kind(r) \in Launches /\ records[r].status \notin Settled)
          IN /\ session' = to
             /\ unavailable' = (read = "unavailable")
             /\ chain' = [i \in DOMAIN open |->
                            [do |-> "recover", rec |-> open[i], evidence |-> read]]
             /\ rendered' = IF to = "gone" \/ read \in {"completed", "cancelled"} THEN <<>>
                            ELSE GivenAtLaunch
    /\ calls' = [m \in Messages |-> 0] /\ running' = Idle
    /\ controller' = FALSE
    /\ screen' = "unknown" /\ observed' = FALSE /\ written' = <<>>
    /\ deliveryHeld' = FALSE /\ wakeHeld' = None /\ fence' = FALSE
    /\ unrecorded' = unrecorded \cup IF running.at = "persist" THEN {Current} ELSE {}
    /\ UNCHANGED <<kindOf, records, generation, withdrawn>>

Writers == Admit \/ WithdrawNow \/ ApplyState \/ StartFlush \/ Recover
Delivery == HoldBehind \/ DeliverNative \/ Deliver \/ Write \/ Persist \/ PersistFails
Banks == \E o \in {"completed", "cancelled"}, a \in BOOLEAN : Bank(o, a)

Next ==
    \/ \E m \in Messages : \/ Enqueue(m) \/ EnqueuePut(m) \/ EnqueueBroker(m)
                           \/ Withdraw(m) \/ PrepareLaunch(m)
    \/ RequestFlush
    \/ Writers \/ Delivery
    \/ Activate \/ LaunchFails \/ (\E s \in Screens : Output(s)) \/ Banks \/ BankRefused
    \/ WakeReleased \/ Attach \/ Detach
    \/ Stop \/ Fatal \/ Exit \/ Publish \/ Resume \/ Delete \/ Crash

Spec == Init /\ [][Next]_vars

-----------------------------------------------------------------------------
(* Properties *)

TypeOK ==
    /\ kindOf \in Setups
    /\ records \in Seq(Record) /\ calls \in [Messages -> 0..MaxCalls]
    /\ \A i \in DOMAIN chain : chain[i].do \in {"flush", "apply", "admit", "withdraw", "recover"}
    /\ running.at \in {"idle", "head", "preflight", "persist"}
    /\ session \in {"launching", "active", "finalizing", "closing", "terminal", "gone"}
    /\ generation \in 1..MaxGeneration
    /\ {controller, unavailable, observed, deliveryHeld, fence} \subseteq BOOLEAN
    /\ screen \in Screens
    /\ rendered \in Seq(Entry) /\ wakeHeld \in WakeHolds \cup {None}
    /\ written \in Seq(Nat) /\ {withdrawn, unrecorded} \subseteq SUBSET (DOMAIN records)

\* No process is given the same instruction twice, however flushes, observations
\* and withdrawals interleave on the chain (`writers`, one writer per target).
\* Only a receipt that could not be stored leaves an instruction to be repeated.
WrittenOnce ==
    \A i, j \in DOMAIN written : i < j /\ written[i] = written[j] => written[j] \in unrecorded

Quiescent == chain = <<>> /\ running = Idle

\* While the process that refused an instruction runs and no writer is under way,
\* something is left that will flush it: the engine owes a boundary, a controller
\* will let go, the wake boundary is watched, or the instruction ahead of it still
\* has to be consumed. The attention policy looks after what it holds itself, and
\* a failure of the store ends a flush without another. The brief of an earlier
\* process, when its fate could not be read, is left aside.
HeldIsWatched ==
    Quiescent /\ session = "active" /\ unrecorded = {} /\ (generation = 1 \/ NativeRecords = {}) =>
        \A r \in DOMAIN records :
            records[r].status = "queued" /\ records[r].held = generation =>
               \/ deliveryHeld \/ controller \/ wakeHeld # None
               \/ \E i \in DOMAIN rendered : rendered[i].state = "rendered"

=============================================================================
