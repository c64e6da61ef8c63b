------------------------- MODULE OrchestratorNotices -------------------------
(***************************************************************************)
(* The notification feed of one orchestrator: the producer that turns      *)
(* worker updates, instructions and events into inbox records              *)
(* (broker/orchestrator-notification-producer.ts), the durable inbox       *)
(* (persistence/orchestrator-notification-store.ts), and the delivery that *)
(* keeps notice.json current, answers tool calls with a notice and wakes   *)
(* an idle orchestrator (broker/orchestrator-notification-delivery.ts).    *)
(*                                                                         *)
(* The producer's chain and the delivery's per-controller chain each run   *)
(* one operation at a time; the orchestrator's turns, its hook, its drains *)
(* and the instruction queue run beside them.  The inbox is fsynced before *)
(* it becomes readable, so one variable stands for the log and the live    *)
(* maps: they differ only after a failed write, when nothing can be read   *)
(* until the broker restarts.                                              *)
(***************************************************************************)
EXTENDS Naturals, Sequences, FiniteSets, FiniteSetsExt, SequencesExt

CONSTANTS
    Workers,      \* worker sessions of this controller
    MaxTurns,     \* bound: turns a worker completes
    MaxReports,   \* bound: coordination events a worker reports
    Capacity,     \* NOTIFICATION_LIMITS.maxUnacknowledgedPerController
    PageMax,      \* NOTIFICATION_LIMITS.drainPageMax
    MaxWakes,     \* policy.maxWakesPerHour
    MaxHead,      \* bound: records ever appended
    MaxMoves,     \* bound: moves of the workers and the orchestrator, and faults
    MaxHours,     \* bound: hours that pass
    MaxFaults     \* bound: broker restarts and failed writes

ASSUME NoticesAssumption ==
    /\ IsFiniteSet(Workers)
    /\ Capacity \in Nat \ {0} /\ PageMax \in Nat \ {0} /\ MaxWakes \in Nat \ {0}
    /\ MaxTurns \in Nat /\ MaxReports \in Nat /\ MaxHead \in Nat
    /\ MaxHours \in Nat /\ MaxMoves \in Nat /\ MaxFaults \in Nat

VARIABLES
    worker,    \* w -> [done, expected, terminal, reports]: what the journals hold
    inbox,     \* [recs, keys, head, noticed, dropped, wakeOff]
    loaded,    \* the store may be read and written
    producer,  \* [tail, targets, ended]
    delivery,  \* [jobs, pc, wake, head, shown, timer, spent]
    wakes,     \* head cursor -> status of the wake instruction of that id
    file,      \* notice.json
    actor,     \* [state, page, hook, seen]: the orchestrator's session
    hour, faults, moves,
    appended   \* history: how often a dedupe key was appended as "once"

vars == <<worker, inbox, loaded, producer, delivery, wakes, file, actor,
          hour, faults, moves, appended>>

Kinds == {"settled", "intervention", "progress", "budget"}

(* The drop order of the kinds modelled: what is dropped first comes first. *)
DropRank == [k \in Kinds |-> CASE k = "progress" -> 1 [] k = "budget" -> 2
                               [] k = "settled" -> 3 [] k = "intervention" -> 4]

(* Eligible under "steering-only", the default policy, unless wakes are off. *)
WakeEligible(kind, off) == ~off /\ kind \in {"settled", "intervention"}

SettledKey(w, t) == <<"settled", w, t>>   \* t = 0: the terminal settlement
ProgressKey(w) == <<"progress", w, 0>>
EventKey(w, n) == <<"event", w, n>>

NoFile == [cursor |-> 0, noticed |-> 0, pending |-> 0, dropped |-> 0]

Idle == [jobs |-> <<>>, pc |-> "start", wake |-> 0, head |-> 0, shown |-> 0,
         timer |-> "none", spent |-> 0]

(* The sweep of start: the truth is read when the operation runs. *)
CatchUp(w) == [op |-> "update", w |-> w, done |-> 0, terminal |-> FALSE, catchUp |-> TRUE]

(* The broker starts with an empty inbox over workers that may have worked. *)
Init ==
    /\ worker \in [Workers -> [done : 0..1, expected : {{}}, terminal : {FALSE},
                               reports : {0}]]
    /\ inbox = [recs |-> {}, keys |-> {}, head |-> 0, noticed |-> 0,
                dropped |-> 0, wakeOff |-> FALSE]
    /\ loaded = TRUE
    /\ producer = [tail |-> SetToSeq({CatchUp(w) : w \in Workers}), targets |-> [w \in Workers |-> {1}],
                   ended |-> {}]
    /\ delivery = Idle
    /\ wakes = [h \in 1..MaxHead |-> "none"]
    /\ file = NoFile
    /\ actor = [state |-> "idle", page |-> 0, hook |-> 0, seen |-> 0]
    /\ hour = 0 /\ faults = 0 /\ moves = 0
    /\ appended = [k \in {} |-> 0]

-----------------------------------------------------------------------------
(* The inbox. *)

Pending == inbox.recs
PendingAfter(c) == {r \in inbox.recs : r.cursor > c}

(* listPending: the oldest PageMax records. *)
Page == {r \in Pending : Cardinality({q \in Pending : q.cursor < r.cursor}) < PageMax}

(* What a full inbox gives up to admit one more: the lowest kind, oldest first. *)
Victims(recs) ==
    IF Cardinality(recs) < Capacity THEN {}
    ELSE {CHOOSE r \in recs : \A q \in recs \ {r} :
            \/ DropRank[r.kind] < DropRank[q.kind]
            \/ DropRank[r.kind] = DropRank[q.kind] /\ r.cursor < q.cursor}

Dropped(box) ==
    [box EXCEPT !.recs = @ \ Victims(@),
                !.dropped = @ + Cardinality(Victims(box.recs))]

Record(box, d) ==
    [cursor |-> box.head + 1, key |-> d.key, kind |-> d.kind,
     eligible |-> WakeEligible(d.kind, box.wakeOff)]

Replaced(box, d) == {r \in box.recs : r.key = d.key}

Known(box, d) == d.key \in box.keys

(* append: a known key is a duplicate under "once"; under "replace" the new *)
(* record takes the place of the pending one of its key.                    *)
Duplicate(box, d) == d.dedupe = "once" /\ Known(box, d)

Append1(box, d) ==
    LET old == IF d.dedupe = "replace" THEN Replaced(box, d) ELSE {}
        room == IF old = {} THEN Dropped(box) ELSE [box EXCEPT !.recs = @ \ old]
    IN  [room EXCEPT !.recs = @ \cup {Record(room, d)},
                     !.keys = @ \cup {d.key},
                     !.head = @ + 1]

Acknowledged(box, recs) == [box EXCEPT !.recs = @ \ recs, !.dropped = 0]

(* onChange and onSessionUpdate queue a job.  One that already waits is not  *)
(* queued again, for it has read nothing yet, and "changed" ends with a      *)
(* reconcile of its own.                                                     *)
Waiting(jobs) ==
    IF jobs = <<>> THEN {} ELSE IF delivery.pc = "start" THEN Range(jobs) ELSE Range(Tail(jobs))

Queued(jobs, job) ==
    IF job \in Waiting(jobs) \/ (job = "reconcile" /\ "changed" \in Waiting(jobs))
    THEN jobs ELSE Append(jobs, job)

Announce == [delivery EXCEPT !.jobs = Queued(@, "changed")]

Told(d) == IF d.dedupe = "replace" THEN appended
           ELSE [k \in DOMAIN appended \cup {d.key} |->
                   (IF k \in DOMAIN appended THEN appended[k] ELSE 0)
                     + (IF k = d.key THEN 1 ELSE 0)]

-----------------------------------------------------------------------------
(* What workers do.  Each durable change is observed: the session update is *)
(* captured with the truth of that moment.                                  *)

Observed(op) == producer' = [producer EXCEPT !.tail = Append(@, op)]

Truth(w) == [op |-> "update", w |-> w, done |-> worker'[w].done,
                    terminal |-> worker'[w].terminal, catchUp |-> FALSE]

(* The environment's moves are bounded together. *)
Move == moves < MaxMoves /\ moves' = moves + 1

(* Bound: the producer's chain is not more than two observations behind. *)
Room == Len(producer.tail) < 2

outside == <<inbox, loaded, delivery, wakes, file, actor, hour, faults, appended>>

TurnEnds(w) ==
    /\ Room /\ ~worker[w].terminal /\ worker[w].done < MaxTurns
    /\ worker' = [worker EXCEPT ![w].done = @ + 1]
    /\ Observed(Truth(w))
    /\ Move
    /\ UNCHANGED outside

WorkerEnds(w) ==
    /\ Room /\ ~worker[w].terminal
    /\ worker' = [worker EXCEPT ![w].terminal = TRUE]
    /\ Observed(Truth(w))
    /\ Move
    /\ UNCHANGED outside

(* The queue persists the turn an instruction is to be answered by, before *)
(* or after that turn completes.                                           *)
ExpectTurn(w, t) ==
    /\ Room /\ t \notin worker[w].expected /\ t <= worker[w].done + 1
    /\ worker' = [worker EXCEPT ![w].expected = @ \cup {t}]
    /\ Observed([op |-> "instruction", w |-> w, target |-> t])
    /\ Move
    /\ UNCHANGED outside

Report(w, kind) ==
    /\ Room /\ ~worker[w].terminal /\ worker[w].reports < MaxReports
    /\ worker' = [worker EXCEPT ![w].reports = @ + 1]
    /\ Observed([op |-> "event", w |-> w, kind |-> kind, id |-> worker[w].reports + 1])
    /\ Move
    /\ UNCHANGED outside

-----------------------------------------------------------------------------
(* The producer: the drafts an observation still owes, in order. *)

(* addTarget: an observed instruction adds the turn it expects. *)
TargetsFromNextTurn(op) ==
    producer.targets[op.w]
      \cup (IF op.op = "instruction" THEN {op.target} \ 1..worker[op.w].done ELSE {})

Targets(op) ==
    producer.targets[op.w] \cup (IF op.op = "instruction" THEN {op.target} ELSE {})

(* workerTruth as captured by a session update, or read when the operation   *)
(* runs: the sweep and the recheck after an instruction was persisted.       *)
TruthOf(op) ==
    IF op.op = "update" /\ ~op.catchUp THEN [done |-> op.done, terminal |-> op.terminal]
    ELSE [done |-> worker[op.w].done, terminal |-> worker[op.w].terminal]

Reached(op) == {t \in Targets(op) : t <= TruthOf(op).done}

SettledDraft(w, t) == [key |-> SettledKey(w, t), kind |-> "settled", dedupe |-> "once"]

(* The drafts an observation owes next: the targets it has reached in their  *)
(* order, then the end of the worker, once.                                  *)
Due(op) ==
    IF op.op = "event"
    THEN {[key |-> IF op.kind = "progress" THEN ProgressKey(op.w) ELSE EventKey(op.w, op.id),
           kind |-> op.kind,
           dedupe |-> IF op.kind = "progress" THEN "replace" ELSE "once"]}
    ELSE IF Reached(op) /= {} THEN {SettledDraft(op.w, Min(Reached(op)))}
    ELSE IF op.op = "update" /\ TruthOf(op).terminal /\ op.w \notin producer.ended
         THEN {SettledDraft(op.w, 0)}
    ELSE {}

(* settleTargets reads the truth once: an instruction that wrote one target   *)
(* goes through the other targets reached by then.                           *)
Settling(w) == [op |-> "update", w |-> w, done |-> worker[w].done,
                terminal |-> FALSE, catchUp |-> FALSE]

(* What the producer remembers of a draft it wrote, and what it still owes. *)
Settled(op, d) ==
    [producer EXCEPT
       !.targets[op.w] = IF d.kind = "settled" THEN Targets(op) \ {d.key[3]} ELSE @,
       !.ended = IF d.key = SettledKey(op.w, 0) THEN @ \cup {op.w} ELSE @,
       !.tail = IF op.op = "event" THEN Tail(@)
                ELSE IF op.op = "instruction" THEN [@ EXCEPT ![1] = Settling(op.w)]
                ELSE @]

(* An operation with nothing left to write is over; while the store is not   *)
(* loaded every write throws, and ends the operation.                        *)
OperationEnds ==
    /\ Len(producer.tail) > 0
    /\ LET op == Head(producer.tail)
       IN  /\ ~loaded \/ Due(op) = {}
           /\ producer' = [producer EXCEPT !.targets[op.w] = Targets(op), !.tail = Tail(@)]
    /\ UNCHANGED moves
    /\ UNCHANGED <<worker, inbox, loaded, delivery, wakes, file, actor, hour, faults, appended>>

Produce ==
    /\ loaded /\ Len(producer.tail) > 0 /\ inbox.head < MaxHead
    /\ LET op == Head(producer.tail)
       IN  \E d \in Due(op) :
             /\ producer' = Settled(op, d)
             /\ IF Duplicate(inbox, d)
                THEN UNCHANGED <<inbox, delivery, appended>>
                ELSE /\ inbox' = Append1(inbox, d)
                     /\ delivery' = Announce
                     /\ appended' = Told(d)
    /\ UNCHANGED moves
    /\ UNCHANGED <<worker, loaded, wakes, file, actor, hour, faults>>

(* A write that fails may have reached the log, or only its drop may have:   *)
(* the observation is abandoned, and the store answers nothing until it is   *)
(* loaded again, which only a restart does.                                  *)
WriteFails ==
    /\ faults < MaxFaults /\ loaded
    /\ Len(producer.tail) > 0 /\ inbox.head < MaxHead
    /\ LET op == Head(producer.tail)
       IN  \E d \in Due(op) :
             /\ ~Duplicate(inbox, d)
             /\ \/ inbox' = inbox /\ appended' = appended
                \/ inbox' = Dropped(inbox) /\ appended' = appended
                \/ inbox' = Append1(inbox, d) /\ appended' = Told(d)
             /\ producer' = [producer EXCEPT !.targets[op.w] = Targets(op), !.tail = Tail(@)]
    /\ loaded' = FALSE /\ faults' = faults + 1
    /\ Move
    /\ UNCHANGED <<worker, delivery, wakes, file, actor, hour>>

(* The broker restarts.  The inbox, the instructions and the notice files   *)
(* are durable; the sweep of every worker comes first, then the delivery    *)
(* rebuilds the notice file and recovers its wake.                          *)
Restart ==
    /\ faults < MaxFaults \/ ~loaded
    /\ loaded' = TRUE
    /\ producer' = [tail |-> SetToSeq({CatchUp(w) : w \in Workers}),
                    targets |-> [w \in Workers |-> {1} \cup worker[w].expected],
                    ended |-> {}]
    /\ delivery' = [Idle EXCEPT !.jobs = <<"changed">>]
    /\ actor' = [actor EXCEPT !.state = "idle", !.page = 0]
    /\ faults' = IF loaded THEN faults + 1 ELSE faults
    /\ Move
    /\ UNCHANGED <<worker, inbox, wakes, file, hour, appended>>

-----------------------------------------------------------------------------
(* The delivery's reads of the inbox. *)

HasEligible ==
    /\ ~inbox.wakeOff
    /\ \E r \in PendingAfter(inbox.noticed) : r.eligible

NothingToSay == Pending = {} /\ inbox.dropped = 0

(* rewrite: the file describes the inbox, or is removed. *)
FileOf(box) ==
    IF box.recs = {} /\ box.dropped = 0 THEN NoFile
    ELSE [cursor |-> box.head, noticed |-> box.noticed,
          pending |-> Cardinality(box.recs), dropped |-> box.dropped]

Delivered(status) == status = "rendered"

Job == IF delivery.jobs = <<>> THEN "none" ELSE delivery.jobs[1]
At(pc) == delivery.pc = pc /\ loaded

Popped(d) == [d EXCEPT !.jobs = Tail(@), !.pc = "start", !.head = 0, !.shown = 0]

(* Any read of an inbox that is not loaded throws, and ends the job. *)
JobFails ==
    /\ ~loaded /\ Job /= "none"
    /\ delivery' = Popped(delivery)
    /\ UNCHANGED moves
    /\ UNCHANGED <<worker, inbox, loaded, producer, wakes, file, actor, hour, faults, appended>>

(* recoverWake: a wake of an earlier process, queued or rendered and unmarked. *)
Recoverable ==
    {h \in 1..MaxHead : \/ wakes[h] = "queued"
                        \/ Delivered(wakes[h]) /\ h > inbox.noticed}

Changed ==
    /\ At("start") /\ Job = "changed"
    /\ file' = FileOf(inbox)
    /\ \E h \in (IF delivery.wake = 0 /\ Recoverable /= {} THEN Recoverable
                                                           ELSE {delivery.wake}) :
         delivery' = [delivery EXCEPT !.wake = h, !.pc = "reconcile"]
    /\ UNCHANGED moves
    /\ UNCHANGED <<worker, inbox, loaded, producer, wakes, actor, hour, faults, appended>>

(* reconcile: a wake that has been drained, or overtaken by a turn, is      *)
(* withdrawn; one that was rendered is accounted for.                       *)
Reconciles == At("reconcile") \/ (At("start") /\ Job \in {"reconcile", "notice"})
Withdraw == Pending = {} \/ actor.state = "working"

Schedule(d) ==
    IF Pending = {} THEN [d EXCEPT !.timer = "none"]
    ELSE IF d.wake = 0 /\ HasEligible /\ d.timer = "none"
         THEN [d EXCEPT !.timer = "coalesce"] ELSE d

(* A notice goes on to read the hook's sidecar; the other jobs are over. *)
Reconciled(d) ==
    IF Job = "notice" THEN [Schedule(d) EXCEPT !.pc = "shown", !.shown = actor.hook]
                      ELSE Popped(Schedule(d))

Reconcile ==
    /\ Reconciles
    /\ LET h == delivery.wake
       IN  \/ /\ h = 0
              /\ delivery' = Reconciled(delivery)
              /\ UNCHANGED wakes
           \/ /\ h /= 0 /\ wakes[h] = "queued" /\ Withdraw
              /\ wakes' = [wakes EXCEPT ![h] = "cancelled"]
              /\ delivery' = Reconciled([delivery EXCEPT !.wake = 0])
           \/ /\ h /= 0 /\ wakes[h] = "queued" /\ ~Withdraw
              /\ delivery' = Reconciled(delivery)
              /\ UNCHANGED wakes
           \/ /\ h /= 0 /\ Delivered(wakes[h])
              /\ delivery' = [delivery EXCEPT !.pc = "finish"]
              /\ UNCHANGED wakes
    /\ UNCHANGED moves
    /\ UNCHANGED <<worker, inbox, loaded, producer, file, actor, hour, faults, appended>>

(* finishWake: the wake's own head is marked, whatever arrived since; then   *)
MarkedHead == IF delivery.wake > inbox.noticed THEN delivery.wake ELSE inbox.noticed

FinishWake ==
    /\ At("finish")
    /\ inbox' = [inbox EXCEPT !.noticed = MarkedHead]
    /\ file' = FileOf(inbox')
    /\ delivery' = [Announce EXCEPT !.wake = 0, !.pc = "reconcile"]
    /\ UNCHANGED moves
    /\ UNCHANGED <<worker, loaded, producer, wakes, actor, hour, faults, appended>>

(* The busy path: a notice rides on a tool result when the head moved past  *)
(* what either channel showed, or the quiet interval went by.               *)
Notice ==
    /\ At("shown") /\ Job = "notice"
    /\ \E quiet \in BOOLEAN :
         /\ quiet => inbox.noticed > 0
         /\ IF ~NothingToSay
               /\ (quiet \/ inbox.head > Max({inbox.noticed, delivery.shown}))
            THEN delivery' = [delivery EXCEPT !.pc = "mark", !.head = inbox.head]
            ELSE delivery' = Popped(delivery)
    /\ UNCHANGED moves
    /\ UNCHANGED <<worker, inbox, loaded, producer, wakes, file, actor, hour, faults, appended>>

MarkNoticed ==
    /\ At("mark")
    /\ inbox' = [inbox EXCEPT !.noticed = delivery.head]
    /\ file' = FileOf(inbox')
    /\ actor' = [actor EXCEPT !.seen = Max({@, delivery.head})]
    /\ delivery' = Popped(Announce)
    /\ UNCHANGED moves
    /\ UNCHANGED <<worker, loaded, producer, wakes, hour, faults, appended>>

-----------------------------------------------------------------------------
(* The idle path: the coalescing timer fires and a wake is enqueued. *)

TimerFires ==
    /\ \/ delivery.timer = "coalesce"
       \/ delivery.timer = "hour" /\ delivery.spent < MaxWakes
    /\ delivery' = [delivery EXCEPT !.timer = "none", !.jobs = Queued(@, "wake")]
    /\ UNCHANGED moves
    /\ UNCHANGED <<worker, inbox, loaded, producer, wakes, file, actor, hour, faults, appended>>

WakeChecks ==
    /\ At("start") /\ Job = "wake"
    /\ delivery' = IF HasEligible /\ delivery.wake = 0 /\ actor.state = "idle"
                   THEN [delivery EXCEPT !.pc = "shown", !.shown = actor.hook]
                   ELSE Popped(delivery)
    /\ UNCHANGED moves
    /\ UNCHANGED <<worker, inbox, loaded, producer, wakes, file, actor, hour, faults, appended>>

Moot == ~HasEligible \/ actor.state = "working" \/ delivery.shown >= inbox.head

WakeMoot ==
    /\ At("shown") /\ Job = "wake" /\ Moot
    /\ delivery' = Popped(delivery)
    /\ UNCHANGED moves
    /\ UNCHANGED <<worker, inbox, loaded, producer, wakes, file, actor, hour, faults, appended>>

(* The ceiling is reached: the retry is scheduled first, and one record per *)
(* window says so.                                                          *)
Ceiling == [key |-> <<"budget", "ceiling", hour>>, kind |-> "budget", dedupe |-> "once"]

WakeSuppressed ==
    /\ At("shown") /\ Job = "wake" /\ ~Moot /\ delivery.spent >= MaxWakes
    /\ LET d == [delivery EXCEPT !.timer = IF @ = "none" THEN "hour" ELSE @]
       IN  IF Duplicate(inbox, Ceiling)
           THEN /\ delivery' = Popped(d)
                /\ UNCHANGED <<inbox, appended>>
           ELSE /\ inbox.head < MaxHead
                /\ inbox' = Append1(inbox, Ceiling)
                /\ appended' = Told(Ceiling)
                /\ delivery' = Popped([d EXCEPT !.jobs = Queued(@, "changed")])
    /\ UNCHANGED moves
    /\ UNCHANGED <<worker, loaded, producer, wakes, file, actor, hour, faults>>

(* enqueueBroker: the message id is a function of the head, so a record of  *)
(* this head is returned as it is.                                          *)
WakeEnqueues ==
    /\ At("shown") /\ Job = "wake" /\ ~Moot /\ delivery.spent < MaxWakes
    /\ wakes' = [wakes EXCEPT ![inbox.head] = IF @ = "none" THEN "queued" ELSE @]
    /\ delivery' = [delivery EXCEPT !.head = inbox.head, !.pc = "enqueued"]
    /\ UNCHANGED moves
    /\ UNCHANGED <<worker, inbox, loaded, producer, file, actor, hour, faults, appended>>

WakeSettles ==
    /\ At("enqueued")
    /\ LET d == [delivery EXCEPT !.spent = @ + 1]
           status == wakes[delivery.head]
       IN  delivery' = CASE Delivered(status) -> [d EXCEPT !.wake = d.head, !.pc = "finish"]
                         [] status = "queued" -> [d EXCEPT !.wake = d.head, !.pc = "reconcile"]
                         [] OTHER -> Popped(d)
    /\ UNCHANGED moves
    /\ UNCHANGED <<worker, inbox, loaded, producer, wakes, file, actor, hour, faults, appended>>

(* The instruction queue writes a held wake when the boundary is free, and  *)
(* a turn begins.                                                           *)
QueueRenders(h) ==
    /\ wakes[h] = "queued" /\ actor.state = "idle"
    /\ wakes' = [wakes EXCEPT ![h] = "rendered"]
    /\ actor' = [actor EXCEPT !.state = "working", !.seen = Max({@, h})]
    /\ delivery' = [delivery EXCEPT !.jobs = Queued(@, "reconcile")]
    /\ UNCHANGED moves
    /\ UNCHANGED <<worker, inbox, loaded, producer, file, hour, faults, appended>>

HourPasses ==
    /\ hour < MaxHours /\ delivery.spent > 0
    /\ hour' = hour + 1
    /\ delivery' = [delivery EXCEPT !.spent = 0]
    /\ Move
    /\ UNCHANGED <<worker, inbox, loaded, producer, wakes, file, actor, faults, appended>>

-----------------------------------------------------------------------------
(* The orchestrator. *)

ActorStarts ==
    /\ actor.state = "idle"
    /\ actor' = [actor EXCEPT !.state = "working"]
    /\ delivery' = [delivery EXCEPT !.jobs = Queued(@, "reconcile")]
    /\ Move
    /\ UNCHANGED <<worker, inbox, loaded, producer, wakes, file, hour, faults, appended>>

(* A turn ends once its tool calls have been answered. *)
ActorEnds ==
    /\ actor.state = "working" /\ "notice" \notin Range(delivery.jobs)
    /\ actor' = [actor EXCEPT !.state = "idle", !.page = 0]
    /\ delivery' = [delivery EXCEPT !.jobs = Queued(@, "reconcile")]
    /\ UNCHANGED moves
    /\ UNCHANGED <<worker, inbox, loaded, producer, wakes, file, hour, faults, appended>>

ToolCall ==
    /\ actor.state = "working" /\ "notice" \notin Range(delivery.jobs)
    /\ delivery' = [delivery EXCEPT !.jobs = Append(@, "notice")]
    /\ Move
    /\ UNCHANGED <<worker, inbox, loaded, producer, wakes, file, actor, hour, faults, appended>>

(* The provider's hook reads the two files and never the broker. *)
Unseen == (file.pending > 0 \/ file.dropped > 0) /\ file.cursor > file.noticed
          /\ file.cursor > actor.hook

Hook ==
    /\ actor.state = "working" /\ Unseen
    /\ actor' = [actor EXCEPT !.hook = file.cursor, !.seen = Max({@, file.cursor})]
    /\ Move
    /\ UNCHANGED <<worker, inbox, loaded, producer, delivery, wakes, file, hour, faults, appended>>

(* read: one page, whose last cursor the next read acknowledges through. *)
Drain ==
    /\ actor.state = "working" /\ loaded /\ Page /= {} /\ actor.page = 0
    /\ actor' = [actor EXCEPT !.page = Max({r.cursor : r \in Page}),
                              !.seen = Max({@, Max({r.cursor : r \in Page})})]
    /\ Move
    /\ UNCHANGED <<worker, inbox, loaded, producer, delivery, wakes, file, hour, faults, appended>>

AcknowledgeThrough ==
    /\ actor.state = "working" /\ loaded /\ actor.page > 0
    /\ actor' = [actor EXCEPT !.page = 0]
    /\ LET recs == {r \in Pending : r.cursor <= actor.page}
       IN  IF recs = {} /\ inbox.dropped = 0 THEN UNCHANGED <<inbox, delivery>>
           ELSE inbox' = Acknowledged(inbox, recs) /\ delivery' = Announce
    /\ UNCHANGED moves
    /\ UNCHANGED <<worker, loaded, producer, wakes, file, hour, faults, appended>>

(* A wait that delivers a target, or the end of a worker (t = 0), consumes  *)
(* its settled record.                                                      *)
WaitConsumes(w, t) ==
    /\ actor.state = "working" /\ loaded
    /\ \E r \in Pending :
         /\ r.key = SettledKey(w, t)
         /\ inbox' = Acknowledged(inbox, {r})
    /\ delivery' = Announce
    /\ Move
    /\ UNCHANGED <<worker, loaded, producer, wakes, file, actor, hour, faults, appended>>

-----------------------------------------------------------------------------
WorkerMoves(w) ==
    \/ TurnEnds(w)
    \/ WorkerEnds(w)
    \/ \E t \in 1..MaxTurns : ExpectTurn(w, t)
    \/ \E t \in 0..MaxTurns : WaitConsumes(w, t)
    \/ \E kind \in {"intervention", "progress"} : Report(w, kind)

Broker ==
    \/ OperationEnds \/ Produce
    \/ JobFails \/ Changed \/ Reconcile \/ FinishWake
    \/ Notice \/ MarkNoticed
    \/ WakeChecks \/ WakeMoot \/ WakeSuppressed \/ WakeEnqueues \/ WakeSettles
    \/ TimerFires
    \/ \E h \in 1..MaxHead : QueueRenders(h)

Orchestrator == ActorStarts \/ ActorEnds \/ ToolCall \/ Hook \/ Drain \/ AcknowledgeThrough

Next ==
    \/ \E w \in Workers : WorkerMoves(w)
    \/ Broker
    \/ Orchestrator
    \/ WriteFails \/ Restart \/ HourPasses

Spec == Init /\ [][Next]_vars

-----------------------------------------------------------------------------
(* When the producer has nothing left to do, every turn somebody waits for   *)
(* that has ended, and the first end of a worker, has its settled record,    *)
(* also when the turn ended before the instruction's expectedTurn was        *)
(* persisted, a write failed or the broker restarted in between              *)
(* (settleTargets, sessionUpdate and the sweep of start).                    *)
SettledTold ==
    (loaded /\ producer.tail = <<>>) =>
      \A w \in Workers :
        /\ \A t \in {1} \cup worker[w].expected :
             t <= worker[w].done => SettledKey(w, t) \in inbox.keys
        /\ worker[w].terminal => SettledKey(w, 0) \in inbox.keys
=============================================================================
