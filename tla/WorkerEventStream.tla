------------------------- MODULE WorkerEventStream -------------------------
(***************************************************************************)
(* The bounded event stream of src/broker/worker-coordination.ts           *)
(* (submitEvent, resolveEvent, requestCheckpoint, projectEvents) as workers*)
(* reach it through src/broker/worker-event-channel.ts, and one consumer   *)
(* that pages through it with a cursor.                                    *)
(*                                                                         *)
(* The channel numbers events itself, so a sequence number is always the   *)
(* expected one, and names the mutation after the event and the lease      *)
(* version, so a refusal is replayed until the lease moves on.             *)
(***************************************************************************)
EXTENDS Integers, FiniteSets, FiniteSetsExt

CONSTANTS
    EventIds,       \* stable event ids
    WorkerOf,       \* the worker that submits each of them
    Watched,        \* the workers the consumer asks for
    Payloads,       \* what a worker may submit: records of type Payload
    Items,          \* evidence references, assumptions and facts
    Facts,          \* the item "a structuredFacts object is present"
    Correlations,   \* checkpoint correlations, one request each
    CheckpointOf,   \* the worker a correlation is addressed to
    NoCorrelation,  \* checkpointCorrelationId === undefined, and an open gate
    Resolutions,    \* the resolutions controllers use
    MaxQueued,      \* maxQueuedEventsPerWorker
    RateLimit,      \* eventRateLimit
    RateWindow,     \* eventRateWindowMs
    PageLimit,      \* maxProjectionPageSize
    MaxNow,         \* bound: the clock stops here
    MaxLease,       \* bound: lease versions
    MaxOrdinal      \* bound: ordinals

VARIABLES
    events,         \* the events map: id -> stored event
    nextOrdinal,    \* the next ordinal; in memory only
    refused,        \* receipts of refused submissions: <<event, lease version>>
    lease,          \* lease version of the (held) lease of each worker
    checkpoints,    \* the checkpoints map: correlation -> [mode, state]
    gate,           \* decisionGate.correlationId of each worker
    now,
    cursor,         \* the consumer's cursor
    delivered       \* history: the events the consumer was shown

vars == <<events, nextOrdinal, refused, lease, checkpoints, gate, now, cursor, delivered>>

Kinds == {"EXCEPTION", "PROGRESS", "CHECKPOINT", "RISK", "DECISION_REQUEST"}
EventStates == {"active", "acknowledged", "answered", "superseded", "closed"}
Workers == {WorkerOf[e] : e \in EventIds}

Payload == [kind : Kinds, intervention : BOOLEAN, material : SUBSET (Items \cup {Facts}),
            correlation : Correlations \cup {NoCorrelation}]

ASSUME StreamConstants ==
    /\ Payloads \subseteq Payload
    /\ NoCorrelation \notin Correlations
    /\ Resolutions \subseteq EventStates \ {"active"}
    /\ {MaxQueued, RateLimit, RateWindow, PageLimit} \subseteq Nat \ {0}
    /\ {MaxNow, MaxLease, MaxOrdinal} \subseteq Nat

\* `material` is what the broker stores after merging, `submitted` what the
\* submission hash was taken of.
StoredEvent == [submitted : Payload, material : SUBSET (Items \cup {Facts}),
                sequence : Nat, ordinal : Nat, receivedAt : Nat,
                state : EventStates]

Stored == DOMAIN events
Of(w) == {e \in Stored : WorkerOf[e] = w}
Active(w) == {e \in Of(w) : events[e].state = "active"}

IsPinned(p) == p.kind \in {"EXCEPTION", "DECISION_REQUEST"} \/ p.intervention

\* validateSemantics of the channel.
ValidSemantics(p) ==
    /\ p.kind = "DECISION_REQUEST" => p.intervention
    /\ (p.kind = "CHECKPOINT") <=> (p.correlation # NoCorrelation)

RateCount(w) == Cardinality({e \in Of(w) : events[e].receivedAt > now - RateWindow})

NextSequence(w) == Max({events[e].sequence : e \in Of(w)} \cup {0}) + 1

\* The active PROGRESS event with the highest sequence, as a set.
CurrentProgress(w) ==
    {e \in Active(w) : /\ events[e].submitted.kind = "PROGRESS"
                       /\ \A f \in Active(w) : events[f].submitted.kind = "PROGRESS" =>
                                                  events[f].sequence <= events[e].sequence}

\* The oldest active event that is not pinned, as a set.
Evictable(w) ==
    LET loose == {e \in Active(w) : ~IsPinned(events[e].submitted)}
    IN {e \in loose : \A f \in loose : events[e].ordinal <= events[f].ordinal}

\* mergeProgress always leaves a structuredFacts object behind.
MergeProgress(old, new) == old \cup new \cup {Facts}

Superseded(e, p) == IF p.kind = "PROGRESS" THEN CurrentProgress(WorkerOf[e]) ELSE {}

\* A PROGRESS event that replaces another does not grow the queue.
QueueFull(e, p) ==
    Cardinality(Active(WorkerOf[e])) + (IF Superseded(e, p) = {} THEN 1 ELSE 0) > MaxQueued

Evicted(e, p) == IF QueueFull(e, p) THEN Evictable(WorkerOf[e]) ELSE {}

CorrelationInvalid(e, p) ==
    /\ p.correlation # NoCorrelation
    /\ ~(/\ p.correlation \in DOMAIN checkpoints
         /\ CheckpointOf[p.correlation] = WorkerOf[e]
         /\ checkpoints[p.correlation].state = "pending")

Refusal(e, p) ==
    \/ RateCount(WorkerOf[e]) >= RateLimit
    \/ QueueFull(e, p) /\ Evictable(WorkerOf[e]) = {}
    \/ CorrelationInvalid(e, p)

\* Ordinals taken before the correlation is looked at are lost when it is invalid.
Burned(e, p) ==
    IF RateCount(WorkerOf[e]) >= RateLimit \/ (QueueFull(e, p) /\ Evictable(WorkerOf[e]) = {})
    THEN 0 ELSE Cardinality(Superseded(e, p)) + Cardinality(Evicted(e, p)) + 1

-----------------------------------------------------------------------------
Init ==
    /\ events = [e \in {} |-> {}]
    /\ nextOrdinal = 1
    /\ refused = {}
    /\ lease = [w \in Workers |-> 1]
    /\ checkpoints = [c \in {} |-> {}]
    /\ gate = [w \in Workers |-> NoCorrelation]
    /\ now = 0
    /\ cursor = 0
    /\ delivered = {}

\* Mutant: answering a decision gate does not open it.
GateAfterUnopened(w, correlation) == gate[w]

\* The answer to the checkpoint the worker is gated on opens the gate.
GateAfter(w, correlation) ==
    IF gate[w] # NoCorrelation /\ gate[w] = correlation THEN NoCorrelation ELSE gate[w]

\* A first submission of the event under this lease version.  A stored event or
\* a recorded refusal is answered without a state change.
NewSubmission(e, p) ==
    /\ e \notin Stored
    /\ <<e, lease[WorkerOf[e]]>> \notin refused
    /\ ValidSemantics(p)

SubmitRefused(e, p) ==
    /\ NewSubmission(e, p)
    /\ Refusal(e, p)
    /\ nextOrdinal' = nextOrdinal + Burned(e, p)
    /\ nextOrdinal' <= MaxOrdinal
    /\ refused' = refused \cup {<<e, lease[WorkerOf[e]]>>}
    /\ UNCHANGED <<events, lease, checkpoints, gate, now, cursor, delivered>>

SubmitAccepted(e, p) ==
    LET w == WorkerOf[e]
        old == Superseded(e, p)
        out == Evicted(e, p)
        base == nextOrdinal + Cardinality(old)
        last == base + Cardinality(out)
        stored == [submitted |-> p,
                   material |-> IF old = {} THEN p.material
                                ELSE UNION {MergeProgress(events[f].material, p.material) : f \in old},
                   sequence |-> NextSequence(w), ordinal |-> last,
                   receivedAt |-> now, state |-> "active"]
    IN /\ NewSubmission(e, p)
       /\ ~Refusal(e, p)
       /\ last <= MaxOrdinal
       /\ events' = [f \in Stored \cup {e} |->
             CASE f = e -> stored
               [] f # e /\ f \in out -> [events[f] EXCEPT !.state = "closed", !.ordinal = base]
               [] f # e /\ f \in old \ out ->
                     [events[f] EXCEPT !.state = "superseded", !.ordinal = nextOrdinal]
               [] OTHER -> events[f]]
       /\ nextOrdinal' = last + 1
       /\ checkpoints' = [c \in DOMAIN checkpoints |->
             IF c = p.correlation THEN [checkpoints[c] EXCEPT !.state = "answered"]
                                  ELSE checkpoints[c]]
       /\ gate' = [gate EXCEPT ![w] = GateAfter(w, p.correlation)]
       /\ UNCHANGED <<refused, lease, now, cursor, delivered>>

\* resolveEvent takes any stored event, whatever its state.
ResolveEvent(e, resolution) ==
    /\ e \in Stored
    /\ nextOrdinal < MaxOrdinal
    /\ events' = [events EXCEPT ![e].state = resolution, ![e].ordinal = nextOrdinal]
    /\ nextOrdinal' = nextOrdinal + 1
    /\ UNCHANGED <<refused, lease, checkpoints, gate, now, cursor, delivered>>

\* A known correlation is answered from the stored request.
RequestCheckpoint(c, mode) ==
    /\ c \notin DOMAIN checkpoints
    /\ checkpoints' = [d \in DOMAIN checkpoints \cup {c} |->
          IF d = c THEN [mode |-> mode, state |-> "pending"] ELSE checkpoints[d]]
    /\ gate' = IF mode = "decision-gate" THEN [gate EXCEPT ![CheckpointOf[c]] = c] ELSE gate
    /\ UNCHANGED <<events, nextOrdinal, refused, lease, now, cursor, delivered>>

\* projectEvents with the default filter (active events of the watched workers).
Candidates == {e \in Stored : events[e].ordinal > cursor}
Matches == {e \in Candidates : WorkerOf[e] \in Watched /\ events[e].state = "active"}
Before(e) == {f \in Matches : events[f].ordinal < events[e].ordinal}
Page == {e \in Matches : Cardinality(Before(e)) < PageLimit}

\* Mutant: hasMore is not looked at.
NextCursorEager == Max({events[e].ordinal : e \in Candidates} \cup {cursor})

NextCursor ==
    IF Page # Matches THEN Max({events[e].ordinal : e \in Page})
    ELSE Max({events[e].ordinal : e \in Candidates} \cup {cursor})

ProjectEvents ==
    /\ Candidates # {}
    /\ cursor' = NextCursor
    /\ delivered' = delivered \cup Page
    /\ UNCHANGED <<events, nextOrdinal, refused, lease, checkpoints, gate, now>>

LeaseMoves(w) ==
    /\ lease[w] < MaxLease
    /\ lease' = [lease EXCEPT ![w] = @ + 1]
    /\ UNCHANGED <<events, nextOrdinal, refused, checkpoints, gate, now, cursor, delivered>>

\* initialize after a restart: burned ordinals are forgotten.
Restart ==
    /\ nextOrdinal' = Max({events[e].ordinal : e \in Stored} \cup {0}) + 1
    /\ UNCHANGED <<events, refused, lease, checkpoints, gate, now, cursor, delivered>>

Tick ==
    /\ now < MaxNow
    /\ now' = now + 1
    /\ UNCHANGED <<events, nextOrdinal, refused, lease, checkpoints, gate, cursor, delivered>>

Next ==
    \/ \E e \in EventIds, p \in Payloads : SubmitRefused(e, p) \/ SubmitAccepted(e, p)
    \/ \E e \in EventIds, r \in Resolutions : ResolveEvent(e, r)
    \/ \E c \in Correlations, mode \in {"non-blocking", "decision-gate"} :
          RequestCheckpoint(c, mode)
    \/ ProjectEvents
    \/ \E w \in Workers : LeaseMoves(w)
    \/ Restart
    \/ Tick

Spec == Init /\ [][Next]_vars

-----------------------------------------------------------------------------
(* Properties *)

\* Every variable has its type.
TypeOK ==
    /\ Stored \subseteq EventIds
    /\ events \in [Stored -> StoredEvent]
    /\ nextOrdinal \in Nat \ {0}
    /\ refused \subseteq EventIds \X Nat
    /\ lease \in [Workers -> Nat]
    /\ DOMAIN checkpoints \subseteq Correlations
    /\ checkpoints \in [DOMAIN checkpoints -> [mode : {"non-blocking", "decision-gate"},
                                               state : {"pending", "answered"}]]
    /\ gate \in [Workers -> Correlations \cup {NoCorrelation}]
    /\ now \in Nat /\ cursor \in Nat
    /\ delivered \subseteq EventIds

\* A consumer that follows nextCursor has seen every active event of its workers
\* its cursor has passed: no page boundary, re-ordinalled event or restart that
\* forgets burned ordinals hides one.
NothingSkipped ==
    \A e \in Stored :
        /\ events[e].state = "active"
        /\ WorkerOf[e] \in Watched
        /\ events[e].ordinal <= cursor
        => e \in delivered

\* Two events never share an ordinal, so a cursor separates them.
OrdinalsUnique ==
    \A e, f \in Stored : events[e].ordinal = events[f].ordinal => e = f

\* A worker that is gated waits for a decision gate that can still be answered:
\* answering the checkpoint is what opens the gate.
GateAnswerable ==
    \A w \in Workers : gate[w] # NoCorrelation =>
        /\ gate[w] \in DOMAIN checkpoints
        /\ CheckpointOf[gate[w]] = w
        /\ checkpoints[gate[w]] = [mode |-> "decision-gate", state |-> "pending"]

=============================================================================
