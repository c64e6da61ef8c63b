-------------------------- MODULE TranscriptLedger --------------------------
(***************************************************************************)
(* src/persistence/thread-transcript-store.ts: the semantic transcript of  *)
(* all threads, a journal that is rotated and never synced, and the turn   *)
(* ledger of one worker, an atomically replaced file                       *)
(* (worker-ledger-store.ts) that must outlive the journal's retention.     *)
(*                                                                         *)
(* A native turn of the worker is its number, which is also its time and   *)
(* its offset in the provider's file.  Events of other threads only fill   *)
(* the journal.                                                            *)
(***************************************************************************)
EXTENDS Integers, FiniteSets, Sequences, SequencesExt

CONSTANTS
    Turns,          \* bound: native turns the provider completes
    SegmentSize,    \* events of a journal segment (maxBytes)
    Retained,       \* rotated segments that are kept
    Kept,           \* receipts and fences a ledger holds (64)
    MaxNotes,       \* bound: events of other threads and admissions
    MaxFaults       \* bound: failing writes, crashes and power losses

TranscriptConstants ==
    /\ {Turns, MaxNotes, MaxFaults} \subseteq Nat
    /\ {SegmentSize, Retained, Kept} \subseteq Nat \ {0}

VARIABLES
    produced,       \* turns in the provider's transcript
    journal,        \* segment index -> events; 0 is the file appended to
    torn,           \* a fragment ends the current segment
    synced,         \* events of the current segment a power loss cannot take
    stored,         \* the worker's ledger file
    memory,         \* the store of the running broker
    hydration,      \* hydratedLedgers: the pending read of the ledger
    op,             \* the operation at the head of the write queue
    observed,       \* the observation whose commit the turn engine owes
    acked,          \* history: receipts the store returned
    dropped,        \* history: dropTurnLedger was called, and returned
    spoiled,        \* history: the ledger file was damaged from outside
    garbled,        \* history: an event was written after a fragment
    notes, faults

durable == <<journal, torn, synced, stored>>
histories == <<acked, dropped, spoiled, garbled>>
bounds == <<notes, faults>>
vars == <<produced, durable, memory, hydration, op, observed, histories, bounds>>

None == [turn |-> 0, ordinal |-> 0]
Empty == [completed |-> 0, canonical |-> 0, through |-> 0, turns |-> <<>>, last |-> None, fences |-> {}]
Missing == [Empty EXCEPT !.completed = -1]
Rejected == [Empty EXCEPT !.completed = -2]
Fresh == [up |-> FALSE, ledger |-> Empty, seen |-> {}, retired |-> FALSE, cursor |-> 0]
Idle == [at |-> "idle"]
Cold == [at |-> "cold", value |-> Empty]
NoObservation == [turns |-> <<>>, number |-> 0]

Greater(a, b) == IF a >= b THEN a ELSE b
LastOf(s) == IF s = <<>> THEN None ELSE Last(s)
Latest(s) == SubSeq(s, Greater(1, Len(s) - Kept + 1), Len(s))

\* InstructionTargetIndex.restore: the newest fences are kept.
Fenced(fences, more) ==
    LET all == fences \cup more IN
    {f \in all : Cardinality({g \in all : g > f}) < Kept}

\* rememberSemanticTurn, for the events of the worker.
Remember(mem, e) ==
    LET was == mem.ledger IN
    IF e.kind = "retired" THEN [mem EXCEPT !.retired = TRUE, !.ledger = Empty]
    ELSE IF mem.retired \/ e.kind = "note" THEN mem
    ELSE IF e.kind = "fence" THEN [mem EXCEPT !.ledger.fences = Fenced(@, {e.ordinal})]
    ELSE IF e.turn \in mem.seen THEN mem
    ELSE LET receipt == [turn |-> e.turn, ordinal |-> e.ordinal] IN
            [mem EXCEPT
                !.seen = @ \cup {e.turn},
                !.ledger = [was EXCEPT !.completed = Greater(@, e.ordinal),
                                       !.canonical = @ + 1,
                                       !.through = Greater(@, e.turn),
                                       !.turns = Latest(Append(@, receipt)),
                                       !.last = receipt]]

\* The lines of every retained segment, oldest first.
Segments == [i \in 1..(Retained + 1) |-> Retained + 1 - i]
Lines == FoldLeft(LAMBDA acc, k : acc \o journal[k], <<>>, Segments)

\* parseThreadEvent drops a line that a fragment was completed into.
Readable == SelectSeq(Lines, LAMBDA e : e.kind # "malformed")

\* loadMetadata
Loaded(events) ==
    FoldLeft(LAMBDA mem, e : [Remember(mem, e) EXCEPT !.cursor = Greater(@, e.cursor)],
             [Fresh EXCEPT !.up = TRUE], events)

(***************************************************************************)
(* mergeWorkerLedgers: by ordinal, what the journal still shows over what  *)
(* the file holds; the counts and the time never fall.                     *)
(***************************************************************************)
ByOrdinal(a, b) ==
    LET both == Range(b) \cup {r \in Range(a) : \A q \in Range(b) : q.ordinal # r.ordinal} IN
    Latest(SetToSortSeq(both, LAMBDA p, q : p.ordinal < q.ordinal))

Merged(file, current) ==
    LET turns == ByOrdinal(file.turns, current.turns)
        natives == {file.last, current.last} \cup Range(turns)
    IN  [completed |-> Greater(file.completed, current.completed),
         canonical |-> Greater(file.canonical, current.canonical),
         through   |-> Greater(file.through, current.through),
         turns     |-> turns,
         last      |-> CHOOSE r \in natives : \A q \in natives : r.ordinal >= q.ordinal,
         fences    |-> Fenced(file.fences, current.fences)]

\* hydrateWorkerLedger: does the file lack what is known now?
Dirty(file, ledger) ==
    IF file = Missing THEN ledger.completed > 0 \/ ledger.fences # {}
    ELSE \/ ledger.completed # file.completed
         \/ ledger.canonical # file.canonical
         \/ ledger.last.turn # file.last.turn
         \/ ~(ledger.fences \subseteq file.fences)

Init ==
    /\ produced = 0
    /\ journal = [k \in 0..Retained |-> <<>>]
    /\ torn = FALSE /\ synced = 0
    /\ stored = Missing
    /\ memory = [Fresh EXCEPT !.up = TRUE]
    /\ hydration = Cold /\ op = Idle /\ observed = NoObservation
    /\ acked = {} /\ dropped = "no" /\ spoiled = FALSE /\ garbled = FALSE
    /\ notes = 0 /\ faults = 0

\* A deleted session has no turn engine: nothing observes or renders for it.
Served == dropped # "done"

(***************************************************************************)
(* Hydration, which runs beside the write queue                            *)
(***************************************************************************)
\* Startup asks for every session the journal shows, later callers for a
\* session that still has an engine.
HydrateRead ==
    /\ memory.up /\ ~memory.retired /\ hydration.at = "cold"
    /\ Served \/ memory.ledger # Empty
    /\ IF stored = Rejected
       THEN stored' = Missing /\ hydration' = [at |-> "read", value |-> Missing]
       ELSE stored' = stored /\ hydration' = [at |-> "read", value |-> stored]
    /\ UNCHANGED <<produced, journal, torn, synced, memory, op, observed, histories, bounds>>

HydrateMerge ==
    /\ memory.up /\ hydration.at = "read"
    /\ IF memory.retired THEN hydration' = [hydration EXCEPT !.at = "done"] /\ memory' = memory
       ELSE LET file == IF hydration.value = Missing THEN Empty ELSE hydration.value
                ledger == Merged(file, memory.ledger)
            IN  /\ memory' = [memory EXCEPT !.ledger = ledger,
                                            !.seen = @ \cup ({r.turn : r \in Range(ledger.turns) \cup {ledger.last}} \ {0})]
                /\ hydration' = IF Dirty(hydration.value, ledger) THEN [at |-> "write", value |-> ledger]
                                ELSE [hydration EXCEPT !.at = "done"]
    /\ UNCHANGED <<produced, durable, op, observed, histories, bounds>>

HydrateWrite ==
    /\ memory.up /\ hydration.at = "write"
    /\ stored' = hydration.value
    /\ hydration' = [hydration EXCEPT !.at = "done"]
    /\ UNCHANGED <<produced, journal, torn, synced, memory, op, observed, histories, bounds>>

\* The rejected promise is dropped and the next caller reads again.
HydrateFails ==
    /\ memory.up /\ hydration.at = "write" /\ faults < MaxFaults
    /\ hydration' = Cold
    /\ faults' = faults + 1
    /\ UNCHANGED <<produced, durable, memory, op, observed, histories, notes>>

(***************************************************************************)
(* The turn engine observes the provider's file and commits                *)
(***************************************************************************)
CompleteTurn ==
    /\ produced < Turns
    /\ produced' = produced + 1
    /\ UNCHANGED <<durable, memory, hydration, op, observed, histories, bounds>>

\* Bug: only the remembered ids tell an old turn from a new one.
UnseenById == {t \in 1..produced : t \notin memory.seen}

\* Turns after the last committed one, by time (Claude) or by offset (Codex).
Unseen == {t \in 1..produced : t \notin memory.seen /\ t > Greater(memory.ledger.through, memory.ledger.last.turn)}

\* observeProviderTurns
Observe ==
    /\ memory.up /\ ~memory.retired /\ hydration.at = "done"
    /\ Served /\ observed = NoObservation /\ Unseen # {}
    /\ observed' = [turns |-> SetToSortSeq(Unseen, <), number |-> memory.ledger.completed + 1]
    /\ UNCHANGED <<produced, durable, memory, hydration, op, histories, bounds>>

\* createEvent
Event(kind, turn, ordinal) ==
    [kind |-> kind, turn |-> turn, ordinal |-> ordinal, cursor |-> memory.cursor + 1]

\* persist begins: rotateIfNeeded moves the segments when the event does not
\* fit the current one.
Persists(event) ==
    /\ op' = [at |-> IF Len(journal[0]) >= SegmentSize THEN "unlink" ELSE "append",
              event |-> event, k |-> Retained]
    /\ memory' = [memory EXCEPT !.cursor = @ + 1]

\* originalTurnReceipt: in the ledger, or in a retained segment.
Originals(turn) ==
    {r \in Range(memory.ledger.turns) : r.turn = turn}
    \cup {[turn |-> e.turn, ordinal |-> e.ordinal] : e \in {x \in Range(Readable) : x.kind = "turn" /\ x.turn = turn}}

\* The head of the observation is settled.
Settled(obs) ==
    IF Len(obs.turns) = 1 THEN NoObservation
    ELSE [turns |-> Tail(obs.turns), number |-> obs.number + 1]

Receipts(kind, rs) == {[kind |-> kind, turn |-> r.turn, ordinal |-> r.ordinal] : r \in rs}

\* commitProviderTurns, one turn of the observation.  A turn that is already
\* owned is answered with its original receipt and nothing is written.
Commit ==
    /\ memory.up /\ op = Idle /\ observed # NoObservation /\ hydration.at = "done"
    /\ LET turn == Head(observed.turns) IN
       CASE memory.retired ->
                observed' = NoObservation /\ UNCHANGED <<op, memory, acked>>
         [] ~memory.retired /\ turn \in memory.seen ->
                /\ acked' = acked \cup Receipts("original", Originals(turn))
                /\ observed' = Settled(observed)
                /\ UNCHANGED <<op, memory>>
         [] OTHER ->
                Persists(Event("turn", turn, observed.number)) /\ UNCHANGED <<observed, acked>>
    /\ UNCHANGED <<produced, durable, hydration, dropped, spoiled, garbled, bounds>>

\* append: a rendered instruction, which fences the turn it expects, or an
\* event of another thread.
AppendEvent(kind) ==
    /\ memory.up /\ op = Idle /\ notes < MaxNotes
    /\ kind = "fence" => Served /\ ~memory.retired /\ hydration.at = "done"
    /\ Persists(Event(kind, 0, IF kind = "fence" THEN memory.ledger.completed + 1 ELSE 0))
    /\ notes' = notes + 1
    /\ UNCHANGED <<produced, durable, hydration, observed, histories, faults>>

\* dropTurnLedger
Drop ==
    /\ memory.up /\ op = Idle /\ ~memory.retired
    /\ Persists(Event("retired", 0, 0))
    /\ dropped' = "asked"
    /\ UNCHANGED <<produced, durable, hydration, observed, acked, spoiled, garbled, bounds>>

(***************************************************************************)
(* The steps of a write                                                    *)
(***************************************************************************)
Unlink ==
    /\ memory.up /\ op.at = "unlink"
    /\ journal' = [journal EXCEPT ![Retained] = <<>>]
    /\ op' = [op EXCEPT !.at = "rename"]
    /\ UNCHANGED <<produced, torn, synced, stored, memory, hydration, observed, histories, bounds>>

\* rename segment k - 1 to k, down to the current file.
Rename ==
    /\ memory.up /\ op.at = "rename"
    /\ journal' = [journal EXCEPT ![op.k] = journal[op.k - 1],
                                  ![op.k - 1] = <<>>]
    /\ IF op.k = 1 THEN torn' = FALSE /\ synced' = 0 /\ op' = [op EXCEPT !.at = "append"]
       ELSE op' = [op EXCEPT !.k = @ - 1] /\ UNCHANGED <<torn, synced>>
    /\ UNCHANGED <<produced, stored, memory, hydration, observed, histories, bounds>>

\* The event is written after whatever the file ends with.
Appended(event) ==
    /\ journal' = [journal EXCEPT ![0] = Append(@, IF torn THEN [event EXCEPT !.kind = "malformed"] ELSE event)]
    /\ garbled' = (garbled \/ torn)

AppendLine ==
    /\ memory.up /\ op.at = "append"
    /\ Appended(op.event) /\ torn' = FALSE
    /\ IF op.event.kind = "retired"
       THEN memory' = memory /\ op' = [op EXCEPT !.at = "sync"]
       ELSE /\ memory' = Remember(memory, op.event)
            /\ op' = IF op.event.kind = "note" THEN Idle ELSE [op EXCEPT !.at = "ledger"]
    /\ UNCHANGED <<produced, synced, stored, hydration, observed, acked, dropped, spoiled, bounds>>

\* handle.write fails, possibly after some bytes: the caller is told, and the
\* turn engine keeps its observation.
AppendFails ==
    /\ memory.up /\ op.at = "append" /\ faults < MaxFaults
    /\ torn' \in {torn, TRUE}
    /\ op' = Idle
    /\ faults' = faults + 1
    /\ UNCHANGED <<produced, journal, synced, stored, memory, hydration, observed, histories, notes>>

\* Bug: the receipt is returned before its ledger is written.
WriteLedgerLater ==
    /\ memory.up /\ op.at = "ledger"
    /\ acked' = acked \cup Receipts(op.event.kind, {op.event})
    /\ observed' = IF op.event.kind = "turn" THEN Settled(observed) ELSE observed
    /\ op' = Idle
    /\ UNCHANGED <<produced, durable, memory, hydration, dropped, spoiled, garbled, bounds>>

\* persistWorkerLedger: an fsynced file replaces the old one.
WriteLedger ==
    /\ memory.up /\ op.at = "ledger"
    /\ stored' = memory.ledger
    /\ acked' = acked \cup Receipts(op.event.kind, {op.event})
    /\ observed' = IF op.event.kind = "turn" THEN Settled(observed) ELSE observed
    /\ op' = Idle
    /\ UNCHANGED <<produced, journal, torn, synced, memory, hydration, dropped, spoiled, garbled, bounds>>

WriteLedgerFails ==
    /\ memory.up /\ op.at = "ledger" /\ faults < MaxFaults
    /\ op' = Idle
    /\ faults' = faults + 1
    /\ UNCHANGED <<produced, durable, memory, hydration, observed, histories, notes>>

\* syncPrivateFile, then rememberSemanticTurn.
SyncRetired ==
    /\ memory.up /\ op.at = "sync"
    /\ synced' = Len(journal[0])
    /\ memory' = Remember(memory, op.event)
    /\ op' = [op EXCEPT !.at = "remove"]
    /\ UNCHANGED <<produced, journal, torn, stored, hydration, observed, histories, bounds>>

\* WorkerLedgerStore.remove waits for a write of the same file.
RemoveLedger ==
    /\ memory.up /\ op.at = "remove" /\ hydration.at # "write"
    /\ stored' = Missing
    /\ dropped' = "done"
    /\ hydration' = IF hydration.at = "read" THEN hydration ELSE Cold
    /\ op' = Idle
    /\ UNCHANGED <<produced, journal, torn, synced, memory, observed, acked, spoiled, garbled, bounds>>

(***************************************************************************)
(* Crashes                                                                 *)
(***************************************************************************)
Died ==
    /\ memory' = Fresh
    /\ hydration' = Cold /\ op' = Idle /\ observed' = NoObservation
    /\ faults' = faults + 1

\* The broker dies; an append under way may have reached the file, whole or
\* in part.
Crash ==
    /\ memory.up /\ faults < MaxFaults
    /\ Died
    /\ IF op.at = "append"
       THEN \/ Appended(op.event) /\ torn' = FALSE
            \/ torn' = TRUE /\ UNCHANGED <<journal, garbled>>
            \/ UNCHANGED <<journal, torn, garbled>>
       ELSE UNCHANGED <<journal, torn, garbled>>
    /\ UNCHANGED <<produced, synced, stored, acked, dropped, spoiled, notes>>

\* The machine dies: appends that were never synced may be gone.
PowerLoss ==
    /\ memory.up /\ faults < MaxFaults
    /\ \E n \in synced..Len(journal[0]) :
          /\ journal' = [journal EXCEPT ![0] = SubSeq(@, 1, n)]
          /\ torn' = (torn /\ n = Len(journal[0]))
    /\ Died
    /\ UNCHANGED <<produced, synced, stored, acked, dropped, spoiled, garbled, notes>>

\* Someone damages the ledger file; the reader will refuse it.
Spoil ==
    /\ ~memory.up /\ stored \notin {Missing, Rejected} /\ faults < MaxFaults
    /\ stored' = Rejected
    /\ spoiled' = TRUE
    /\ faults' = faults + 1
    /\ UNCHANGED <<produced, journal, torn, synced, memory, hydration, op, observed, acked, dropped, garbled, notes>>

\* init: the journal is replayed; the ledger of a session it shows retired is
\* removed again.
Start ==
    /\ ~memory.up
    /\ memory' = Loaded(Readable)
    /\ stored' = IF Loaded(Readable).retired THEN Missing ELSE stored
    /\ UNCHANGED <<produced, journal, torn, synced, hydration, op, observed, histories, bounds>>

Hydration == HydrateRead \/ HydrateMerge \/ HydrateWrite \/ HydrateFails
Writing ==
    \/ Unlink \/ Rename \/ AppendLine \/ AppendFails \/ WriteLedger \/ WriteLedgerFails
    \/ SyncRetired \/ RemoveLedger
Faults == Crash \/ PowerLoss \/ Spoil \/ Start

Next ==
    \/ CompleteTurn \/ Observe \/ Commit \/ Drop
    \/ \E kind \in {"note", "fence"} : AppendEvent(kind)
    \/ Hydration \/ Writing \/ Faults

Spec == Init /\ [][Next]_vars

-----------------------------------------------------------------------------
AtWork == memory.up /\ hydration.at = "done" /\ dropped = "no" /\ ~spoiled

\* A receipt whose ledger was written is never forgotten: after any crash,
\* power loss and rotation the hydrated ledger counts the turn and still has
\* the newest admission fence (worker-ledger-store.ts: "Receipt and admission
\* truth is independent of the shared transcript's retention window").
AckKept ==
    AtWork => \A r \in acked :
        CASE r.kind = "turn" -> memory.ledger.completed >= r.ordinal /\ memory.ledger.through >= r.turn
          [] r.kind = "fence" -> \E f \in memory.ledger.fences : f >= r.ordinal
          [] OTHER -> TRUE

\* A provider turn owns one ordinal and an ordinal one turn, whatever was
\* rotated away, replayed or retried in between (commitProviderTurns,
\* "append-once dedupe").
TurnOnce ==
    ~spoiled => \A r, q \in {a \in acked : a.kind # "fence"} : r.turn = q.turn <=> r.ordinal = q.ordinal

=============================================================================
