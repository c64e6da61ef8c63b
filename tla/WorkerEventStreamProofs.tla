---- MODULE WorkerEventStreamProofs ----
(* A gated worker can be answered, and a consumer that follows the cursor    *)
(* misses nothing, for any workers, events, limits, page sizes and restarts; *)
(* a revoked repository is refused; prune destroys no commit.               *)
EXTENDS WorkerEventStream, OperatorJournals, Workspaces, FiniteSetTheorems, NaturalsInduction, WellFoundedInduction, TLAPS

-----------------------------------------------------------------------------
(* The inductive invariant *)

Typed == TypeOK /\ IsFiniteSet(Stored)

\* An event was numbered in its worker's stream no later than in the broker's,
\* and the broker has counted past it.
Numbered ==
    \A e \in Stored : /\ events[e].sequence <= events[e].ordinal
                      /\ events[e].ordinal < nextOrdinal

\* The cursor is not ahead of the stored events, so a counter that a restart
\* rebuilds from them is ahead of the cursor.
Behind == cursor = 0 \/ \E e \in Stored : cursor <= events[e].ordinal

Inv == Typed /\ Numbered /\ Behind /\ NothingSkipped /\ GateAnswerable

\* One number of a worker's stream is one event, so at most one PROGRESS event is
\* the current one; with one ordinal for one event at most one event is evicted.
SequencesUnique ==
    \A e, f \in Stored :
        WorkerOf[e] = WorkerOf[f] /\ events[e].sequence = events[f].sequence => e = f

Unique == OrdinalsUnique /\ SequencesUnique

-----------------------------------------------------------------------------
(* The greatest of a bounded set of numbers *)

LEMMA NatMinimum ==
    ASSUME NEW S, S \subseteq Nat, S # {}
    PROVE  \E x \in S : \A y \in S : x <= y
  <1> DEFINE R == OpToRel(<, Nat)
  <1>1. \A x, y \in Nat : <<y, x>> \in R <=> y < x
    BY DEF OpToRel
  <1>2. IsWellFoundedOn(R, Nat)
    BY NatLessThanWellFounded
  <1> HIDE DEF R
  <1>3. \E x \in S : \A y \in S : ~(<<y, x>> \in R)
    BY <1>2, WFMin
  <1>4. PICK x \in S : \A y \in S : ~(<<y, x>> \in R)
    BY <1>3
  <1>5. ASSUME NEW y \in S PROVE x <= y
    <2>1. x \in Nat /\ y \in Nat
      OBVIOUS
    <2>2. ~(y < x)
      BY <1>1, <1>4, <2>1
    <2> QED BY <2>1, <2>2
  <1> QED BY <1>5

LEMMA MaxOfBounded ==
    ASSUME NEW n \in Nat, NEW S, S \subseteq 0..n, S # {}
    PROVE  Max(S) \in S /\ Max(S) \in Nat /\ \A x \in S : Max(S) >= x
  <1> DEFINE T == {n - x : x \in S}
  <1>1. T \subseteq Nat /\ T # {}
    OBVIOUS
  <1>2. PICK t \in T : \A y \in T : t <= y
    BY <1>1, NatMinimum
  <1>3. PICK m \in S : t = n - m
    OBVIOUS
  <1>4. ASSUME NEW x \in S PROVE m >= x
    <2>1. n - x \in T
      OBVIOUS
    <2>2. n - m <= n - x
      BY <1>2, <1>3, <2>1
    <2>3. m \in 0..n /\ x \in 0..n
      OBVIOUS
    <2> QED BY <2>2, <2>3
  <1>5. \E k \in S : \A x \in S : k >= x
    BY <1>4
  <1>6. Max(S) \in S /\ \A x \in S : Max(S) >= x
    BY <1>5 DEF Max
  <1>7. S \subseteq Nat
    OBVIOUS
  <1> HIDE DEF Max
  <1> QED BY <1>6, <1>7

-----------------------------------------------------------------------------
(* Numbers of events *)

LEMMA StoredFacts ==
    ASSUME Inv
    PROVE  /\ nextOrdinal \in Nat \ {0} /\ cursor \in Nat /\ cursor < nextOrdinal
           /\ \A e \in Stored : /\ e \in EventIds /\ events[e] \in StoredEvent
                                /\ events[e].ordinal \in Nat /\ events[e].sequence \in Nat
                                /\ events[e].ordinal < nextOrdinal
                                /\ events[e].sequence <= events[e].ordinal
  <1>1. \A e \in Stored : /\ e \in EventIds /\ events[e] \in StoredEvent
                          /\ events[e].ordinal \in Nat /\ events[e].sequence \in Nat
    BY DEF Inv, Typed, TypeOK, StoredEvent
  <1>2. nextOrdinal \in Nat \ {0} /\ cursor \in Nat
    BY DEF Inv, Typed, TypeOK
  <1>3. cursor < nextOrdinal
    BY <1>1, <1>2 DEF Inv, Behind, Numbered
  <1> QED BY <1>1, <1>2, <1>3 DEF Inv, Numbered

\* An event that is numbered anew is ahead of the cursor.
LEMMA NumberedAnew ==
    ASSUME Inv, Stored \subseteq Stored', UNCHANGED <<cursor, delivered>>, Numbered',
           \A f \in Stored' : (f \in Stored /\ events'[f] = events[f])
                              \/ (events'[f].ordinal \in Nat /\ events'[f].ordinal >= nextOrdinal)
    PROVE  Behind' /\ NothingSkipped'
  <1>1. cursor \in Nat /\ nextOrdinal \in Nat /\ cursor < nextOrdinal
    BY StoredFacts
  <1>2. ASSUME cursor # 0 PROVE \E e \in Stored' : cursor <= events'[e].ordinal
    <2>1. PICK e \in Stored : cursor <= events[e].ordinal
      BY <1>2 DEF Inv, Behind
    <2>2. cursor <= events'[e].ordinal
      BY <1>1, <2>1
    <2> QED BY <2>2
  <1>3. ASSUME NEW f \in Stored', events'[f].state = "active", WorkerOf[f] \in Watched,
               events'[f].ordinal <= cursor
        PROVE  f \in delivered
    <2>1. f \in Stored /\ events'[f] = events[f]
      BY <1>1, <1>3
    <2> QED BY <1>3, <2>1 DEF Inv, NothingSkipped
  <1>4. Behind'
    BY <1>2 DEF Behind
  <1> QED BY <1>3, <1>4 DEF NothingSkipped

LEMMA Counted ==
    ASSUME Inv, NEW e \in EventIds, NEW p
    PROVE  /\ Superseded(e, p) \subseteq Stored /\ Evicted(e, p) \subseteq Stored
           /\ Cardinality(Superseded(e, p)) \in Nat /\ Cardinality(Evicted(e, p)) \in Nat
  <1>1. Superseded(e, p) \subseteq Stored /\ Evicted(e, p) \subseteq Stored
    BY DEF Superseded, CurrentProgress, Evicted, Evictable, Active, Of
  <1>2. IsFiniteSet(Superseded(e, p)) /\ IsFiniteSet(Evicted(e, p))
    BY <1>1, FS_Subset DEF Inv, Typed
  <1> QED BY <1>1, <1>2, FS_CardinalityType

LEMMA NextSequenceBounded ==
    ASSUME Inv, NEW w
    PROVE  NextSequence(w) \in Nat /\ NextSequence(w) <= nextOrdinal
  <1> DEFINE S == {events[e].sequence : e \in Of(w)} \cup {0}
  <1>1. nextOrdinal - 1 \in Nat /\ S # {}
    BY StoredFacts
  <1>2. S \subseteq 0..(nextOrdinal - 1)
    <2>1. ASSUME NEW e \in Of(w) PROVE events[e].sequence \in 0..(nextOrdinal - 1)
      <3>1. e \in Stored
        BY <2>1 DEF Of
      <3> QED BY <3>1, StoredFacts
    <2> QED BY <1>1, <2>1
  <1> HIDE DEF S
  <1>3. Max(S) \in S /\ Max(S) \in Nat
    BY <1>1, <1>2, MaxOfBounded
  <1>4. Max(S) \in 0..(nextOrdinal - 1)
    BY <1>2, <1>3
  <1>5. NextSequence(w) = Max(S) + 1
    BY DEF NextSequence, S
  <1>6. nextOrdinal \in Nat /\ NextSequence(w) \in Nat
    BY <1>1, <1>4, <1>5, StoredFacts
  <1>7. Max(S) <= nextOrdinal - 1
    BY <1>4
  <1> HIDE DEF Max
  <1> QED BY <1>3, <1>5, <1>6, <1>7

-----------------------------------------------------------------------------
(* The operations *)

LEMMA InitInv == Init => Inv
  <1> SUFFICES ASSUME Init PROVE Inv
    OBVIOUS
  <1>1. Stored = {} /\ DOMAIN checkpoints = {}
    BY DEF Init, Stored
  <1>2. events \in [Stored -> StoredEvent]
    BY <1>1 DEF Init
  <1>3. checkpoints \in [DOMAIN checkpoints -> [mode : {"non-blocking", "decision-gate"},
                                                state : {"pending", "answered"}]]
    BY <1>1 DEF Init
  <1>4. Typed
    BY <1>1, <1>2, <1>3, FS_EmptySet DEF Init, Typed, TypeOK
  <1>5. GateAnswerable
    BY DEF Init, GateAnswerable
  <1> QED BY <1>1, <1>4, <1>5 DEF Init, Inv, Numbered, Behind, NothingSkipped

\* Steps that touch neither the events nor the consumer.
LEMMA StreamRests ==
    ASSUME Inv, UNCHANGED <<events, cursor, delivered>>, nextOrdinal' \in Nat,
           \A e \in Stored : events[e].ordinal < nextOrdinal'
    PROVE  Numbered' /\ Behind' /\ NothingSkipped'
  BY DEF Inv, Numbered, Behind, NothingSkipped, Stored

LEMMA SubmitRefusedKeeps ==
    ASSUME Inv, NEW e \in EventIds, NEW p \in Payloads, SubmitRefused(e, p)
    PROVE  Inv'
  <1>1. /\ nextOrdinal' = nextOrdinal + Burned(e, p)
        /\ refused' = refused \cup {<<e, lease[WorkerOf[e]]>>}
        /\ UNCHANGED <<events, lease, checkpoints, gate, now, cursor, delivered>>
    BY DEF SubmitRefused
  <1>2. Burned(e, p) \in Nat
    BY Counted DEF Burned
  <1>3. nextOrdinal' \in Nat \ {0} /\ nextOrdinal <= nextOrdinal'
    BY <1>1, <1>2, StoredFacts
  <1>4. \A f \in Stored : events[f].ordinal < nextOrdinal'
    BY <1>1, <1>2, StoredFacts
  <1>5. WorkerOf[e] \in Workers /\ lease[WorkerOf[e]] \in Nat
    BY DEF Inv, Typed, TypeOK, Workers
  <1>6. Typed'
    BY <1>1, <1>3, <1>5 DEF Inv, Typed, TypeOK, Stored
  <1>7. GateAnswerable'
    BY <1>1 DEF Inv, GateAnswerable
  <1> QED BY <1>1, <1>3, <1>4, <1>6, <1>7, StreamRests DEF Inv

LEMMA SubmitAcceptedKeeps ==
    ASSUME Inv, NEW e \in EventIds, NEW p \in Payloads, SubmitAccepted(e, p)
    PROVE  Inv'
  <1> DEFINE w == WorkerOf[e]
             old == Superseded(e, p)
             out == Evicted(e, p)
             base == nextOrdinal + Cardinality(old)
             last == base + Cardinality(out)
             material == IF old = {} THEN p.material
                         ELSE UNION {MergeProgress(events[f].material, p.material) : f \in old}
             stored == [submitted |-> p, material |-> material,
                        sequence |-> NextSequence(w), ordinal |-> last,
                        receivedAt |-> now, state |-> "active"]
  <1>1. /\ e \notin Stored /\ ~Refusal(e, p)
        /\ nextOrdinal' = last + 1
        /\ checkpoints' = [c \in DOMAIN checkpoints |->
             IF c = p.correlation THEN [checkpoints[c] EXCEPT !.state = "answered"]
                                  ELSE checkpoints[c]]
        /\ gate' = [gate EXCEPT ![w] = GateAfter(w, p.correlation)]
        /\ UNCHANGED <<refused, lease, now, cursor, delivered>>
    BY DEF SubmitAccepted, NewSubmission
  <1>0. events' = [f \in Stored \cup {e} |->
             CASE f = e -> stored
               [] f # e /\ f \in out -> [events[f] EXCEPT !.state = "closed", !.ordinal = base]
               [] f # e /\ f \in old \ out ->
                     [events[f] EXCEPT !.state = "superseded", !.ordinal = nextOrdinal]
               [] OTHER -> events[f]]
    BY DEF SubmitAccepted
  <1>2. /\ nextOrdinal \in Nat \ {0} /\ base \in Nat /\ last \in Nat
        /\ nextOrdinal <= base /\ base <= last
    BY StoredFacts, Counted
  <1>3. old \subseteq Stored /\ out \subseteq Stored
    BY Counted
  <1>4. p \in Payload
    BY StreamConstants
  <1>5. material \in SUBSET (Items \cup {Facts})
    <2>1. p.material \in SUBSET (Items \cup {Facts})
      BY <1>4 DEF Payload
    <2>2. \A f \in old : MergeProgress(events[f].material, p.material) \in SUBSET (Items \cup {Facts})
      BY <1>3, <2>1, StoredFacts DEF MergeProgress, StoredEvent
    <2> QED BY <2>1, <2>2
  <1> HIDE DEF material
  <1>6. stored \in StoredEvent
    BY <1>2, <1>4, <1>5, NextSequenceBounded DEF Inv, Typed, TypeOK, StoredEvent, EventStates
  <1>7. stored.sequence <= stored.ordinal /\ stored.ordinal = last /\ stored.sequence \in Nat
    BY <1>2, NextSequenceBounded
  <1> HIDE DEF stored, old, out, base, last
  <1>8. /\ Stored' = Stored \cup {e} /\ events'[e] = stored
        /\ \A f \in Stored \ (out \cup old) : events'[f] = events[f]
        /\ \A f \in out : events'[f] = [events[f] EXCEPT !.state = "closed", !.ordinal = base]
        /\ \A f \in old \ out : events'[f] = [events[f] EXCEPT !.state = "superseded", !.ordinal = nextOrdinal]
    BY <1>0, <1>1, <1>3 DEF Stored
  <1>9. ASSUME NEW f \in Stored
        PROVE  /\ events'[f] \in StoredEvent /\ events'[f].sequence = events[f].sequence
               /\ events'[f] = events[f] \/ events'[f].ordinal \in {base, nextOrdinal}
    <2>1. events[f] \in StoredEvent /\ events[f].sequence \in Nat
      BY StoredFacts
    <2>2. CASE f \in out
      <3> DEFINE d == [events[f] EXCEPT !.state = "closed", !.ordinal = base]
      <3>1. d \in StoredEvent /\ d.sequence = events[f].sequence /\ d.ordinal = base
        BY <1>2, <2>1 DEF StoredEvent, EventStates
      <3>2. events'[f] = d
        BY <1>8, <2>2
      <3> HIDE DEF d
      <3> QED BY <3>1, <3>2
    <2>3. CASE f \in old \ out
      <3> DEFINE d == [events[f] EXCEPT !.state = "superseded", !.ordinal = nextOrdinal]
      <3>1. d \in StoredEvent /\ d.sequence = events[f].sequence /\ d.ordinal = nextOrdinal
        BY <1>2, <2>1 DEF StoredEvent, EventStates
      <3>2. events'[f] = d
        BY <1>8, <2>3
      <3> HIDE DEF d
      <3> QED BY <3>1, <3>2
    <2>4. CASE f \notin out \cup old
      BY <1>8, <2>1, <2>4
    <2> QED BY <2>2, <2>3, <2>4
  <1>10. Numbered'
    <2>1. ASSUME NEW f \in Stored
          PROVE  events'[f].sequence <= events'[f].ordinal /\ events'[f].ordinal < nextOrdinal'
      BY <1>1, <1>2, <1>9, StoredFacts
    <2>2. events'[e].sequence <= events'[e].ordinal /\ events'[e].ordinal < nextOrdinal'
      <3>1. events'[e] = stored
        BY <1>8
      <3> QED BY <1>1, <1>2, <1>7, <3>1
    <2> QED BY <1>8, <2>1, <2>2 DEF Numbered
  <1>11. Behind' /\ NothingSkipped'
    <2>1. \A f \in Stored' : (f \in Stored /\ events'[f] = events[f])
                             \/ (events'[f].ordinal \in Nat /\ events'[f].ordinal >= nextOrdinal)
      <3>1. events'[e].ordinal \in Nat /\ events'[e].ordinal >= nextOrdinal
        <4>1. events'[e] = stored
          BY <1>8
        <4> QED BY <1>2, <1>7, <4>1
      <3>2. \A f \in Stored : events'[f] = events[f] \/ events'[f].ordinal \in {base, nextOrdinal}
        BY <1>9
      <3>3. Stored' = Stored \cup {e}
        BY <1>8
      <3> QED BY <1>2, <3>1, <3>2, <3>3
    <2> QED BY <1>1, <1>8, <1>10, <2>1, NumberedAnew
  <1>12. Typed'
    <2>1. Stored' \subseteq EventIds /\ IsFiniteSet(Stored')
      BY <1>8, FS_AddElement DEF Inv, Typed, TypeOK
    <2>2. events' \in [Stored' -> StoredEvent]
      <3>1. \A f \in Stored' : events'[f] \in StoredEvent
        BY <1>6, <1>8, <1>9
      <3>2. events' = [f \in Stored' |-> events'[f]]
        BY <1>0, <1>8
      <3> QED BY <3>1, <3>2
    <2>3. nextOrdinal' \in Nat \ {0}
      BY <1>1, <1>2
    <2>4. /\ DOMAIN checkpoints' = DOMAIN checkpoints
          /\ checkpoints' \in [DOMAIN checkpoints' -> [mode : {"non-blocking", "decision-gate"},
                                                       state : {"pending", "answered"}]]
      BY <1>1 DEF Inv, Typed, TypeOK
    <2>5. gate' \in [Workers -> Correlations \cup {NoCorrelation}]
      BY <1>1 DEF Inv, Typed, TypeOK, GateAfter
    <2> QED BY <1>1, <2>1, <2>2, <2>3, <2>4, <2>5 DEF Inv, Typed, TypeOK
  \* The answered checkpoint was asked of this worker, so no other one waits for it.
  <1>13. GateAnswerable'
    <2> SUFFICES ASSUME NEW v \in Workers, gate'[v] # NoCorrelation
                 PROVE  /\ gate'[v] \in DOMAIN checkpoints'
                        /\ CheckpointOf[gate'[v]] = v
                        /\ checkpoints'[gate'[v]] = [mode |-> "decision-gate", state |-> "pending"]
      BY DEF GateAnswerable
    <2>1. gate'[v] = gate[v] /\ (v = w => gate[v] # p.correlation)
      BY <1>1 DEF Inv, Typed, TypeOK, GateAfter
    <2>2. /\ gate[v] \in DOMAIN checkpoints /\ CheckpointOf[gate[v]] = v
          /\ checkpoints[gate[v]] = [mode |-> "decision-gate", state |-> "pending"]
      BY <2>1 DEF Inv, GateAnswerable
    <2>3. p.correlation # NoCorrelation => CheckpointOf[p.correlation] = w
      BY <1>1 DEF Refusal, CorrelationInvalid
    <2>4. gate[v] # p.correlation
      BY <2>1, <2>2, <2>3
    <2> QED BY <1>1, <2>1, <2>2, <2>4
  <1> QED BY <1>10, <1>11, <1>12, <1>13 DEF Inv

LEMMA ResolveEventKeeps ==
    ASSUME Inv, NEW e \in EventIds, NEW r \in Resolutions, ResolveEvent(e, r)
    PROVE  Inv'
  <1>1. /\ e \in Stored /\ nextOrdinal' = nextOrdinal + 1
        /\ events' = [events EXCEPT ![e] = [events[e] EXCEPT !.state = r, !.ordinal = nextOrdinal]]
        /\ UNCHANGED <<refused, lease, checkpoints, gate, now, cursor, delivered>>
    BY DEF ResolveEvent
  <1>2. nextOrdinal \in Nat \ {0}
    BY StoredFacts
  <1> DEFINE new == [events[e] EXCEPT !.state = r, !.ordinal = nextOrdinal]
  <1>3. new \in StoredEvent /\ new.ordinal = nextOrdinal /\ new.sequence = events[e].sequence
    BY <1>1, <1>2, StoredFacts, StreamConstants DEF StoredEvent
  <1> HIDE DEF new
  <1>4. /\ Stored' = Stored /\ events'[e] = new /\ \A f \in Stored \ {e} : events'[f] = events[f]
        /\ events' \in [Stored' -> StoredEvent]
    BY <1>1, <1>3 DEF Inv, Typed, TypeOK, Stored, new
  <1>5. Numbered'
    <2>1. ASSUME NEW f \in Stored
          PROVE  events'[f].sequence <= events'[f].ordinal /\ events'[f].ordinal < nextOrdinal'
      BY <1>1, <1>2, <1>3, <1>4, StoredFacts
    <2> QED BY <1>4, <2>1 DEF Numbered
  <1>6. \A f \in Stored' : (f \in Stored /\ events'[f] = events[f])
                           \/ (events'[f].ordinal \in Nat /\ events'[f].ordinal >= nextOrdinal)
    BY <1>2, <1>3, <1>4
  <1>7. Behind' /\ NothingSkipped'
    BY <1>1, <1>4, <1>5, <1>6, NumberedAnew
  <1>8. Typed'
    BY <1>1, <1>2, <1>4 DEF Inv, Typed, TypeOK
  <1>9. GateAnswerable'
    BY <1>1 DEF Inv, GateAnswerable
  <1> QED BY <1>5, <1>7, <1>8, <1>9 DEF Inv

LEMMA RequestCheckpointKeeps ==
    ASSUME Inv, NEW c \in Correlations, NEW mode \in {"non-blocking", "decision-gate"},
           RequestCheckpoint(c, mode)
    PROVE  Inv'
  <1>1. /\ c \notin DOMAIN checkpoints
        /\ checkpoints' = [d \in DOMAIN checkpoints \cup {c} |->
             IF d = c THEN [mode |-> mode, state |-> "pending"] ELSE checkpoints[d]]
        /\ gate' = IF mode = "decision-gate" THEN [gate EXCEPT ![CheckpointOf[c]] = c] ELSE gate
        /\ UNCHANGED <<events, nextOrdinal, refused, lease, now, cursor, delivered>>
    BY DEF RequestCheckpoint
  <1>2. Numbered' /\ Behind' /\ NothingSkipped'
    BY <1>1, StoredFacts, StreamRests
  <1>3. Typed'
    <2>1. /\ DOMAIN checkpoints' \subseteq Correlations
          /\ checkpoints' \in [DOMAIN checkpoints' -> [mode : {"non-blocking", "decision-gate"},
                                                       state : {"pending", "answered"}]]
      BY <1>1 DEF Inv, Typed, TypeOK
    <2>2. gate' \in [Workers -> Correlations \cup {NoCorrelation}]
      BY <1>1 DEF Inv, Typed, TypeOK
    <2> QED BY <1>1, <2>1, <2>2 DEF Inv, Typed, TypeOK, Stored
  <1>4. GateAnswerable'
    <2> SUFFICES ASSUME NEW v \in Workers, gate'[v] # NoCorrelation
                 PROVE  /\ gate'[v] \in DOMAIN checkpoints'
                        /\ CheckpointOf[gate'[v]] = v
                        /\ checkpoints'[gate'[v]] = [mode |-> "decision-gate", state |-> "pending"]
      BY DEF GateAnswerable
    <2>1. CASE gate'[v] = c /\ v = CheckpointOf[c] /\ mode = "decision-gate"
      BY <1>1, <2>1
    <2>2. CASE ~(v = CheckpointOf[c] /\ mode = "decision-gate")
      <3>1. gate'[v] = gate[v]
        BY <1>1, <2>2 DEF Inv, Typed, TypeOK
      <3> QED BY <1>1, <3>1 DEF Inv, GateAnswerable
    <2>3. CASE gate'[v] # c /\ v = CheckpointOf[c] /\ mode = "decision-gate"
      BY <1>1, <2>3 DEF Inv, Typed, TypeOK
    <2> QED BY <2>1, <2>2, <2>3
  <1> QED BY <1>2, <1>3, <1>4 DEF Inv

-----------------------------------------------------------------------------
(* The consumer *)

\* An event of a page has on that page every event before it.
LEMMA PageClosed ==
    ASSUME Inv, NEW e \in Matches, NEW f \in Page, events[e].ordinal <= events[f].ordinal
    PROVE  e \in Page
  <1>1. e \in Stored /\ f \in Stored /\ f \in Matches
    BY DEF Matches, Candidates, Page
  <1>2. \A g \in Matches : g \in Stored
    BY DEF Matches, Candidates
  <1>3. Before(e) \subseteq Before(f)
    BY <1>1, <1>2, StoredFacts DEF Before
  <1>4. IsFiniteSet(Before(f))
    <2>1. Before(f) \subseteq Stored
      BY <1>2 DEF Before
    <2> QED BY <2>1, FS_Subset DEF Inv, Typed
  <1>5. /\ Cardinality(Before(e)) <= Cardinality(Before(f))
        /\ Cardinality(Before(e)) \in Nat /\ Cardinality(Before(f)) \in Nat
    BY <1>3, <1>4, FS_Subset, FS_CardinalityType
  <1>6. Cardinality(Before(f)) < PageLimit
    BY DEF Page
  <1>7. PageLimit \in Nat
    BY StreamConstants
  <1> QED BY <1>5, <1>6, <1>7 DEF Page

\* An event the new cursor passes is on the page.
LEMMA NextCursorFacts ==
    ASSUME Inv, Candidates # {}
    PROVE  /\ NextCursor \in Nat
           /\ \E e \in Stored : NextCursor <= events[e].ordinal
           /\ \A e \in Matches : events[e].ordinal <= NextCursor => e \in Page
  <1> DEFINE P == {events[e].ordinal : e \in Page}
             C == {events[e].ordinal : e \in Candidates} \cup {cursor}
  <1>1. /\ nextOrdinal \in Nat /\ cursor \in Nat
        /\ \A e \in Stored : events[e].ordinal \in 0..nextOrdinal
    BY StoredFacts
  <1>2. Page \subseteq Matches /\ Matches \subseteq Candidates /\ Candidates \subseteq Stored
    BY DEF Page, Matches, Candidates
  <1>3. CASE Page # Matches
    \* The page is not empty: the least of the matches is on it.
    <2>1. PICK g \in Matches : TRUE
      BY <1>2, <1>3
    <2>2. PICK f \in Matches : \A h \in Matches : events[f].ordinal <= events[h].ordinal
      <3> DEFINE M == {events[h].ordinal : h \in Matches}
      <3>1. M \subseteq Nat /\ M # {}
        BY <1>1, <1>2, <2>1
      <3>2. PICK m \in M : \A y \in M : m <= y
        BY <3>1, NatMinimum
      <3> QED BY <3>2
    <2>3. Before(f) = {}
      BY <1>1, <1>2, <2>2 DEF Before
    <2>4. f \in Page
      BY <2>3, FS_EmptySet, StreamConstants DEF Page
    <2>5. P \subseteq 0..nextOrdinal /\ P # {}
      BY <1>1, <1>2, <2>4
    <2>6. NextCursor = Max(P)
      BY <1>3 DEF NextCursor
    <2> HIDE DEF P
    <2>7. Max(P) \in P /\ Max(P) \in Nat
      BY <1>1, <2>5, MaxOfBounded
    <2>8. PICK d \in Page : Max(P) = events[d].ordinal
      BY <2>7 DEF P
    <2>9. \A e \in Matches : events[e].ordinal <= events[d].ordinal => e \in Page
      BY PageClosed
    <2>10. d \in Stored /\ NextCursor <= events[d].ordinal
      BY <1>1, <1>2, <2>6, <2>7, <2>8
    <2> QED BY <2>6, <2>7, <2>8, <2>9, <2>10
  <1>4. CASE Page = Matches
    <2>1. C \subseteq 0..nextOrdinal /\ C # {}
      BY <1>1, <1>2, StoredFacts
    <2>2. NextCursor = Max(C)
      BY <1>4 DEF NextCursor
    <2>3. PICK c \in Candidates : TRUE
      OBVIOUS
    <2>4. events[c].ordinal > cursor /\ c \in Stored
      BY DEF Candidates
    <2>5. events[c].ordinal \in C /\ cursor \in C
      OBVIOUS
    <2> HIDE DEF C
    <2>6. Max(C) \in C /\ Max(C) \in Nat /\ Max(C) >= events[c].ordinal
      BY <1>1, <2>1, <2>5, MaxOfBounded
    <2>7. Max(C) # cursor
      BY <1>1, <2>4, <2>6
    <2>8. PICK d \in Candidates : Max(C) = events[d].ordinal
      BY <2>6, <2>7 DEF C
    <2>9. d \in Stored /\ NextCursor <= events[d].ordinal
      BY <1>1, <1>2, <2>2, <2>6, <2>8
    <2> QED BY <1>4, <2>2, <2>6, <2>9
  <1> QED BY <1>3, <1>4

LEMMA ProjectEventsKeeps ==
    ASSUME Inv, ProjectEvents
    PROVE  Inv'
  <1>1. /\ Candidates # {} /\ cursor' = NextCursor /\ delivered' = delivered \cup Page
        /\ UNCHANGED <<events, nextOrdinal, refused, lease, checkpoints, gate, now>>
    BY DEF ProjectEvents
  <1>2. /\ cursor' \in Nat
        /\ \E e \in Stored : cursor' <= events[e].ordinal
        /\ \A e \in Matches : events[e].ordinal <= cursor' => e \in Page
    BY <1>1, NextCursorFacts
  <1>3. Typed'
    <2>1. Page \subseteq EventIds
      BY StoredFacts DEF Page, Matches, Candidates
    <2> QED BY <1>1, <1>2, <2>1 DEF Inv, Typed, TypeOK, Stored
  <1>4. Numbered' /\ Behind' /\ GateAnswerable'
    BY <1>1, <1>2 DEF Inv, Numbered, Behind, GateAnswerable, Stored
  <1>5. NothingSkipped'
    <2> SUFFICES ASSUME NEW e \in Stored, events[e].state = "active", WorkerOf[e] \in Watched,
                        events[e].ordinal <= cursor'
                 PROVE  e \in delivered'
      BY <1>1 DEF NothingSkipped, Stored
    <2>1. CASE events[e].ordinal <= cursor
      BY <1>1, <2>1 DEF Inv, NothingSkipped
    <2>2. CASE ~(events[e].ordinal <= cursor)
      <3>1. e \in Matches
        BY <2>2, StoredFacts DEF Matches, Candidates
      <3> QED BY <1>1, <1>2, <3>1
    <2> QED BY <2>1, <2>2
  <1> QED BY <1>3, <1>4, <1>5 DEF Inv

-----------------------------------------------------------------------------
(* Restarts, leases and time *)

\* The counter is rebuilt from the stored events.
LEMMA RestartKeeps ==
    ASSUME Inv, Restart
    PROVE  Inv'
  <1> DEFINE S == {events[e].ordinal : e \in Stored} \cup {0}
  <1>1. /\ nextOrdinal' = Max(S) + 1
        /\ UNCHANGED <<events, refused, lease, checkpoints, gate, now, cursor, delivered>>
    BY DEF Restart
  <1>2. nextOrdinal \in Nat /\ S \subseteq 0..nextOrdinal /\ S # {}
    BY StoredFacts
  <1>3. \A e \in Stored : events[e].ordinal \in S /\ events[e].ordinal \in Nat
    BY StoredFacts
  <1> HIDE DEF S
  <1>4. Max(S) \in Nat /\ \A x \in S : Max(S) >= x
    BY <1>2, MaxOfBounded
  <1>5. nextOrdinal' \in Nat \ {0} /\ \A e \in Stored : events[e].ordinal < nextOrdinal'
    BY <1>1, <1>3, <1>4
  <1>6. Typed' /\ GateAnswerable'
    BY <1>1, <1>5 DEF Inv, Typed, TypeOK, GateAnswerable, Stored
  <1> QED BY <1>1, <1>5, <1>6, StreamRests DEF Inv

LEMMA OthersKeep ==
    ASSUME Inv, (\E w \in Workers : LeaseMoves(w)) \/ Tick \/ UNCHANGED vars
    PROVE  Inv'
  <1>1. UNCHANGED <<events, nextOrdinal, refused, checkpoints, gate, cursor, delivered>>
    BY DEF LeaseMoves, Tick, vars
  <1>2. lease' \in [Workers -> Nat] /\ now' \in Nat
    <2>1. lease \in [Workers -> Nat] /\ now \in Nat
      BY DEF Inv, Typed, TypeOK
    <2>2. \/ lease' = lease
          \/ \E w \in Workers : lease' = [lease EXCEPT ![w] = @ + 1]
      BY DEF LeaseMoves, Tick, vars
    <2>3. now' = now \/ now' = now + 1
      BY DEF LeaseMoves, Tick, vars
    <2> QED BY <2>1, <2>2, <2>3
  <1>3. Typed' /\ GateAnswerable'
    BY <1>1, <1>2 DEF Inv, Typed, TypeOK, GateAnswerable, Stored
  <1> QED BY <1>1, <1>3, StoredFacts, StreamRests DEF Inv

-----------------------------------------------------------------------------
(* Ordinals *)

LEMMA NextSequenceUnused ==
    ASSUME Inv, NEW w, NEW f \in Of(w)
    PROVE  events[f].sequence # NextSequence(w)
  <1> DEFINE S == {events[e].sequence : e \in Of(w)} \cup {0}
  <1>1. nextOrdinal \in Nat /\ S # {}
    BY StoredFacts
  <1>2. S \subseteq 0..nextOrdinal
    <2>1. ASSUME NEW e \in Of(w) PROVE events[e].sequence \in 0..nextOrdinal
      <3>1. e \in Stored
        BY <2>1 DEF Of
      <3> QED BY <3>1, StoredFacts
    <2> QED BY <1>1, <2>1
  <1>3. events[f].sequence \in S /\ events[f].sequence \in Nat
    BY StoredFacts DEF Of
  <1> HIDE DEF S
  <1>4. Max(S) \in Nat /\ Max(S) >= events[f].sequence
    BY <1>1, <1>2, <1>3, MaxOfBounded
  <1>5. NextSequence(w) = Max(S) + 1
    BY DEF NextSequence, S
  <1> HIDE DEF Max
  <1> QED BY <1>3, <1>4, <1>5

LEMMA AtMostOne ==
    ASSUME Inv, Unique, NEW e \in EventIds, NEW p
    PROVE  /\ \A f, g \in Superseded(e, p) : f = g
           /\ \A f, g \in Evicted(e, p) : f = g
  <1>1. ASSUME NEW f \in Superseded(e, p), NEW g \in Superseded(e, p) PROVE f = g
    <2>1. /\ f \in Active(WorkerOf[e]) /\ g \in Active(WorkerOf[e])
          /\ events[f].sequence <= events[g].sequence /\ events[g].sequence <= events[f].sequence
      BY <1>1 DEF Superseded, CurrentProgress
    <2>2. f \in Stored /\ g \in Stored /\ WorkerOf[f] = WorkerOf[g]
      BY <2>1 DEF Active, Of
    <2>3. events[f].sequence = events[g].sequence
      BY <2>1, <2>2, StoredFacts
    <2> QED BY <2>2, <2>3 DEF Unique, SequencesUnique
  <1>2. ASSUME NEW f \in Evicted(e, p), NEW g \in Evicted(e, p) PROVE f = g
    <2>1. /\ f \in Active(WorkerOf[e]) /\ g \in Active(WorkerOf[e])
          /\ events[f].ordinal <= events[g].ordinal /\ events[g].ordinal <= events[f].ordinal
      BY <1>2 DEF Evicted, Evictable
    <2>2. f \in Stored /\ g \in Stored
      BY <2>1 DEF Active, Of
    <2>3. events[f].ordinal = events[g].ordinal
      BY <2>1, <2>2, StoredFacts
    <2> QED BY <2>2, <2>3 DEF Unique, OrdinalsUnique
  <1> QED BY <1>1, <1>2

\* The superseded, the evicted and the new event get ordinals of their own.
LEMMA SubmitAcceptedUnique ==
    ASSUME Inv, Unique, NEW e \in EventIds, NEW p \in Payloads, SubmitAccepted(e, p)
    PROVE  Unique'
  <1> DEFINE w == WorkerOf[e]
             old == Superseded(e, p)
             out == Evicted(e, p)
             base == nextOrdinal + Cardinality(old)
             last == base + Cardinality(out)
  <1>1. /\ e \notin Stored
        /\ Stored' = Stored \cup {e}
        /\ events'[e].sequence = NextSequence(w) /\ events'[e].ordinal = last
        /\ \A f \in Stored \ (out \cup old) : events'[f] = events[f]
        /\ \A f \in out : events'[f] = [events[f] EXCEPT !.state = "closed", !.ordinal = base]
        /\ \A f \in old \ out :
              events'[f] = [events[f] EXCEPT !.state = "superseded", !.ordinal = nextOrdinal]
    BY Counted DEF SubmitAccepted, NewSubmission, Stored
  <1>2. old \subseteq Stored /\ out \subseteq Stored
    BY Counted
  <1>3. /\ nextOrdinal \in Nat /\ Cardinality(old) \in Nat /\ Cardinality(out) \in Nat
        /\ old # {} => Cardinality(old) # 0
        /\ out # {} => Cardinality(out) # 0
    <2>1. IsFiniteSet(old) /\ IsFiniteSet(out)
      BY <1>2, FS_Subset DEF Inv, Typed
    <2> HIDE DEF old, out
    <2> QED BY <2>1, FS_EmptySet, FS_CardinalityType, StoredFacts
  <1>4. (\A f, g \in old : f = g) /\ (\A f, g \in out : f = g)
    BY AtMostOne
  <1> HIDE DEF old, out
  <1>5. ASSUME NEW f \in Stored
        PROVE  /\ events'[f].sequence = events[f].sequence
               /\ f \in out => events'[f].ordinal = base
               /\ f \in old \ out => events'[f].ordinal = nextOrdinal
               /\ f \notin out \cup old => events'[f].ordinal = events[f].ordinal
    <2>1. events[f] \in StoredEvent
      BY StoredFacts
    <2>2. CASE f \in out
      BY <1>1, <2>1, <2>2 DEF StoredEvent
    <2>3. CASE f \in old \ out
      BY <1>1, <2>1, <2>3 DEF StoredEvent
    <2>4. CASE f \notin out \cup old
      BY <1>1, <2>4
    <2> QED BY <2>2, <2>3, <2>4
  <1>6. e \notin Stored /\ Stored' = Stored \cup {e} /\ events'[e].ordinal = last
        /\ events'[e].sequence = NextSequence(w)
    BY <1>1
  <1>7. /\ base \in Nat /\ last \in Nat /\ nextOrdinal <= base /\ base <= last
        /\ old # {} => nextOrdinal < base
        /\ out # {} => base < last
    BY <1>3
  <1> HIDE DEF base, last
  <1>8. ASSUME NEW f \in Stored PROVE events'[f].ordinal < last
    <2>1. CASE f \in out
      BY <1>5, <1>7, <2>1
    <2>2. CASE f \in old \ out
      BY <1>5, <1>7, <1>3, <2>2
    <2>3. CASE f \notin out \cup old
      BY <1>3, <1>5, <1>7, <2>3, StoredFacts
    <2> QED BY <2>1, <2>2, <2>3
  <1>9. ASSUME NEW f \in Stored, NEW g \in Stored, events'[f].ordinal = events'[g].ordinal
        PROVE  f = g
    <2>1. /\ events[f].ordinal \in Nat /\ events[f].ordinal < nextOrdinal
          /\ events[g].ordinal \in Nat /\ events[g].ordinal < nextOrdinal
      BY StoredFacts
    <2>2. CASE f \notin out \cup old /\ g \notin out \cup old
      BY <1>5, <1>9, <2>2 DEF Unique, OrdinalsUnique
    <2>3. CASE f \in out /\ g \in out
      BY <1>4, <2>3
    <2>4. CASE f \in old \ out /\ g \in old \ out
      BY <1>4, <2>4
    <2>5. CASE (f \in out /\ g \in old \ out) \/ (g \in out /\ f \in old \ out)
      BY <1>3, <1>5, <1>7, <1>9, <2>5
    <2>6. CASE (f \in out \cup old /\ g \notin out \cup old) \/ (g \in out \cup old /\ f \notin out \cup old)
      BY <1>3, <1>5, <1>7, <1>9, <2>1, <2>6
    <2> QED BY <2>2, <2>3, <2>4, <2>5, <2>6
  <1>10. OrdinalsUnique'
    <2>1. ASSUME NEW f \in Stored PROVE events'[f].ordinal # events'[e].ordinal
      <3>1. last \in Nat /\ events'[f].ordinal < last /\ events'[e].ordinal = last
        BY <1>6, <1>7, <1>8
      <3> QED BY <3>1
    <2> QED BY <1>6, <1>9, <2>1 DEF OrdinalsUnique
  <1>11. SequencesUnique'
    <2>1. ASSUME NEW f \in Stored, WorkerOf[f] = w PROVE events'[f].sequence # events'[e].sequence
      <3>1. f \in Of(w)
        BY <2>1 DEF Of
      <3> QED BY <1>5, <1>6, <3>1, NextSequenceUnused
    <2>2. ASSUME NEW f \in Stored, NEW g \in Stored, WorkerOf[f] = WorkerOf[g],
                 events'[f].sequence = events'[g].sequence
          PROVE  f = g
      BY <1>5, <2>2 DEF Unique, SequencesUnique
    <2> QED BY <1>6, <2>1, <2>2 DEF SequencesUnique
  <1> QED BY <1>10, <1>11 DEF Unique

LEMMA ResolveEventUnique ==
    ASSUME Inv, Unique, NEW e \in EventIds, NEW r \in Resolutions, ResolveEvent(e, r)
    PROVE  Unique'
  <1>1. /\ e \in Stored
        /\ events' = [events EXCEPT ![e] = [events[e] EXCEPT !.state = r, !.ordinal = nextOrdinal]]
    BY DEF ResolveEvent
  <1> DEFINE new == [events[e] EXCEPT !.state = r, !.ordinal = nextOrdinal]
  <1>2. new.ordinal = nextOrdinal /\ new.sequence = events[e].sequence
    BY <1>1, StoredFacts DEF StoredEvent
  <1> HIDE DEF new
  <1>3. Stored' = Stored /\ events'[e] = new /\ \A f \in Stored \ {e} : events'[f] = events[f]
    BY <1>1 DEF Inv, Typed, TypeOK, Stored, new
  <1>4. \A f \in Stored : events[f].ordinal # nextOrdinal
    BY StoredFacts
  <1> QED BY <1>2, <1>3, <1>4 DEF Unique, OrdinalsUnique, SequencesUnique

LEMMA NextKeepsUnique == Inv /\ Unique /\ [Next]_vars => Unique'
  <1> SUFFICES ASSUME Inv, Unique, [Next]_vars PROVE Unique'
    OBVIOUS
  <1>1. CASE \E e \in EventIds, p \in Payloads : SubmitAccepted(e, p)
    BY <1>1, SubmitAcceptedUnique
  <1>2. CASE \E e \in EventIds, r \in Resolutions : ResolveEvent(e, r)
    BY <1>2, ResolveEventUnique
  <1>3. CASE events' = events
    BY <1>3 DEF Unique, OrdinalsUnique, SequencesUnique, Stored
  <1>4. \/ \E e \in EventIds, p \in Payloads : SubmitAccepted(e, p)
        \/ \E e \in EventIds, r \in Resolutions : ResolveEvent(e, r)
        \/ events' = events
    BY DEF Next, SubmitRefused, RequestCheckpoint, ProjectEvents, LeaseMoves, Restart, Tick, vars
  <1> QED BY <1>1, <1>2, <1>3, <1>4

-----------------------------------------------------------------------------
(* The theorems *)

LEMMA NextKeepsInv == Inv /\ [Next]_vars => Inv'
  <1> SUFFICES ASSUME Inv, [Next]_vars PROVE Inv'
    OBVIOUS
  <1>1. CASE \E e \in EventIds, p \in Payloads : SubmitRefused(e, p) \/ SubmitAccepted(e, p)
    BY <1>1, SubmitRefusedKeeps, SubmitAcceptedKeeps
  <1>2. CASE \E e \in EventIds, r \in Resolutions : ResolveEvent(e, r)
    BY <1>2, ResolveEventKeeps
  <1>3. CASE \E c \in Correlations, mode \in {"non-blocking", "decision-gate"} :
                RequestCheckpoint(c, mode)
    BY <1>3, RequestCheckpointKeeps
  <1>4. CASE ProjectEvents
    BY <1>4, ProjectEventsKeeps
  <1>5. CASE Restart
    BY <1>5, RestartKeeps
  <1>6. CASE (\E w \in Workers : LeaseMoves(w)) \/ Tick \/ UNCHANGED vars
    BY <1>6, OthersKeep
  <1> QED BY <1>1, <1>2, <1>3, <1>4, <1>5, <1>6 DEF Next

LEMMA SpecInv == Spec => []Inv
  <1> QED BY InitInv, NextKeepsInv, PTL DEF Spec

\* Every variable keeps its type.
THEOREM StreamTypeCorrect == Spec => []TypeOK
  <1>1. Inv => TypeOK
    BY DEF Inv, Typed
  <1> QED BY <1>1, SpecInv, PTL

\* requestCheckpoint and submitEvent: a worker held at a decision gate waits for
\* a checkpoint that is addressed to it and can still be answered.
THEOREM StreamGateAnswerable == Spec => []GateAnswerable
  <1>1. Inv => GateAnswerable
    BY DEF Inv
  <1> QED BY <1>1, SpecInv, PTL

\* projectEvents: no page boundary, renumbered event or restart hides an active
\* event from a consumer that follows nextCursor.
THEOREM StreamNothingSkipped == Spec => []NothingSkipped
  <1>1. Inv => NothingSkipped
    BY DEF Inv
  <1> QED BY <1>1, SpecInv, PTL

\* submitEvent, resolveEvent and initialize: no two events ever share an ordinal,
\* whatever is superseded, evicted, resolved or forgotten by a restart, so a
\* cursor separates any two.
THEOREM StreamOrdinalsUnique == Spec => []OrdinalsUnique
  <1>1. Init => Inv /\ Unique
    BY InitInv DEF Init, Unique, OrdinalsUnique, SequencesUnique, Stored
  <1>2. Inv /\ Unique /\ [Next]_vars => (Inv /\ Unique)'
    BY NextKeepsInv, NextKeepsUnique
  <1>3. Unique => OrdinalsUnique
    BY DEF Unique
  <1> QED BY <1>1, <1>2, <1>3, PTL DEF Spec

-----------------------------------------------------------------------------
(* The grants of the operator.                                             *)

(* The lines of a journal are a sequence of whatever was appended, and the  *)
(* operator was told something definite of a root or nothing.  A root the   *)
(* operator was told is revoked is not active, or the file is refused.      *)
JournalInv ==
    /\ appends \in Int
    /\ \E records : lines \in Seq(records)
    /\ want \in [Roots -> {"unknown", "granted", "revoked"}]
    /\ \A root \in Roots : want[root] = "revoked" => ~AllowsRoot(root)

(* What a line appended to the journal leaves of the answers: a root it     *)
(* does not grant is allowed after it only if it was allowed before.        *)
LEMMA AppendedLineAllows ==
    ASSUME NEW records, lines \in Seq(records), NEW line, lines' = Append(lines, line),
           NEW root \in Roots, AllowsRoot(root)',
           ~(line.kind = "grant" /\ line.root = root /\ line.on)
    PROVE  AllowsRoot(root) /\ ~(line.kind = "grant" /\ line.root = root)
  <1>1. /\ DOMAIN lines' = DOMAIN lines \cup {Len(lines) + 1}
        /\ DOMAIN lines = 1 .. Len(lines) /\ Len(lines) \in Nat
        /\ lines'[Len(lines) + 1] = line
        /\ \A i \in DOMAIN lines : lines'[i] = lines[i]
    OBVIOUS
  <1>2. ~Unreadable
    BY <1>1 DEF AllowsRoot, Unreadable
  <1>3. PICK i \in DOMAIN lines' :
          /\ Decision(i, root)' /\ lines'[i].on
          /\ \A j \in DOMAIN lines' : j > i => ~(Decision(j, root)')
    BY DEF AllowsRoot, ReadActive
  <1>4. i \in DOMAIN lines
    BY <1>1, <1>3 DEF Decision
  <1>5. ~(line.kind = "grant" /\ line.root = root)
    BY <1>1, <1>3, <1>4 DEF Decision
  <1>6. /\ Decision(i, root) /\ lines[i].on
        /\ \A j \in DOMAIN lines : j > i => ~Decision(j, root)
    BY <1>1, <1>3, <1>4 DEF Decision
  <1> QED
    BY <1>2, <1>4, <1>5, <1>6 DEF AllowsRoot, ReadActive

(* An append keeps the lines a sequence, and allows no root but one that    *)
(* the appended record grants.                                              *)
LEMMA PutAllows ==
    ASSUME JournalInv, NEW record, NEW outcome \in Outcomes, Put(record, outcome)
    PROVE  /\ appends' \in Int
           /\ \E records : lines' \in Seq(records)
           /\ \A root \in Roots :
                AllowsRoot(root)' /\ ~(record.kind = "grant" /\ record.root = root /\ record.on)
                  => /\ AllowsRoot(root)
                     /\ outcome = "torn" \/ ~(record.kind = "grant" /\ record.root = root)
  <1>1. PICK records : lines \in Seq(records)
    BY DEF JournalInv
  <1>2. appends' \in Int
    BY DEF Put, JournalInv
  <1>3. CASE outcome = "torn"
    <2>1. lines' = lines
      BY <1>3 DEF Put
    <2> QED
      BY <1>1, <1>2, <1>3, <2>1 DEF AllowsRoot, Unreadable, ReadActive, Decision
  <1>4. CASE outcome # "torn"
    <2> DEFINE line == IF torn THEN Malformed ELSE record
    <2>1. PICK appended : appended = line
      OBVIOUS
    <2>2. lines' = Append(lines, appended)
      BY <1>4, <2>1 DEF Put
    <2>3. lines' \in Seq(records \cup {appended})
      BY <1>1, <2>2
    <2>4. appended = record \/ appended.kind = "malformed"
      BY <2>1 DEF Malformed
    <2>5. ASSUME NEW root \in Roots, AllowsRoot(root)',
                 ~(record.kind = "grant" /\ record.root = root /\ record.on)
          PROVE  AllowsRoot(root) /\ ~(record.kind = "grant" /\ record.root = root)
      <3>1. ~Unreadable'
        BY <2>5 DEF AllowsRoot
      <3>2. lines'[Len(lines) + 1] = appended /\ Len(lines) + 1 \in DOMAIN lines'
        BY <1>1, <2>2
      <3>3. appended = record
        BY <2>4, <3>1, <3>2 DEF Unreadable
      <3> QED
        BY <1>1, <2>2, <2>5, <3>3, AppendedLineAllows
    <2> QED
      BY <1>2, <2>3, <2>5
  <1> QED
    BY <1>3, <1>4

LEMMA JournalInvInit == JournalsInit => JournalInv
  <1> SUFFICES ASSUME JournalsInit PROVE JournalInv
    OBVIOUS
  <1>1. lines \in Seq({})
    BY DEF JournalsInit
  <1> QED
    BY <1>1 DEF JournalsInit, JournalInv

(* A step that leaves the journal and the answers alone.                    *)
LEMMA JournalRests ==
    ASSUME JournalInv, UNCHANGED <<lines, appends, want>>
    PROVE  JournalInv'
  <1>1. \A root \in Roots : AllowsRoot(root)' = AllowsRoot(root)
    BY DEF AllowsRoot, Unreadable, ReadActive, Decision
  <1> QED
    BY <1>1 DEF JournalInv

(* An append of anything that is no grant.                                  *)
LEMMA OtherAppendKeeps ==
    ASSUME JournalInv, NEW record, NEW outcome \in Outcomes, Put(record, outcome),
           record.kind # "grant", want' = want
    PROVE  JournalInv'
  <1>1. \A root \in Roots : AllowsRoot(root)' => AllowsRoot(root)
    BY PutAllows
  <1> QED
    BY <1>1, PutAllows DEF JournalInv

LEMMA SetGrantKeeps ==
    ASSUME JournalInv, NEW root \in Roots, NEW on \in BOOLEAN, NEW outcome \in Outcomes,
           SetGrant(root, on, outcome)
    PROVE  JournalInv'
  <1>1. want' \in [Roots -> {"unknown", "granted", "revoked"}]
    BY DEF SetGrant, JournalInv
  <1>2. \A other \in Roots : want'[other] = "revoked" =>
          IF other = root THEN outcome = "acked" /\ ~on ELSE want[other] = "revoked"
    BY DEF SetGrant, JournalInv
  <1>3. CASE Decided(root, on)
    <2>1. UNCHANGED <<lines, appends>> /\ outcome = "acked"
      BY <1>3 DEF SetGrant, journal
    <2>2. \A other \in Roots : AllowsRoot(other)' = AllowsRoot(other)
      BY <2>1 DEF AllowsRoot, Unreadable, ReadActive, Decision
    <2>3. ~on => ~AllowsRoot(root)
      BY <1>3 DEF Decided, AllowsRoot
    <2> QED
      BY <1>1, <1>2, <2>1, <2>2, <2>3 DEF JournalInv
  <1>4. CASE ~Decided(root, on)
    <2>1. PICK record : record = [kind |-> "grant", root |-> root, on |-> on]
      OBVIOUS
    <2>2. Put(record, outcome) /\ record.root = root /\ record.on = on /\ record.kind = "grant"
      BY <1>4, <2>1 DEF SetGrant
    <2>3. ASSUME NEW other \in Roots, want'[other] = "revoked" PROVE ~AllowsRoot(other)'
      <3>1. CASE other = root
        <4>1. outcome = "acked" /\ ~on
          BY <1>2, <2>3, <3>1
        <4> QED
          BY <2>2, <3>1, <4>1, PutAllows
      <3>2. CASE other # root
        <4>1. ~AllowsRoot(other)
          BY <1>2, <2>3, <3>2 DEF JournalInv
        <4> QED
          BY <2>2, <3>2, <4>1, PutAllows
      <3> QED
        BY <3>1, <3>2
    <2> QED
      BY <1>1, <2>2, <2>3, PutAllows DEF JournalInv
  <1> QED
    BY <1>3, <1>4

LEMMA JournalsNextKeeps == JournalInv /\ [JournalsNext]_journalsVars => JournalInv'
  <1> SUFFICES ASSUME JournalInv, [JournalsNext]_journalsVars PROVE JournalInv'
    OBVIOUS
  <1>1. ASSUME NEW root \in Roots, NEW on \in BOOLEAN, NEW outcome \in Outcomes,
               SetGrant(root, on, outcome)
        PROVE  JournalInv'
    BY <1>1, SetGrantKeeps
  <1>2. CASE WorkerMoves
    BY <1>2, JournalRests DEF WorkerMoves, journal
  <1>3. ASSUME NEW c \in Clients, OpenFleet(c) \/ Refresh(c) \/ MarkThreadRead(c)
        PROVE  JournalInv'
    BY <1>3, JournalRests DEF OpenFleet, Refresh, MarkThreadRead, journal
  <1>4. ASSUME NEW c \in Clients, NEW outcome \in Outcomes, SaveVisit(c, outcome)
        PROVE  JournalInv'
    <2>1. PICK record : record = [kind |-> "visit", mark |-> mark[c]]
      OBVIOUS
    <2>2. Put(record, outcome) /\ record.kind # "grant" /\ want' = want
      BY <1>4, <2>1 DEF SaveVisit
    <2> QED
      BY <2>2, OtherAppendKeeps
  <1>5. ASSUME NEW s \in Sessions, NEW outcome \in Outcomes, RecordDetach(s, outcome)
        PROVE  JournalInv'
    <2>1. PICK record : record = [kind |-> "detach", session |-> s]
      OBVIOUS
    <2>2. Put(record, outcome) /\ record.kind # "grant" /\ want' = want
      BY <1>5, <2>1 DEF RecordDetach, PutDetach
    <2> QED
      BY <2>2, OtherAppendKeeps
  <1>6. ASSUME NEW s \in Sessions, SessionGone(s) PROVE JournalInv'
    BY <1>6, JournalRests DEF SessionGone, journal
  <1>7. CASE Reattach
    BY <1>7, JournalRests DEF Reattach, journal
  <1>8. ASSUME NEW outcome \in Outcomes, ClearStale(outcome) PROVE JournalInv'
    <2>1. PICK record : record = [kind |-> "clear", session |-> clearing]
      OBVIOUS
    <2>2. Put(record, outcome) /\ record.kind # "grant" /\ want' = want
      BY <1>8, <2>1 DEF ClearStale, PutDetach
    <2> QED
      BY <2>2, OtherAppendKeeps
  <1>9. CASE RestartFleet
    BY <1>9, JournalRests DEF RestartFleet, journal
  <1>10. CASE UNCHANGED journalsVars
    BY <1>10, JournalRests DEF journalsVars, journal
  <1> QED
    BY <1>1, <1>2, <1>3, <1>4, <1>5, <1>6, <1>7, <1>8, <1>9, <1>10 DEF JournalsNext

(* A repository the operator was told is revoked is answered for by no      *)
(* policy and read by no Scout, whatever appends were torn, lost their      *)
(* acknowledgement or were glued to a torn tail before or since.            *)
THEOREM JournalsRevokedIsRefused == JournalsSpec => []RevokedIsRefused
  <1>1. JournalInv => RevokedIsRefused
    BY RootOfIsARoot DEF JournalInv, RevokedIsRefused, Evaluate
  <1> QED
    BY <1>1, JournalInvInit, JournalsNextKeeps, PTL DEF JournalsSpec

-----------------------------------------------------------------------------
(* Worktrees and prune                                                     *)

PruneStages == {"idle", "status", "count", "verdict", "branch"}
Prunes == [stage : PruneStages, live : BOOLEAN, inside : SUBSET Starts, dirty : BOOLEAN,
           ahead : Nat, pushed : BOOLEAN]
WorkedTrees == [dirty : BOOLEAN, provenance : BOOLEAN, detached : BOOLEAN, loose : Nat, maker : {"first"}]

PruneTyped ==
    /\ branch \in Nat \cup {Absent} /\ pushed \in Nat /\ made \in Nat
    /\ tree = Absent \/ tree \in WorkedTrees
    /\ prune \in Prunes

\* The branch goes after its worktree, at the end of a prune.  While prune reads,
\* the worktree is there; a remote that it found level with the branch holds no
\* fewer commits than it counted, and the branch only grows.
PruneReads ==
    /\ branch = Absent => tree = Absent /\ prune.stage = "idle"
    /\ prune.stage \in {"status", "count", "verdict"} => tree \in WorkedTrees
    /\ prune.pushed => branch # Absent /\ prune.ahead <= branch

PruneInv == scene.about = "prune" => PruneTyped /\ PruneReads /\ PruneKeepsCommits

LEMMA PruneInvInit == WorkspacesInit => PruneInv
  <1> SUFFICES ASSUME WorkspacesInit, scene.about = "prune"
               PROVE  PruneTyped /\ PruneReads /\ PruneKeepsCommits
    BY DEF PruneInv
  <1>1. branch = 0 /\ pushed = 0 /\ made = 0 /\ destroyed = {} /\ prune = NoPrune
    BY DEF WorkspacesInit
  <1>2. tree \in WorkedTrees
    <2>1. tree = [dirty |-> FALSE, provenance |-> TRUE, detached |-> FALSE, loose |-> 0, maker |-> "first"]
      BY DEF WorkspacesInit
    <2> QED
      BY <2>1 DEF WorkedTrees
  <1>3. prune \in Prunes /\ prune.stage = "idle" /\ ~prune.pushed
    BY <1>1 DEF NoPrune, Prunes, PruneStages
  <1> QED
    BY <1>1, <1>2, <1>3, AbsentIsNoNumber DEF PruneTyped, PruneReads, PruneKeepsCommits

(* What the facts about a prune speak of.                                  *)
pruned == <<scene, branch, pushed, tree, made, prune, destroyed>>

LEMMA PruneRests ==
    ASSUME PruneInv, UNCHANGED pruned
    PROVE  PruneInv'
  BY DEF PruneInv, PruneTyped, PruneReads, PruneKeepsCommits, Pruning, pruned

(* The workers: they edit, commit on the branch or beside it, push and      *)
(* leave the branch.                                                       *)
LEMMA WorkingKeeps ==
    ASSUME PruneInv, NEW s \in Starts, Edit(s) \/ Commit(s) \/ Push(s) \/ Detach(s)
    PROVE  PruneInv'
  <1>1. /\ PruneTyped /\ PruneReads /\ PruneKeepsCommits /\ Pruning
        /\ tree \in WorkedTrees /\ branch \in Nat /\ branch = made
    BY DEF PruneInv, Edit, Commit, Push, Detach, Working, Pruning, PruneTyped, PruneReads,
           PruneKeepsCommits
  <1>2. UNCHANGED <<scene, prune, destroyed>>
    BY DEF Edit, Commit, Push, Detach
  <1>3. tree' \in WorkedTrees
    <2>1. PICK t \in WorkedTrees : t = tree
      BY <1>1
    <2>2. \/ tree' = t
          \/ tree' = [t EXCEPT !.dirty = TRUE]
          \/ tree' = [t EXCEPT !.dirty = FALSE, !.loose = @ + 1]
          \/ tree' = [t EXCEPT !.dirty = FALSE]
          \/ tree' = [t EXCEPT !.detached = TRUE]
      BY <2>1 DEF Edit, Commit, Push, Detach
    <2>3. t.loose + 1 \in Nat
      BY DEF WorkedTrees
    <2> QED
      BY <2>2, <2>3 DEF WorkedTrees
  <1>4. branch' \in Nat /\ branch' >= branch /\ branch' = made' /\ pushed' \in Nat
    BY <1>1 DEF Edit, Commit, Push, Detach, PruneTyped
  <1>5. PruneTyped'
    BY <1>1, <1>2, <1>3, <1>4 DEF PruneTyped
  <1>6. PruneReads'
    <2>1. prune.ahead \in Nat
      BY <1>1 DEF PruneTyped, Prunes
    <2>2. prune.pushed => prune.ahead <= branch'
      BY <1>1, <1>4, <2>1 DEF PruneReads
    <2> QED
      BY <1>2, <1>3, <1>4, <2>2, AbsentIsNoNumber DEF PruneReads
  <1>7. PruneKeepsCommits'
    BY <1>1, <1>2, <1>4, AbsentIsNoNumber DEF PruneKeepsCommits, Pruning
  <1> QED
    BY <1>5, <1>6, <1>7 DEF PruneInv

(* The first half of a prune: who is there, whether the worktree is dirty,  *)
(* how many commits stand on it.                                           *)
LEMMA ReadingKeeps ==
    ASSUME PruneInv, ListLive \/ ReadStatus \/ ReadCommits
    PROVE  PruneInv'
  <1>1. /\ PruneTyped /\ PruneReads /\ PruneKeepsCommits /\ Pruning
        /\ UNCHANGED <<scene, branch, pushed, tree, made, destroyed>>
    BY DEF PruneInv, Pruning, ListLive, ReadStatus, ReadCommits, Seen, git
  <1>2. tree \in WorkedTrees
    BY <1>1 DEF ListLive, ReadStatus, ReadCommits, Seen, PruneTyped, PruneReads
  <1>3. branch \in Nat
    BY <1>1 DEF ListLive, ReadStatus, ReadCommits, Seen, PruneTyped, PruneReads
  <1>4. prune' \in Prunes /\ (prune'.pushed => prune'.ahead <= branch)
    <2>1. CASE ListLive
      <3>1. PICK some \in BOOLEAN, inside \in SUBSET Starts :
              prune' = [NoPrune EXCEPT !.stage = "status", !.live = some, !.inside = inside]
        BY <2>1 DEF ListLive
      <3>2. prune' = [stage |-> "status", live |-> some, inside |-> inside, dirty |-> FALSE,
                      ahead |-> 0, pushed |-> FALSE]
        BY <3>1 DEF NoPrune
      <3> QED
        BY <3>2 DEF Prunes, PruneStages
    <2>2. CASE ReadStatus
      <3>1. PICK dirty \in BOOLEAN : prune' = [prune EXCEPT !.stage = "count", !.dirty = dirty]
        BY <1>2, <2>2 DEF ReadStatus, WorkedTrees
      <3>2. prune \in Prunes /\ (prune.pushed => prune.ahead <= branch)
        BY <1>1 DEF PruneTyped, PruneReads
      <3> QED
        BY <3>1, <3>2 DEF Prunes, PruneStages
    <2>3. CASE ReadCommits
      <3>1. PICK ahead \in Nat : ahead = IF tree.detached THEN branch + tree.loose ELSE branch
        BY <1>2, <1>3 DEF WorkedTrees
      <3>2. PICK level \in BOOLEAN : level = (~tree.detached /\ pushed = branch /\ pushed > 0)
        OBVIOUS
      <3>3. PICK p \in Prunes : p = prune
        BY <1>1 DEF PruneTyped
      <3>4. prune' = [p EXCEPT !.stage = "verdict", !.ahead = ahead, !.pushed = level]
        BY <2>3, <3>1, <3>2, <3>3 DEF ReadCommits
      <3>5. prune' \in Prunes /\ prune'.ahead = ahead /\ prune'.pushed = level
        BY <3>4 DEF Prunes, PruneStages
      <3>6. level => ahead <= branch
        <4>1. level => ~tree.detached
          BY <3>2, Zenon
        <4> QED
          BY <1>3, <3>1, <4>1
      <3> QED
        BY <3>5, <3>6
    <2> QED
      BY <2>1, <2>2, <2>3
  <1>5. PruneTyped'
    BY <1>1, <1>2, <1>4 DEF PruneTyped
  <1>6. PruneReads'
    BY <1>1, <1>2, <1>3, <1>4, AbsentIsNoNumber DEF PruneReads
  <1>7. PruneKeepsCommits'
    BY <1>1 DEF PruneKeepsCommits, Pruning
  <1> QED
    BY <1>5, <1>6, <1>7 DEF PruneInv

(* The second half.  A worktree that is removed held nothing its branch     *)
(* does not hold: no commit was counted on it, or a remote was level with   *)
(* its branch.  A branch that is removed is empty.                         *)
LEMMA RemovingKeeps ==
    ASSUME PruneInv, RemoveTree \/ RemoveBranch
    PROVE  PruneInv'
  <1>1. PruneTyped /\ PruneReads /\ PruneKeepsCommits /\ Pruning
    BY DEF PruneInv, Pruning, RemoveTree, RemoveBranch, Seen
  <1>2. NoPrune \in Prunes /\ NoPrune.stage = "idle" /\ ~NoPrune.pushed
    BY DEF NoPrune, Prunes, PruneStages
  <1>3. CASE RemoveTree
    <2>1. branch \in Nat /\ prune \in Prunes
      BY <1>1, <1>3 DEF RemoveTree, Seen, PruneTyped, PruneReads
    <2>2. CASE UNCHANGED <<tree, destroyed>> /\ prune' = NoPrune
      <3>1. UNCHANGED <<scene, branch, pushed, made>>
        BY <1>3 DEF RemoveTree
      <3> QED
        BY <1>1, <1>2, <2>1, <2>2, <3>1, AbsentIsNoNumber
        DEF PruneInv, PruneTyped, PruneReads, PruneKeepsCommits, Pruning
    <2>3. CASE ~(UNCHANGED <<tree, destroyed>> /\ prune' = NoPrune)
      <3>1. /\ ~Keep /\ tree' = Absent
            /\ destroyed' = destroyed \cup {<<"under", s>> : s \in {s \in prune.inside : live[s] # Absent}}
                            \cup (IF tree.detached /\ prune.ahead > branch THEN {<<"counted", "commits">>} ELSE {})
            /\ \E stage \in {"branch", "idle"} : prune' = [prune EXCEPT !.stage = stage]
            /\ UNCHANGED <<scene, branch, pushed, made>>
        BY <1>3, <2>3 DEF RemoveTree
      <3>2. ~(prune.ahead > branch)
        BY <1>1, <2>1, <3>1 DEF Keep, PruneReads, Prunes
      <3>3. <<"counted", "commits">> \notin destroyed'
        BY <1>1, <3>1, <3>2 DEF PruneKeepsCommits
      <3>4. /\ prune' \in Prunes /\ prune'.stage \in {"branch", "idle"}
            /\ prune'.pushed = prune.pushed /\ prune'.ahead = prune.ahead
        BY <2>1, <3>1 DEF Prunes, PruneStages
      <3>5. PruneTyped'
        BY <1>1, <3>1, <3>4 DEF PruneTyped
      <3>6. PruneReads'
        BY <1>1, <2>1, <3>1, <3>4, AbsentIsNoNumber DEF PruneReads
      <3>7. PruneKeepsCommits'
        BY <1>1, <3>1, <3>3 DEF PruneKeepsCommits, Pruning
      <3> QED
        BY <3>5, <3>6, <3>7 DEF PruneInv
    <2> QED
      BY <2>2, <2>3
  <1>4. CASE RemoveBranch
    <2>1. /\ branch' = IF branch = 0 /\ tree = Absent /\ scene.base = "merged" THEN Absent ELSE branch
          /\ prune' = NoPrune /\ UNCHANGED <<scene, pushed, tree, made, destroyed>>
      BY <1>4 DEF RemoveBranch, BranchDeleted
    <2>2. branch \in Nat
      BY <1>1, <1>4 DEF RemoveBranch, Seen, PruneTyped, PruneReads
    <2>3. PruneTyped'
      BY <1>1, <1>2, <2>1 DEF PruneTyped
    <2>4. PruneReads'
      BY <1>1, <1>2, <2>1, <2>2, AbsentIsNoNumber DEF PruneReads
    <2>5. PruneKeepsCommits'
      BY <1>1, <2>1, <2>2, AbsentIsNoNumber DEF PruneKeepsCommits, PruneTyped, Pruning
    <2> QED
      BY <2>3, <2>4, <2>5 DEF PruneInv
  <1> QED
    BY <1>3, <1>4

(* The starts, the checks and the canary belong to other scenes.            *)
LEMMA OtherScenesKeep ==
    ASSUME PruneInv, UNCHANGED scene, scene.about # "prune"
    PROVE  PruneInv'
  BY DEF PruneInv

LEMMA WorkspacesNextKeeps == PruneInv /\ [WorkspacesNext]_workspacesVars => PruneInv'
  <1> SUFFICES ASSUME PruneInv, [WorkspacesNext]_workspacesVars PROVE PruneInv'
    OBVIOUS
  <1>1. ASSUME NEW r \in Requests, Check(r) PROVE PruneInv'
    BY <1>1, OtherScenesKeep DEF Check
  <1>2. ASSUME NEW s \in Starts,
               \/ Admit(s) \/ Provision(s) \/ WriteProvenance(s) \/ Journal(s)
               \/ Launch(s) \/ DiscardTree(s) \/ DiscardBranch(s)
        PROVE  PruneInv'
    BY <1>2, OtherScenesKeep DEF Admit, Provision, WriteProvenance, Journal, Launch, DiscardTree,
       DiscardBranch, At
  <1>3. ASSUME NEW s \in Starts, Exit(s) \/ \E dir \in {"tree", "sub"} : Enter(s, dir)
        PROVE  PruneInv'
    BY <1>3, PruneRests DEF Enter, Exit, pruned, git
  <1>4. ASSUME NEW s \in Starts, Edit(s) \/ Commit(s) \/ Push(s) \/ Detach(s)
        PROVE  PruneInv'
    BY <1>4, WorkingKeeps
  <1>5. CASE ListLive \/ ReadStatus \/ ReadCommits
    BY <1>5, ReadingKeeps
  <1>6. CASE RemoveTree \/ RemoveBranch
    BY <1>6, RemovingKeeps
  <1>7. ASSUME NEW s \in Scouts, StartScout(s) \/ ScoutWrites(s) \/ ScoutEnds(s)
        PROVE  PruneInv'
    BY <1>7, PruneRests DEF StartScout, ScoutWrites, ScoutEnds, pruned, git
  <1>8. CASE ReadState \/ Captured
    BY <1>8, PruneRests DEF ReadState, Captured, pruned, git
  <1>9. CASE UNCHANGED workspacesVars
    BY <1>9, PruneRests DEF workspacesVars, pruned, git
  <1> QED
    BY <1>1, <1>2, <1>3, <1>4, <1>5, <1>6, <1>7, <1>8, <1>9 DEF WorkspacesNext

(* For any number of workers in the worktree, of commits and of prunes,     *)
(* however they interleave with what prune reads, the commits of the        *)
(* branch stay on it or on a remote, and none that was counted on a         *)
(* detached HEAD is lost.                                                   *)
THEOREM WorkspacesPruneKeepsCommits == WorkspacesSpec => []PruneKeepsCommits
  <1>1. PruneInv => PruneKeepsCommits
    BY DEF PruneInv, PruneKeepsCommits, Pruning
  <1> QED
    BY <1>1, PruneInvInit, WorkspacesNextKeeps, PTL DEF WorkspacesSpec

====
