----------------------- MODULE OrchestratorNoticesProofs -----------------------
(***************************************************************************)
(* An orchestrator is told of every settlement it is owed (SettledTold),   *)
(* for any workers, capacities and bounds of OrchestratorNotices.          *)
(*                                                                         *)
(* What is owed is in one of three places: the inbox has heard of it, the  *)
(* producer remembers the turn as a target, or an observation of it waits  *)
(* in the producer's chain.  A target that has been reached is never left  *)
(* to memory alone: an update that will settle it waits in the chain too.  *)
(* An instruction that names a turn reached before settles it itself, and  *)
(* every other target it finds reached, with the truth it read.            *)
(*                                                                         *)
(* What an attention wait counts as consumed was read (ConsumedWasRead):   *)
(* the second half.  A reply never rewinds the fleet client's snapshot     *)
(* (ReplyNeverRewinds): the last part.                                     *)
(***************************************************************************)
EXTENDS OrchestratorNotices, AttentionWait, FleetClient, FiniteSetTheorems, NaturalsInduction, SequenceTheorems,
        WellFoundedInduction, TLAPS

Turns == Nat \ {0}
Journal == [done : Nat, expected : SUBSET Turns, terminal : BOOLEAN, reports : Nat]

Updates == [op : {"update"}, w : Workers, done : Nat, terminal : BOOLEAN, catchUp : BOOLEAN]
Instructions == [op : {"instruction"}, w : Workers, target : Turns]
Events == [op : {"event"}, w : Workers, kind : {"intervention", "progress"}, id : Nat]
Operations == Updates \cup Instructions \cup Events

Types ==
    /\ worker \in [Workers -> Journal]
    /\ producer \in [tail : Seq(Operations), targets : [Workers -> SUBSET Turns],
                     ended : SUBSET Workers]
    /\ "keys" \in DOMAIN inbox

Heard(w, t) == SettledKey(w, t) \in inbox.keys

\* What an operation of the chain will do for worker w.
UpdateOf(op, w) == op.op = "update" /\ op.w = w
Settles(op, w, t) == UpdateOf(op, w) /\ (op.catchUp \/ op.done >= t)
EndSettles(op, w) == UpdateOf(op, w) /\ (op.catchUp \/ op.terminal)
Names(op, w, t) == op.op = "instruction" /\ op.w = w /\ op.target = t

Chain == producer.tail
Places == 1 .. Len(Chain)

Somewhere(w) ==
    \A t \in {1} \cup worker[w].expected :
        Heard(w, t) \/ t \in producer.targets[w] \/ \E i \in Places : Names(Chain[i], w, t)

Reachable(w) ==
    \A t \in producer.targets[w] :
        t <= worker[w].done => \E i \in Places : Settles(Chain[i], w, t)

Ending(w) ==
    /\ worker[w].terminal => Heard(w, 0) \/ \E i \in Places : EndSettles(Chain[i], w)
    /\ w \in producer.ended => Heard(w, 0)

Accounted(w) == Somewhere(w) /\ Reachable(w) /\ Ending(w)

Inv == Types /\ (loaded => \A w \in Workers : Accounted(w))

-----------------------------------------------------------------------------
(* Numbers and sequences.                                                  *)

LEMMA NatMinimum ==
    ASSUME NEW S, S \subseteq Nat, S # {}
    PROVE  Min(S) \in S /\ \A y \in S : Min(S) <= y
  <1> DEFINE R == OpToRel(<, Nat)
  <1>1. \A x, y \in Nat : <<y, x>> \in R <=> y < x
    BY DEF OpToRel
  <1>2. IsWellFoundedOn(R, Nat)
    BY NatLessThanWellFounded
  <1> HIDE DEF R
  <1>3. PICK x \in S : \A y \in S : ~(<<y, x>> \in R)
    BY <1>2, WFMin
  <1>4. ASSUME NEW y \in S PROVE x <= y
    <2>1. x \in Nat /\ y \in Nat
      OBVIOUS
    <2>2. ~(y < x)
      BY <1>1, <1>3, <2>1
    <2> QED BY <2>1, <2>2
  <1> QED BY <1>4 DEF Min

\* Every member of a finite set has a place in the sequence SetToSeq makes of it.
LEMMA SetToSeqListsAll ==
    ASSUME NEW S, IsFiniteSet(S)
    PROVE  /\ SetToSeq(S) \in Seq(S)
           /\ \A x \in S : \E i \in 1 .. Len(SetToSeq(S)) : SetToSeq(S)[i] = x
  <1> DEFINE n == Cardinality(S)
             f == SetToSeq(S)
  <1>1. n \in Nat /\ ExistsBijection(1..n, S)
    BY FS_CardinalityType
  <1>2. \E g \in [1..n -> S] : IsInjective(g)
    BY <1>1 DEF ExistsBijection, Bijection, Injection
  <1>3. f \in [1..n -> S] /\ IsInjective(f)
    BY <1>2 DEF SetToSeq
  <1> HIDE DEF f
  <1>4. f \in Injection(1..n, S)
    BY <1>3 DEF Injection
  <1>5. IsFiniteSet(1..n) /\ Cardinality(1..n) = n
    BY <1>1, FS_Interval
  <1>6. f \in Surjection(1..n, S)
    BY <1>4, <1>5, FS_Injection
  <1>7. f \in Seq(S) /\ Len(f) = n
    BY <1>1, <1>3
  <1>8. \A x \in S : \E i \in 1..n : f[i] = x
    BY <1>6 DEF Surjection
  <1> QED BY <1>7, <1>8 DEF f

LEMMA TailShifts ==
    ASSUME NEW S, NEW s \in Seq(S), Len(s) > 0
    PROVE  /\ Tail(s) \in Seq(S) /\ Head(s) = s[1] /\ s[1] \in S
           /\ Len(Tail(s)) = Len(s) - 1 /\ Len(s) \in Nat
           /\ \A i \in 1 .. Len(s) - 1 : Tail(s)[i] = s[i + 1]
  OBVIOUS

\* The sweep of start looks at every worker.
LEMMA SweepIsWhole ==
    LET sweep == SetToSeq({CatchUp(w) : w \in Workers})
    IN  /\ sweep \in Seq({CatchUp(w) : w \in Workers})
        /\ \A w \in Workers : \E i \in 1 .. Len(sweep) : sweep[i] = CatchUp(w)
  <1> DEFINE f == [w \in Workers |-> CatchUp(w)]
             S == {CatchUp(w) : w \in Workers}
  <1>1. f \in Surjection(Workers, S)
    BY DEF Surjection
  <1>2. IsFiniteSet(S)
    BY <1>1, FS_Surjection, NoticesAssumption
  <1>3. \A w \in Workers : CatchUp(w) \in S
    OBVIOUS
  <1> QED BY <1>2, <1>3, SetToSeqListsAll

\* A record that is appended keeps every key the inbox has heard of.
LEMMA AppendHears ==
    ASSUME "keys" \in DOMAIN inbox, NEW d
    PROVE  /\ "keys" \in DOMAIN Append1(inbox, d)
           /\ Append1(inbox, d).keys = inbox.keys \cup {d.key}
           /\ "keys" \in DOMAIN Dropped(inbox) /\ Dropped(inbox).keys = inbox.keys
  <1>1. "keys" \in DOMAIN Dropped(inbox) /\ Dropped(inbox).keys = inbox.keys
    BY DEF Dropped
  <1> DEFINE old == IF d.dedupe = "replace" THEN Replaced(inbox, d) ELSE {}
             room == IF old = {} THEN Dropped(inbox) ELSE [inbox EXCEPT !.recs = @ \ old]
  <1>2. "keys" \in DOMAIN room /\ room.keys = inbox.keys
    BY <1>1
  <1> HIDE DEF room
  <1>3. Append1(inbox, d) = [room EXCEPT !.recs = @ \cup {Record(room, d)},
                                        !.keys = @ \cup {d.key},
                                        !.head = @ + 1]
    BY DEF Append1, room
  <1> QED BY <1>1, <1>2, <1>3

-----------------------------------------------------------------------------
(* Steps that only the delivery and the orchestrator take.                 *)

\* Nothing is forgotten by a step that leaves the workers and the producer alone.
LEMMA HearingMoreKeepsInv ==
    ASSUME Inv, UNCHANGED <<worker, loaded, producer>>,
           "keys" \in DOMAIN inbox', inbox.keys \subseteq inbox'.keys
    PROVE  Inv'
  <1>1. Types'
    BY DEF Inv, Types
  <1>2. \A w, t : Heard(w, t) => Heard(w, t)'
    BY DEF Heard
  <1>3. ASSUME loaded, NEW w \in Workers PROVE Accounted(w)'
    <2>1. Accounted(w)
      BY <1>3 DEF Inv
    <2>2. Places' = Places /\ Chain' = Chain
      BY DEF Places, Chain
    <2>3. Somewhere(w)'
      BY <1>2, <2>1, <2>2 DEF Accounted, Somewhere
    <2>4. Reachable(w)'
      BY <2>1, <2>2 DEF Accounted, Reachable
    <2>6. Ending(w)'
      BY <1>2, <2>1, <2>2 DEF Accounted, Ending
    <2> QED BY <2>3, <2>4, <2>6 DEF Accounted
  <1> QED BY <1>1, <1>3 DEF Inv

-----------------------------------------------------------------------------
(* Observations.                                                           *)

\* An observation joins the chain: an update has seen the worker as it now is, and
\* anything else leaves the worker where it was.
LEMMA ObservedKeepsInv ==
    ASSUME Inv, NEW w \in Workers, NEW op \in Operations, op.w = w, Observed(op),
           UNCHANGED <<loaded, inbox>>, Types',
           \A v \in Workers : v # w => worker'[v] = worker[v],
           op.op = "update" => /\ op.done = worker'[w].done /\ op.terminal = worker'[w].terminal
                               /\ worker'[w].expected = worker[w].expected,
           op.op # "update" => /\ worker'[w].done = worker[w].done
                               /\ worker'[w].terminal = worker[w].terminal,
           op.op = "event" => worker'[w].expected = worker[w].expected,
           op.op = "instruction" => worker'[w].expected = worker[w].expected \cup {op.target}
    PROVE  Inv'
  <1> DEFINE n == Len(producer.tail)
  <1>1. /\ producer.tail \in Seq(Operations) /\ n \in Nat
        /\ producer'.tail = Append(producer.tail, op)
        /\ producer'.targets = producer.targets /\ producer'.ended = producer.ended
    BY DEF Inv, Types, Observed
  <1>2. /\ Places' = Places \cup {n + 1} /\ Places = 1..n
        /\ \A i \in Places : producer'.tail[i] = producer.tail[i] /\ i < n + 1
        /\ producer'.tail[n + 1] = op
    BY <1>1 DEF Places, Chain
  <1>3. \A v, t : Heard(v, t)' <=> Heard(v, t)
    BY DEF Heard
  <1>4. /\ Chain' = producer'.tail /\ Chain'[n + 1] = op /\ n + 1 \in Places'
        /\ \A i \in Places : Chain'[i] = Chain[i]
    BY <1>2 DEF Chain
  <1>5. /\ \A v : UpdateOf(op, v) <=> op.op = "update" /\ v = w
        /\ \A v, t : Names(op, v, t) <=> op.op = "instruction" /\ v = w /\ op.target = t
        /\ \A t : op.op = "update" /\ op.done >= t => Settles(op, w, t)
        /\ op.op = "update" /\ op.terminal => EndSettles(op, w)
    BY DEF Settles, Names, UpdateOf, EndSettles
  <1> HIDE DEF n
  <1>6. /\ op.op \in {"update", "instruction", "event"}
        /\ \A v \in Workers : worker[v].done \in Nat /\ worker'[v].done \in Nat
        /\ \A v \in Workers : producer.targets[v] \subseteq Turns
    BY DEF Operations, Updates, Instructions, Events, Inv, Types, Journal
  <1>7. ASSUME loaded, NEW v \in Workers PROVE Accounted(v)'
    <2>1. Somewhere(v) /\ Reachable(v) /\ Ending(v)
      BY <1>7 DEF Inv, Accounted
    <2>2. Somewhere(v)'
      <3> SUFFICES ASSUME NEW t \in {1} \cup worker'[v].expected,
                          ~(t \in {1} \cup worker[v].expected)
                   PROVE  \E i \in Places' : Names(Chain'[i], v, t)
        BY <1>1, <1>2, <1>3, <1>4, <2>1 DEF Somewhere
      <3>1. v = w /\ op.op = "instruction" /\ t = op.target
        BY <1>6
      <3>2. Names(op, v, t)
        BY <1>5, <3>1
      <3> QED BY <1>4, <3>2
    <2>3. Reachable(v)'
      <3> SUFFICES ASSUME NEW t \in producer.targets[v], t <= worker'[v].done
                   PROVE  \E i \in Places' : Settles(Chain'[i], v, t)
        BY <1>1 DEF Reachable
      <3>1. CASE v = w /\ op.op = "update"
        <4>1. op.done >= t
          BY <1>6, <3>1 DEF Turns
        <4> QED BY <1>2, <1>4, <1>5, <3>1, <4>1
      <3>2. CASE ~(v = w /\ op.op = "update")
        <4>1. t <= worker[v].done
          BY <3>2
        <4> QED BY <1>2, <1>4, <2>1, <4>1 DEF Reachable
      <3> QED BY <3>1, <3>2
    <2>5. Ending(v)'
      <3>1. v \in producer'.ended => Heard(v, 0)'
        BY <1>1, <1>3, <2>1 DEF Ending
      <3>2. ASSUME worker'[v].terminal PROVE Heard(v, 0)' \/ \E i \in Places' : EndSettles(Chain'[i], v)
        <4>1. CASE v = w /\ op.op = "update"
          BY <1>2, <1>4, <1>5, <3>2, <4>1
        <4>2. CASE ~(v = w /\ op.op = "update")
          <5>1. worker[v].terminal
            BY <3>2, <4>2
          <5> QED BY <1>2, <1>3, <1>4, <2>1, <5>1 DEF Ending
        <4> QED BY <4>1, <4>2
      <3> QED BY <3>1, <3>2 DEF Ending
    <2> QED BY <2>2, <2>3, <2>5 DEF Accounted
  <1> QED BY <1>7 DEF Inv

-----------------------------------------------------------------------------
(* The producer's operations.                                              *)

\* The head of the chain goes and every other place moves up.
LEMMA PopShifts ==
    ASSUME Types, Len(Chain) > 0, Chain' = Tail(Chain)
    PROVE  /\ 1 \in Places /\ Head(Chain) = Chain[1] /\ Chain[1] \in Operations
           /\ Places \subseteq Nat /\ Places' \subseteq Nat
           /\ \A i \in Places' : i + 1 \in Places /\ Chain'[i] = Chain[i + 1]
           /\ \A i \in Places : i # 1 => i - 1 \in Places' /\ Chain'[i - 1] = Chain[i]
  <1>1. Chain \in Seq(Operations)
    BY DEF Types, Chain
  <1>2. /\ Tail(Chain) \in Seq(Operations) /\ Head(Chain) = Chain[1] /\ Chain[1] \in Operations
        /\ Len(Tail(Chain)) = Len(Chain) - 1 /\ Len(Chain) \in Nat
        /\ \A i \in 1 .. Len(Chain) - 1 : Tail(Chain)[i] = Chain[i + 1]
    BY <1>1, TailShifts
  <1>3. Places = 1 .. Len(Chain) /\ Places' = 1 .. Len(Chain) - 1
    BY <1>2 DEF Places
  <1>4. ASSUME NEW i \in Places, i # 1 PROVE i - 1 \in Places' /\ Chain'[i - 1] = Chain[i]
    <2>1. i - 1 \in 1 .. Len(Chain) - 1 /\ (i - 1) + 1 = i
      BY <1>2, <1>3, <1>4
    <2> QED BY <1>2, <1>3, <2>1
  <1> QED BY <1>2, <1>3, <1>4

\* An operation may end when what it leaves unsettled is settled behind it.
LEMMA PoppedKeepsAccount ==
    ASSUME Types, Len(Chain) > 0, Chain' = Tail(Chain), NEW w \in Workers, Accounted(w),
           UNCHANGED worker,
           \A t : Heard(w, t) => Heard(w, t)',
           \A t \in producer.targets[w] : t \in producer'.targets[w] \/ Heard(w, t)',
           \A t : Names(Chain[1], w, t) => t \in producer'.targets[w] \/ Heard(w, t)',
           \A t \in producer'.targets[w] :
               t <= worker[w].done => \E i \in Places : i # 1 /\ Settles(Chain[i], w, t),
           worker[w].terminal =>
               Heard(w, 0)' \/ \E i \in Places : i # 1 /\ EndSettles(Chain[i], w),
           w \in producer'.ended => Heard(w, 0)'
    PROVE  Accounted(w)'
  <1>1. /\ 1 \in Places /\ Places \subseteq Nat /\ Places' \subseteq Nat
        /\ \A i \in Places' : i + 1 \in Places /\ Chain'[i] = Chain[i + 1]
        /\ \A i \in Places : i # 1 => i - 1 \in Places' /\ Chain'[i - 1] = Chain[i]
    BY PopShifts
  <1>2. Somewhere(w)'
    <2> SUFFICES ASSUME NEW t \in {1} \cup worker[w].expected
                 PROVE  \/ Heard(w, t)' \/ t \in producer'.targets[w]
                        \/ \E i \in Places' : Names(Chain'[i], w, t)
      BY DEF Somewhere
    <2>1. Heard(w, t) \/ t \in producer.targets[w] \/ \E i \in Places : Names(Chain[i], w, t)
      BY DEF Accounted, Somewhere
    <2> QED BY <1>1, <2>1
  <1>3. Reachable(w)'
    BY <1>1 DEF Reachable
  <1>5. Ending(w)'
    BY <1>1 DEF Ending
  <1> QED BY <1>2, <1>3, <1>5 DEF Accounted

\* What an operation writes next is an event, the least target reached, or the end.
LEMMA DueCases ==
    ASSUME Types, NEW op \in Operations, NEW d \in Due(op)
    PROVE  \/ op.op = "event" /\ d.kind # "settled" /\ d.key # SettledKey(op.w, 0)
           \/ /\ op.op # "event" /\ Reached(op) # {}
              /\ d = SettledDraft(op.w, Min(Reached(op)))
           \/ /\ op.op = "update" /\ Reached(op) = {} /\ TruthOf(op).terminal
              /\ d = SettledDraft(op.w, 0)
  <1>1. op.op \in {"update", "instruction", "event"}
    BY DEF Operations, Updates, Instructions, Events
  <1>2. CASE op.op = "event"
    <2>1. op.kind \in {"intervention", "progress"}
      BY <1>2 DEF Operations, Updates, Instructions, Events
    <2>2. d = [key |-> IF op.kind = "progress" THEN ProgressKey(op.w) ELSE EventKey(op.w, op.id),
               kind |-> op.kind,
               dedupe |-> IF op.kind = "progress" THEN "replace" ELSE "once"]
      BY <1>2 DEF Due
    <2>3. d.key # SettledKey(op.w, 0)
      BY <2>2 DEF ProgressKey, EventKey, SettledKey
    <2> QED BY <1>2, <2>1, <2>2, <2>3
  <1>3. CASE op.op # "event"
    BY <1>1, <1>3 DEF Due
  <1> QED BY <1>2, <1>3

\* What an operation may settle are the targets it knows of, as far as it has seen
\* the worker, and never beyond what the worker has done when it reads the worker.
LEMMA ReachedIs ==
    ASSUME Types, NEW op \in Operations, op.op # "event"
    PROVE  /\ Targets(op) \subseteq Turns /\ producer.targets[op.w] \subseteq Targets(op)
           /\ op.w \in Workers
           /\ Reached(op) \subseteq Targets(op)
           /\ Reached(op) # {} => Min(Reached(op)) \in Reached(op)
           /\ op.op = "update" => Targets(op) = producer.targets[op.w]
           /\ op.op = "instruction" => /\ Targets(op) = producer.targets[op.w] \cup {op.target}
                                       /\ Reached(op) = {t \in Targets(op) : t <= worker[op.w].done}
           /\ \A t \in Targets(op) :
                  t <= worker[op.w].done /\ Settles(op, op.w, t) => t \in Reached(op)
           /\ worker[op.w].terminal /\ EndSettles(op, op.w) => TruthOf(op).terminal
  <1>1. /\ op \in Updates \/ op \in Instructions
        /\ op.w \in Workers
        /\ op.op = "instruction" => op.target \in Turns
        /\ op.op = "update" <=> op \in Updates
        /\ op.op = "instruction" <=> op \in Instructions
    BY DEF Operations, Updates, Instructions, Events
  <1>2. producer.targets[op.w] \in SUBSET Turns /\ worker[op.w].done \in Nat
    BY <1>1 DEF Types, Journal
  <1>3. /\ Targets(op) \subseteq Turns /\ producer.targets[op.w] \subseteq Targets(op)
        /\ op.op = "update" => Targets(op) = producer.targets[op.w]
        /\ op.op = "instruction" => Targets(op) = producer.targets[op.w] \cup {op.target}
    BY <1>1, <1>2 DEF Targets
  <1>4. Reached(op) \subseteq Targets(op) /\ Reached(op) \subseteq Nat
    BY <1>3 DEF Reached, Turns
  <1>5. Reached(op) # {} => Min(Reached(op)) \in Reached(op)
    BY <1>4, NatMinimum
  <1>6. op.op = "instruction" => Reached(op) = {t \in Targets(op) : t <= worker[op.w].done}
    BY DEF Reached, TruthOf
  <1>7. ASSUME NEW t \in Targets(op), t <= worker[op.w].done, Settles(op, op.w, t)
        PROVE  t \in Reached(op)
    <2>1. op \in Updates /\ t \in Nat
      BY <1>1, <1>3, <1>7 DEF Settles, UpdateOf, Turns
    <2>2. t <= TruthOf(op).done
      BY <1>7, <2>1 DEF Settles, TruthOf, Updates
    <2> QED BY <2>2 DEF Reached
  <1>8. worker[op.w].terminal /\ EndSettles(op, op.w) => TruthOf(op).terminal
    BY DEF EndSettles, UpdateOf, TruthOf
  <1> QED BY <1>1, <1>3, <1>4, <1>5, <1>6, <1>7, <1>8

LEMMA TargetsType ==
    ASSUME Types, NEW op \in Operations
    PROVE  op.w \in Workers /\ Targets(op) \subseteq Turns
  <1>1. op.w \in Workers /\ (op.op = "instruction" => op.target \in Turns)
    BY DEF Operations, Updates, Instructions, Events
  <1>2. producer.targets[op.w] \in SUBSET Turns
    BY <1>1 DEF Types
  <1> QED BY <1>1, <1>2 DEF Targets

LEMMA OperationEndsKeepsInv == Inv /\ OperationEnds => Inv'
  <1> SUFFICES ASSUME Inv, OperationEnds PROVE Inv'
    OBVIOUS
  <1> DEFINE op == Chain[1]
  <1>1. Types /\ Len(Chain) > 0 /\ Head(Chain) = op /\ op \in Operations
    <2>1. Chain \in Seq(Operations) /\ Len(Chain) > 0
      BY DEF Inv, Types, Chain, OperationEnds
    <2> QED BY <2>1, TailShifts DEF Inv
  <1> HIDE DEF op
  <1>2. /\ ~loaded \/ Due(op) = {}
        /\ producer' = [producer EXCEPT !.targets[op.w] = Targets(op), !.tail = Tail(Chain)]
        /\ worker' = worker /\ inbox' = inbox /\ loaded' = loaded
    BY <1>1 DEF OperationEnds, Chain
  <1>3. op.w \in Workers /\ Targets(op) \subseteq Turns
    BY <1>1, TargetsType
  <1>4. /\ Tail(Chain) \in Seq(Operations) /\ Chain' = Tail(Chain)
        /\ producer'.ended = producer.ended
        /\ producer'.targets = [producer.targets EXCEPT ![op.w] = Targets(op)]
    <2>1. Chain \in Seq(Operations)
      BY <1>1 DEF Types, Chain
    <2>2. Tail(Chain) \in Seq(Operations)
      BY <1>1, <2>1, TailShifts
    <2> QED BY <1>1, <1>2, <2>2 DEF Types, Chain
  <1>5. Types'
    <2>1. producer'.targets \in [Workers -> SUBSET Turns]
      BY <1>1, <1>3, <1>4 DEF Types
    <2>2. producer' \in [tail : Seq(Operations), targets : [Workers -> SUBSET Turns],
                         ended : SUBSET Workers]
      BY <1>1, <1>2, <1>4, <2>1 DEF Types
    <2> QED BY <1>1, <1>2, <2>2 DEF Types
  <1>6. ASSUME loaded, NEW w \in Workers PROVE Accounted(w)'
    <2>1. Accounted(w) /\ Due(op) = {}
      BY <1>2, <1>6 DEF Inv
    <2>2. \A t : Heard(w, t)' <=> Heard(w, t)
      BY <1>2 DEF Heard
    <2>3. op.op # "event" /\ Reached(op) = {}
      BY <2>1 DEF Due
    <2>4. op.op = "update" /\ TruthOf(op).terminal => op.w \in producer.ended
      BY <2>1, <2>3 DEF Due
    <2>5. /\ producer.targets[op.w] \subseteq Targets(op)
          /\ op.op = "update" => Targets(op) = producer.targets[op.w]
          /\ op.op = "instruction" => /\ Targets(op) = producer.targets[op.w] \cup {op.target}
                                      /\ Reached(op) = {t \in Targets(op) : t <= worker[op.w].done}
          /\ \A t \in Targets(op) :
                 t <= worker[op.w].done /\ Settles(op, op.w, t) => t \in Reached(op)
          /\ worker[op.w].terminal /\ EndSettles(op, op.w) => TruthOf(op).terminal
          /\ op.op \in {"update", "instruction"}
      BY <1>1, <2>3, ReachedIs DEF Operations, Updates, Instructions, Events
    <2>6. producer.targets[w] \subseteq producer'.targets[w]
      BY <1>1, <1>4, <2>5 DEF Types
    <2>7. \A t : Names(op, w, t) => t \in producer'.targets[w]
      BY <1>1, <1>3, <1>4, <2>5 DEF Types, Names
    <2>8. ASSUME NEW t \in producer'.targets[w], t <= worker[w].done
          PROVE  \E i \in Places : i # 1 /\ Settles(Chain[i], w, t)
      <3>1. t \in producer.targets[w] /\ ~Settles(op, w, t)
        <4>1. CASE w # op.w
          BY <1>1, <1>3, <1>4, <2>8, <4>1 DEF Types, Settles, UpdateOf
        <4>2. CASE w = op.w
          <5>1. t \in Targets(op)
            BY <1>1, <1>3, <1>4, <2>8, <4>2 DEF Types
          <5>2. op.op = "update"
            BY <2>3, <2>5, <2>8, <4>2, <5>1
          <5> QED BY <2>3, <2>5, <2>8, <4>2, <5>1, <5>2
        <4> QED BY <4>1, <4>2
      <3>2. \E i \in Places : Settles(Chain[i], w, t)
        BY <2>1, <2>8, <3>1 DEF Accounted, Reachable
      <3> QED BY <3>1, <3>2 DEF op
    <2>9. ASSUME worker[w].terminal
          PROVE  Heard(w, 0)' \/ \E i \in Places : i # 1 /\ EndSettles(Chain[i], w)
      <3>1. Heard(w, 0) \/ \E i \in Places : EndSettles(Chain[i], w)
        BY <2>1, <2>9 DEF Accounted, Ending
      <3>2. EndSettles(op, w) => Heard(w, 0)
        <4>1. EndSettles(op, w) => w = op.w /\ op.op = "update"
          BY DEF EndSettles, UpdateOf
        <4> QED BY <2>1, <2>4, <2>5, <2>9, <4>1 DEF Accounted, Ending
      <3> QED BY <2>2, <3>1, <3>2 DEF op
    <2>10. w \in producer'.ended => Heard(w, 0)'
      BY <1>4, <2>1, <2>2 DEF Accounted, Ending
    <2>11. \A t : Names(Chain[1], w, t) => t \in producer'.targets[w] \/ Heard(w, t)'
      BY <2>7 DEF op
    <2> QED BY <1>1, <1>2, <1>4, <2>1, <2>2, <2>6, <2>8, <2>9, <2>10, <2>11, PoppedKeepsAccount
  <1> QED BY <1>2, <1>5, <1>6 DEF Inv

\* A settlement that an update owes is written and the update goes on.
LEMMA SettledKeepsAccount ==
    ASSUME Types, Chain' = Chain, NEW w \in Workers, Accounted(w), UNCHANGED worker,
           \A t : Heard(w, t) => Heard(w, t)',
           \A t \in producer.targets[w] : t \in producer'.targets[w] \/ Heard(w, t)',
           producer'.targets[w] \subseteq producer.targets[w],
           w \in producer'.ended => Heard(w, 0)'
    PROVE  Accounted(w)'
  <1>1. Places' = Places
    BY DEF Places
  <1>2. Somewhere(w)'
    BY <1>1 DEF Accounted, Somewhere
  <1>3. Reachable(w)'
    BY <1>1 DEF Accounted, Reachable
  <1>5. Ending(w)'
    BY <1>1 DEF Accounted, Ending
  <1> QED BY <1>2, <1>3, <1>5 DEF Accounted

\* An instruction that wrote a target goes on with the truth it has read, which
\* settles every target reached.
LEMMA SettlingKeepsAccount ==
    ASSUME Types, NEW w \in Workers, NEW v \in Workers, Accounted(w), UNCHANGED worker,
           1 \in Places, Chain[1].op = "instruction",
           Chain' = [Chain EXCEPT ![1] = Settling(v)],
           \A t : Heard(w, t) => Heard(w, t)',
           \A t \in producer.targets[w] : t \in producer'.targets[w] \/ Heard(w, t)',
           \A t : Names(Chain[1], w, t) => t \in producer'.targets[w] \/ Heard(w, t)',
           v # w => producer'.targets[w] = producer.targets[w],
           producer'.targets[w] \subseteq Turns,
           w \in producer'.ended => Heard(w, 0)'
    PROVE  Accounted(w)'
  <1>1. /\ Chain \in Seq(Operations) /\ Places' = Places /\ Places \subseteq Nat
        /\ Chain'[1] = Settling(v) /\ \A i \in Places : i # 1 => Chain'[i] = Chain[i]
    BY DEF Types, Chain, Places
  <1>2. /\ \A t : ~Settles(Chain[1], w, t) /\ ~Names(Settling(v), w, t)
        /\ ~EndSettles(Chain[1], w)
    BY DEF Settles, EndSettles, UpdateOf, Names, Settling
  <1>3. Somewhere(w)'
    BY <1>1 DEF Accounted, Somewhere
  <1>4. Reachable(w)'
    <2> SUFFICES ASSUME NEW t \in producer'.targets[w], t <= worker[w].done
                 PROVE  \E i \in Places : Settles(Chain'[i], w, t)
      BY <1>1 DEF Reachable
    <2>1. CASE v = w
      <3>1. worker[w].done \in Nat /\ t \in Nat
        BY DEF Types, Journal, Turns
      <3>2. Settles(Settling(v), w, t)
        BY <2>1, <3>1 DEF Settles, UpdateOf, Settling
      <3> QED BY <1>1, <3>2
    <2>2. CASE v # w
      <3>1. PICK i \in Places : Settles(Chain[i], w, t)
        BY <2>2 DEF Accounted, Reachable
      <3> QED BY <1>1, <1>2, <3>1
    <2> QED BY <2>1, <2>2
  <1>6. Ending(w)'
    BY <1>1, <1>2 DEF Accounted, Ending
  <1> QED BY <1>3, <1>4, <1>6 DEF Accounted

LEMMA ProduceKeepsInv == Inv /\ Produce => Inv'
  <1> SUFFICES ASSUME Inv, Produce PROVE Inv'
    OBVIOUS
  <1>0. PICK op : op = Chain[1]
    OBVIOUS
  <1>1. Types /\ Len(Chain) > 0 /\ Head(Chain) = op /\ op \in Operations /\ Chain \in Seq(Operations)
    <2>1. Chain \in Seq(Operations) /\ Len(Chain) > 0
      BY DEF Inv, Types, Chain, Produce
    <2> QED BY <1>0, <2>1, TailShifts DEF Inv
  <1>2. PICK d \in Due(op) :
            /\ producer' = Settled(op, d)
            /\ IF Duplicate(inbox, d)
               THEN UNCHANGED <<inbox, delivery, appended>>
               ELSE inbox' = Append1(inbox, d) /\ delivery' = Announce /\ appended' = Told(d)
    BY <1>1 DEF Produce, Chain
  <1>3. worker' = worker /\ loaded' = loaded /\ loaded
    BY DEF Produce
  <1>4. "keys" \in DOMAIN inbox' /\ inbox.keys \subseteq inbox'.keys /\ d.key \in inbox'.keys
    <2>1. CASE Duplicate(inbox, d)
      BY <1>1, <1>2, <2>1 DEF Duplicate, Known, Types
    <2>2. CASE ~Duplicate(inbox, d)
      BY <1>1, <1>2, <2>2, AppendHears DEF Types
    <2> QED BY <2>1, <2>2
  <1>5. \A w, t : /\ Heard(w, t) => Heard(w, t)'
                  /\ d.key = SettledKey(w, t) => Heard(w, t)'
    BY <1>4 DEF Heard
  <1>6. op.w \in Workers /\ Targets(op) \subseteq Turns
    BY <1>1, TargetsType
  <1>7. /\ producer'.targets = [producer.targets EXCEPT ![op.w] =
                                    IF d.kind = "settled" THEN Targets(op) \ {d.key[3]} ELSE @]
        /\ producer'.ended = IF d.key = SettledKey(op.w, 0) THEN producer.ended \cup {op.w}
                             ELSE producer.ended
        /\ Chain' = IF op.op = "event" THEN Tail(Chain)
                    ELSE IF op.op = "instruction" THEN [Chain EXCEPT ![1] = Settling(op.w)]
                    ELSE Chain
    BY <1>1, <1>2 DEF Settled, Types, Chain
  <1>8. Types'
    <2>1. producer'.targets \in [Workers -> SUBSET Turns]
      BY <1>1, <1>6, <1>7 DEF Types
    <2>2. Chain' \in Seq(Operations)
      <3>1. Tail(Chain) \in Seq(Operations)
        BY <1>1, TailShifts
      <3>2. Settling(op.w) \in Operations
        BY <1>1, <1>6 DEF Types, Settling, Journal, Operations, Updates
      <3>3. [Chain EXCEPT ![1] = Settling(op.w)] \in Seq(Operations)
        BY <1>1, <3>2
      <3> QED BY <1>1, <1>7, <3>1, <3>3
    <2>3. producer'.ended \in SUBSET Workers
      BY <1>1, <1>6, <1>7 DEF Types
    <2>4. producer' \in [tail : Seq(Operations), targets : [Workers -> SUBSET Turns],
                         ended : SUBSET Workers]
      <3>1. DOMAIN producer' = {"tail", "targets", "ended"} /\ producer' = [f \in DOMAIN producer' |-> producer'[f]]
        BY <1>1, <1>2 DEF Settled, Types
      <3> QED BY <2>1, <2>2, <2>3, <3>1 DEF Chain
    <2> QED BY <1>1, <1>3, <1>4, <2>4 DEF Types
  <1>9. ASSUME NEW w \in Workers PROVE Accounted(w)'
    <2>1. Accounted(w)
      BY <1>3 DEF Inv
    <2>2. \/ op.op = "event" /\ d.kind # "settled" /\ d.key # SettledKey(op.w, 0)
          \/ op.op # "event" /\ Reached(op) # {} /\ d = SettledDraft(op.w, Min(Reached(op)))
          \/ op.op = "update" /\ Reached(op) = {} /\ d = SettledDraft(op.w, 0)
      BY <1>1, DueCases
    <2>3. w \in producer'.ended => Heard(w, 0)'
      BY <1>5, <1>7, <2>1 DEF Accounted, Ending
    <2>4. w # op.w => producer'.targets[w] = producer.targets[w]
      BY <1>1, <1>7 DEF Types
    <2>5. producer.targets[op.w] \in SUBSET Turns
      BY <1>1, <1>6 DEF Types
    <2>6. CASE op.op = "event"
      <3>1. d.kind # "settled" /\ Chain' = Tail(Chain) /\ producer'.targets[w] = producer.targets[w]
        BY <1>1, <1>7, <2>2, <2>4, <2>6 DEF Types
      <3>2. \A t : ~Settles(op, w, t) /\ ~EndSettles(op, w) /\ ~Names(op, w, t)
        BY <2>6 DEF Settles, EndSettles, Names, UpdateOf
      <3>3. \A t \in producer.targets[w] :
                t <= worker[w].done => \E i \in Places : i # 1 /\ Settles(Chain[i], w, t)
        BY <1>0, <2>1, <3>2 DEF Accounted, Reachable
      <3>4. worker[w].terminal =>
                Heard(w, 0)' \/ \E i \in Places : i # 1 /\ EndSettles(Chain[i], w)
        BY <1>0, <1>5, <2>1, <3>2 DEF Accounted, Ending
      <3>5. \A t : ~Names(Chain[1], w, t)
        BY <1>0, <3>2
      <3> QED BY <1>1, <1>3, <1>5, <2>1, <2>3, <3>1, <3>3, <3>4, <3>5, PoppedKeepsAccount
    <2>7. CASE op.op = "update"
      <3>1. d.kind = "settled" /\ Chain' = Chain
        BY <1>7, <2>2, <2>7 DEF SettledDraft
      <3>2. Targets(op) = producer.targets[op.w]
        BY <1>1, <2>7, ReachedIs
      <3>3. producer'.targets[op.w] = producer.targets[op.w] \ {d.key[3]}
        BY <1>1, <1>6, <1>7, <3>1, <3>2 DEF Types
      <3>4. d.key = SettledKey(op.w, d.key[3])
        BY <2>2, <2>7 DEF SettledDraft, SettledKey
      <3>5. /\ producer'.targets[w] \subseteq producer.targets[w]
            /\ \A t \in producer.targets[w] : t \in producer'.targets[w] \/ Heard(w, t)'
        BY <1>5, <2>4, <3>3, <3>4
      <3> QED BY <1>1, <1>3, <1>5, <2>1, <2>3, <3>1, <3>5, SettledKeepsAccount
    <2>8. CASE op.op = "instruction"
      <3>0. PICK m : m = Min(Reached(op))
        OBVIOUS
      <3>1. /\ Targets(op) = producer.targets[op.w] \cup {op.target}
            /\ Reached(op) = {t \in Targets(op) : t <= worker[op.w].done}
            /\ Reached(op) # {} /\ m \in Reached(op) /\ d = SettledDraft(op.w, m)
        BY <1>1, <2>2, <2>8, <3>0, ReachedIs
      <3>2. d.kind = "settled" /\ d.key[3] = m /\ d.key = SettledKey(op.w, m)
        BY <3>1 DEF SettledDraft, SettledKey
      <3>3. /\ Heard(op.w, m)' /\ producer'.targets[op.w] = Targets(op) \ {m}
            /\ Chain' = [Chain EXCEPT ![1] = Settling(op.w)]
        BY <1>1, <1>5, <1>6, <1>7, <2>8, <3>2 DEF Types
      <3>4. \A t : Names(op, w, t) <=> w = op.w /\ t = op.target
        BY <2>8 DEF Names
      <3>5. /\ \A t \in producer.targets[w] : t \in producer'.targets[w] \/ Heard(w, t)'
            /\ \A t : Names(Chain[1], w, t) => t \in producer'.targets[w] \/ Heard(w, t)'
        BY <1>0, <2>4, <3>1, <3>3, <3>4
      <3>6. w # op.w => producer'.targets[w] = producer.targets[w]
        BY <2>4
      <3>7. Chain[1] = op /\ 1 \in Places
        BY <1>0, <1>1, TailShifts DEF Places
      <3>8. producer'.targets[w] \subseteq Turns /\ op.w \in Workers /\ Chain[1].op = "instruction"
        BY <1>6, <1>8, <2>8, <3>7 DEF Types
      <3>9. Types /\ UNCHANGED worker /\ \A t : Heard(w, t) => Heard(w, t)'
        BY <1>1, <1>3, <1>5
      <3> QED BY <2>1, <2>3, <3>3, <3>5, <3>6, <3>7, <3>8, <3>9, SettlingKeepsAccount
    <2> QED BY <1>1, <2>6, <2>7, <2>8 DEF Operations, Updates, Instructions, Events
  <1> QED BY <1>8, <1>9 DEF Inv

\* A write that fails leaves an inbox nobody reads; only types are at stake.
LEMMA WriteFailsKeepsInv == Inv /\ WriteFails => Inv'
  <1> SUFFICES ASSUME Inv, WriteFails PROVE Inv'
    OBVIOUS
  <1> DEFINE op == Head(producer.tail)
  <1>1. /\ Types /\ op \in Operations /\ Tail(producer.tail) \in Seq(Operations)
    <2>1. producer.tail \in Seq(Operations) /\ Len(producer.tail) > 0
      BY DEF Inv, Types, WriteFails
    <2> QED BY <2>1, TailShifts DEF Inv
  <1>2. PICK d \in Due(op) :
            /\ \/ inbox' = inbox /\ appended' = appended
               \/ inbox' = Dropped(inbox) /\ appended' = appended
               \/ inbox' = Append1(inbox, d) /\ appended' = Told(d)
            /\ producer' = [producer EXCEPT !.targets[op.w] = Targets(op), !.tail = Tail(@)]
    BY DEF WriteFails
  <1>3. op.w \in Workers /\ Targets(op) \subseteq Turns
    BY <1>1, TargetsType
  <1> HIDE DEF op
  <1>4. producer' \in [tail : Seq(Operations), targets : [Workers -> SUBSET Turns],
                       ended : SUBSET Workers]
    <2>1. producer' = [tail |-> Tail(producer.tail),
                       targets |-> [producer.targets EXCEPT ![op.w] = Targets(op)],
                       ended |-> producer.ended]
      BY <1>1, <1>2 DEF Types
    <2>2. [producer.targets EXCEPT ![op.w] = Targets(op)] \in [Workers -> SUBSET Turns]
      BY <1>1, <1>3 DEF Types
    <2> QED BY <1>1, <2>1, <2>2 DEF Types
  <1>5. "keys" \in DOMAIN inbox'
    BY <1>1, <1>2, AppendHears DEF Types
  <1> QED BY <1>1, <1>4, <1>5 DEF WriteFails, Inv, Types

-----------------------------------------------------------------------------
(* What workers do, and the sweep of start.                                *)

LEMMA JournalEdits ==
    ASSUME NEW q \in Journal
    PROVE  /\ [q EXCEPT !.done = @ + 1] \in Journal
           /\ [q EXCEPT !.done = @ + 1].expected = q.expected
           /\ [q EXCEPT !.terminal = TRUE] \in Journal
           /\ [q EXCEPT !.terminal = TRUE].expected = q.expected
           /\ [q EXCEPT !.reports = @ + 1] \in Journal
           /\ [q EXCEPT !.reports = @ + 1].expected = q.expected
           /\ [q EXCEPT !.reports = @ + 1].done = q.done
           /\ [q EXCEPT !.reports = @ + 1].terminal = q.terminal
  <1>1. q.done + 1 \in Nat /\ q.reports + 1 \in Nat
    BY DEF Journal
  <1> QED BY <1>1 DEF Journal

\* One worker's journals change.
LEMMA JournalChanges ==
    ASSUME worker \in [Workers -> Journal], NEW w \in Workers, NEW r \in Journal,
           worker' = [worker EXCEPT ![w] = r]
    PROVE  /\ worker' \in [Workers -> Journal] /\ worker'[w] = r
           /\ \A v \in Workers : v # w => worker'[v] = worker[v]
  OBVIOUS

LEMMA WorkerMovesKeepInv ==
    ASSUME Inv, NEW w \in Workers,
           \/ TurnEnds(w) \/ WorkerEnds(w)
           \/ \E t \in 1..MaxTurns : ExpectTurn(w, t)
           \/ \E kind \in {"intervention", "progress"} : Report(w, kind)
    PROVE  Inv'
  <1> USE NoticesAssumption
  <1>1. /\ Types /\ producer.tail \in Seq(Operations)
        /\ worker \in [Workers -> Journal] /\ worker[w] \in Journal
    BY DEF Inv, Types
  <1>2. ASSUME NEW op \in Operations, Observed(op), inbox' = inbox,
               worker' \in [Workers -> Journal]
        PROVE  Types'
    <2>1. Append(producer.tail, op) \in Seq(Operations)
      BY <1>1
    <2> QED BY <1>1, <1>2, <2>1 DEF Types, Observed
  <1>3. CASE TurnEnds(w) \/ WorkerEnds(w)
    <2>1. /\ \/ worker' = [worker EXCEPT ![w].done = @ + 1]
             \/ worker' = [worker EXCEPT ![w].terminal = TRUE]
          /\ Observed(Truth(w)) /\ inbox' = inbox /\ loaded' = loaded
      BY <1>3 DEF TurnEnds, WorkerEnds, outside
    <2>2. /\ worker' \in [Workers -> Journal]
          /\ \A v \in Workers : v # w => worker'[v] = worker[v]
          /\ worker'[w].expected = worker[w].expected /\ worker'[w] \in Journal
      <3>1. PICK r : /\ r \in {[worker[w] EXCEPT !.done = @ + 1], [worker[w] EXCEPT !.terminal = TRUE]}
                     /\ worker' = [worker EXCEPT ![w] = r]
        BY <2>1
      <3>2. r \in Journal /\ r.expected = worker[w].expected
        BY <1>1, <3>1, JournalEdits
      <3> QED BY <1>1, <3>1, <3>2, JournalChanges
    <2>3. PICK op : op = Truth(w)
      OBVIOUS
    <2>4. /\ op \in Operations /\ op.w = w /\ op.op = "update"
          /\ op.done = worker'[w].done /\ op.terminal = worker'[w].terminal
      BY <2>2, <2>3 DEF Truth, Operations, Updates, Journal
    <2>5. Observed(op) /\ Types'
      BY <1>2, <2>1, <2>2, <2>3, <2>4
    <2> QED BY <2>1, <2>2, <2>4, <2>5, ObservedKeepsInv
  <1>4. CASE \E t \in 1..MaxTurns : ExpectTurn(w, t)
    <2>1. PICK t \in 1..MaxTurns : ExpectTurn(w, t)
      BY <1>4
    <2> DEFINE op == [op |-> "instruction", w |-> w, target |-> t]
    <2>2. /\ worker' = [worker EXCEPT ![w].expected = @ \cup {t}]
          /\ Observed(op) /\ inbox' = inbox /\ loaded' = loaded
      BY <2>1 DEF ExpectTurn, outside
    <2>3. t \in Turns /\ op \in Operations /\ op.w = w /\ op.op = "instruction" /\ op.target = t
      BY DEF Turns, Operations, Instructions
    <2> HIDE DEF op
    <2>4. /\ worker' \in [Workers -> Journal]
          /\ \A v \in Workers : v # w => worker'[v] = worker[v]
          /\ worker'[w].expected = worker[w].expected \cup {t}
          /\ worker'[w].done = worker[w].done /\ worker'[w].terminal = worker[w].terminal
      <3>1. PICK r : r = [worker[w] EXCEPT !.expected = @ \cup {t}]
        OBVIOUS
      <3>2. /\ r \in Journal /\ r.expected = worker[w].expected \cup {t}
            /\ r.done = worker[w].done /\ r.terminal = worker[w].terminal
        BY <1>1, <2>3, <3>1 DEF Journal
      <3>3. worker' = [worker EXCEPT ![w] = r]
        BY <2>2, <3>1
      <3> QED BY <1>1, <3>2, <3>3, JournalChanges
    <2>5. Types'
      BY <1>2, <2>2, <2>3, <2>4
    <2> QED BY <2>2, <2>3, <2>4, <2>5, ObservedKeepsInv
  <1>5. CASE \E kind \in {"intervention", "progress"} : Report(w, kind)
    <2>1. PICK kind \in {"intervention", "progress"} : Report(w, kind)
      BY <1>5
    <2>2. PICK op : op = [op |-> "event", w |-> w, kind |-> kind, id |-> worker[w].reports + 1]
      OBVIOUS
    <2>3. /\ worker' = [worker EXCEPT ![w].reports = @ + 1]
          /\ Observed(op) /\ inbox' = inbox /\ loaded' = loaded
      BY <2>1, <2>2 DEF Report, outside
    <2>4. op \in Operations /\ op.w = w /\ op.op = "event"
      BY <1>1, <2>2 DEF Operations, Events, Journal
    <2>5. /\ worker' \in [Workers -> Journal]
          /\ \A v \in Workers : v # w => worker'[v] = worker[v]
          /\ worker'[w].expected = worker[w].expected
          /\ worker'[w].done = worker[w].done /\ worker'[w].terminal = worker[w].terminal
      <3>1. PICK r : r = [worker[w] EXCEPT !.reports = @ + 1]
        OBVIOUS
      <3>2. /\ r \in Journal /\ r.expected = worker[w].expected
            /\ r.done = worker[w].done /\ r.terminal = worker[w].terminal
        BY <1>1, <3>1, JournalEdits
      <3>3. worker' = [worker EXCEPT ![w] = r]
        BY <2>3, <3>1
      <3> QED BY <1>1, <3>2, <3>3, JournalChanges
    <2>6. Types'
      BY <1>2, <2>3, <2>4, <2>5
    <2> QED BY <2>3, <2>4, <2>5, <2>6, ObservedKeepsInv
  <1> QED BY <1>3, <1>4, <1>5

\* The producer as start leaves it: a sweep of every worker in the chain, and the
\* turns the journals expect as targets.
Swept ==
    /\ Chain = SetToSeq({CatchUp(w) : w \in Workers})
    /\ producer.targets = [w \in Workers |-> {1} \cup worker[w].expected]
    /\ producer.ended = {}

LEMMA SweptIsAccounted == Types /\ Swept => \A w \in Workers : Accounted(w)
  <1> SUFFICES ASSUME Types, Swept, NEW w \in Workers PROVE Accounted(w)
    OBVIOUS
  <1>1. PICK k \in Places : Chain[k] = CatchUp(w)
    BY SweepIsWhole DEF Swept, Places
  <1>2. \A i \in Places : Chain[i] \in {CatchUp(v) : v \in Workers}
    <2> DEFINE S == {CatchUp(v) : v \in Workers}
    <2>1. Chain \in Seq(S)
      BY SweepIsWhole DEF Swept
    <2> HIDE DEF S
    <2>2. \A i \in Places : Chain[i] \in S
      BY <2>1 DEF Places
    <2> QED BY <2>2 DEF S
  <1>3. /\ \A t : Settles(CatchUp(w), w, t) /\ EndSettles(CatchUp(w), w)
        /\ \A v, t : ~Names(CatchUp(v), w, t)
    BY DEF Settles, EndSettles, Names, UpdateOf, CatchUp
  <1>4. Somewhere(w)
    BY DEF Somewhere, Swept
  <1>5. Reachable(w) /\ Ending(w)
    BY <1>1, <1>3 DEF Reachable, Ending, Swept
  <1> QED BY <1>4, <1>5 DEF Accounted

LEMMA SweptIsAccountedNext == (Types /\ Swept => \A w \in Workers : Accounted(w))'
  BY SweptIsAccounted, PTL

LEMMA SweepIsTyped == SetToSeq({CatchUp(w) : w \in Workers}) \in Seq(Operations)
  <1>1. \A w \in Workers : CatchUp(w) \in Operations
    BY DEF CatchUp, Operations, Updates
  <1>2. {CatchUp(w) : w \in Workers} \subseteq Operations
    BY <1>1
  <1>3. SetToSeq({CatchUp(w) : w \in Workers}) \in Seq({CatchUp(w) : w \in Workers})
    BY SweepIsWhole
  <1> HIDE DEF CatchUp
  <1> QED BY <1>2, <1>3

LEMMA InitInv == Init => Inv
  <1> SUFFICES ASSUME Init PROVE Inv
    OBVIOUS
  <1>1. /\ worker \in [Workers -> [done : 0..1, expected : {{}}, terminal : {FALSE}, reports : {0}]]
        /\ producer = [tail |-> SetToSeq({CatchUp(w) : w \in Workers}),
                       targets |-> [w \in Workers |-> {1}], ended |-> {}]
        /\ "keys" \in DOMAIN inbox
    BY DEF Init
  <1>2. Types
    <2>1. worker \in [Workers -> Journal]
      <3>1. [done : 0..1, expected : {{}}, terminal : {FALSE}, reports : {0}] \subseteq Journal
        <4>1. 0..1 \subseteq Nat /\ {{}} \subseteq SUBSET Turns /\ {FALSE} \subseteq BOOLEAN
              /\ {0} \subseteq Nat
          OBVIOUS
        <4> QED BY ONLY <4>1, Zenon DEF Journal
      <3> QED BY <1>1, <3>1
    <2>2. [w \in Workers |-> {1}] \in [Workers -> SUBSET Turns]
      BY DEF Turns
    <2> QED BY <1>1, <2>1, <2>2, SweepIsTyped DEF Types
  <1>3. \A w \in Workers : worker[w].expected = {}
    BY <1>1
  <1>4. Swept
    BY <1>1, <1>3 DEF Swept, Chain
  <1> QED BY <1>2, <1>4, SweptIsAccounted DEF Inv

LEMMA RestartKeepsInv == Inv /\ Restart => Inv'
  <1> SUFFICES ASSUME Inv, Restart PROVE Inv'
    OBVIOUS
  <1>1. /\ producer' = [tail |-> SetToSeq({CatchUp(w) : w \in Workers}),
                        targets |-> [w \in Workers |-> {1} \cup worker[w].expected],
                        ended |-> {}]
        /\ worker' = worker /\ inbox' = inbox
    BY DEF Restart
  <1>2. Types'
    <2>1. [w \in Workers |-> {1} \cup worker[w].expected] \in [Workers -> SUBSET Turns]
      BY DEF Inv, Types, Turns, Journal
    <2> QED BY <1>1, <2>1, SweepIsTyped DEF Inv, Types
  <1>3. Swept'
    BY <1>1 DEF Swept, Chain
  <1> QED BY <1>2, <1>3, SweptIsAccountedNext DEF Inv

-----------------------------------------------------------------------------
(* Every step.                                                             *)

\* The delivery and the orchestrator acknowledge records, mark what was shown and
\* append records of their own; none of them forgets a key.
LEMMA OtherStepsKeepInv ==
    ASSUME Inv,
           \/ JobFails \/ Changed \/ Reconcile \/ FinishWake \/ Notice \/ MarkNoticed
           \/ WakeChecks \/ WakeMoot \/ WakeSuppressed \/ WakeEnqueues \/ WakeSettles
           \/ TimerFires \/ \E h \in 1..MaxHead : QueueRenders(h)
           \/ Orchestrator \/ HourPasses
           \/ \E w \in Workers : \E t \in 0..MaxTurns : WaitConsumes(w, t)
    PROVE  Inv'
  <1>1. "keys" \in DOMAIN inbox
    BY DEF Inv, Types
  <1>2. CASE JobFails \/ Changed \/ Reconcile \/ Notice \/ WakeChecks \/ WakeMoot
             \/ WakeEnqueues \/ WakeSettles \/ TimerFires \/ HourPasses
             \/ \E h \in 1..MaxHead : QueueRenders(h)
    <2>1. UNCHANGED <<worker, loaded, producer, inbox>>
      BY <1>2 DEF JobFails, Changed, Reconcile, Notice, WakeChecks, WakeMoot, WakeEnqueues,
                  WakeSettles, TimerFires, HourPasses, QueueRenders
    <2> QED BY <1>1, <2>1, HearingMoreKeepsInv
  <1>3. CASE ActorStarts \/ ActorEnds \/ ToolCall \/ Hook \/ Drain
    <2>1. UNCHANGED <<worker, loaded, producer, inbox>>
      BY <1>3 DEF ActorStarts, ActorEnds, ToolCall, Hook, Drain
    <2> QED BY <1>1, <2>1, HearingMoreKeepsInv
  <1>4. CASE FinishWake \/ MarkNoticed
    <2>1. /\ UNCHANGED <<worker, loaded, producer>>
          /\ "keys" \in DOMAIN inbox' /\ inbox'.keys = inbox.keys
      BY <1>1, <1>4 DEF FinishWake, MarkNoticed
    <2> QED BY <2>1, HearingMoreKeepsInv
  <1>5. CASE \/ AcknowledgeThrough
             \/ \E w \in Workers : \E t \in 0..MaxTurns : WaitConsumes(w, t)
    <2>1. /\ UNCHANGED <<worker, loaded, producer>>
          /\ "keys" \in DOMAIN inbox' /\ inbox'.keys = inbox.keys
      BY <1>1, <1>5 DEF AcknowledgeThrough, WaitConsumes, Acknowledged
    <2> QED BY <2>1, HearingMoreKeepsInv
  <1>6. CASE WakeSuppressed
    <2>1. /\ UNCHANGED <<worker, loaded, producer>>
          /\ inbox' = inbox \/ inbox' = Append1(inbox, Ceiling)
      BY <1>6 DEF WakeSuppressed
    <2>2. "keys" \in DOMAIN inbox' /\ inbox.keys \subseteq inbox'.keys
      BY <1>1, <2>1, AppendHears
    <2> QED BY <2>1, <2>2, HearingMoreKeepsInv
  <1> QED BY <1>2, <1>3, <1>4, <1>5, <1>6 DEF Orchestrator

LEMMA NextKeepsInv == Inv /\ [Next]_vars => Inv'
  <1> SUFFICES ASSUME Inv, [Next]_vars PROVE Inv'
    OBVIOUS
  <1>1. CASE UNCHANGED vars
    <2>1. UNCHANGED <<worker, loaded, producer, inbox>>
      BY <1>1 DEF vars
    <2> QED BY <2>1, HearingMoreKeepsInv DEF Inv, Types
  <1>2. CASE \E w \in Workers : WorkerMoves(w)
    BY <1>2, WorkerMovesKeepInv, OtherStepsKeepInv DEF WorkerMoves
  <1>3. CASE Broker
    BY <1>3, OperationEndsKeepsInv, ProduceKeepsInv, OtherStepsKeepInv DEF Broker
  <1>4. CASE Orchestrator \/ HourPasses
    BY <1>4, OtherStepsKeepInv
  <1>5. CASE WriteFails \/ Restart
    BY <1>5, WriteFailsKeepsInv, RestartKeepsInv
  <1> QED BY <1>1, <1>2, <1>3, <1>4, <1>5 DEF Next

LEMMA SpecInv == Spec => []Inv
  BY InitInv, NextKeepsInv, PTL DEF Spec

\* When the producer has nothing left to do, every turn somebody waits for that has
\* ended, and every end of a worker, has its settled record: also when the turn ended
\* before its instruction was observed, a write failed or the broker restarted
\* (settleTargets, sessionUpdate and the sweep of start in the notification producer).
THEOREM NoticesSettledTold == Spec => []SettledTold
  <1>1. Inv => SettledTold
    <2> SUFFICES ASSUME Inv, loaded, producer.tail = <<>>, NEW w \in Workers
                 PROVE  /\ \A t \in {1} \cup worker[w].expected :
                              t <= worker[w].done => SettledKey(w, t) \in inbox.keys
                        /\ worker[w].terminal => SettledKey(w, 0) \in inbox.keys
      BY DEF SettledTold
    <2>1. Somewhere(w) /\ Reachable(w) /\ Ending(w)
      BY DEF Inv, Accounted
    <2>2. Places = {}
      BY DEF Places, Chain
    <2> QED BY <2>1, <2>2 DEF Somewhere, Reachable, Ending, Heard
  <1> QED BY <1>1, SpecInv, PTL

--------------------------------------------------------------------------
(* The attention wait.  A position counts as consumed when a page that was     *)
(* acknowledged has shown it; what a receipt covers is what its page shows     *)
(* beside what was shown before.                                               *)

TruthKeys == {Nothing} \cup (BOOLEAN \X BOOLEAN \X Nat)
Points == [ord : Nat, turn : Nat, key : TruthKeys]
Coverages == [AwaitedWorkers -> Points]
Receipts == [seq : Nat, cov : Coverages, acked : BOOLEAN]
Journals == [ev : Seq(ReportKinds), done : Nat, busy : BOOLEAN, lease : Nat]
CompletionTargets == [AwaitedWorkers -> Nat]

JournalsTyped ==
    /\ waitWorker \in [AwaitedWorkers -> Journals]
    /\ \A w \in AwaitedWorkers : Len(waitWorker[w].ev) <= MaxWaitReports

RecordTyped(r) ==
    /\ {"epoch", "seq", "target", "cap", "cons", "receipts"} \subseteq DOMAIN r
    /\ r.epoch \in Nat /\ r.seq \in Nat /\ r.target \in CompletionTargets
    /\ r.cap \in Coverages /\ r.cons \in Coverages
    /\ r.receipts \in Seq(Receipts)
    /\ \A i \in DOMAIN r.receipts : r.receipts[i].seq <= r.seq

\* Every report up to the position, and the result, have been seen.
Covered(cov, seen) ==
    \A w \in AwaitedWorkers :
        /\ \A n \in 1 .. cov[w].ord : <<"report", n>> \in seen[w]
        /\ cov[w].turn > 0 => <<"turn", cov[w].turn>> \in seen[w]

\* What is shown once the page is acknowledged.
ShownWith(p) == [w \in AwaitedWorkers |-> shown[w] \union p.items[w]]

\* The receipt of a page covers what was shown and what the page shows.
Receipted(p, r) ==
    /\ p.epoch \in Nat /\ p.seq \in Nat /\ p.epoch <= r.epoch
    /\ p.epoch = r.epoch =>
          /\ p.seq <= r.seq
          /\ \A i \in DOMAIN r.receipts : r.receipts[i].seq = p.seq => Covered(r.receipts[i].cov, ShownWith(p))

PagesReceipted ==
    /\ {"reading", "got", "sent"} \subseteq DOMAIN orc
    /\ \A req \in orc.sent : req.target \in CompletionTargets
    /\ orc.reading # Nothing => Receipted(orc.reading, rec)
    /\ \A p \in orc.got : Receipted(p, rec)

NextRecord == arming # NoRec => arming.epoch > rec.epoch /\ arming.seq = 0 /\ arming.receipts = <<>>

AttentionInv ==
    /\ JournalsTyped /\ RecordTyped(rec) /\ RecordTyped(arming)
    /\ NextRecord /\ PagesReceipted
    /\ Covered(rec.cons, shown) /\ Covered(arming.cons, shown)

--------------------------------------------------------------------------
LEMMA AwaitedFinite == IsFiniteSet(AwaitedWorkers)
  <1>1. Awaited \in Seq(AwaitedWorkers) /\ Len(Awaited) \in Nat
    BY AttentionAssumption DEF AwaitedWorkers
  <1>2. Awaited \in Surjection(1 .. Len(Awaited), AwaitedWorkers)
    BY <1>1 DEF AwaitedWorkers, ToSet, Surjection
  <1> QED
    BY <1>1, <1>2, FS_NatSurjection DEF ExistsSurjection

LEMMA TruthKeyTyped ==
    ASSUME JournalsTyped, NEW r, NEW w \in AwaitedWorkers
    PROVE  TruthKey(r, w) \in TruthKeys
  <1>1. waitWorker[w] \in Journals
    BY DEF JournalsTyped
  <1>2. Held(r, w) \in BOOLEAN
    BY DEF Held
  <1>3. waitWorker[w].busy \in BOOLEAN /\ waitWorker[w].done \in Nat
    BY <1>1 DEF Journals
  <1> HIDE DEF Held
  <1>4. <<Held(r, w), waitWorker[w].busy, waitWorker[w].done>> \in BOOLEAN \X BOOLEAN \X Nat
    BY <1>2, <1>3
  <1> QED
    BY <1>4 DEF TruthKey, TruthKeys

LEMMA HigherFacts ==
    ASSUME NEW a \in Nat, NEW b \in Nat
    PROVE  Higher(a, b) \in Nat /\ Higher(a, b) \in {a, b} /\ Higher(a, b) >= a /\ Higher(a, b) >= b
  BY DEF Higher

LEMMA CapturedTyped ==
    ASSUME JournalsTyped, NEW r, RecordTyped(r)
    PROVE  Captured(r) \in Coverages
  <1>1. ASSUME NEW w \in AwaitedWorkers PROVE CapturedPoint(r, w) \in Points
    <2>1. r.cap[w] \in Points /\ r.target[w] \in Nat /\ waitWorker[w] \in Journals
      BY DEF RecordTyped, Coverages, CompletionTargets, JournalsTyped
    <2>2. r.cap[w].ord \in Nat /\ r.cap[w].turn \in Nat /\ Len(waitWorker[w].ev) \in Nat
      BY <2>1 DEF Points, Journals
    <2>3. PICK a \in Nat : a = IF Held(r, w) THEN Len(waitWorker[w].ev) ELSE 0
      BY <2>2
    <2>4. PICK b \in Nat : b = IF waitWorker[w].done >= r.target[w] THEN r.target[w] ELSE 0
      BY <2>1
    <2>5. Higher(r.cap[w].ord, a) \in Nat /\ Higher(r.cap[w].turn, b) \in Nat
      BY <2>2, HigherFacts
    <2>6. CapturedPoint(r, w) = [ord |-> Higher(r.cap[w].ord, a), turn |-> Higher(r.cap[w].turn, b), key |-> TruthKey(r, w)]
      BY <2>3, <2>4 DEF CapturedPoint
    <2> QED
      BY <2>5, <2>6, TruthKeyTyped DEF Points
  <1> QED
    BY <1>1 DEF Captured, Coverages

\* What an update of the record that is not a read or an acknowledgement leaves alone.
Like(r, s) ==
    /\ RecordTyped(s) /\ s.epoch = r.epoch /\ s.seq = r.seq /\ s.cons = r.cons /\ s.receipts = r.receipts

LEMMA RefreshKeeps ==
    ASSUME JournalsTyped, NEW r, RecordTyped(r)
    PROVE  Like(r, Refresh(r)) /\ Refresh(r).target = r.target
  <1>1. CASE Refresh(r) = r
    BY <1>1 DEF Like
  <1>2. CASE Refresh(r) = Cancelled(r)
    BY <1>2 DEF Like, RecordTyped, Cancelled
  <1>3. CASE Refresh(r) = [r EXCEPT !.ready = orc.up, !.cap = Captured(r)]
    <2>1. PICK c \in Coverages : c = Captured(r)
      BY CapturedTyped
    <2> QED
      BY <1>3, <2>1 DEF Like, RecordTyped
  <1> QED
    BY <1>1, <1>2, <1>3 DEF Refresh

LEMMA InheritedTyped ==
    ASSUME NEW c \in Coverages, NEW old \in CompletionTargets, NEW t \in CompletionTargets
    PROVE  /\ Inherited(c, old, t) \in Coverages
           /\ \A s : Covered(c, s) => Covered(Inherited(c, old, t), s)
  <1>1. ASSUME NEW w \in AwaitedWorkers
        PROVE  /\ Inherited(c, old, t)[w] \in Points /\ Inherited(c, old, t)[w].ord = c[w].ord
               /\ Inherited(c, old, t)[w].turn \in {c[w].turn, 0}
    <2>1. c[w] \in Points
      BY DEF Coverages
    <2>2. PICK n \in {c[w].turn, 0} : n = IF old[w] = t[w] THEN c[w].turn ELSE 0
      OBVIOUS
    <2>3. Inherited(c, old, t)[w] = [c[w] EXCEPT !.turn = n]
      BY <2>1, <2>2 DEF Inherited, Points
    <2> QED
      BY <2>1, <2>2, <2>3 DEF Points
  <1>2. Inherited(c, old, t) \in Coverages
    BY <1>1 DEF Inherited, Coverages
  <1>3. ASSUME NEW s, Covered(c, s) PROVE Covered(Inherited(c, old, t), s)
    <2>1. PICK d : d = Inherited(c, old, t)
      OBVIOUS
    <2>2. ASSUME NEW w \in AwaitedWorkers
          PROVE  /\ \A n \in 1 .. d[w].ord : <<"report", n>> \in s[w]
                 /\ d[w].turn > 0 => <<"turn", d[w].turn>> \in s[w]
      <3>1. d[w].ord = c[w].ord /\ d[w].turn \in {c[w].turn, 0}
        BY <1>1, <2>1
      <3>2. /\ \A n \in 1 .. c[w].ord : <<"report", n>> \in s[w]
            /\ c[w].turn > 0 => <<"turn", c[w].turn>> \in s[w]
        BY <1>3 DEF Covered
      <3> QED
        BY <3>1, <3>2
    <2> QED
      BY <2>1, <2>2 DEF Covered
  <1> QED
    BY <1>2, <1>3

LEMMA NoCoverageTyped == NoCoverage \in Coverages /\ \A s : Covered(NoCoverage, s)
  BY DEF NoCoverage, ZeroPoint, Coverages, Points, TruthKeys, Covered

LEMMA NoRecTyped ==
    /\ RecordTyped(NoRec) /\ NoRec.epoch = 0 /\ NoRec.seq = 0 /\ NoRec.receipts = <<>>
    /\ \A s : Covered(NoRec.cons, s)
  <1>1. NoRec.cap = NoCoverage /\ NoRec.cons = NoCoverage
    BY DEF NoRec
  <1>2. {"epoch", "seq", "target", "cap", "cons", "receipts"} \subseteq DOMAIN NoRec
    BY DEF NoRec
  <1>3. NoRec.epoch = 0 /\ NoRec.seq = 0 /\ NoRec.receipts = <<>> /\ NoRec.target \in CompletionTargets
    BY DEF NoRec, CompletionTargets
  <1> QED
    BY <1>1, <1>2, <1>3, NoCoverageTyped DEF RecordTyped

LEMMA FreshTyped ==
    ASSUME NEW r, RecordTyped(r), NEW req, req.target \in CompletionTargets
    PROVE  /\ RecordTyped(Fresh(r, req))
           /\ Fresh(r, req).epoch = r.epoch + 1 /\ Fresh(r, req).seq = 0 /\ Fresh(r, req).receipts = <<>>
           /\ \A s : Covered(r.cons, s) => Covered(Fresh(r, req).cons, s)
  <1>1. PICK c \in Coverages : c = Inherited(r.cap, r.target, req.target)
    BY InheritedTyped DEF RecordTyped
  <1>2. PICK d \in Coverages : d = Inherited(r.cons, r.target, req.target)
    BY InheritedTyped DEF RecordTyped
  <1>3. \A s : Covered(r.cons, s) => Covered(d, s)
    BY <1>2, InheritedTyped DEF RecordTyped
  <1>4. /\ Fresh(r, req).epoch = r.epoch + 1 /\ Fresh(r, req).seq = 0 /\ Fresh(r, req).receipts = <<>>
        /\ Fresh(r, req).target = req.target /\ Fresh(r, req).cap = c /\ Fresh(r, req).cons = d
        /\ {"epoch", "seq", "target", "cap", "cons", "receipts"} \subseteq DOMAIN Fresh(r, req)
    BY <1>1, <1>2 DEF Fresh, NoRec
  <1> HIDE DEF Fresh
  <1> QED
    BY <1>1, <1>2, <1>3, <1>4 DEF RecordTyped

\* A bounded set of numbers has a greatest one.
LEMMA GreatestOfBounded ==
    ASSUME NEW k \in Nat, NEW S, S \subseteq 0 .. k, S # {}
    PROVE  Max(S) \in S /\ \A x \in S : Max(S) >= x
  <1> DEFINE T == {k - x : x \in S}
  <1>0. S \subseteq Nat /\ \A x \in S : k - x \in Nat
    OBVIOUS
  <1>1. T \subseteq Nat /\ T # {}
    <2>1. PICK x : x \in S
      OBVIOUS
    <2>2. k - x \in T
      BY <2>1
    <2>3. T \subseteq Nat
      BY <1>0
    <2> QED
      BY <2>2, <2>3
  <1>2. PICK t \in T : \A y \in T : t <= y
    BY <1>1, NatMinimum
  <1>3. PICK m \in S : t = k - m
    OBVIOUS
  <1>4. ASSUME NEW x \in S PROVE m >= x
    <2>1. k - x \in T
      OBVIOUS
    <2>2. k - m <= k - x
      BY <1>2, <1>3, <2>1
    <2>3. m \in 0 .. k /\ x \in 0 .. k
      OBVIOUS
    <2> QED
      BY <2>2, <2>3
  <1> QED
    BY <1>4 DEF Max

--------------------------------------------------------------------------
(* A page shows the foremost unread reports, so those of one worker without  *)
(* a gap.                                                                    *)

LEMMA UpToFinite ==
    ASSUME JournalsTyped, NEW r, RecordTyped(r), NEW w \in AwaitedWorkers, NEW n
    PROVE  IsFiniteSet(UpTo(r, w, n))
  <1>1. ASSUME NEW v \in AwaitedWorkers PROVE Unread(r, v) \subseteq 1 .. MaxWaitReports
    <2>1. r.cons[v].ord \in Nat
      BY DEF RecordTyped, Coverages, Points
    <2>2. Len(waitWorker[v].ev) \in Nat /\ Len(waitWorker[v].ev) <= MaxWaitReports
      BY DEF JournalsTyped, Journals
    <2> QED
      BY <2>1, <2>2, AttentionAssumption DEF Unread
  <1>2. Earlier(w) \subseteq AwaitedWorkers
    BY DEF Earlier, AwaitedWorkers, ToSet
  <1>3. UpTo(r, w, n) \subseteq AwaitedWorkers \X (1 .. MaxWaitReports)
    <2> HIDE DEF Unread, Earlier
    <2> QED
      BY <1>1, <1>2 DEF UpTo
  <1>4. IsFiniteSet(1 .. MaxWaitReports)
    BY FS_Interval, AttentionAssumption
  <1>5. IsFiniteSet(AwaitedWorkers \X (1 .. MaxWaitReports))
    BY <1>4, AwaitedFinite, FS_Product
  <1> QED
    BY <1>3, <1>5, FS_Subset

LEMMA PageCovers ==
    ASSUME JournalsTyped, NEW r, RecordTyped(r), Covered(r.cons, shown)
    PROVE  /\ Received(r) \in Coverages
           /\ Covered(Received(r), [w \in AwaitedWorkers |-> shown[w] \union PageOf(r)[w]])
  <1>1. ASSUME NEW w \in AwaitedWorkers
        PROVE  /\ Received(r)[w] \in Points
               /\ \A n \in 1 .. Received(r)[w].ord : <<"report", n>> \in shown[w] \union PageOf(r)[w]
               /\ Received(r)[w].turn > 0 => <<"turn", Received(r)[w].turn>> \in shown[w] \union PageOf(r)[w]
    <2>1. r.cons[w] \in Points /\ waitWorker[w] \in Journals /\ CapturedPoint(r, w) \in Points
      BY CapturedTyped DEF RecordTyped, Coverages, JournalsTyped, Captured
    <2>2. PICK c \in Nat, l \in Nat, a \in Nat, b \in Nat :
             /\ c = r.cons[w].ord /\ l = Len(waitWorker[w].ev)
             /\ a = r.cons[w].turn /\ b = CapturedPoint(r, w).turn
      BY <2>1 DEF Points, Journals
    <2>3. Unread(r, w) \subseteq c + 1 .. l /\ (Unread(r, w) # {} => Unread(r, w) = c + 1 .. l)
      BY <2>2 DEF Unread
    <2>4. Reports(r, w) \subseteq Unread(r, w)
      BY DEF Reports
    <2>5. {c} \union Reports(r, w) \subseteq 0 .. c + l
      BY <2>3, <2>4
    <2>6. PICK m : m = Max({c} \union Reports(r, w))
      OBVIOUS
    <2>7. m \in {c} \union Reports(r, w) /\ m \in Nat
      <3>1. c + l \in Nat
        OBVIOUS
      <3>2. m \in {c} \union Reports(r, w)
        BY <2>5, <2>6, <3>1, GreatestOfBounded
      <3> QED
        BY <2>5, <3>2
    <2>8. Received(r)[w] = [ord |-> m, turn |-> Higher(a, b), key |-> TruthKey(r, w)]
      BY <2>2, <2>6 DEF Received
    <2>9. Higher(a, b) \in Nat /\ Higher(a, b) \in {a, b} /\ Higher(a, b) >= a
      BY HigherFacts
    <2>10. Received(r)[w] \in Points
      BY <2>7, <2>8, <2>9, TruthKeyTyped DEF Points
    <2>11. PageOf(r)[w] = {<<"report", n>> : n \in Reports(r, w)} \union {<<"turn", t>> : t \in {b} \ (0 .. a)}
      BY <2>2 DEF PageOf
    <2>12. ASSUME NEW n \in 1 .. m PROVE <<"report", n>> \in shown[w] \union PageOf(r)[w]
      <3>1. CASE n <= c
        <4>1. n \in 1 .. r.cons[w].ord
          BY <2>2, <2>7, <3>1
        <4> QED
          BY <4>1 DEF Covered
      <3>2. CASE n > c
        <4>1. m \in Reports(r, w) /\ m \in c + 1 .. l /\ Unread(r, w) = c + 1 .. l
          BY <2>3, <2>4, <2>7, <3>2
        <4>2. n \in Unread(r, w)
          BY <3>2, <4>1
        <4>3. UpTo(r, w, n) \subseteq UpTo(r, w, m)
          <5>1. \A k \in Unread(r, w) : k <= n => k <= m
            BY <4>1
          <5> HIDE DEF Unread, Earlier
          <5> QED
            BY <5>1 DEF UpTo
        <4>4. IsFiniteSet(UpTo(r, w, m)) /\ Cardinality(UpTo(r, w, m)) <= PageReports
          BY <4>1, UpToFinite DEF Reports
        <4>5. /\ Cardinality(UpTo(r, w, n)) <= Cardinality(UpTo(r, w, m))
              /\ Cardinality(UpTo(r, w, n)) \in Nat /\ Cardinality(UpTo(r, w, m)) \in Nat
          BY <4>3, <4>4, FS_Subset, FS_CardinalityType
        <4>6. n \in Reports(r, w)
          BY <4>2, <4>4, <4>5, AttentionAssumption DEF Reports
        <4> QED
          BY <2>11, <4>6
      <3> QED
        BY <2>7, <3>1, <3>2
    <2>13. Higher(a, b) > 0 => <<"turn", Higher(a, b)>> \in shown[w] \union PageOf(r)[w]
      <3>1. CASE Higher(a, b) = a
        BY <2>2, <3>1 DEF Covered
      <3>2. CASE Higher(a, b) # a
        <4>1. Higher(a, b) = b /\ b \notin 0 .. a
          BY <2>9, <3>2
        <4> QED
          BY <2>11, <4>1
      <3> QED
        BY <3>1, <3>2
    <2> QED
      BY <2>7, <2>8, <2>10, <2>12, <2>13
  <1>2. Received(r) \in Coverages
    BY <1>1 DEF Received, Coverages
  <1> HIDE DEF Received, PageOf
  <1> QED
    BY <1>1, <1>2 DEF Covered

--------------------------------------------------------------------------
(* The steps that show nothing and bank no receipt.                          *)

LEMMA LikeUpdates ==
    ASSUME NEW r, RecordTyped(r), NEW x, NEW y, NEW z
    PROVE  /\ Like(r, r) /\ Like(r, Cancelled(r)) /\ Like(r, [r EXCEPT !.decided = x])
           /\ Like(r, [r EXCEPT !.intent = y, !.notified = z])
           /\ Like(r, [[r EXCEPT !.decided = x] EXCEPT !.intent = y, !.notified = z])
  BY DEF Like, RecordTyped, Cancelled

LEMMA LikeTransitive ==
    ASSUME NEW q, NEW r, NEW s, Like(q, r), Like(r, s)
    PROVE  Like(q, s)
  BY DEF Like

\* The orchestrator is given no page but the one it is reading.
NoNewPage ==
    /\ {"reading", "got", "sent"} \subseteq DOMAIN orc'
    /\ orc'.sent = orc.sent /\ orc'.reading \in {orc.reading, Nothing}
    /\ \A p \in orc'.got : p \in orc.got \/ (orc.reading # Nothing /\ p = orc.reading)

LEMMA QuietKeeps ==
    ASSUME AttentionInv, JournalsTyped', Like(rec, rec'), arming' = arming \/ arming' = NoRec,
           shown' = shown, NoNewPage
    PROVE  AttentionInv'
  <1>0. /\ JournalsTyped /\ RecordTyped(rec) /\ RecordTyped(arming) /\ NextRecord /\ PagesReceipted
        /\ Covered(rec.cons, shown) /\ Covered(arming.cons, shown)
    BY DEF AttentionInv
  <1>1. /\ RecordTyped(rec') /\ rec'.epoch = rec.epoch /\ rec'.seq = rec.seq
        /\ rec'.cons = rec.cons /\ rec'.receipts = rec.receipts
    BY DEF Like
  <1>2. ASSUME NEW p, Receipted(p, rec) PROVE Receipted(p, rec)'
    BY <1>1, <1>2 DEF Receipted, Covered, ShownWith
  <1>3. PagesReceipted'
    <2>1. \A p \in orc'.got : Receipted(p, rec)'
      BY <1>0, <1>2 DEF PagesReceipted, NoNewPage
    <2>2. PICK q : q = orc.reading
      OBVIOUS
    <2>3. q # Nothing => Receipted(q, rec)'
      BY <1>0, <1>2, <2>2 DEF PagesReceipted
    <2>4. orc'.reading # Nothing => orc'.reading = q
      BY <2>2 DEF NoNewPage
    <2>5. orc'.reading # Nothing => Receipted(orc.reading, rec)'
      BY <2>3, <2>4 DEF Receipted, ShownWith
    <2> QED
      BY <1>0, <2>1, <2>5 DEF PagesReceipted, NoNewPage
  <1>4. RecordTyped(arming') /\ Covered(arming.cons, shown)' /\ NextRecord'
    <2>1. CASE arming' = arming
      BY <1>0, <1>1, <2>1 DEF NextRecord, Covered
    <2>2. CASE arming' = NoRec
      <3>1. Covered(NoRec.cons, shown)
        BY NoRecTyped
      <3> QED
        BY <2>2, <3>1, NoRecTyped DEF NextRecord, Covered
    <2> QED
      BY <2>1, <2>2
  <1>5. Covered(rec.cons, shown)'
    BY <1>0, <1>1 DEF Covered
  <1> QED
    BY <1>1, <1>3, <1>4, <1>5 DEF AttentionInv

LEMMA SameOrc == PagesReceipted /\ UNCHANGED orc => NoNewPage
  BY DEF PagesReceipted, NoNewPage

LEMMA FlagsOfOrc ==
    ASSUME PagesReceipted, NEW x,
           \/ orc' = [orc EXCEPT !.on = x] \/ orc' = [orc EXCEPT !.busy = x]
           \/ orc' = [orc EXCEPT !.up = x] \/ orc' = [orc EXCEPT !.bound = x]
    PROVE  NoNewPage
  BY DEF PagesReceipted, NoNewPage

LEMMA OrcForgets ==
    ASSUME PagesReceipted, NEW x, NEW y,
           orc' = [orc EXCEPT !.up = x, !.busy = y, !.reading = Nothing, !.got = {}]
    PROVE  NoNewPage
  BY DEF PagesReceipted, NoNewPage

LEMMA AwaitedKeep ==
    ASSUME AttentionInv, AwaitedMoves
    PROVE  AttentionInv'
  <1>0. JournalsTyped /\ RecordTyped(rec) /\ PagesReceipted
    BY DEF AttentionInv
  <1>1. PICK w \in AwaitedWorkers, after \in Journals :
           WorkerChanges(w, after) /\ Len(after.ev) <= MaxWaitReports
    <2>1. PICK w \in AwaitedWorkers :
             (\E kind \in ReportKinds : ReportArrives(w, kind)) \/ CompleteTurn(w) \/ StateFlips(w) \/ LeaseMoves(w)
      BY DEF AwaitedMoves
    <2>2. waitWorker[w] \in Journals /\ Len(waitWorker[w].ev) <= MaxWaitReports
      BY <1>0 DEF JournalsTyped
    <2>3. ASSUME NEW kind \in ReportKinds, ReportArrives(w, kind)
          PROVE  \E after \in Journals : WorkerChanges(w, after) /\ Len(after.ev) <= MaxWaitReports
      <3>1. PICK e : e = Append(waitWorker[w].ev, kind)
        OBVIOUS
      <3>2. waitWorker[w].ev \in Seq(ReportKinds) /\ Len(waitWorker[w].ev) < MaxWaitReports
        BY <2>2, <2>3 DEF Journals, ReportArrives
      <3>3. e \in Seq(ReportKinds) /\ Len(e) <= MaxWaitReports
        BY <3>1, <3>2, AttentionAssumption
      <3>4. [waitWorker[w] EXCEPT !.ev = e] \in Journals /\ [waitWorker[w] EXCEPT !.ev = e].ev = e
        BY <2>2, <3>3 DEF Journals
      <3>5. WorkerChanges(w, [waitWorker[w] EXCEPT !.ev = e])
        BY <2>3, <3>1 DEF ReportArrives
      <3> QED
        BY <3>3, <3>4, <3>5
    <2>4. ASSUME CompleteTurn(w)
          PROVE  \E after \in Journals : WorkerChanges(w, after) /\ Len(after.ev) <= MaxWaitReports
      <3>0. PICK d \in Nat : d = waitWorker[w].done + 1
        BY <2>2 DEF Journals
      <3>1. PICK after : after = [waitWorker[w] EXCEPT !.done = d, !.busy = FALSE]
        OBVIOUS
      <3>2. after \in Journals /\ after.ev = waitWorker[w].ev
        BY <2>2, <3>1 DEF Journals
      <3>3. WorkerChanges(w, after)
        BY <2>4, <3>0, <3>1 DEF CompleteTurn
      <3> QED
        BY <2>2, <3>2, <3>3
    <2>5. ASSUME StateFlips(w)
          PROVE  \E after \in Journals : WorkerChanges(w, after) /\ Len(after.ev) <= MaxWaitReports
      <3>1. PICK after : after = [waitWorker[w] EXCEPT !.busy = ~@]
        OBVIOUS
      <3>2. after \in Journals /\ after.ev = waitWorker[w].ev
        BY <2>2, <3>1 DEF Journals
      <3>3. WorkerChanges(w, after)
        BY <2>5, <3>1 DEF StateFlips
      <3> QED
        BY <2>2, <3>2, <3>3
    <2>6. ASSUME LeaseMoves(w)
          PROVE  \E after \in Journals : WorkerChanges(w, after) /\ Len(after.ev) <= MaxWaitReports
      <3>1. PICK after : after = [waitWorker[w] EXCEPT !.lease = @ + 1]
        OBVIOUS
      <3>2. after \in Journals /\ after.ev = waitWorker[w].ev
        BY <2>2, <3>1 DEF Journals
      <3>3. WorkerChanges(w, after)
        BY <2>6, <3>1 DEF LeaseMoves
      <3> QED
        BY <2>2, <3>2, <3>3
    <2> QED
      BY <2>1, <2>3, <2>4, <2>5, <2>6
  <1>2. UNCHANGED <<orc, rec, arming, shown>> /\ waitWorker' = [waitWorker EXCEPT ![w] = after]
    BY <1>1 DEF WorkerChanges
  <1>3. JournalsTyped'
    BY <1>0, <1>1, <1>2 DEF JournalsTyped
  <1> QED
    BY <1>0, <1>2, <1>3, LikeUpdates, QuietKeeps DEF PagesReceipted, NoNewPage

\* An operation on an unchanged or reconciled record.
LEMMA ReconciledKeeps ==
    ASSUME AttentionInv, UNCHANGED <<waitWorker, shown>>, arming' = arming \/ arming' = NoRec,
           NoNewPage, Like(rec, rec')
    PROVE  AttentionInv'
  <1>1. JournalsTyped'
    BY DEF AttentionInv, JournalsTyped
  <1> QED
    BY <1>1, QuietKeeps

LEMMA OperatorKeep ==
    ASSUME AttentionInv, OperatorMoves
    PROVE  AttentionInv'
  <1>0. RecordTyped(rec) /\ PagesReceipted
    BY DEF AttentionInv
  <1>1. CASE SetPolicy \/ RestorePolicy \/ StartTurn \/ Unbind \/ Rebind
    <2>1. NoNewPage
      BY <1>0, <1>1, FlagsOfOrc DEF SetPolicy, RestorePolicy, StartTurn, Unbind, Rebind
    <2>2. UNCHANGED <<waitWorker, shown, arming, rec>>
      BY <1>1 DEF SetPolicy, RestorePolicy, StartTurn, Unbind, Rebind
    <2> QED
      BY <1>0, <2>1, <2>2, LikeUpdates, ReconciledKeeps
  <1>2. CASE DeadlinePasses \/ WaitHourPasses
    <2>1. UNCHANGED <<waitWorker, shown, arming, rec, orc>>
      BY <1>2 DEF DeadlinePasses, WaitHourPasses
    <2> QED
      BY <1>0, <2>1, SameOrc, LikeUpdates, ReconciledKeeps
  <1>3. CASE BindingRemoved
    <2>1. UNCHANGED <<waitWorker, shown, arming, orc>> /\ rec' = Cancelled(rec)
      BY <1>3 DEF BindingRemoved
    <2> QED
      BY <1>0, <2>1, SameOrc, LikeUpdates, ReconciledKeeps
  <1> QED
    BY <1>1, <1>2, <1>3 DEF OperatorMoves

LEMMA ProcessKeep ==
    ASSUME AttentionInv, ProcessMoves
    PROVE  AttentionInv'
  <1>0. RecordTyped(rec) /\ PagesReceipted
    BY DEF AttentionInv
  <1>1. UNCHANGED <<waitWorker, shown, rec>> /\ (arming' = arming \/ arming' = NoRec)
    BY DEF ProcessMoves, EndTurn, Exit, Resume, WaitRestart
  <1>2. NoNewPage
    BY <1>0, FlagsOfOrc, OrcForgets DEF ProcessMoves, EndTurn, Exit, Resume, WaitRestart
  <1> QED
    BY <1>0, <1>1, <1>2, LikeUpdates, ReconciledKeeps

LEMMA SchedulerKeep ==
    ASSUME AttentionInv, Scheduler
    PROVE  AttentionInv'
  <1>0. JournalsTyped /\ RecordTyped(rec) /\ PagesReceipted
    BY DEF AttentionInv
  <1>1. UNCHANGED <<waitWorker, orc, arming, shown>>
    BY DEF Scheduler, CoalesceTimer, Tick, ClearIntent, Offer, Decide, Bank, EnqueueWake
  <1>2. PICK r : r = Refresh(rec)
    OBVIOUS
  <1>3. RecordTyped(r) /\ Like(rec, r)
    BY <1>0, <1>2, RefreshKeeps DEF Like
  <1>4. Like(rec, rec')
    <2>1. CASE CoalesceTimer \/ EnqueueWake
      BY <1>0, <2>1, LikeUpdates DEF CoalesceTimer, EnqueueWake
    <2>2. CASE Tick \/ Offer \/ Decide
      BY <1>2, <1>3, <2>2 DEF Tick, Offer, Decide
    <2>3. CASE ClearIntent
      <3>1. PICK z : z = (r.notified \/ sched.seen.late)
        OBVIOUS
      <3>2. rec' = r \/ rec' = [r EXCEPT !.intent = NoIntent, !.notified = z]
        BY <1>2, <2>3, <3>1 DEF ClearIntent
      <3>3. Like(r, [r EXCEPT !.intent = NoIntent, !.notified = z])
        BY <1>3, LikeUpdates
      <3> QED
        BY <1>3, <3>2, <3>3, LikeTransitive
    <2>4. CASE Bank
      <3>1. PICK x, y, z : /\ x = sched.seen.input
                           /\ y = [id |-> <<sched.seen.epoch, sched.seen.input>>, cov |-> r.cap, floor |-> r.seq]
                           /\ z = ([r EXCEPT !.decided = x].notified \/ sched.seen.review)
        OBVIOUS
      <3>2. \/ rec' = r \/ rec' = [r EXCEPT !.decided = x]
            \/ rec' = [[r EXCEPT !.decided = x] EXCEPT !.intent = y, !.notified = z]
        BY <1>2, <2>4, <3>1 DEF Bank
      <3>3. Like(r, [r EXCEPT !.decided = x]) /\ Like(r, [[r EXCEPT !.decided = x] EXCEPT !.intent = y, !.notified = z])
        BY <1>3, LikeUpdates
      <3> QED
        BY <1>3, <3>2, <3>3, LikeTransitive
    <2> QED
      BY <2>1, <2>2, <2>3, <2>4 DEF Scheduler
  <1> QED
    BY <1>0, <1>1, <1>4, SameOrc, ReconciledKeeps

LEMMA QueueKeep ==
    ASSUME AttentionInv, Queue
    PROVE  AttentionInv'
  <1>0. JournalsTyped /\ RecordTyped(rec) /\ PagesReceipted
    BY DEF AttentionInv
  <1>1. UNCHANGED <<waitWorker, arming, shown>>
    BY DEF Queue, FlushWake, FlushNothing, AdmitWake
  <1>2. Like(rec, Refresh(rec)) /\ Like(rec, rec)
    BY <1>0, RefreshKeeps, LikeUpdates
  <1>3. CASE \E id \in DOMAIN waitWakes : FlushWake(id)
    <2>1. UNCHANGED orc /\ (rec' = rec \/ rec' = Refresh(rec))
      BY <1>3 DEF FlushWake
    <2> QED
      BY <1>0, <1>1, <1>2, <2>1, SameOrc, ReconciledKeeps
  <1>4. CASE FlushNothing \/ AdmitWake
    <2>1. rec' = rec /\ (UNCHANGED orc \/ orc' = [orc EXCEPT !.busy = TRUE])
      BY <1>4 DEF FlushNothing, AdmitWake
    <2>2. NoNewPage
      BY <1>0, <2>1, SameOrc, FlagsOfOrc
    <2> QED
      BY <1>1, <1>2, <2>1, <2>2, ReconciledKeeps
  <1> QED
    BY <1>3, <1>4 DEF Queue

--------------------------------------------------------------------------
(* The steps of the orchestrator's calls.                                    *)

LEMMA RequestTargets ==
    ASSUME PagesReceipted, NEW req \in Requests \union orc.sent
    PROVE  req.target \in CompletionTargets
  <1>1. CASE req \in orc.sent
    BY <1>1 DEF PagesReceipted
  <1>2. CASE req \in Requests
    <2>1. PICK t \in [AwaitedWorkers -> 1 .. MaxWaitTurns] : req.target = t
      BY <1>2 DEF Requests
    <2> QED
      BY <2>1, AttentionAssumption DEF CompletionTargets
  <1> QED
    BY <1>1, <1>2

\* The record an arm prepares stands for what its predecessor consumed.
LEMMA ArmKeeps ==
    ASSUME AttentionInv, NEW req \in Requests \union orc.sent, Arm(req)
    PROVE  AttentionInv'
  <1>0. /\ JournalsTyped /\ RecordTyped(rec) /\ PagesReceipted /\ Covered(rec.cons, shown)
    BY DEF AttentionInv
  <1>1. /\ UNCHANGED <<waitWorker, rec, shown>>
        /\ orc' = [orc EXCEPT !.sent = @ \union {req}]
        /\ arming' = Refresh(Fresh(rec, req))
    BY DEF Arm, ArmCut
  <1>2. PICK f : f = Fresh(rec, req)
    OBVIOUS
  <1>3. /\ RecordTyped(f) /\ f.epoch = rec.epoch + 1 /\ f.seq = 0 /\ f.receipts = <<>>
        /\ Covered(f.cons, shown)
    BY <1>0, <1>2, RequestTargets, FreshTyped
  <1>4. Like(f, arming')
    BY <1>0, <1>1, <1>2, <1>3, RefreshKeeps
  <1>5. /\ RecordTyped(arming') /\ arming'.epoch = rec.epoch + 1 /\ arming'.seq = 0
        /\ arming'.receipts = <<>> /\ arming'.cons = f.cons
    BY <1>3, <1>4 DEF Like
  <1>6. NextRecord'
    BY <1>0, <1>1, <1>5 DEF NextRecord, RecordTyped
  <1>7. Covered(arming.cons, shown)' /\ Covered(rec.cons, shown)'
    BY <1>0, <1>1, <1>3, <1>5 DEF Covered
  <1>8. PagesReceipted'
    <2>1. /\ {"reading", "got", "sent"} \subseteq DOMAIN orc' /\ orc'.reading = orc.reading
          /\ orc'.got = orc.got /\ orc'.sent = orc.sent \union {req}
      BY <1>0, <1>1 DEF PagesReceipted
    <2>2. \A q \in orc'.sent : q.target \in CompletionTargets
      BY <1>0, <2>1, RequestTargets DEF PagesReceipted
    <2>3. ASSUME NEW p, Receipted(p, rec) PROVE Receipted(p, rec)'
      BY <1>1, <2>3 DEF Receipted, Covered, ShownWith
    <2>4. PICK q : q = orc.reading
      OBVIOUS
    <2>5. q # Nothing => Receipted(q, rec)'
      BY <1>0, <2>3, <2>4 DEF PagesReceipted
    <2>6. orc'.reading # Nothing => Receipted(orc.reading, rec)'
      BY <2>1, <2>4, <2>5 DEF Receipted, ShownWith
    <2>7. \A p \in orc'.got : Receipted(p, rec)'
      BY <1>0, <2>1, <2>3 DEF PagesReceipted
    <2> QED
      BY <2>1, <2>2, <2>6, <2>7 DEF PagesReceipted
  <1>9. JournalsTyped' /\ RecordTyped(rec')
    BY <1>0, <1>1 DEF JournalsTyped
  <1> QED
    BY <1>5, <1>6, <1>7, <1>8, <1>9 DEF AttentionInv

\* With the epoch no page of an earlier one can be acknowledged any more.
LEMMA ArmCommitKeeps ==
    ASSUME AttentionInv, ArmCommit
    PROVE  AttentionInv'
  <1>0. /\ JournalsTyped /\ RecordTyped(rec) /\ RecordTyped(arming) /\ NextRecord /\ PagesReceipted
        /\ Covered(rec.cons, shown) /\ Covered(arming.cons, shown)
    BY DEF AttentionInv
  <1>1. UNCHANGED <<waitWorker, orc, shown>> /\ arming' = NoRec /\ arming # NoRec
    BY DEF ArmCommit, StoreFree
  <1>2. CASE rec' = rec
    BY <1>0, <1>1, <1>2, SameOrc, LikeUpdates, ReconciledKeeps
  <1>3. CASE rec' = Refresh(arming)
    <2>1. Like(arming, rec')
      BY <1>0, <1>3, RefreshKeeps
    <2>2. /\ RecordTyped(rec') /\ rec'.epoch > rec.epoch /\ rec'.receipts = <<>> /\ rec'.cons = arming.cons
      BY <1>0, <1>1, <2>1 DEF Like, NextRecord
    <2>3. ASSUME NEW p, Receipted(p, rec) PROVE Receipted(p, rec)'
      <3>1. p.epoch \in Nat /\ p.seq \in Nat /\ p.epoch <= rec.epoch
        BY <2>3 DEF Receipted
      <3>2. p.epoch <= rec'.epoch /\ p.epoch # rec'.epoch
        BY <1>0, <2>2, <3>1 DEF RecordTyped
      <3> QED
        BY <3>1, <3>2 DEF Receipted
    <2>4. PagesReceipted'
      <3>1. PICK q : q = orc.reading
        OBVIOUS
      <3>2. q # Nothing => Receipted(q, rec)'
        BY <1>0, <2>3, <3>1 DEF PagesReceipted
      <3>3. orc'.reading # Nothing => Receipted(orc.reading, rec)'
        BY <1>1, <3>1, <3>2 DEF Receipted, ShownWith
      <3>4. \A p \in orc'.got : Receipted(p, rec)'
        BY <1>0, <1>1, <2>3 DEF PagesReceipted
      <3> QED
        BY <1>0, <1>1, <3>3, <3>4 DEF PagesReceipted
    <2>5. RecordTyped(arming') /\ NextRecord' /\ Covered(arming.cons, shown)'
      <3>1. Covered(NoRec.cons, shown)
        BY NoRecTyped
      <3> QED
        BY <1>1, <3>1, NoRecTyped DEF NextRecord, Covered
    <2>6. Covered(rec.cons, shown)'
      BY <1>0, <1>1, <2>2 DEF Covered
    <2>7. JournalsTyped'
      BY <1>0, <1>1 DEF JournalsTyped
    <2> QED
      BY <2>2, <2>4, <2>5, <2>6, <2>7 DEF AttentionInv
  <1> QED
    BY <1>2, <1>3 DEF ArmCommit, SecondCut

\* A receipt is new, and no page that was given has its number.
LEMMA ReadPageKeeps ==
    ASSUME AttentionInv, ReadPage
    PROVE  AttentionInv'
  <1>0. /\ JournalsTyped /\ RecordTyped(rec) /\ RecordTyped(arming) /\ NextRecord /\ PagesReceipted
        /\ Covered(rec.cons, shown) /\ Covered(arming.cons, shown)
    BY DEF AttentionInv
  <1>1. PICK r : r = Refresh(rec)
    OBVIOUS
  <1>2. Like(rec, r) /\ RecordTyped(r)
    BY <1>0, <1>1, RefreshKeeps DEF Like
  <1>3. PICK n \in Nat : n = r.seq + 1
    BY <1>2 DEF RecordTyped
  <1>4. PICK cov, items : cov = Received(r) /\ items = PageOf(r)
    OBVIOUS
  <1>5. cov \in Coverages /\ Covered(cov, [w \in AwaitedWorkers |-> shown[w] \union items[w]])
    <2>1. Covered(r.cons, shown)
      BY <1>0, <1>2 DEF Like
    <2> QED
      BY <1>0, <1>2, <1>4, <2>1, PageCovers
  <1>6. PICK page \in Receipts : page = [seq |-> n, cov |-> cov, acked |-> FALSE]
    BY <1>3, <1>5 DEF Receipts
  <1>7. PICK p : p = [epoch |-> r.epoch, seq |-> n, items |-> items]
    OBVIOUS
  <1>8. PICK R : R = LET all == Append(r.receipts, page)
                     IN  SubSeq(all, Higher(1, Len(all) - ReceiptMax + 1), Len(all))
    OBVIOUS
  <1>9. /\ UNCHANGED <<waitWorker, arming, shown>>
        /\ rec' = [r EXCEPT !.seq = n, !.receipts = R] /\ orc' = [orc EXCEPT !.reading = p]
    BY <1>1, <1>3, <1>4, <1>6, <1>7, <1>8 DEF ReadPage
  <1>10. /\ R \in Seq(Receipts)
         /\ \A i \in DOMAIN R : R[i] = page \/ \E j \in DOMAIN r.receipts : R[i] = r.receipts[j]
    <2>1. r.receipts \in Seq(Receipts) /\ ReceiptMax \in Nat \ {0}
      BY <1>2, AttentionAssumption DEF RecordTyped
    <2>2. PICK all : all = Append(r.receipts, page)
      OBVIOUS
    <2>3. all \in Seq(Receipts) /\ Len(all) = Len(r.receipts) + 1 /\ Len(r.receipts) \in Nat
      BY <2>1, <2>2
    <2>4. \A j \in 1 .. Len(all) : all[j] = page \/ (j \in DOMAIN r.receipts /\ all[j] = r.receipts[j])
      BY <2>1, <2>2, <2>3
    <2>5. PICK k \in 1 .. Len(all) : k = Higher(1, Len(all) - ReceiptMax + 1)
      BY <2>1, <2>3 DEF Higher
    <2>6. R = SubSeq(all, k, Len(all))
      BY <1>8, <2>2, <2>5
    <2>7. /\ R \in Seq(Receipts) /\ Len(R) = Len(all) - k + 1
          /\ \A i \in 1 .. Len(R) : R[i] = all[k + i - 1] /\ k + i - 1 \in 1 .. Len(all)
      <3>1. Len(all) \in Nat /\ k \in Nat /\ k <= Len(all) /\ k >= 1
        BY <2>3, <2>5
      <3>2. \A i \in k .. Len(all) : all[i] \in Receipts
        BY <2>3, <3>1
      <3>3. /\ R \in Seq(Receipts) /\ Len(R) = Len(all) - k + 1
            /\ \A i \in 1 .. Len(all) - k + 1 : R[i] = all[k + i - 1]
        BY <2>6, <3>1, <3>2, SubSeqProperties
      <3> QED
        BY <3>1, <3>3
    <2>8. DOMAIN R = 1 .. Len(R)
      BY <2>7
    <2> QED
      BY <2>4, <2>7, <2>8
  <1>11. /\ rec'.epoch = rec.epoch /\ rec'.seq = n /\ rec'.receipts = R /\ rec'.cons = rec.cons
         /\ r.receipts = rec.receipts /\ r.epoch = rec.epoch /\ n = rec.seq + 1
         /\ rec'.target = r.target /\ rec'.cap = r.cap /\ DOMAIN rec' = DOMAIN r
    BY <1>2, <1>3, <1>9 DEF Like, RecordTyped
  <1>12. rec.seq \in Nat /\ rec.epoch \in Nat /\ page.seq = n /\ page.cov = cov
         /\ \A j \in DOMAIN rec.receipts : rec.receipts[j].seq \in Nat /\ rec.receipts[j].seq <= rec.seq
    <2>1. rec.receipts \in Seq(Receipts)
      BY <1>0 DEF RecordTyped
    <2>2. \A j \in DOMAIN rec.receipts : rec.receipts[j] \in Receipts
      BY <2>1
    <2>3. \A j \in DOMAIN rec.receipts : rec.receipts[j].seq \in Nat
      BY <2>2 DEF Receipts
    <2> QED
      BY <1>0, <1>6, <2>3 DEF RecordTyped
  <1>13. RecordTyped(rec')
    <2>1. \A i \in DOMAIN R : R[i].seq <= n
      BY <1>10, <1>11, <1>12
    <2> QED
      BY <1>2, <1>10, <1>11, <2>1 DEF RecordTyped, Like
  <1>14. Receipted(p, rec)'
    <2>1. p.epoch = rec.epoch /\ p.seq = n /\ p.items = items
      BY <1>7, <1>11
    <2>2. ASSUME NEW i \in DOMAIN R, R[i].seq = n PROVE R[i].cov = cov
      <3>1. \A j \in DOMAIN rec.receipts : rec.receipts[j].seq # n
        BY <1>11, <1>12
      <3> QED
        BY <1>10, <1>11, <1>12, <2>2, <3>1
    <2>3. Covered(cov, ShownWith(p))'
      BY <1>5, <1>9, <2>1 DEF ShownWith, Covered
    <2>4. \A i \in DOMAIN rec'.receipts : rec'.receipts[i].seq = p.seq => Covered(rec'.receipts[i].cov, ShownWith(p)')
      BY <1>11, <2>1, <2>2, <2>3
    <2> QED
      BY <1>3, <1>11, <1>12, <2>1, <2>4 DEF Receipted
  <1>15. ASSUME NEW q, Receipted(q, rec) PROVE Receipted(q, rec)'
    <2>1. q.epoch \in Nat /\ q.seq \in Nat /\ q.epoch <= rec'.epoch
      BY <1>11, <1>15 DEF Receipted
    <2>2. ASSUME q.epoch = rec.epoch PROVE q.seq <= n /\ q.seq # n
      BY <1>11, <1>12, <1>15, <2>1, <2>2 DEF Receipted
    <2>3. ASSUME q.epoch = rec.epoch, NEW i \in DOMAIN R, R[i].seq = q.seq
          PROVE  Covered(R[i].cov, ShownWith(q))
      <3>1. PICK j \in DOMAIN rec.receipts : R[i] = rec.receipts[j]
        BY <1>10, <1>11, <1>12, <2>2, <2>3
      <3> QED
        BY <1>15, <2>3, <3>1 DEF Receipted
    <2>4. ShownWith(q)' = ShownWith(q)
      BY <1>9 DEF ShownWith
    <2>5. q.epoch = rec'.epoch => /\ q.seq <= rec'.seq
                                 /\ \A i \in DOMAIN rec'.receipts :
                                       rec'.receipts[i].seq = q.seq => Covered(rec'.receipts[i].cov, ShownWith(q)')
      BY <1>11, <2>2, <2>3, <2>4
    <2> QED
      BY <2>1, <2>5 DEF Receipted
  <1>16. PagesReceipted'
    <2>1. /\ {"reading", "got", "sent"} \subseteq DOMAIN orc' /\ orc'.reading = p
          /\ orc'.got = orc.got /\ orc'.sent = orc.sent
      BY <1>0, <1>9 DEF PagesReceipted
    <2>2. Receipted(orc.reading, rec)'
      BY <1>14, <2>1 DEF Receipted, ShownWith
    <2>3. \A q \in orc'.got : Receipted(q, rec)'
      BY <1>0, <1>15, <2>1 DEF PagesReceipted
    <2> QED
      BY <1>0, <2>1, <2>2, <2>3 DEF PagesReceipted
  <1>17. /\ JournalsTyped' /\ RecordTyped(arming') /\ NextRecord'
         /\ Covered(rec.cons, shown)' /\ Covered(arming.cons, shown)'
    BY <1>0, <1>9, <1>11 DEF JournalsTyped, NextRecord, Covered
  <1> QED
    BY <1>13, <1>16, <1>17 DEF AttentionInv

LEMMA CoveredGrows ==
    ASSUME NEW c, NEW s, NEW t, Covered(c, s), \A w \in AwaitedWorkers : s[w] \subseteq t[w]
    PROVE  Covered(c, t)
  BY DEF Covered

LEMMA MergeCovers ==
    ASSUME NEW c \in Coverages, NEW d \in Coverages, NEW newer, NEW s, Covered(c, s), Covered(d, s)
    PROVE  MergeConsumed(c, d, newer) \in Coverages /\ Covered(MergeConsumed(c, d, newer), s)
  <1>1. ASSUME NEW w \in AwaitedWorkers
        PROVE  /\ MergeConsumed(c, d, newer)[w] \in Points
               /\ MergeConsumed(c, d, newer)[w].ord \in {c[w].ord, d[w].ord}
               /\ MergeConsumed(c, d, newer)[w].turn \in {c[w].turn, d[w].turn}
    <2>1. c[w] \in Points /\ d[w] \in Points
      BY DEF Coverages
    <2>2. PICK k \in TruthKeys : k = IF newer \/ c[w] = ZeroPoint THEN d[w].key ELSE c[w].key
      BY <2>1 DEF Points
    <2>3. /\ Higher(c[w].ord, d[w].ord) \in Nat /\ Higher(c[w].ord, d[w].ord) \in {c[w].ord, d[w].ord}
          /\ Higher(c[w].turn, d[w].turn) \in Nat /\ Higher(c[w].turn, d[w].turn) \in {c[w].turn, d[w].turn}
      BY <2>1, HigherFacts DEF Points
    <2>4. MergeConsumed(c, d, newer)[w] =
              [ord |-> Higher(c[w].ord, d[w].ord), turn |-> Higher(c[w].turn, d[w].turn), key |-> k]
      BY <2>2 DEF MergeConsumed
    <2> QED
      BY <2>2, <2>3, <2>4 DEF Points
  <1>2. MergeConsumed(c, d, newer) \in Coverages
    BY <1>1 DEF MergeConsumed, Coverages
  <1>3. PICK m : m = MergeConsumed(c, d, newer)
    OBVIOUS
  <1>4. ASSUME NEW w \in AwaitedWorkers
        PROVE  /\ \A n \in 1 .. m[w].ord : <<"report", n>> \in s[w]
               /\ m[w].turn > 0 => <<"turn", m[w].turn>> \in s[w]
    <2>1. m[w].ord \in {c[w].ord, d[w].ord} /\ m[w].turn \in {c[w].turn, d[w].turn}
      BY <1>1, <1>3
    <2>2. /\ \A n \in 1 .. c[w].ord : <<"report", n>> \in s[w]
          /\ \A n \in 1 .. d[w].ord : <<"report", n>> \in s[w]
          /\ c[w].turn > 0 => <<"turn", c[w].turn>> \in s[w]
          /\ d[w].turn > 0 => <<"turn", d[w].turn>> \in s[w]
      BY DEF Covered
    <2> QED
      BY <2>1, <2>2
  <1> QED
    BY <1>2, <1>3, <1>4 DEF Covered

\* What is acknowledged is shown, and what was shown stays so.
LEMMA AcknowledgeKeeps ==
    ASSUME AttentionInv, NEW p \in orc.got, Acknowledge(p)
    PROVE  AttentionInv'
  <1>0. /\ JournalsTyped /\ RecordTyped(rec) /\ RecordTyped(arming) /\ NextRecord /\ PagesReceipted
        /\ Covered(rec.cons, shown) /\ Covered(arming.cons, shown)
    BY DEF AttentionInv
  <1>1. PICK newer, x, y :
           /\ newer = (p.seq > rec.consumption)
           /\ x = (IF newer THEN p.seq ELSE rec.consumption) /\ y = (IF newer THEN late ELSE rec.ackLate)
    OBVIOUS
  <1>1a. PICK i \in DOMAIN rec.receipts :
            /\ rec.receipts[i].seq = p.seq
            /\ rec' = [rec EXCEPT !.cons = MergeConsumed(rec.cons, rec.receipts[i].cov, newer),
                                  !.receipts[i].acked = TRUE, !.consumption = x, !.ackLate = y]
    BY <1>1 DEF Acknowledge
  <1>2. /\ UNCHANGED <<waitWorker, arming>> /\ rec.epoch = p.epoch /\ shown' = ShownWith(p)
        /\ orc' = [orc EXCEPT !.got = @ \ {p}]
    BY DEF Acknowledge, ShownWith
  <1>3. Receipted(p, rec)
    BY <1>0 DEF PagesReceipted
  <1>4. \A w \in AwaitedWorkers : shown[w] \subseteq shown'[w]
    BY <1>2 DEF ShownWith
  <1>5. rec.receipts \in Seq(Receipts) /\ rec.cons \in Coverages
    BY <1>0 DEF RecordTyped
  <1>6. PICK e \in Coverages : e = rec.receipts[i].cov
    <2>1. rec.receipts[i] \in Receipts
      BY <1>5
    <2> QED
      BY <2>1 DEF Receipts
  <1>7. Covered(e, shown')
    BY <1>1a, <1>2, <1>3, <1>6 DEF Receipted
  <1>8. PICK m \in Coverages : m = MergeConsumed(rec.cons, e, newer) /\ Covered(m, shown')
    <2>1. Covered(rec.cons, shown')
      BY <1>0, <1>4, CoveredGrows
    <2> QED
      BY <1>5, <1>6, <1>7, <2>1, MergeCovers
  <1>9. PICK R : R = [rec.receipts EXCEPT ![i].acked = TRUE]
    OBVIOUS
  <1>10. /\ R \in Seq(Receipts) /\ DOMAIN R = DOMAIN rec.receipts
         /\ \A j \in DOMAIN R : R[j].seq = rec.receipts[j].seq /\ R[j].cov = rec.receipts[j].cov
    <2>1. PICK c : c = [rec.receipts[i] EXCEPT !.acked = TRUE]
      OBVIOUS
    <2>2. rec.receipts[i] \in Receipts
      BY <1>5
    <2>3. c \in Receipts /\ c.seq = rec.receipts[i].seq /\ c.cov = rec.receipts[i].cov
      BY <2>1, <2>2 DEF Receipts
    <2>4. R = [rec.receipts EXCEPT ![i] = c]
      BY <1>5, <1>9, <2>1
    <2> HIDE DEF Receipts
    <2> QED
      BY <1>5, <2>3, <2>4
  <1>11. rec' = [rec EXCEPT !.cons = m, !.receipts = R, !.consumption = x, !.ackLate = y]
    BY <1>1a, <1>6, <1>8, <1>9
  <1>12. /\ rec'.epoch = rec.epoch /\ rec'.seq = rec.seq /\ rec'.receipts = R /\ rec'.cons = m
         /\ rec'.target = rec.target /\ rec'.cap = rec.cap /\ DOMAIN rec' = DOMAIN rec
    BY <1>0, <1>11 DEF RecordTyped
  <1>13. RecordTyped(rec')
    BY <1>0, <1>8, <1>10, <1>12 DEF RecordTyped
  <1>14. ASSUME NEW q, Receipted(q, rec) PROVE Receipted(q, rec)'
    <2>1. \A w \in AwaitedWorkers : ShownWith(q)[w] \subseteq ShownWith(q)'[w]
      BY <1>4 DEF ShownWith
    <2>2. ASSUME q.epoch = rec.epoch, NEW j \in DOMAIN R, R[j].seq = q.seq
          PROVE  Covered(R[j].cov, ShownWith(q)')
      <3>1. Covered(rec.receipts[j].cov, ShownWith(q))
        BY <1>10, <1>14, <2>2 DEF Receipted
      <3> QED
        BY <1>10, <2>1, <3>1, CoveredGrows
    <2> QED
      BY <1>12, <1>14, <2>2 DEF Receipted
  <1>15. PagesReceipted'
    <2>1. /\ {"reading", "got", "sent"} \subseteq DOMAIN orc' /\ orc'.reading = orc.reading
          /\ orc'.got = orc.got \ {p} /\ orc'.sent = orc.sent
      BY <1>0, <1>2 DEF PagesReceipted
    <2>2. PICK q : q = orc.reading
      OBVIOUS
    <2>3. q # Nothing => Receipted(q, rec)'
      BY <1>0, <1>14, <2>2 DEF PagesReceipted
    <2>4. orc'.reading # Nothing => Receipted(orc.reading, rec)'
      BY <2>1, <2>2, <2>3 DEF Receipted, ShownWith
    <2>5. \A s \in orc'.got : Receipted(s, rec)'
      BY <1>0, <1>14, <2>1 DEF PagesReceipted
    <2> QED
      BY <1>0, <2>1, <2>4, <2>5 DEF PagesReceipted
  <1>16. Covered(arming.cons, shown)' /\ Covered(rec.cons, shown)'
    <2>1. Covered(arming.cons, shown')
      BY <1>0, <1>4, CoveredGrows
    <2> QED
      BY <1>2, <1>8, <1>12, <2>1
  <1>17. JournalsTyped' /\ RecordTyped(arming') /\ NextRecord'
    BY <1>0, <1>2, <1>12 DEF JournalsTyped, NextRecord
  <1> QED
    BY <1>13, <1>15, <1>16, <1>17 DEF AttentionInv

\* A repeated arm, a cancellation and the return of a page.
LEMMA OtherCallsKeep ==
    ASSUME AttentionInv, (\E req \in Requests \union orc.sent : ArmRepeated(req)) \/ Cancel \/ ReadReturns
    PROVE  AttentionInv'
  <1>0. JournalsTyped /\ RecordTyped(rec) /\ PagesReceipted
    BY DEF AttentionInv
  <1>1. UNCHANGED <<waitWorker, arming, shown>>
    BY DEF ArmRepeated, Cancel, ReadReturns
  <1>2. Like(rec, Refresh(rec)) /\ Like(rec, Cancelled(rec)) /\ Like(rec, rec)
    BY <1>0, RefreshKeeps, LikeUpdates
  <1>3. CASE (\E req \in Requests \union orc.sent : ArmRepeated(req)) \/ Cancel
    <2>1. UNCHANGED orc /\ rec' \in {Refresh(rec), Cancelled(rec)}
      BY <1>3 DEF ArmRepeated, Cancel
    <2> QED
      BY <1>0, <1>1, <1>2, <2>1, SameOrc, ReconciledKeeps
  <1>4. CASE ReadReturns
    <2>1. NoNewPage
      BY <1>0, <1>4 DEF ReadReturns, PagesReceipted, NoNewPage
    <2> QED
      BY <1>1, <1>2, <1>4, <2>1, ReconciledKeeps DEF ReadReturns
  <1> QED
    BY <1>3, <1>4

LEMMA AttentionStep ==
    ASSUME AttentionInv, [WaitNext]_waitVars
    PROVE  AttentionInv'
  <1>1. CASE UNCHANGED waitVars
    <2>1. UNCHANGED <<waitWorker, orc, rec, arming, shown>>
      BY <1>1 DEF waitVars
    <2> QED
      BY <2>1, SameOrc, LikeUpdates, ReconciledKeeps DEF AttentionInv
  <1>2. CASE AwaitedMoves
    BY <1>2, AwaitedKeep
  <1>3. CASE OperatorMoves
    BY <1>3, OperatorKeep
  <1>4. CASE ProcessMoves
    BY <1>4, ProcessKeep
  <1>5. CASE ToolCalls
    <2>1. CASE \E req \in Requests \union orc.sent : Arm(req)
      BY <2>1, ArmKeeps
    <2>2. CASE ArmCommit
      BY <2>2, ArmCommitKeeps
    <2>3. CASE ReadPage
      BY <2>3, ReadPageKeeps
    <2>4. CASE \E p \in orc.got : Acknowledge(p)
      BY <2>4, AcknowledgeKeeps
    <2>5. CASE (\E req \in Requests \union orc.sent : ArmRepeated(req)) \/ Cancel \/ ReadReturns
      BY <2>5, OtherCallsKeep
    <2> QED
      BY <1>5, <2>1, <2>2, <2>3, <2>4, <2>5 DEF ToolCalls
  <1>6. CASE Scheduler
    BY <1>6, SchedulerKeep
  <1>7. CASE Queue
    BY <1>7, QueueKeep
  <1> QED
    BY <1>1, <1>2, <1>3, <1>4, <1>5, <1>6, <1>7 DEF WaitNext

LEMMA AttentionInit == WaitInit => AttentionInv
  <1> SUFFICES ASSUME WaitInit PROVE AttentionInv
    OBVIOUS
  <1>1. JournalsTyped
    <2>1. <<>> \in Seq(ReportKinds) /\ Len(<<>>) = 0
      OBVIOUS
    <2> QED
      BY <2>1, AttentionAssumption DEF WaitInit, JournalsTyped, Journals
  <1>2. RecordTyped(rec) /\ Covered(rec.cons, shown)
    <2>1. CASE active
      <3>1. PICK f : f = Fresh(NoRec, FirstRequest)
        OBVIOUS
      <3>2. FirstRequest.target \in CompletionTargets
        BY DEF FirstRequest, CompletionTargets
      <3>3. RecordTyped(f) /\ Covered(f.cons, shown)
        BY <3>1, <3>2, NoRecTyped, FreshTyped
      <3>4. rec = Refresh(f)
        BY <2>1, <3>1 DEF WaitInit
      <3> QED
        BY <1>1, <3>3, <3>4, RefreshKeeps DEF Like
    <2>2. CASE ~active
      BY <2>2, NoRecTyped DEF WaitInit
    <2> QED
      BY <2>1, <2>2
  <1>3. RecordTyped(arming) /\ NextRecord /\ Covered(arming.cons, shown)
    BY NoRecTyped DEF WaitInit, NextRecord
  <1>4. PagesReceipted
    BY DEF WaitInit, PagesReceipted, FirstRequest, CompletionTargets
  <1> QED
    BY <1>1, <1>2, <1>3, <1>4 DEF AttentionInv

(* What a wait counts as consumed its orchestrator was shown on a page it    *)
(* acknowledged: the receipts of readPage, acknowledge's merge and the       *)
(* coverage an arm inherits.                                                 *)
THEOREM AttentionConsumedWasRead == WaitSpec => []ConsumedWasRead
  <1>1. AttentionInv => ConsumedWasRead
    BY DEF AttentionInv, Covered, ConsumedWasRead
  <1> QED
    BY <1>1, AttentionInit, AttentionStep, PTL DEF WaitSpec

-----------------------------------------------------------------------------
(* The fleet client: a reply never rewinds the snapshot.                   *)

\* What is known of the feed: nothing in hand is newer than the broker, and a reply
\* that is not fenced is no older than the snapshot it would replace.
Timely(n) == n \in Nat /\ n <= fleetMoves

FeedTyped ==
    /\ fleetMoves \in Nat /\ fleet \in Fleets /\ retained \in Fleets \cup {None}
    /\ "version" \in DOMAIN feed /\ feed.version \in Fleets \cup {None}
    /\ DOMAIN asOf = {"feed", "snap"} /\ Timely(asOf.feed) /\ Timely(asOf.snap)
    /\ busy # None => "at" \in DOMAIN busy /\ Timely(busy.at)

ReplyIsNews ==
    wire # None => wire \in SnapshotReplies /\ Timely(wire.at) /\ (~wire.stale => asOf.feed <= wire.at)

FeedInv == FeedTyped /\ ReplyIsNews

\* A key, a frame or a timer leaves the feed alone and holds what the client has.
Holds ==
    /\ UNCHANGED <<fleet, fleetMoves, retained, feed, wire>>
    /\ DOMAIN asOf' = {"feed", "snap"} /\ asOf'.feed = asOf.feed /\ asOf'.snap \in {asOf.snap, asOf.feed}
    /\ \/ busy' \in {busy, None}
       \/ "at" \in DOMAIN busy' /\ busy'.at \in IF busy # None THEN {asOf.snap, busy.at} ELSE {asOf.snap}

LEMMA HeldIsFresh ==
    ASSUME FeedInv, Holds
    PROVE  FeedInv'
  BY DEF FeedInv, FeedTyped, ReplyIsNews, Timely, Holds

\* An answer fences the reply on its way, and the snapshot it brings was read by now.
Answering(at) ==
    /\ asOf' = [feed |-> at, snap |-> at] /\ busy' = None
    /\ feed' = [feed EXCEPT !.version = feed'.version, !.snap = feed'.snap] /\ feed'.version = None
    /\ wire' = Fenced(wire)
    /\ retained' = retained
    /\ fleet' \in Fleets /\ fleetMoves' \in Nat /\ fleetMoves <= fleetMoves' /\ at \in Nat /\ at <= fleetMoves'

LEMMA FencedIsAReply ==
    ASSUME FleetConstants, NEW w \in SnapshotReplies
    PROVE  /\ Fenced(w) \in SnapshotReplies /\ Fenced(w) # None
           /\ Fenced(w).stale = TRUE /\ Fenced(w).at = w.at
  BY DEF FleetConstants, Fenced, SnapshotReplies

LEMMA AnsweredIsFresh ==
    ASSUME FleetConstants, FeedInv, NEW at, Answering(at)
    PROVE  FeedInv' /\ (wire # None => wire' # None)
  <1>1. FeedTyped'
    BY DEF FeedInv, FeedTyped, Timely, Answering
  <1>2. CASE wire = None
    BY <1>1, <1>2 DEF FeedInv, ReplyIsNews, Answering, Fenced
  <1>3. CASE wire # None
    <2>1. wire \in SnapshotReplies /\ wire.at \in Nat /\ wire.at <= fleetMoves /\ fleetMoves \in Nat
      BY <1>3 DEF FeedInv, FeedTyped, ReplyIsNews, Timely
    <2>2. wire' \in SnapshotReplies /\ wire' # None /\ wire'.stale = TRUE /\ wire'.at = wire.at
      BY <2>1, FencedIsAReply DEF Answering
    <2>3. Timely(wire.at)'
      BY <2>1, <2>2 DEF Timely, Answering
    <2> QED
      BY <1>1, <2>2, <2>3 DEF FeedInv, ReplyIsNews
  <1> QED
    BY <1>2, <1>3

LEMMA SettledAnswers ==
    ASSUME FeedInv, NEW u, NEW s, NEW at, Settle(u, s, at), retained' = retained,
           fleet' \in Fleets, fleetMoves' \in Nat, fleetMoves <= fleetMoves', at \in Nat, at <= fleetMoves'
    PROVE  Answering(at)
  BY DEF FeedInv, FeedTyped, Settle, Resync, Answering

LEMMA ProjectionIsAReply ==
    ASSUME FeedTyped
    PROVE  ReadProjection(feed.version) \in [kind : {"full", "unchanged", "delta"}, version : Fleets, upsert : Fleets]
  <1>1. Absent \in Sessions /\ Empty \in Fleets
    BY DEF Absent, Sessions, Empty, Fleets
  <1>2. \A S : (S \subseteq Ids) => [i \in Ids |-> IF i \in S THEN Absent ELSE fleet[i]] \in Fleets
    BY <1>1 DEF FeedTyped, Fleets
  <1>3. [i \in Ids |-> IF fleet[i] = retained[i] THEN Absent ELSE fleet[i]] \in Fleets
    BY <1>1 DEF FeedTyped, Fleets
  <1> QED
    BY <1>1, <1>3 DEF FeedTyped, ReadProjection

LEMMA SessionMoves ==
    ASSUME FeedTyped, NEW i, NEW r \in Sessions
    PROVE  [fleet EXCEPT ![i] = r] \in Fleets
  BY DEF FeedTyped, Fleets

LEMMA EnvironmentFresh ==
    ASSUME FeedInv, Environment
    PROVE  FeedInv' /\ wire' = wire
  <1>1. PICK i \in Ids : Exits(i) \/ Resumed(i) \/ Deleted(i) \/ Launched(i) \/ Replies(i)
    BY DEF Environment
  <1>2. fleet[i] \in Sessions
    BY DEF FeedInv, FeedTyped, Fleets
  <1>3. PICK r \in Sessions : BrokerMoves(i, r)
    <2>1. Absent \in Sessions /\ [st |-> "live", turns |-> 1, text |-> 1] \in Sessions
      BY DEF Absent, Sessions
    <2>2. /\ \A st \in {"live", "exited"} : [fleet[i] EXCEPT !.st = st] \in Sessions
          /\ [fleet[i] EXCEPT !.turns = @ + 1, !.text = @ + 1] \in Sessions
      <3>1. ASSUME NEW r \in Sessions, NEW st \in {"live", "exited"}
            PROVE  [r EXCEPT !.st = st] \in Sessions
        BY DEF Sessions
      <3>2. ASSUME NEW r \in Sessions
            PROVE  [r EXCEPT !.turns = @ + 1, !.text = @ + 1] \in Sessions
        <4>1. r.turns + 1 \in Nat /\ r.text + 1 \in Nat
          BY DEF Sessions
        <4> QED
          BY <4>1, \A n, m \in Nat : [r EXCEPT !.turns = n, !.text = m] \in Sessions DEF Sessions
      <3> QED
        BY <1>2, <3>1, <3>2
    <2>3. \/ \E st \in {"live", "exited"} : BrokerMoves(i, [fleet[i] EXCEPT !.st = st])
          \/ BrokerMoves(i, Absent) \/ BrokerMoves(i, [st |-> "live", turns |-> 1, text |-> 1])
          \/ BrokerMoves(i, [fleet[i] EXCEPT !.turns = @ + 1, !.text = @ + 1])
      BY <1>1 DEF Exits, Resumed, Deleted, Launched, Replies
    <2> QED
      BY <2>1, <2>2, <2>3
  <1>4. fleet' \in Fleets /\ fleetMoves' = fleetMoves + 1 /\ UNCHANGED <<retained, feed, wire, busy, asOf>>
    BY <1>3, SessionMoves DEF BrokerMoves, ghosts, FeedInv
  <1> QED
    BY <1>4 DEF FeedInv, FeedTyped, ReplyIsNews, Timely

LEMMA RefreshFresh ==
    ASSUME FeedInv, RefreshFeed
    PROVE  FeedInv' /\ wire = None
  <1> DEFINE reply == ReadProjection(feed.version)
             removed == {i \in Ids : reply.kind = "delta" /\ retained[i].st # "absent" /\ fleet[i].st = "absent"}
  <1>1. reply \in [kind : {"full", "unchanged", "delta"}, version : Fleets, upsert : Fleets]
    BY ProjectionIsAReply DEF FeedInv
  <1>2. wire = None /\ wire' = [reply |-> reply, base |-> feed.version, stale |-> FALSE, at |-> fleetMoves, removed |-> removed]
    BY DEF RefreshFeed
  <1>3. retained' = fleet /\ UNCHANGED <<fleet, fleetMoves, feed, busy, asOf>>
    BY DEF RefreshFeed, broker, ghosts
  <1>4. removed \in SUBSET Ids
    OBVIOUS
  <1> HIDE DEF reply, removed
  <1>5. wire' \in SnapshotReplies /\ wire'.at = fleetMoves
    BY <1>1, <1>2, <1>4 DEF SnapshotReplies, FeedInv, FeedTyped
  <1>6. FeedTyped'
    BY <1>3 DEF FeedInv, FeedTyped, Timely
  <1> QED
    BY <1>2, <1>3, <1>5, <1>6 DEF FeedInv, FeedTyped, ReplyIsNews, Timely

\* What is received was read after the snapshot in hand.
LEMMA ReceiveFresh ==
    ASSUME FeedInv, Receive
    PROVE  FeedInv' /\ asOf'.feed >= asOf.feed
  <1>1. wire # None /\ wire' = None /\ UNCHANGED <<fleet, fleetMoves, retained, busy>>
    BY DEF Receive, broker
  <1>2. wire \in SnapshotReplies /\ Timely(wire.at) /\ (~wire.stale => asOf.feed <= wire.at)
    BY <1>1 DEF FeedInv, ReplyIsNews
  <1>3. wire.reply.version \in Fleets
    BY <1>2 DEF SnapshotReplies
  <1>4. \/ feed' = feed /\ asOf' = asOf
        \/ feed' = [feed EXCEPT !.version = None] /\ asOf' = asOf
        \/ /\ feed' = [feed EXCEPT !.snap = Applied(wire), !.version = wire.reply.version]
           /\ asOf' = [asOf EXCEPT !.feed = wire.at] /\ ~wire.stale
    BY DEF Receive
  <1>5. "version" \in DOMAIN feed' /\ feed'.version \in Fleets \cup {None}
    BY <1>3, <1>4 DEF FeedInv, FeedTyped
  <1>6. DOMAIN asOf' = {"feed", "snap"} /\ Timely(asOf'.feed) /\ asOf'.snap = asOf.snap /\ asOf'.feed >= asOf.feed
    BY <1>2, <1>4 DEF FeedInv, FeedTyped, Timely
  <1> QED
    BY <1>1, <1>5, <1>6 DEF FeedInv, FeedTyped, ReplyIsNews, Timely

LEMMA ConnectionFresh ==
    ASSUME FeedInv, Disconnect \/ Reconnect
    PROVE  FeedInv' /\ asOf' = asOf
  <1>1. UNCHANGED <<fleet, fleetMoves, busy, asOf>> /\ retained' \in {retained, None} /\ wire' \in {wire, None}
    BY DEF Disconnect, Reconnect, broker, ghosts
  <1>2. "version" \in DOMAIN feed' /\ feed'.version = None
    BY DEF Disconnect, Reconnect, FeedInv, FeedTyped
  <1> QED
    BY <1>1, <1>2 DEF FeedInv, FeedTyped, ReplyIsNews, Timely

LEMMA FrameHolds ==
    ASSUME FeedInv, Frame \/ ConfirmationExpires
    PROVE  Holds
  <1>1. CASE Frame
    BY <1>1 DEF Frame, FeedInv, FeedTyped, Holds, broker
  <1>2. CASE ConfirmationExpires
    <2>1. busy # None => busy' = [busy EXCEPT !.ui = Aged(busy.ui)]
      BY <1>2 DEF ConfirmationExpires
    <2>2. busy # None => "at" \in DOMAIN busy' /\ busy'.at = busy.at
      BY <2>1 DEF FeedInv, FeedTyped
    <2>3. busy = None => busy' = None
      BY <1>2 DEF ConfirmationExpires
    <2> QED
      BY <1>2, <2>2, <2>3 DEF ConfirmationExpires, FeedInv, FeedTyped, Holds, broker
  <1> QED
    BY <1>1, <1>2

LEMMA ActionHolds ==
    ASSUME NEW kind, NEW i
    PROVE  "at" \in DOMAIN Action(kind, i) /\ Action(kind, i).at = asOf.snap
  BY DEF Action

LEMMA SentHolds ==
    ASSUME FeedInv, NEW kind, NEW i, NEW u, Sends(kind, i, u)
    PROVE  Holds
  BY ActionHolds DEF Sends, FeedInv, FeedTyped, Holds, broker

LEMMA KeyHolds ==
    ASSUME FeedInv, Keys, ~CtrlC
    PROVE  Holds
  <1>1. CASE FoldHistory
    BY <1>1 DEF FoldHistory, PressesKey, FeedInv, FeedTyped, Holds, broker
  <1>2. CASE CtrlX
    BY <1>2, SentHolds DEF CtrlX, FeedInv, FeedTyped, Holds, broker
  <1>3. CASE OpenPicker
    BY <1>3, ActionHolds DEF OpenPicker, FeedInv, FeedTyped, Holds, broker
  <1>4. CASE PickerMove \/ ClosePicker
    BY <1>4 DEF PickerMove, ClosePicker, FeedInv, FeedTyped, Holds, broker
  <1>5. CASE PickerCtrlX
    BY <1>5, SentHolds DEF PickerCtrlX, FeedInv, FeedTyped, Holds, broker
  <1>6. CASE Open
    BY <1>6, SentHolds DEF Open
  <1>7. CASE \E i \in Ids \cup {None} : Navigate(i)
    BY <1>7 DEF Navigate, FeedInv, FeedTyped, Holds, broker
  <1>8. CASE \E kind \in {"refresh", "local"} : OtherAction(kind)
    BY <1>8, SentHolds DEF OtherAction
  <1> QED
    BY <1>1, <1>2, <1>3, <1>4, <1>5, <1>6, <1>7, <1>8 DEF Keys

LEMMA CtrlCFresh ==
    ASSUME FeedInv, CtrlC
    PROVE  FeedInv' /\ asOf' = asOf
  BY DEF CtrlC, FeedInv, FeedTyped, ReplyIsNews, Timely, broker

LEMMA GestureHolds ==
    ASSUME FeedInv, Gesture
    PROVE  Holds
  <1>1. CASE Mark \/ OpenHandoff \/ CloseHandoff \/ BackToRecipient
    BY <1>1 DEF Mark, OpenHandoff, CloseHandoff, BackToRecipient, PressesKey, FeedInv, FeedTyped, Holds, broker
  <1>2. CASE ChooseRecipient
    BY <1>2 DEF ChooseRecipient, FeedInv, FeedTyped, Holds, broker
  <1>3. CASE SendHandoff
    <2>1. busy' = [Action("handoff", None) EXCEPT !.sent = Narrowed.handoff]
      BY <1>3 DEF SendHandoff
    <2>2. "at" \in DOMAIN busy' /\ busy'.at = asOf.snap
      BY <2>1 DEF Action
    <2> QED
      BY <1>3, <2>2 DEF SendHandoff, FeedInv, FeedTyped, Holds, broker
  <1> QED
    BY <1>1, <1>2, <1>3 DEF Gesture

\* An answer replaces the snapshot and fences the reply on its way; an attachment
\* leaves both alone.
LEMMA AnswerFresh ==
    ASSUME FleetConstants, FeedInv, Answers
    PROVE  FeedInv' /\ (wire # None => wire' # None \/ asOf' = asOf)
  <1>1. fleet \in Fleets /\ fleetMoves \in Nat /\ Timely(asOf.feed) /\ (busy # None => Timely(busy.at))
    BY DEF FeedInv, FeedTyped
  <1>2. CASE Answered
    <2>1. Answering(fleetMoves)
      BY <1>1, <1>2, SettledAnswers DEF Answered, broker
    <2> QED
      BY <2>1, AnsweredIsFresh
  <1>3. CASE AnsweredLocally \/ Refused
    <2>1. Answering(busy.at)
      BY <1>1, <1>3, SettledAnswers DEF AnsweredLocally, Refused, broker, Timely
    <2> QED
      BY <2>1, AnsweredIsFresh
  <1>4. CASE AnsweredDelete
    <2>1. fleet' \in Fleets
      <3>1. Absent \in Sessions /\ fleet' = [fleet EXCEPT ![busy.id] = Absent]
        BY <1>4 DEF AnsweredDelete, Absent, Sessions
      <3> QED
        BY <3>1, SessionMoves DEF FeedInv
    <2>2. fleetMoves' = fleetMoves + 1 /\ retained' = retained /\ \E u, s : Settle(u, s, fleetMoves')
      BY <1>4 DEF AnsweredDelete
    <2>3. Answering(fleetMoves')
      BY <1>1, <2>1, <2>2, SettledAnswers
    <2> QED
      BY <2>3, AnsweredIsFresh
  <1>5. CASE AnsweredOpen
    <2>1. fleet' \in Fleets
      BY <1>1, <1>5 DEF AnsweredOpen, Fleets, Sessions
    <2>2. UNCHANGED <<feed, wire, retained, busy, asOf>> /\ fleetMoves' \in {fleetMoves, fleetMoves + 1}
      BY <1>5 DEF AnsweredOpen
    <2> QED
      BY <2>1, <2>2 DEF FeedInv, FeedTyped, ReplyIsNews, Timely
  <1>6. CASE Detached
    <2>1. Answering(asOf.feed)
      BY <1>1, <1>6, SettledAnswers DEF Detached, broker, Timely
    <2> QED
      BY <2>1, AnsweredIsFresh
  <1>7. CASE AnsweredHandoff
    <2>1. Answering(fleetMoves)
      BY <1>1, <1>7, SettledAnswers DEF AnsweredHandoff
    <2> QED
      BY <2>1, AnsweredIsFresh
  <1>8. CASE \E done \in BOOLEAN : Failed(done)
    <2>1. Answering(busy.at)
      BY <1>1, <1>8, SettledAnswers DEF Failed, Timely
    <2> QED
      BY <2>1, AnsweredIsFresh
  <1> QED
    BY <1>2, <1>3, <1>4, <1>5, <1>6, <1>7, <1>8 DEF Answers

LEMMA ReopenFresh ==
    ASSUME FeedInv, Reopen
    PROVE  FeedInv' /\ phase' # phase
  BY DEF Reopen, FeedInv, FeedTyped, ReplyIsNews, Timely, broker

LEMMA FleetStart ==
    ASSUME FleetInit
    PROVE  FeedInv
  <1>1. fleet \in Fleets
    BY DEF FleetInit, Fleets, Sessions, Absent
  <1> QED
    BY <1>1 DEF FleetInit, FeedInv, FeedTyped, ReplyIsNews, Timely

LEMMA FleetStep ==
    ASSUME FleetConstants, FeedInv, [FleetNext]_clientVars
    PROVE  FeedInv' /\ (wire # None /\ wire' = None /\ phase' = phase => asOf'.feed >= asOf.feed)
  <1>1. asOf.feed \in Nat
    BY DEF FeedInv, FeedTyped, Timely
  <1>2. CASE Holds
    BY <1>1, <1>2, HeldIsFresh DEF Holds
  <1>3. CASE UNCHANGED clientVars
    BY <1>1, <1>3 DEF clientVars, FeedInv, FeedTyped, ReplyIsNews, Timely
  <1>4. CASE Environment
    BY <1>4, EnvironmentFresh
  <1>5. CASE Feed
    BY <1>1, <1>5, RefreshFresh, ReceiveFresh, ConnectionFresh DEF Feed
  <1>6. CASE Answers
    BY <1>1, <1>6, AnswerFresh
  <1>7. CASE CtrlC
    BY <1>1, <1>7, CtrlCFresh
  <1>8. CASE Reopen
    BY <1>8, ReopenFresh
  <1> QED
    BY <1>2, <1>3, <1>4, <1>5, <1>6, <1>7, <1>8, FrameHolds, KeyHolds, GestureHolds DEF FleetNext, Finished

\* For any fleet and any bounds, a reply of the broker never replaces a snapshot of
\* the client that is newer than it: what is not fenced was read later
\* (ReplyNeverRewinds of client/fleet/snapshot-feed.ts).
THEOREM FleetReplyNeverRewinds == FleetSpec => ReplyNeverRewinds
  <1>1. FleetInit => FeedInv
    BY FleetStart
  <1>2. FeedInv /\ [FleetNext]_clientVars => FeedInv'
    BY FleetStep, FleetConstants
  <1>3. FeedInv /\ [FleetNext]_clientVars
          => [wire # None /\ wire' = None /\ phase' = phase => asOf'.feed >= asOf.feed]_clientVars
    BY FleetStep, FleetConstants
  <1> QED
    BY <1>1, <1>2, <1>3, PTL DEF FleetSpec, ReplyNeverRewinds

=============================================================================
