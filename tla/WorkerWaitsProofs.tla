------------------------- MODULE WorkerWaitsProofs -------------------------
(***************************************************************************)
(* Type correctness, DeliveredStays and NoSettledWaitHangs of WorkerWaits, *)
(* for any workers, Scouts, number of turns and retained receipts.         *)
(*                                                                         *)
(* Neither property is inductive.  A delivered result stays because a      *)
(* receipt is never ahead of the turns done, is delivered only when its    *)
(* turn was not cut, and because a Scout with a receipt has its verdict;   *)
(* of what was handed over before a restart the receipt keeps only that.   *)
(* A wait does not hang because what it has not cached of a worker, its    *)
(* stall apart, is scheduled or comes with an exit that is still due.      *)
(***************************************************************************)
EXTENDS WorkerWaits, TLAPS

Receipt == [cut : BOOLEAN, told : BOOLEAN]
Ledgers == UNION {[S -> Receipt] : S \in SUBSET (Nat \ {0})}

WorkerRecord ==
    [proc : {"live", "finalizing", "gone"},
     exec : {"active", "errored", "lost", "cancelled", "failed", "exited"},
     stop : BOOLEAN, limit : BOOLEAN,
     scout : {"none", "exhausting", "budget_exhausted", "failed", "complete"},
     activity : Activities, surface : Surfaces, pending : BOOLEAN,
     stall : {"no", "startup", "turn"},
     done : Nat, floor : Nat, kept : Ledgers]

Statuses == {"budget_exhausted", "stopped", "completed", "failed", "needs-input", "provider-limit",
             "interrupted", "exited", "stalled", "working", "waiting"}

WaitRecord == [open : BOOLEAN, turn : [Targets -> Nat], cached : [Targets -> Statuses]]

\* What the broker may know of the worker w.
Sound(w, r) ==
    /\ r \in WorkerRecord
    /\ w \notin Scouts => r.scout = "none"
    /\ w \in Scouts /\ DOMAIN r.kept # {} => r.scout = "complete"
    /\ \A t \in DOMAIN r.kept : /\ t \in 1 .. r.done
                                /\ r.kept[t].told => ~r.kept[t].cut
    /\ r.proc = "gone" => r.exec # "active"
    /\ r.proc = "live" /\ r.stop => r.exec # "active"

Tracked(W) == W \in [Targets -> WorkerRecord] /\ \A w \in Targets : Sound(w, W[w])

\* A worker as it would be read had no time passed over its screen.
Calm(r) == [r EXCEPT !.stall = IF @ = "turn" THEN "no" ELSE @]

Due(r) == r.proc = "finalizing" \/ (r.proc = "live" /\ r.exec # "active")
          \/ (r.proc = "live" /\ r.scout = "complete")

\* What an open wait has cached of w is not behind what was announced.
Cached(w) ==
    IsSettled(Reading(Calm(worker[w]), wait.turn[w]))
        => IsSettled(wait.cached[w]) \/ w \in flush \/ Due(worker[w])

TypeOK ==
    /\ worker \in [Targets -> WorkerRecord]
    /\ wait \in WaitRecord
    /\ flush \subseteq Targets
    /\ moves \in 0 .. MaxMoves

\* What the receipts r keeps of what was handed over: such a turn was not cut, and the
\* broker that handed it over knows that.
Recalls(r, g) ==
    /\ g.here \cup g.earlier \subseteq 0 .. r.done
    /\ \A t \in DOMAIN r.kept : /\ t \in g.here => r.kept[t].told
                                /\ t \in g.earlier => ~r.kept[t].cut

History == [here : SUBSET Nat, earlier : SUBSET Nat]

Remembered ==
    /\ given \in [Targets -> History]
    /\ \A w \in Targets : Recalls(worker[w], given[w])

Inv ==
    /\ TypeOK
    /\ Tracked(worker)
    /\ wait.open => /\ \E w \in Targets : ~IsSettled(wait.cached[w])
                    /\ \A w \in Targets : Cached(w)

-----------------------------------------------------------------------------
\* What is read of a worker is a status of the protocol, and "completed" only for
\* a retained turn that was not cut.
LEMMA ReadingStatus ==
    ASSUME NEW r \in WorkerRecord, NEW t
    PROVE  /\ Reading(r, t) \in Statuses
           /\ Reading(r, t) = "completed" => /\ Answered(r, t) /\ ~r.kept[t].cut
                                             /\ r.scout \notin {"exhausting", "budget_exhausted"}
  <1>1. \A state : /\ WaitReading(state) \in Statuses
                   /\ WaitReading(state) # "completed"
    BY DEF WaitReading, Statuses
  <1> DEFINE cut == t \in DOMAIN r.kept /\ r.kept[t].cut
  <1>2. CASE r.scout \in {"exhausting", "budget_exhausted"}
    BY <1>2 DEF Reading, Statuses
  <1>3. CASE r.scout \notin {"exhausting", "budget_exhausted"} /\ cut
    BY <1>3 DEF Reading, Statuses
  <1>4. CASE r.scout \notin {"exhausting", "budget_exhausted"} /\ ~cut /\ Answered(r, t)
    BY <1>4 DEF Reading, Statuses, Answered
  <1>5. CASE r.scout \notin {"exhausting", "budget_exhausted"} /\ ~cut /\ ~Answered(r, t)
    BY <1>1, <1>5 DEF Reading
  <1> QED BY <1>2, <1>3, <1>4, <1>5

\* A delivered receipt outranks whatever else is known of the worker.
LEMMA ToldIsCompleted ==
    ASSUME NEW w, NEW r, Sound(w, r), NEW t \in DOMAIN r.kept, r.kept[t].told
    PROVE  Reading(r, t) = "completed"
  <1>1. /\ r.done \in Nat /\ t \in 1 .. r.done
        /\ ~r.kept[t].cut
        /\ r.scout \notin {"exhausting", "budget_exhausted"}
    BY DEF Sound, WorkerRecord
  <1> QED BY <1>1 DEF Reading, Answered

\* And so does one that nothing the worker was told since could hide.
LEMMA KeptIsCompleted ==
    ASSUME NEW w, NEW r, Sound(w, r), NEW t \in DOMAIN r.kept, ~r.kept[t].cut, t > r.floor
    PROVE  Reading(r, t) = "completed"
  <1>1. /\ r.done \in Nat /\ t \in 1 .. r.done
        /\ r.scout \notin {"exhausting", "budget_exhausted"}
    BY DEF Sound, WorkerRecord
  <1> QED BY <1>1 DEF Reading, Answered

\* A ledger is a function of turns to receipts, whatever its domain.
LEMMA LedgerIs ==
    ASSUME NEW k, NEW S \in SUBSET (Nat \ {0}), k \in [S -> Receipt]
    PROVE  k \in Ledgers
  BY DEF Ledgers

LEMMA LedgerOf ==
    ASSUME NEW k \in Ledgers
    PROVE  /\ DOMAIN k \in SUBSET (Nat \ {0})
           /\ k \in [DOMAIN k -> Receipt]
  BY DEF Ledgers

\* Handing a completed result over.
LEMMA DeliveryIsSound ==
    ASSUME NEW w, NEW r, Sound(w, r), NEW t, Reading(r, t) = "completed"
    PROVE  Sound(w, [r EXCEPT !.kept[t].told = TRUE])
  <1> DEFINE k == [r.kept EXCEPT ![t].told = TRUE]
             q == [r EXCEPT !.kept[t].told = TRUE]
  <1>1. r \in WorkerRecord /\ r.kept \in Ledgers
    BY DEF Sound, WorkerRecord
  <1>2. t \in DOMAIN r.kept /\ ~r.kept[t].cut
    BY <1>1, ReadingStatus DEF Answered
  <1>3. /\ r.kept[t] \in Receipt
        /\ k \in [DOMAIN r.kept -> Receipt]
        /\ DOMAIN k = DOMAIN r.kept
        /\ k[t].cut = r.kept[t].cut
        /\ \A u \in DOMAIN k : u # t => k[u] = r.kept[u]
    <2> DEFINE told == [r.kept[t] EXCEPT !.told = TRUE]
    <2>1. r.kept \in [DOMAIN r.kept -> Receipt] /\ r.kept[t] \in Receipt
      BY <1>1, <1>2, LedgerOf
    <2>2. told \in Receipt /\ told.cut = r.kept[t].cut
      BY <2>1 DEF Receipt
    <2>3. k = [r.kept EXCEPT ![t] = told]
      OBVIOUS
    <2> HIDE DEF told, k
    <2> QED BY <1>2, <2>1, <2>2, <2>3
  <1>4. k \in Ledgers
    BY <1>1, <1>3, LedgerOf, LedgerIs
  <1>5. q = [r EXCEPT !.kept = k]
    BY <1>1 DEF WorkerRecord
  <1> HIDE DEF k, q
  <1>6. /\ q \in WorkerRecord
        /\ q.kept = k /\ q.scout = r.scout /\ q.done = r.done
        /\ q.proc = r.proc /\ q.exec = r.exec /\ q.stop = r.stop
    BY <1>1, <1>4, <1>5 DEF WorkerRecord
  <1>7. \A u \in DOMAIN k : u \in 1 .. r.done /\ (k[u].told => ~k[u].cut)
    BY <1>2, <1>3 DEF Sound
  <1>8. Sound(w, q)
    BY <1>3, <1>6, <1>7 DEF Sound
  <1> QED BY <1>8 DEF q

\* A turn is recorded: only the newest receipts are kept.
LEMMA RecordedIsSound ==
    ASSUME WaitsConstants, NEW w, NEW r, Sound(w, r), NEW cut \in BOOLEAN
    PROVE  LET q == Recorded(r, cut) IN
           /\ q \in WorkerRecord
           /\ \A t \in DOMAIN q.kept : t \in 1 .. q.done /\ (q.kept[t].told => ~q.kept[t].cut)
           /\ q = [r EXCEPT !.done = q.done, !.kept = q.kept]
           /\ w \notin Scouts => Sound(w, q)
  <1> DEFINE S == {u \in DOMAIN r.kept \cup {r.done + 1} : u + Retained > r.done + 1}
             k == [t \in S |-> IF t = r.done + 1 THEN [cut |-> cut, told |-> FALSE] ELSE r.kept[t]]
             q == Recorded(r, cut)
  <1>1. /\ r \in WorkerRecord /\ r.kept \in Ledgers /\ r.done \in Nat
        /\ DOMAIN r.kept \in SUBSET (Nat \ {0}) /\ r.kept \in [DOMAIN r.kept -> Receipt]
    BY LedgerOf DEF Sound, WorkerRecord
  <1>2. S \in SUBSET (Nat \ {0})
    BY <1>1
  <1>3. k \in [S -> Receipt]
    BY <1>1 DEF Receipt
  <1>4. k \in Ledgers
    BY <1>2, <1>3, LedgerIs
  <1>5. \A t \in DOMAIN k : t \in 1 .. r.done + 1 /\ (k[t].told => ~k[t].cut)
    BY <1>1 DEF Sound
  <1>6. q = [r EXCEPT !.done = r.done + 1, !.kept = k]
    BY DEF Recorded
  <1> HIDE DEF S, k, q
  <1>7. /\ q \in WorkerRecord
        /\ q.done = r.done + 1 /\ q.kept = k /\ q.scout = r.scout
        /\ q.proc = r.proc /\ q.exec = r.exec /\ q.stop = r.stop
    <2> DEFINE d == r.done + 1
    <2>1. d \in Nat /\ q = [r EXCEPT !.done = d, !.kept = k]
      BY <1>1, <1>6
    <2> HIDE DEF d
    <2>2. q \in WorkerRecord /\ q.done = d /\ q.kept = k
      BY <1>1, <1>4, <2>1 DEF WorkerRecord
    <2>3. q.scout = r.scout /\ q.proc = r.proc /\ q.exec = r.exec /\ q.stop = r.stop
      BY <1>1, <2>1 DEF WorkerRecord
    <2> QED BY <2>2, <2>3 DEF d
  <1>8. q = [r EXCEPT !.done = q.done, !.kept = q.kept]
    BY <1>6, <1>7
  <1>9. w \notin Scouts => Sound(w, q)
    BY <1>5, <1>7 DEF Sound
  <1> QED BY <1>5, <1>7, <1>8, <1>9 DEF q

-----------------------------------------------------------------------------
\* A stall only adds a status that settles.
LEMMA CalmReading ==
    ASSUME NEW r \in WorkerRecord, NEW t, IsSettled(Reading(Calm(r), t))
    PROVE  IsSettled(Reading(r, t))
  <1> DEFINE q == Calm(r)
  <1>1. /\ q.proc = r.proc /\ q.exec = r.exec /\ q.stop = r.stop /\ q.limit = r.limit
        /\ q.scout = r.scout /\ q.activity = r.activity /\ q.surface = r.surface
        /\ q.pending = r.pending /\ q.done = r.done /\ q.floor = r.floor /\ q.kept = r.kept
        /\ q.stall = IF r.stall = "turn" THEN "no" ELSE r.stall
    BY DEF Calm, WorkerRecord
  <1> HIDE DEF q
  <1>2. Answered(q, t) = Answered(r, t)
    BY <1>1 DEF Answered
  <1>3. Truth(r) = Truth(q) \/ Truth(r) = "stalled"
    BY <1>1 DEF Truth
  <1>4. IsSettled(WaitReading("stalled"))
    BY DEF WaitReading, IsSettled
  <1>5. IsSettled(WaitReading(Truth(q))) => IsSettled(WaitReading(Truth(r)))
    BY <1>3, <1>4
  <1>6. IsSettled(Reading(q, t))
    BY DEF q
  <1> QED BY <1>1, <1>2, <1>5, <1>6 DEF Reading

LEMMA HandedIsSound ==
    ASSUME NEW turn, NEW W, Tracked(W)
    PROVE  Tracked(Handed(W, turn))
  <1> SUFFICES ASSUME NEW w \in Targets PROVE Sound(w, Handed(W, turn)[w])
    BY DEF Tracked, Handed, Sound
  <1>1. Sound(w, W[w])
    BY DEF Tracked
  <1> QED BY <1>1, DeliveryIsSound DEF Handed

\* The state of w replaced by r.
LEMMA WithIsTracked ==
    ASSUME Inv, NEW w \in Targets, NEW r, Sound(w, r)
    PROVE  Tracked(With(w, r))
  BY DEF Inv, Tracked, With, Sound

\* An announcement caches what it reads, or ends the wait.
LEMMA AnnounceKeepsInv ==
    ASSUME Inv, NEW w \in Targets, NEW r, Sound(w, r),
           Announce(w, With(w, r)), moves' \in 0 .. MaxMoves
    PROVE  Inv'
  <1> DEFINE W == With(w, r)
             cached == [wait.cached EXCEPT ![w] = Reading(W[w], wait.turn[w])]
             over == wait.open /\ \A v \in Targets : IsSettled(cached[v])
  <1>1. /\ wait \in WaitRecord /\ worker \in [Targets -> WorkerRecord] /\ flush \subseteq Targets
        /\ r \in WorkerRecord /\ W[w] = r /\ \A v \in Targets \ {w} : W[v] = worker[v]
        /\ Tracked(W)
    BY WithIsTracked DEF Inv, TypeOK, Sound, With
  <1>2. cached \in [Targets -> Statuses]
    BY <1>1, ReadingStatus DEF WaitRecord
  <1>3. /\ flush' = flush \ {w}
        /\ worker' = IF over THEN Handed(W, wait.turn) ELSE W
        /\ wait' = IF over THEN Closed ELSE IF wait.open THEN [wait EXCEPT !.cached = cached] ELSE wait
    BY DEF Announce, Answers
  <1> HIDE DEF W, over
  <1>4. Tracked(worker')
    BY <1>1, <1>3, HandedIsSound
  <1>5. Closed \in WaitRecord /\ ~Closed.open
    BY DEF Closed, WaitRecord, Statuses
  <1>6. worker' \in [Targets -> WorkerRecord] /\ flush' \subseteq Targets
    BY <1>1, <1>3, <1>4 DEF Tracked
  <1>7. CASE over \/ ~wait.open
    <2>1. wait' \in WaitRecord /\ ~wait'.open
      BY <1>1, <1>3, <1>5, <1>7 DEF over
    <2> QED BY <1>4, <1>6, <2>1 DEF Inv, TypeOK
  <1>8. CASE ~over /\ wait.open
    <2>1. worker' = W /\ wait' = [wait EXCEPT !.cached = cached]
      BY <1>3, <1>8
    <2>2. /\ wait' \in WaitRecord /\ wait'.cached = cached
          /\ wait'.turn = wait.turn /\ wait'.open
      BY <1>1, <1>2, <1>8, <2>1 DEF WaitRecord
    <2>3. \E v \in Targets : ~IsSettled(wait'.cached[v])
      BY <1>8, <2>2 DEF over
    <2>4. ASSUME NEW v \in Targets PROVE Cached(v)'
      <3>1. CASE v = w
        <4>1. wait'.cached[v] = Reading(r, wait.turn[w])
          BY <1>1, <2>2, <3>1 DEF WaitRecord
        <4>2. worker'[v] = r
          BY <1>1, <2>1, <3>1
        <4> QED BY <1>1, <2>2, <3>1, <4>1, <4>2, CalmReading DEF Cached
      <3>2. CASE v # w
        <4>1. worker'[v] = worker[v] /\ wait'.cached[v] = wait.cached[v]
          BY <1>1, <2>1, <2>2, <3>2 DEF WaitRecord
        <4>2. Cached(v)
          BY <1>8 DEF Inv
        <4> QED BY <1>3, <2>2, <3>2, <4>1, <4>2 DEF Cached
      <3> QED BY <3>1, <3>2
    <2> QED BY <1>4, <1>6, <2>2, <2>3, <2>4 DEF Inv, TypeOK
  <1> QED BY <1>7, <1>8

\* What is not announced is scheduled, or changes nothing a wait would settle on,
\* or comes with an exit that is due.
LEMMA QuietKeepsInv ==
    ASSUME Inv, NEW w \in Targets, NEW r, Sound(w, r), moves' \in 0 .. MaxMoves,
           worker' = With(w, r), wait' = wait, flush' \in {flush, flush \cup {w}},
           \/ w \in flush'
           \/ /\ Due(worker[w]) => Due(r)
              /\ \A t \in Nat : IsSettled(Reading(Calm(r), t))
                                   => Due(r) \/ IsSettled(Reading(Calm(worker[w]), t))
    PROVE  Inv'
  <1>1. /\ Tracked(worker') /\ worker' \in [Targets -> WorkerRecord]
        /\ worker'[w] = r /\ \A v \in Targets \ {w} : worker'[v] = worker[v]
    BY WithIsTracked DEF Inv, TypeOK, Tracked, With
  <1>2. TypeOK'
    BY <1>1 DEF Inv, TypeOK
  <1>3. ASSUME wait.open, NEW v \in Targets PROVE Cached(v)'
    <2>1. Cached(v) /\ wait.turn[v] \in Nat
      BY <1>3 DEF Inv, TypeOK, WaitRecord
    <2>2. CASE v = w
      BY <1>1, <2>1, <2>2 DEF Cached
    <2>3. CASE v # w
      BY <1>1, <2>1, <2>3 DEF Cached
    <2> QED BY <2>2, <2>3
  <1> QED BY <1>1, <1>2, <1>3 DEF Inv

-----------------------------------------------------------------------------
LEMMA InitInv == WaitsConstants /\ Init => Inv
  <1> SUFFICES ASSUME WaitsConstants, Init PROVE Inv
    OBVIOUS
  <1> DEFINE none == [t \in {} |-> [cut |-> FALSE, told |-> FALSE]]
  <1>1. none \in Ledgers /\ DOMAIN none = {}
    <2>1. none \in [{} -> Receipt]
      OBVIOUS
    <2> QED BY <2>1, LedgerIs
  <1>2. ASSUME NEW w \in Targets PROVE Sound(w, Started(w))
    <2> HIDE DEF none
    <2>1. Started(w) \in WorkerRecord /\ Started(w).kept = none
      BY <1>1 DEF Started, WorkerRecord, Activities, Surfaces, none
    <2>2. /\ Started(w).scout = "none" /\ Started(w).proc = "live" /\ ~Started(w).stop
          /\ Started(w).exec = "active"
      BY DEF Started
    <2> QED BY <1>1, <2>1, <2>2 DEF Sound
  <1>3. Closed \in WaitRecord /\ ~Closed.open
    BY DEF Closed, WaitRecord, Statuses
  <1>4. Tracked(worker)
    BY <1>2 DEF Init, Tracked, Sound
  <1> QED BY <1>3, <1>4 DEF Init, Inv, TypeOK, Tracked, WaitsConstants

\* Opening a wait, or answering it, hands over what has completed.
LEMMA WaitStepsKeepInv ==
    ASSUME Inv
    PROVE  /\ \A turn \in [Targets -> Turn] : Open(turn) => Inv'
           /\ TimeOut => Inv'
           /\ \A w \in Targets : FlushUpdates(w) => Inv'
  <1>1. /\ wait \in WaitRecord /\ worker \in [Targets -> WorkerRecord] /\ Tracked(worker)
        /\ Closed \in WaitRecord /\ ~Closed.open
    BY DEF Inv, TypeOK, Closed, WaitRecord, Statuses
  <1>2. ASSUME NEW turn \in [Targets -> Turn], Open(turn) PROVE Inv'
    <2> DEFINE cached == [w \in Targets |-> Reading(worker[w], turn[w])]
    <2>1. CASE \A w \in Targets : IsSettled(cached[w])
      <3>1. /\ wait' = wait /\ ~wait.open /\ flush' = flush /\ moves' = moves
            /\ worker' = Handed(worker, turn)
        BY <1>2, <2>1 DEF Open, Answers
      <3>2. Tracked(worker')
        BY <1>1, <3>1, HandedIsSound
      <3> QED BY <3>1, <3>2 DEF Inv, TypeOK, Tracked
    <2>2. CASE ~ \A w \in Targets : IsSettled(cached[w])
      <3>1. /\ wait' = [open |-> TRUE, turn |-> turn, cached |-> cached]
            /\ flush' = flush /\ moves' = moves /\ worker' = worker
        BY <1>2, <2>2 DEF Open
      <3>2. cached \in [Targets -> Statuses] /\ turn \in [Targets -> Nat]
        BY <1>1, ReadingStatus DEF Turn
      <3>3. wait' \in WaitRecord
        BY <3>1, <3>2 DEF WaitRecord
      <3>4. ASSUME NEW w \in Targets PROVE Cached(w)'
        BY <1>1, <3>1, CalmReading DEF Cached
      <3> QED BY <2>2, <3>1, <3>3, <3>4 DEF Inv, TypeOK, Tracked
    <2> QED BY <2>1, <2>2
  <1>3. ASSUME TimeOut PROVE Inv'
    <2>1. Tracked(worker')
      BY <1>1, <1>3, HandedIsSound DEF TimeOut, Answers
    <2> QED BY <1>1, <1>3, <2>1 DEF TimeOut, Inv, TypeOK, Tracked
  <1>4. ASSUME NEW w \in Targets, FlushUpdates(w) PROVE Inv'
    <2>1. Announce(w, With(w, worker[w])) /\ Sound(w, worker[w])
      BY <1>1, <1>4 DEF FlushUpdates, With, Tracked
    <2>2. moves' \in 0 .. MaxMoves
      BY <1>4 DEF FlushUpdates, Inv, TypeOK
    <2> QED BY <2>1, <2>2, AnnounceKeepsInv
  <1> QED BY <1>2, <1>3, <1>4

LEMMA MoveIsBounded ==
    ASSUME WaitsConstants, Inv, Move \/ UNCHANGED moves
    PROVE  moves' \in 0 .. MaxMoves
  BY DEF WaitsConstants, Inv, TypeOK, Move

\* What a worker shows, what its provider says and what it is told.
LEMMA WorkerMovesKeepInv ==
    ASSUME WaitsConstants, Inv, NEW w \in Targets
    PROVE  /\ \A a \in Activities, s \in Surfaces : Output(w, a, s) => Inv'
           /\ StallTurn(w) => Inv'
           /\ StallStartup(w) => Inv'
           /\ \A floor \in 0 .. MaxTurns : Instruct(w, floor) => Inv'
           /\ \A b \in BOOLEAN : BankTurn(w, b) => Inv'
           /\ \A b \in BOOLEAN : Fatal(w, b) => Inv'
  <1>0. Sound(w, worker[w]) /\ worker[w] \in WorkerRecord
    BY DEF Inv, Tracked, Sound
  <1>1. ASSUME NEW a \in Activities, NEW s \in Surfaces, Output(w, a, s) PROVE Inv'
    <2> DEFINE r == [worker[w] EXCEPT !.activity = a, !.surface = s, !.stall = "no",
                                !.pending = @ /\ ~(s = "ready" /\ a # "working")]
    <2>1. Sound(w, r)
      BY <1>0 DEF Sound, WorkerRecord
    <2>2. worker' = With(w, r) /\ wait' = wait /\ flush' = flush \cup {w} /\ w \in flush'
      BY <1>1 DEF Output, Schedule
    <2>3. moves' \in 0 .. MaxMoves
      BY <1>1, MoveIsBounded DEF Output
    <2> HIDE DEF r
    <2> QED BY <2>1, <2>2, <2>3, QuietKeepsInv
  <1>2. ASSUME StallTurn(w) PROVE Inv'
    <2> DEFINE r == [worker[w] EXCEPT !.stall = "turn"]
    <2>1. Sound(w, r)
      BY <1>0 DEF Sound, WorkerRecord
    <2>2. worker' = With(w, r) /\ wait' = wait /\ flush' = flush /\ worker[w].stall = "no"
      BY <1>2 DEF StallTurn, Silently
    <2>3. moves' \in 0 .. MaxMoves
      BY <1>2, MoveIsBounded DEF StallTurn
    <2>4. Calm(r) = Calm(worker[w])
      BY <1>0, <2>2 DEF Calm, WorkerRecord
    <2>5. Due(worker[w]) => Due(r)
      BY <1>0 DEF Due, WorkerRecord
    <2> HIDE DEF r
    <2> QED BY <2>1, <2>2, <2>3, <2>4, <2>5, QuietKeepsInv
  <1>3. ASSUME StallStartup(w) PROVE Inv'
    <2> DEFINE r == [worker[w] EXCEPT !.stall = "startup"]
    <2>1. Sound(w, r)
      BY <1>0 DEF Sound, WorkerRecord
    <2>2. Announce(w, With(w, r))
      BY <1>3 DEF StallStartup
    <2>3. moves' \in 0 .. MaxMoves
      BY <1>3, MoveIsBounded DEF StallStartup
    <2> HIDE DEF r
    <2> QED BY <2>1, <2>2, <2>3, AnnounceKeepsInv
  <1>4. ASSUME NEW floor \in 0 .. MaxTurns, Instruct(w, floor) PROVE Inv'
    <2> DEFINE r == [worker[w] EXCEPT !.floor = floor, !.stall = "no"]
    <2>1. /\ Running(w) /\ w \notin Scouts /\ worker' = With(w, r) /\ wait' = wait /\ flush' = flush
          /\ floor \in {worker[w].done, worker[w].done + 1}
      BY <1>4 DEF Instruct, Silently
    <2>2. /\ r \in WorkerRecord /\ r.floor = floor /\ r.stall = "no"
          /\ r.proc = worker[w].proc /\ r.exec = worker[w].exec /\ r.stop = worker[w].stop
          /\ r.limit = worker[w].limit /\ r.scout = worker[w].scout /\ r.kept = worker[w].kept
          /\ r.activity = worker[w].activity /\ r.surface = worker[w].surface
          /\ r.pending = worker[w].pending /\ r.done = worker[w].done
      <3>1. floor \in Nat
        BY DEF WaitsConstants
      <3> QED BY <1>0, <3>1 DEF WorkerRecord
    <2> HIDE DEF r
    <2>3. Sound(w, r)
      BY <1>0, <2>2 DEF Sound
    <2>4. moves' \in 0 .. MaxMoves
      BY <1>4, MoveIsBounded DEF Instruct
    <2>5. Due(worker[w]) => Due(r)
      BY <2>2 DEF Due
    <2>6. ASSUME NEW t \in Nat, IsSettled(Reading(Calm(r), t))
          PROVE  IsSettled(Reading(Calm(worker[w]), t))
      <3> DEFINE p == Calm(worker[w])
                 q == Calm(r)
      <3>1. /\ q.proc = p.proc /\ q.exec = p.exec /\ q.stop = p.stop /\ q.limit = p.limit
            /\ q.scout = p.scout /\ q.activity = p.activity /\ q.surface = p.surface
            /\ q.pending = p.pending /\ q.done = p.done /\ q.kept = p.kept
            /\ q.stall = "no" /\ p.stall \in {"no", "startup"}
            /\ q.floor = floor /\ p.done = worker[w].done
        BY <1>0, <2>2 DEF Calm, WorkerRecord
      <3>2. p.done \in Nat /\ floor \in Nat /\ floor >= p.done
        BY <1>0, <2>1, <3>1 DEF WorkerRecord
      <3>3. IsSettled(Reading(q, t))
        BY <2>6
      <3> HIDE DEF p, q
      <3>4. Answered(q, t) => Answered(p, t)
        BY <3>1, <3>2 DEF Answered
      <3>5. Truth(q) = Truth(p) \/ Truth(p) = "stalled"
        BY <3>1 DEF Truth
      <3>6. IsSettled(WaitReading("stalled")) /\ IsSettled("completed")
        BY DEF WaitReading, IsSettled
      <3> QED BY <3>1, <3>3, <3>4, <3>5, <3>6 DEF Reading, p
    <2> QED BY <2>1, <2>3, <2>4, <2>5, <2>6, QuietKeepsInv
  <1>5. ASSUME NEW b \in BOOLEAN, BankTurn(w, b) PROVE Inv'
    <2> DEFINE r == Recorded(worker[w], b)
    <2>1. Sound(w, r)
      BY <1>0, <1>5, RecordedIsSound DEF BankTurn
    <2>2. moves' \in 0 .. MaxMoves
      BY <1>5, MoveIsBounded DEF BankTurn
    <2>3. CASE Running(w)
      <3>1. Announce(w, With(w, r))
        BY <1>5, <2>3 DEF BankTurn
      <3> HIDE DEF r
      <3> QED BY <2>1, <2>2, <3>1, AnnounceKeepsInv
    <2>4. CASE ~Running(w)
      <3>1. worker' = With(w, r) /\ wait' = wait /\ flush' = flush /\ w \notin Scouts
        BY <1>5, <2>4 DEF BankTurn, Silently
      <3>2. /\ r.proc = worker[w].proc /\ r.exec = worker[w].exec /\ r.scout = worker[w].scout
        BY <1>0 DEF Recorded, WorkerRecord
      <3> HIDE DEF r
      <3>3. Due(worker[w]) => Due(r)
        BY <3>2 DEF Due
      <3>4. CASE worker[w].proc # "gone"
        <4>1. Due(r)
          BY <1>0, <2>4, <3>2, <3>4 DEF Due, Running, WorkerRecord
        <4> QED BY <2>1, <2>2, <3>1, <3>3, <4>1, QuietKeepsInv
      <3>5. CASE worker[w].proc = "gone"
        <4>1. ASSUME NEW t \in Nat PROVE IsSettled(Reading(Calm(worker[w]), t))
          <5> DEFINE p == Calm(worker[w])
          <5>1. /\ p \in WorkerRecord /\ p.proc = "gone" /\ p.scout = "none" /\ p.exec # "active"
            BY <1>0, <3>1, <3>5 DEF Sound, Calm, WorkerRecord
          <5> HIDE DEF p
          <5>2. Truth(p) \in {"provider-limit", "errored", "interrupted", "stopped", "failed", "exited"}
            BY <5>1 DEF Truth, WorkerRecord
          <5>3. IsSettled(WaitReading(Truth(p))) /\ IsSettled("stopped") /\ IsSettled("completed")
            BY <5>2 DEF WaitReading, IsSettled
          <5>4. IsSettled(Reading(p, t))
            BY <5>1, <5>3 DEF Reading
          <5> QED BY <5>4 DEF p
        <4> QED BY <2>1, <2>2, <3>1, <3>3, <4>1, QuietKeepsInv
      <3> QED BY <3>4, <3>5
    <2> QED BY <2>3, <2>4
  <1>6. ASSUME NEW b \in BOOLEAN, Fatal(w, b) PROVE Inv'
    <2> DEFINE r == [worker[w] EXCEPT !.exec = "errored", !.limit = b, !.activity = "unknown", !.stall = "no"]
    <2>1. Sound(w, r)
      BY <1>0 DEF Sound, WorkerRecord, Activities
    <2>2. Announce(w, With(w, r))
      BY <1>6 DEF Fatal
    <2>3. moves' \in 0 .. MaxMoves
      BY <1>6, MoveIsBounded DEF Fatal
    <2> HIDE DEF r
    <2> QED BY <2>1, <2>2, <2>3, AnnounceKeepsInv
  <1> QED BY <1>1, <1>2, <1>3, <1>4, <1>5, <1>6

\* How a worker ends and begins again.
LEMMA EndingsKeepInv ==
    ASSUME WaitsConstants, Inv, NEW w \in Targets
    PROVE  /\ Stop(w) => Inv'
           /\ \A b \in BOOLEAN : Exit(w, b) => Inv'
           /\ \A b \in BOOLEAN : FinishExit(w, b) => Inv'
           /\ Exhaust(w) => Inv'
           /\ \A b \in BOOLEAN : CutOff(w, b) => Inv'
           /\ \A b \in BOOLEAN : Judge(w, b) => Inv'
           /\ Resume(w) => Inv'
  <1>0. Sound(w, worker[w]) /\ worker[w] \in WorkerRecord
    BY DEF Inv, Tracked, Sound
  <1>1. ASSUME Stop(w) PROVE Inv'
    <2> DEFINE r == [worker[w] EXCEPT !.exec = "cancelled", !.stop = TRUE]
               q == [worker[w] EXCEPT !.stop = TRUE]
    <2>1. moves' \in 0 .. MaxMoves
      BY <1>1, MoveIsBounded DEF Stop
    <2>2. CASE worker[w].proc = "live" /\ Silently(With(w, r))
      <3>1. Sound(w, r) /\ Due(r)
        BY <1>0, <2>2 DEF Sound, WorkerRecord, Due
      <3>2. worker' = With(w, r) /\ wait' = wait /\ flush' = flush
        BY <2>2 DEF Silently
      <3> HIDE DEF r
      <3> QED BY <2>1, <3>1, <3>2, QuietKeepsInv
    <2>3. CASE worker[w].proc = "gone" /\ Announce(w, With(w, q))
      <3>1. Sound(w, q)
        BY <1>0, <2>3 DEF Sound, WorkerRecord
      <3> HIDE DEF q
      <3> QED BY <2>1, <2>3, <3>1, AnnounceKeepsInv
    <2> QED BY <1>1, <2>2, <2>3 DEF Stop
  <1>2. ASSUME NEW b \in BOOLEAN, Publish(w, b), moves' \in 0 .. MaxMoves PROVE Inv'
    <2> DEFINE o == Outcome(worker[w], b)
               r == [worker[w] EXCEPT !.proc = "gone", !.exec = o]
    <2>1. o \in {"exited", "cancelled", "failed"}
      BY DEF Outcome
    <2>2. Announce(w, With(w, r))
      BY <1>2 DEF Publish
    <2> HIDE DEF o
    <2>3. Sound(w, r)
      BY <1>0, <2>1 DEF Sound, WorkerRecord
    <2> HIDE DEF r
    <2> QED BY <1>2, <2>2, <2>3, AnnounceKeepsInv
  <1>3. ASSUME NEW b \in BOOLEAN, Exit(w, b) PROVE Inv'
    <2> DEFINE r == [worker[w] EXCEPT !.proc = "finalizing"]
    <2>1. moves' \in 0 .. MaxMoves
      BY <1>3, MoveIsBounded DEF Exit
    <2>2. CASE SettlesTurn(w)
      <3>1. Sound(w, r) /\ Due(r)
        BY <1>0 DEF Sound, WorkerRecord, Due
      <3>2. worker' = With(w, r) /\ wait' = wait /\ flush' = flush
        BY <1>3, <2>2 DEF Exit, Silently
      <3> HIDE DEF r
      <3> QED BY <2>1, <3>1, <3>2, QuietKeepsInv
    <2>3. CASE ~SettlesTurn(w)
      BY <1>2, <1>3, <2>1, <2>3 DEF Exit
    <2> QED BY <2>2, <2>3
  <1>4. ASSUME NEW b \in BOOLEAN, FinishExit(w, b) PROVE Inv'
    BY <1>2, <1>4, MoveIsBounded DEF FinishExit
  <1>5. ASSUME Exhaust(w) PROVE Inv'
    <2> DEFINE r == [worker[w] EXCEPT !.scout = "exhausting"]
    <2>1. moves' \in 0 .. MaxMoves /\ worker' = With(w, r) /\ wait' = wait /\ flush' = flush
      BY <1>5, MoveIsBounded DEF Exhaust, Silently
    <2>2. Sound(w, r)
      BY <1>0, <1>5 DEF Exhaust, Sound, WorkerRecord
    <2>3. ~Due(worker[w])
      BY <1>5 DEF Exhaust, Running, Due
    <2>4. \A t : ~IsSettled(Reading(Calm(r), t))
      BY <1>0 DEF IsSettled, Reading, Calm, WorkerRecord
    <2> HIDE DEF r
    <2> QED BY <2>1, <2>2, <2>3, <2>4, QuietKeepsInv
  <1>6. ASSUME NEW b \in BOOLEAN, CutOff(w, b) PROVE Inv'
    <2> DEFINE r == [worker[w] EXCEPT !.scout = IF b THEN "none" ELSE "budget_exhausted",
                                      !.exec = IF b THEN @ ELSE "cancelled"]
    <2>1. moves' \in 0 .. MaxMoves /\ Announce(w, With(w, r))
      BY <1>6, MoveIsBounded DEF CutOff
    <2>2. w \in Scouts /\ DOMAIN worker[w].kept = {}
      BY <1>0, <1>6 DEF CutOff, Sound
    <2>3. /\ r \in WorkerRecord /\ r.kept = worker[w].kept /\ r.proc = worker[w].proc
          /\ r.stop = worker[w].stop /\ r.exec \in {worker[w].exec, "cancelled"}
      BY <1>0 DEF WorkerRecord
    <2> HIDE DEF r
    <2>4. Sound(w, r)
      BY <1>0, <2>2, <2>3 DEF Sound
    <2> QED BY <2>1, <2>4, AnnounceKeepsInv
  <1>7. ASSUME NEW b \in BOOLEAN, Judge(w, b) PROVE Inv'
    <2>1. moves' \in 0 .. MaxMoves /\ w \in Scouts /\ worker[w].proc = "live"
      BY <1>7, MoveIsBounded DEF Judge
    <2>2. CASE b
      <3> DEFINE q == Recorded(worker[w], FALSE)
                 r == [q EXCEPT !.scout = "complete"]
      <3>1. /\ q \in WorkerRecord
            /\ \A t \in DOMAIN q.kept : t \in 1 .. q.done /\ (q.kept[t].told => ~q.kept[t].cut)
            /\ q = [worker[w] EXCEPT !.done = q.done, !.kept = q.kept]
        BY <1>0, RecordedIsSound
      <3>2. worker' = With(w, r) /\ wait' = wait /\ flush' = flush
        BY <1>7, <2>2 DEF Judge, Silently
      <3> HIDE DEF q
      <3>3. /\ r \in WorkerRecord /\ r.scout = "complete" /\ r.kept = q.kept /\ r.done = q.done
            /\ r.proc = worker[w].proc /\ r.exec = worker[w].exec /\ r.stop = worker[w].stop
        BY <1>0, <3>1 DEF WorkerRecord
      <3> HIDE DEF r
      <3>4. Sound(w, r) /\ Due(r)
        BY <1>0, <2>1, <3>1, <3>3 DEF Sound, Due
      <3> QED BY <2>1, <3>2, <3>4, QuietKeepsInv
    <2>3. CASE ~b
      <3> DEFINE r == [worker[w] EXCEPT !.scout = "failed",
                                        !.exec = IF worker[w].stop THEN @ ELSE "failed"]
      <3>1. worker[w].scout = "none" /\ DOMAIN worker[w].kept = {}
        BY <1>0, <1>7, <2>1 DEF Judge, Sound
      <3>2. IF worker[w].stop THEN Silently(With(w, r)) ELSE Announce(w, With(w, r))
        BY <1>7, <2>3 DEF Judge
      <3>3. /\ r \in WorkerRecord /\ r.scout = "failed" /\ r.kept = worker[w].kept
            /\ r.proc = worker[w].proc /\ r.stop = worker[w].stop
            /\ r.exec = IF worker[w].stop THEN worker[w].exec ELSE "failed"
        BY <1>0 DEF WorkerRecord
      <3> HIDE DEF r
      <3>4. Sound(w, r)
        BY <1>0, <2>1, <3>1, <3>3 DEF Sound
      <3>5. CASE worker[w].stop
        <4>1. Due(r) /\ worker' = With(w, r) /\ wait' = wait /\ flush' = flush
          BY <1>0, <2>1, <3>2, <3>3, <3>5 DEF Sound, Due, Silently
        <4> QED BY <2>1, <3>4, <4>1, QuietKeepsInv
      <3>6. CASE ~worker[w].stop
        BY <2>1, <3>2, <3>4, <3>6, AnnounceKeepsInv
      <3> QED BY <3>5, <3>6
    <2> QED BY <2>2, <2>3
  <1>8. ASSUME Resume(w) PROVE Inv'
    <2> DEFINE r == [Started(w) EXCEPT !.done = worker[w].done, !.floor = worker[w].floor,
                                       !.kept = worker[w].kept]
    <2>1. moves' \in 0 .. MaxMoves /\ Announce(w, With(w, r)) /\ w \notin Scouts
      BY <1>8, MoveIsBounded DEF Resume
    <2>2. /\ r \in WorkerRecord /\ r.scout = "none" /\ r.proc = "live" /\ ~r.stop
          /\ r.kept = worker[w].kept /\ r.done = worker[w].done
      <3>1. /\ worker[w].done \in Nat /\ worker[w].floor \in Nat /\ worker[w].kept \in Ledgers
        BY <1>0 DEF WorkerRecord
      <3> QED BY <3>1 DEF Started, WorkerRecord, Activities, Surfaces
    <2> HIDE DEF r
    <2>3. Sound(w, r)
      BY <1>0, <2>1, <2>2 DEF Sound
    <2> QED BY <2>1, <2>3, AnnounceKeepsInv
  <1> QED BY <1>1, <1>3, <1>4, <1>5, <1>6, <1>7, <1>8

\* A new broker reads its receipts as not delivered, whatever was delivered before.
LEMMA RestartKeepsInv == WaitsConstants /\ Inv /\ RestartBroker => Inv'
  <1> SUFFICES ASSUME WaitsConstants, Inv, RestartBroker PROVE Inv'
    OBVIOUS
  <1>1. /\ wait' = Closed /\ flush' = {} /\ moves' \in 0 .. MaxMoves
        /\ Closed \in WaitRecord /\ ~Closed.open
    BY MoveIsBounded DEF RestartBroker, Closed, WaitRecord, Statuses
  <1>2. ASSUME NEW w \in Targets PROVE Sound(w, worker'[w])
    <2> DEFINE k == [t \in DOMAIN worker[w].kept |-> [worker[w].kept[t] EXCEPT !.told = FALSE]]
    <2>1. /\ Sound(w, worker[w]) /\ worker[w] \in WorkerRecord /\ worker[w].kept \in Ledgers
          /\ DOMAIN worker[w].kept \in SUBSET (Nat \ {0})
          /\ worker[w].kept \in [DOMAIN worker[w].kept -> Receipt]
      BY LedgerOf DEF Inv, Tracked, Sound, WorkerRecord
    <2>2. /\ k \in [DOMAIN worker[w].kept -> Receipt]
          /\ \A t \in DOMAIN k : ~k[t].told
      BY <2>1 DEF Receipt
    <2>3. k \in Ledgers /\ DOMAIN k = DOMAIN worker[w].kept
      BY <2>1, <2>2, LedgerIs
    <2> DEFINE e == IF worker[w].proc = "gone" THEN worker[w].exec ELSE "lost"
               c == IF worker[w].scout = "exhausting" THEN "none" ELSE worker[w].scout
    <2>4. worker'[w] = [worker[w] EXCEPT !.proc = "gone", !.floor = 0, !.exec = e, !.scout = c, !.kept = k]
      BY <2>1 DEF RestartBroker, WorkerRecord
    <2>5. /\ e \in {"active", "errored", "lost", "cancelled", "failed", "exited"}
          /\ c \in {"none", "exhausting", "budget_exhausted", "failed", "complete"}
      BY <2>1 DEF WorkerRecord
    <2>6. /\ e # "active" /\ c \in {worker[w].scout, "none"}
          /\ worker[w].scout # "exhausting" => c = worker[w].scout
      <3>1. worker[w].proc = "gone" => worker[w].exec # "active"
        BY <2>1 DEF Sound
      <3>2. e # "active"
        BY <3>1
      <3>3. c \in {worker[w].scout, "none"} /\ (worker[w].scout # "exhausting" => c = worker[w].scout)
        OBVIOUS
      <3> QED BY <3>2, <3>3
    <2> HIDE DEF k, e, c
    <2>7. worker'[w] \in WorkerRecord
      <3> DEFINE r == worker[w]
                 q == [r EXCEPT !.proc = "gone", !.floor = 0, !.exec = e]
      <3>1. r \in WorkerRecord /\ k \in Ledgers
        BY <2>1, <2>3
      <3>2. worker'[w] = [r EXCEPT !.proc = "gone", !.floor = 0, !.exec = e, !.scout = c, !.kept = k]
        BY <2>4
      <3> HIDE DEF r
      <3>3. q \in WorkerRecord
        BY <2>5, <3>1 DEF WorkerRecord
      <3>4. worker'[w] = [q EXCEPT !.scout = c, !.kept = k]
        BY <3>1, <3>2 DEF WorkerRecord
      <3> HIDE DEF q
      <3> QED BY <2>5, <3>1, <3>3, <3>4 DEF WorkerRecord
    <2>8. /\ worker'[w].proc = "gone" /\ worker'[w].exec = e /\ worker'[w].scout = c
          /\ worker'[w].kept = k /\ worker'[w].done = worker[w].done
      BY <2>1, <2>4 DEF WorkerRecord
    <2> QED BY <2>1, <2>2, <2>3, <2>6, <2>7, <2>8 DEF Sound
  <1>3. Tracked(worker')
    <2>1. worker' = [w \in Targets |-> worker'[w]]
      BY DEF RestartBroker
    <2> QED BY <1>2, <2>1 DEF Tracked, Sound
  <1> QED BY <1>1, <1>3 DEF Inv, TypeOK, Tracked

LEMMA NextKeepsInv == WaitsConstants /\ Inv /\ [Next]_vars => Inv'
  <1> SUFFICES ASSUME WaitsConstants, Inv, [Next]_vars PROVE Inv'
    OBVIOUS
  <1>1. ASSUME NEW turn \in [Targets -> Turn], Open(turn) PROVE Inv'
    BY <1>1, WaitStepsKeepInv
  <1>2. ASSUME TimeOut PROVE Inv'
    BY <1>2, WaitStepsKeepInv
  <1>3. ASSUME RestartBroker PROVE Inv'
    BY <1>3, RestartKeepsInv
  <1>4. ASSUME NEW w \in Targets, FlushUpdates(w) PROVE Inv'
    BY <1>4, WaitStepsKeepInv
  <1>5. ASSUME NEW w \in Targets,
               \/ \E a \in Activities, s \in Surfaces : Output(w, a, s)
               \/ StallTurn(w)
               \/ StallStartup(w)
               \/ \E floor \in 0 .. MaxTurns : Instruct(w, floor)
               \/ \E b \in BOOLEAN : BankTurn(w, b) \/ Fatal(w, b)
        PROVE  Inv'
    BY <1>5, WorkerMovesKeepInv
  <1>6. ASSUME NEW w \in Targets,
               \/ \E b \in BOOLEAN : Exit(w, b) \/ FinishExit(w, b) \/ CutOff(w, b) \/ Judge(w, b)
               \/ Stop(w) \/ Exhaust(w) \/ Resume(w)
        PROVE  Inv'
    BY <1>6, EndingsKeepInv
  <1>7. CASE UNCHANGED vars
    BY <1>7 DEF vars, Inv, TypeOK, Tracked, Cached
  <1> QED BY <1>1, <1>2, <1>3, <1>4, <1>5, <1>6, <1>7 DEF Next

-----------------------------------------------------------------------------
\* What q has beyond r are receipts of later turns.
Continues(r, q) ==
    /\ q.done >= r.done
    /\ \A t \in DOMAIN q.kept : t > r.done \/ (t \in DOMAIN r.kept /\ q.kept[t] = r.kept[t])

LEMMA ContinuedRecalls ==
    ASSUME NEW r \in WorkerRecord, NEW q \in WorkerRecord, NEW g \in History,
           Recalls(r, g), Continues(r, q)
    PROVE  Recalls(q, g)
  <1>1. r.done \in Nat /\ q.done \in Nat /\ DOMAIN q.kept \subseteq Nat
    BY LedgerOf DEF WorkerRecord
  <1> QED BY <1>1 DEF Recalls, Continues

LEMMA SameTurnsContinue ==
    ASSUME NEW r \in WorkerRecord, NEW q, q.done = r.done, q.kept = r.kept
    PROVE  Continues(r, q)
  BY DEF Continues, WorkerRecord

LEMMA RecordedContinues ==
    ASSUME NEW r \in WorkerRecord, NEW cut
    PROVE  Continues(r, Recorded(r, cut))
  <1> DEFINE S == {u \in DOMAIN r.kept \cup {r.done + 1} : u + Retained > r.done + 1}
             k == [t \in S |-> IF t = r.done + 1 THEN [cut |-> cut, told |-> FALSE] ELSE r.kept[t]]
             q == Recorded(r, cut)
  <1>1. r.done \in Nat /\ q.done = r.done + 1 /\ q.kept = k
    BY DEF Recorded, WorkerRecord
  <1>2. \A t \in DOMAIN k : t = r.done + 1 \/ (t \in DOMAIN r.kept /\ k[t] = r.kept[t])
    OBVIOUS
  <1> HIDE DEF k, q
  <1>3. Continues(r, q)
    BY <1>1, <1>2 DEF Continues
  <1> QED BY <1>3 DEF q

\* A result that is handed over has its receipt marked; the history names its turn.
LEMMA AnswersRecall ==
    ASSUME NEW W \in [Targets -> WorkerRecord], NEW turn, given \in [Targets -> History],
           \A w \in Targets : Recalls(W[w], given[w]), Answers(W, turn)
    PROVE  Remembered'
  <1>1. ASSUME NEW w \in Targets PROVE given'[w] \in History /\ Recalls(worker'[w], given'[w])
    <2> DEFINE r == W[w]
               t == turn[w]
               g == given[w]
    <2>1. r \in WorkerRecord /\ g \in History /\ Recalls(r, g)
      OBVIOUS
    <2>2. CASE Reading(r, t) = "completed"
      <3> DEFINE receipt == [r.kept[t] EXCEPT !.told = TRUE]
                 k == [r.kept EXCEPT ![t] = receipt]
                 h == g.here \cup {t}
      <3>1. worker'[w] = [r EXCEPT !.kept = k] /\ given'[w] = [g EXCEPT !.here = h]
        BY <2>1, <2>2 DEF Answers, Handed, WorkerRecord, History
      <3>2. t \in DOMAIN r.kept /\ r.done >= t /\ r.done \in Nat /\ r.kept \in Ledgers
        BY <2>1, <2>2, ReadingStatus DEF Answered, WorkerRecord
      <3>3. t \in Nat /\ r.kept[t] \in Receipt
        BY <3>2, LedgerOf
      <3>4. receipt.told /\ receipt.cut = r.kept[t].cut
        BY <3>3 DEF Receipt
      <3> HIDE DEF receipt
      <3>5. /\ DOMAIN k = DOMAIN r.kept /\ k[t] = receipt
            /\ \A u \in DOMAIN k : u # t => k[u] = r.kept[u]
        BY <3>2
      <3> HIDE DEF k
      <3>6. worker'[w].kept = k /\ worker'[w].done = r.done
        BY <2>1, <3>1 DEF WorkerRecord
      <3>7. h \subseteq Nat /\ h \cup g.earlier \subseteq 0 .. r.done
        BY <2>1, <3>2, <3>3 DEF Recalls, History
      <3>8. /\ given'[w].here = h /\ given'[w].earlier = g.earlier /\ given'[w] \in History
        BY <2>1, <3>1, <3>7 DEF History
      <3>9. \A u \in DOMAIN k : (u \in h => k[u].told) /\ (u \in g.earlier => ~k[u].cut)
        BY <2>1, <3>3, <3>4, <3>5 DEF Recalls
      <3>10. ~(r.kept[t].cut)
        BY <2>1, <2>2, ReadingStatus
      <3> HIDE DEF h
      <3> QED BY <3>6, <3>7, <3>8, <3>9 DEF Recalls
    <2>3. CASE Reading(r, t) # "completed"
      <3>1. worker'[w] = r /\ given'[w] = g
        BY <2>3 DEF Answers, Handed
      <3> QED BY <2>1, <3>1
    <2> QED BY <2>2, <2>3
  <1>2. given' = [w \in Targets |-> given'[w]]
    BY DEF Answers
  <1> HIDE DEF Recalls
  <1>3. given' \in [Targets -> History]
    BY <1>1, <1>2
  <1> QED BY <1>1, <1>3 DEF Remembered

\* How the broker hears of a change of w.
Reported(w, r) == Announce(w, With(w, r)) \/ Schedule(w, With(w, r)) \/ Silently(With(w, r))

LEMMA ReportedRecalls ==
    ASSUME Inv, Remembered, NEW w \in Targets, NEW r \in WorkerRecord,
           Continues(worker[w], r), Reported(w, r)
    PROVE  Remembered'
  <1> DEFINE W == With(w, r)
  <1>1. /\ worker \in [Targets -> WorkerRecord] /\ given \in [Targets -> History]
        /\ \A v \in Targets : Recalls(worker[v], given[v])
    BY DEF Inv, TypeOK, Remembered
  <1>2. /\ W \in [Targets -> WorkerRecord] /\ W[w] = r
        /\ \A v \in Targets : v # w => W[v] = worker[v]
    BY <1>1 DEF With
  <1>3. \A v \in Targets : Recalls(W[v], given[v])
    <2> TAKE v \in Targets
    <2>1. worker[v] \in WorkerRecord /\ given[v] \in History /\ Recalls(worker[v], given[v])
      BY <1>1
    <2>2. CASE v = w
      BY <1>2, <2>1, <2>2, ContinuedRecalls
    <2>3. CASE v # w
      BY <1>2, <2>1, <2>3
    <2> QED BY <2>2, <2>3
  <1>4. Answers(W, wait.turn) \/ (worker' = W /\ given' = given)
    BY DEF Reported, Announce, Schedule, Silently
  <1> HIDE DEF W
  <1>5. CASE Answers(W, wait.turn)
    BY <1>1, <1>2, <1>3, <1>5, AnswersRecall
  <1>6. CASE worker' = W /\ given' = given
    BY <1>1, <1>3, <1>6 DEF Remembered
  <1> QED BY <1>4, <1>5, <1>6

\* Most changes leave the turns of a worker alone.
LEMMA ChangeRecalls ==
    ASSUME Inv, Remembered, NEW w \in Targets, NEW r \in WorkerRecord,
           r.done = worker[w].done, r.kept = worker[w].kept, Reported(w, r)
    PROVE  Remembered'
  <1>1. worker[w] \in WorkerRecord
    BY DEF Inv, TypeOK
  <1> QED BY <1>1, SameTurnsContinue, ReportedRecalls

LEMMA WorkerStepsRecall ==
    ASSUME WaitsConstants, Inv, Remembered, NEW w \in Targets
    PROVE  /\ FlushUpdates(w) => Remembered'
           /\ \A a \in Activities, s \in Surfaces : Output(w, a, s) => Remembered'
           /\ StallTurn(w) => Remembered'
           /\ StallStartup(w) => Remembered'
           /\ \A floor \in 0 .. MaxTurns : Instruct(w, floor) => Remembered'
           /\ \A b \in BOOLEAN : BankTurn(w, b) => Remembered'
           /\ \A b \in BOOLEAN : Fatal(w, b) => Remembered'
  <1>0. worker[w] \in WorkerRecord /\ worker \in [Targets -> WorkerRecord]
    BY DEF Inv, TypeOK
  <1>1. ASSUME FlushUpdates(w) PROVE Remembered'
    <2>1. With(w, worker[w]) = worker
      BY <1>0 DEF With
    <2> QED BY <1>0, <1>1, <2>1, ChangeRecalls DEF FlushUpdates, Reported
  <1>2. ASSUME NEW a \in Activities, NEW s \in Surfaces, Output(w, a, s) PROVE Remembered'
    <2> DEFINE r == [worker[w] EXCEPT !.activity = a, !.surface = s, !.stall = "no",
                                !.pending = @ /\ ~(s = "ready" /\ a # "working")]
    <2>1. r \in WorkerRecord /\ r.done = worker[w].done /\ r.kept = worker[w].kept
      BY <1>0 DEF WorkerRecord
    <2>2. Reported(w, r)
      BY <1>2 DEF Output, Reported
    <2> HIDE DEF r
    <2> QED BY <2>1, <2>2, ChangeRecalls
  <1>3. ASSUME StallTurn(w) PROVE Remembered'
    <2> DEFINE r == [worker[w] EXCEPT !.stall = "turn"]
    <2>1. r \in WorkerRecord /\ r.done = worker[w].done /\ r.kept = worker[w].kept
      BY <1>0 DEF WorkerRecord
    <2>2. Reported(w, r)
      BY <1>3 DEF StallTurn, Reported
    <2> HIDE DEF r
    <2> QED BY <2>1, <2>2, ChangeRecalls
  <1>4. ASSUME StallStartup(w) PROVE Remembered'
    <2> DEFINE r == [worker[w] EXCEPT !.stall = "startup"]
    <2>1. r \in WorkerRecord /\ r.done = worker[w].done /\ r.kept = worker[w].kept
      BY <1>0 DEF WorkerRecord
    <2>2. Reported(w, r)
      BY <1>4 DEF StallStartup, Reported
    <2> HIDE DEF r
    <2> QED BY <2>1, <2>2, ChangeRecalls
  <1>5. ASSUME NEW floor \in 0 .. MaxTurns, Instruct(w, floor) PROVE Remembered'
    <2> DEFINE r == [worker[w] EXCEPT !.floor = floor, !.stall = "no"]
    <2>0. floor \in Nat
      BY DEF WaitsConstants
    <2>1. r \in WorkerRecord /\ r.done = worker[w].done /\ r.kept = worker[w].kept
      BY <1>0, <2>0 DEF WorkerRecord
    <2>2. Reported(w, r)
      BY <1>5 DEF Instruct, Reported
    <2> HIDE DEF r
    <2> QED BY <2>1, <2>2, ChangeRecalls
  <1>6. ASSUME NEW b \in BOOLEAN, BankTurn(w, b) PROVE Remembered'
    <2> DEFINE r == Recorded(worker[w], b)
    <2>1. Reported(w, r)
      BY <1>6 DEF BankTurn, Reported
    <2>2. Continues(worker[w], r)
      BY <1>0, RecordedContinues
    <2>3. r \in WorkerRecord
      BY RecordedIsSound DEF Inv, Tracked
    <2> HIDE DEF r
    <2> QED BY <2>1, <2>2, <2>3, ReportedRecalls
  <1>7. ASSUME NEW b \in BOOLEAN, Fatal(w, b) PROVE Remembered'
    <2> DEFINE r == [worker[w] EXCEPT !.exec = "errored", !.limit = b, !.activity = "unknown", !.stall = "no"]
    <2>1. r \in WorkerRecord /\ r.done = worker[w].done /\ r.kept = worker[w].kept
      BY <1>0 DEF WorkerRecord, Activities
    <2>2. Reported(w, r)
      BY <1>7 DEF Fatal, Reported
    <2> HIDE DEF r
    <2> QED BY <2>1, <2>2, ChangeRecalls
  <1> QED BY <1>1, <1>2, <1>3, <1>4, <1>5, <1>6, <1>7

LEMMA EndingsRecall ==
    ASSUME WaitsConstants, Inv, Remembered, NEW w \in Targets
    PROVE  /\ Stop(w) => Remembered'
           /\ \A b \in BOOLEAN : Exit(w, b) => Remembered'
           /\ \A b \in BOOLEAN : FinishExit(w, b) => Remembered'
           /\ Exhaust(w) => Remembered'
           /\ \A b \in BOOLEAN : CutOff(w, b) => Remembered'
           /\ \A b \in BOOLEAN : Judge(w, b) => Remembered'
           /\ Resume(w) => Remembered'
  <1>0. worker[w] \in WorkerRecord /\ worker \in [Targets -> WorkerRecord]
    BY DEF Inv, TypeOK
  <1>1. ASSUME Stop(w) PROVE Remembered'
    <2> DEFINE r == [worker[w] EXCEPT !.exec = "cancelled", !.stop = TRUE]
               q == [worker[w] EXCEPT !.stop = TRUE]
    <2>1. /\ r \in WorkerRecord /\ r.done = worker[w].done /\ r.kept = worker[w].kept
          /\ q \in WorkerRecord /\ q.done = worker[w].done /\ q.kept = worker[w].kept
      BY <1>0 DEF WorkerRecord
    <2>2. Reported(w, r) \/ Reported(w, q)
      BY <1>1 DEF Stop, Reported
    <2> HIDE DEF r, q
    <2> QED BY <2>1, <2>2, ChangeRecalls
  <1>2. ASSUME NEW b \in BOOLEAN, Publish(w, b) PROVE Remembered'
    <2> DEFINE o == Outcome(worker[w], b)
               r == [worker[w] EXCEPT !.proc = "gone", !.exec = o]
    <2>1. o \in {"exited", "cancelled", "failed"}
      BY DEF Outcome
    <2>2. Reported(w, r)
      BY <1>2 DEF Publish, Reported
    <2> HIDE DEF o
    <2>3. r \in WorkerRecord /\ r.done = worker[w].done /\ r.kept = worker[w].kept
      BY <1>0, <2>1 DEF WorkerRecord
    <2> HIDE DEF r
    <2> QED BY <2>2, <2>3, ChangeRecalls
  <1>3. ASSUME NEW b \in BOOLEAN, Exit(w, b) PROVE Remembered'
    <2> DEFINE r == [worker[w] EXCEPT !.proc = "finalizing"]
    <2>1. r \in WorkerRecord /\ r.done = worker[w].done /\ r.kept = worker[w].kept
      BY <1>0 DEF WorkerRecord
    <2>2. Reported(w, r) \/ Publish(w, b)
      BY <1>3 DEF Exit, Reported
    <2> HIDE DEF r
    <2> QED BY <1>2, <2>1, <2>2, ChangeRecalls
  <1>4. ASSUME NEW b \in BOOLEAN, FinishExit(w, b) PROVE Remembered'
    BY <1>2, <1>4 DEF FinishExit
  <1>5. ASSUME Exhaust(w) PROVE Remembered'
    <2> DEFINE r == [worker[w] EXCEPT !.scout = "exhausting"]
    <2>1. r \in WorkerRecord /\ r.done = worker[w].done /\ r.kept = worker[w].kept
      BY <1>0 DEF WorkerRecord
    <2>2. Reported(w, r)
      BY <1>5 DEF Exhaust, Reported
    <2> HIDE DEF r
    <2> QED BY <2>1, <2>2, ChangeRecalls
  <1>6. ASSUME NEW b \in BOOLEAN, CutOff(w, b) PROVE Remembered'
    <2> DEFINE r == [worker[w] EXCEPT !.scout = IF b THEN "none" ELSE "budget_exhausted",
                                      !.exec = IF b THEN @ ELSE "cancelled"]
    <2>1. r \in WorkerRecord /\ r.done = worker[w].done /\ r.kept = worker[w].kept
      BY <1>0 DEF WorkerRecord
    <2>2. Reported(w, r)
      BY <1>6 DEF CutOff, Reported
    <2> HIDE DEF r
    <2> QED BY <2>1, <2>2, ChangeRecalls
  <1>7. ASSUME NEW b \in BOOLEAN, Judge(w, b) PROVE Remembered'
    <2> DEFINE q == Recorded(worker[w], FALSE)
               p == [q EXCEPT !.scout = "complete"]
               r == [worker[w] EXCEPT !.scout = "failed",
                                      !.exec = IF worker[w].stop THEN @ ELSE "failed"]
    <2>1. (b /\ Reported(w, p)) \/ Reported(w, r)
      BY <1>7 DEF Judge, Reported
    <2>2. r \in WorkerRecord /\ r.done = worker[w].done /\ r.kept = worker[w].kept
      BY <1>0 DEF WorkerRecord
    <2>3. q \in WorkerRecord /\ Continues(worker[w], q)
      BY <1>0, RecordedIsSound, RecordedContinues DEF Inv, Tracked
    <2> HIDE DEF q
    <2>4. p \in WorkerRecord /\ p.done = q.done /\ p.kept = q.kept
      BY <2>3 DEF WorkerRecord
    <2>5. Continues(worker[w], p)
      BY <2>3, <2>4 DEF Continues
    <2> HIDE DEF p, r
    <2> QED BY <2>1, <2>2, <2>4, <2>5, ChangeRecalls, ReportedRecalls
  <1>8. ASSUME Resume(w) PROVE Remembered'
    <2> DEFINE r == [Started(w) EXCEPT !.done = worker[w].done, !.floor = worker[w].floor,
                                       !.kept = worker[w].kept]
    <2>1. r \in WorkerRecord /\ r.done = worker[w].done /\ r.kept = worker[w].kept
      <3>1. /\ worker[w].done \in Nat /\ worker[w].floor \in Nat /\ worker[w].kept \in Ledgers
        BY <1>0 DEF WorkerRecord
      <3> QED BY <3>1 DEF Started, WorkerRecord, Activities, Surfaces
    <2>2. Reported(w, r)
      BY <1>8 DEF Resume, Reported
    <2> HIDE DEF r
    <2> QED BY <2>1, <2>2, ChangeRecalls
  <1> QED BY <1>1, <1>3, <1>4, <1>5, <1>6, <1>7, <1>8

\* What an earlier broker handed over was handed over by the one that ends now, or before.
LEMMA RestartRecalls == Inv /\ Remembered /\ RestartBroker => Remembered'
  <1> SUFFICES ASSUME Inv, Remembered, RestartBroker PROVE Remembered'
    OBVIOUS
  <1>1. ASSUME NEW w \in Targets PROVE given'[w] \in History /\ Recalls(worker'[w], given'[w])
    <2> DEFINE r == worker[w]
               k == [t \in DOMAIN r.kept |-> [r.kept[t] EXCEPT !.told = FALSE]]
               e == IF r.proc = "gone" THEN r.exec ELSE "lost"
               c == IF r.scout = "exhausting" THEN "none" ELSE r.scout
               h == given[w].earlier \cup given[w].here
    <2>1. /\ r \in WorkerRecord /\ given[w] \in History /\ Recalls(r, given[w]) /\ Sound(w, r)
      BY DEF Inv, TypeOK, Tracked, Remembered
    <2>2. /\ worker'[w] = [r EXCEPT !.proc = "gone", !.floor = 0, !.exec = e, !.scout = c, !.kept = k]
          /\ given'[w] = [here |-> {}, earlier |-> h]
      BY <2>1 DEF RestartBroker, WorkerRecord
    <2>3. h \subseteq Nat /\ h \subseteq 0 .. r.done
      BY <2>1 DEF History, Recalls
    <2>4. \A t \in DOMAIN r.kept : r.kept[t] \in Receipt
      BY <2>1, LedgerOf DEF WorkerRecord
    <2>5. /\ DOMAIN k = DOMAIN r.kept /\ \A t \in DOMAIN k : k[t].cut = r.kept[t].cut
      BY <2>4 DEF Receipt
    <2>6. \A t \in DOMAIN k : t \in h => ~k[t].cut
      BY <2>1, <2>5 DEF Recalls, Sound
    <2> HIDE DEF k, e, c, h
    <2>7. worker'[w].kept = k /\ worker'[w].done = r.done
      BY <2>1, <2>2 DEF WorkerRecord
    <2>8. given'[w].here = {} /\ given'[w].earlier = h /\ given'[w] \in History
      BY <2>2, <2>3 DEF History
    <2> QED BY <2>3, <2>6, <2>7, <2>8 DEF Recalls
  <1>2. given' = [w \in Targets |-> given'[w]]
    BY DEF RestartBroker
  <1>3. given' \in [Targets -> History]
    BY <1>1, <1>2
  <1> QED BY <1>1, <1>3 DEF Remembered

LEMMA NextRecalls == WaitsConstants /\ Inv /\ Remembered /\ [Next]_vars => Remembered'
  <1> SUFFICES ASSUME WaitsConstants, Inv, Remembered, [Next]_vars PROVE Remembered'
    OBVIOUS
  <1>0. /\ worker \in [Targets -> WorkerRecord] /\ given \in [Targets -> History]
        /\ \A w \in Targets : Recalls(worker[w], given[w])
    BY DEF Inv, TypeOK, Remembered
  <1>1. ASSUME NEW turn \in [Targets -> Turn], Open(turn) PROVE Remembered'
    <2>1. Answers(worker, turn) \/ (worker' = worker /\ given' = given)
      BY <1>1 DEF Open
    <2> QED BY <1>0, <2>1, AnswersRecall DEF Remembered
  <1>2. ASSUME TimeOut PROVE Remembered'
    BY <1>0, <1>2, AnswersRecall DEF TimeOut
  <1>3. ASSUME RestartBroker PROVE Remembered'
    BY <1>3, RestartRecalls
  <1>4. ASSUME NEW w \in Targets,
               \/ FlushUpdates(w)
               \/ \E a \in Activities, s \in Surfaces : Output(w, a, s)
               \/ StallTurn(w)
               \/ StallStartup(w)
               \/ \E floor \in 0 .. MaxTurns : Instruct(w, floor)
               \/ \E b \in BOOLEAN : BankTurn(w, b) \/ Fatal(w, b)
        PROVE  Remembered'
    BY <1>4, WorkerStepsRecall
  <1>5. ASSUME NEW w \in Targets,
               \/ \E b \in BOOLEAN : Exit(w, b) \/ FinishExit(w, b) \/ CutOff(w, b) \/ Judge(w, b)
               \/ Stop(w) \/ Exhaust(w) \/ Resume(w)
        PROVE  Remembered'
    BY <1>5, EndingsRecall
  <1>6. CASE UNCHANGED vars
    BY <1>0, <1>6 DEF vars, Remembered
  <1> QED BY <1>1, <1>2, <1>3, <1>4, <1>5, <1>6 DEF Next

LEMMA SpecInv == WaitsConstants /\ Spec => []Inv
  <1>1. WaitsConstants /\ Init => Inv
    BY InitInv
  <1>2. WaitsConstants /\ Inv /\ [Next]_vars => Inv'
    BY NextKeepsInv
  <1>3. WaitsConstants => []WaitsConstants
    OBVIOUS
  <1> QED BY <1>1, <1>2, <1>3, PTL DEF Spec

LEMMA SpecRemembers == WaitsConstants /\ Spec => []Remembered
  <1>1. Init => Remembered
    <2> SUFFICES ASSUME Init PROVE Remembered
      OBVIOUS
    <2>1. given \in [Targets -> History]
      BY DEF Init, History
    <2>2. ASSUME NEW w \in Targets PROVE Recalls(worker[w], given[w])
      <3>1. given[w].here = {} /\ given[w].earlier = {}
        BY DEF Init
      <3> QED BY <3>1 DEF Recalls
    <2> QED BY <2>1, <2>2 DEF Remembered
  <1>2. WaitsConstants /\ Inv /\ Remembered /\ [Next]_vars => Remembered'
    BY NextRecalls
  <1>3. WaitsConstants => []WaitsConstants
    OBVIOUS
  <1> QED BY <1>1, <1>2, <1>3, SpecInv, PTL DEF Spec

-----------------------------------------------------------------------------
(* The broker's knowledge of a worker, the wait and the scheduled updates are of
   their types, for any number of workers, Scouts, turns and retained receipts. *)
THEOREM WaitsTypeCorrect == WaitsConstants /\ Spec => []TypeOK
  <1>1. Inv => TypeOK
    BY DEF Inv
  <1> QED BY <1>1, SpecInv, PTL

(* For any number of workers and turns: a result that a wait handed over is read as
   completed by every later wait on the same broker, whatever the worker is told and
   whatever becomes of it, for as long as its receipt is retained; after a restart of
   the broker it is so read until the worker is instructed again. *)
THEOREM WaitsDeliveredStays == WaitsConstants /\ Spec => []DeliveredStays
  <1>1. Inv /\ Remembered => DeliveredStays
    <2> SUFFICES ASSUME Inv, Remembered, NEW w \in Targets, NEW t \in DOMAIN worker[w].kept,
                        t \in given[w].here \/ (t \in given[w].earlier /\ t > worker[w].floor)
                 PROVE  Reading(worker[w], t) = "completed"
      BY DEF DeliveredStays
    <2>1. Sound(w, worker[w]) /\ Recalls(worker[w], given[w])
      BY DEF Inv, Tracked, Remembered
    <2>2. CASE t \in given[w].here
      BY <2>1, <2>2, ToldIsCompleted DEF Recalls
    <2>3. CASE t \in given[w].earlier /\ t > worker[w].floor
      BY <2>1, <2>3, KeptIsCompleted DEF Recalls
    <2> QED BY <2>2, <2>3
  <1> QED BY <1>1, SpecInv, SpecRemembers, PTL

(* For any number of workers: while a wait is open and all its targets have settled,
   the update of one of them is still to be announced, so that no wait hangs on
   settled workers. *)
THEOREM WaitsNeverHang == WaitsConstants /\ Spec => []NoSettledWaitHangs
  <1>1. Inv => NoSettledWaitHangs
    <2> SUFFICES ASSUME Inv, wait.open,
                        \A w \in Targets : IsSettled(Reading(worker[w], wait.turn[w]))
                 PROVE  \E w \in Targets : w \in flush \/ Unannounced(w)
      BY DEF NoSettledWaitHangs
    <2>1. PICK w \in Targets : ~IsSettled(wait.cached[w])
      BY DEF Inv
    <2>2. worker[w] \in WorkerRecord /\ Cached(w)
      BY DEF Inv, TypeOK
    <2>3. CASE worker[w].stall = "turn"
      BY <2>3 DEF Unannounced
    <2>4. CASE worker[w].stall # "turn"
      <3>1. Calm(worker[w]) = worker[w]
        BY <2>2, <2>4 DEF Calm, WorkerRecord
      <3> QED BY <2>1, <2>2, <3>1 DEF Cached, Due, Unannounced, ExitDue
    <2> QED BY <2>3, <2>4
  <1> QED BY <1>1, SpecInv, PTL
=============================================================================
