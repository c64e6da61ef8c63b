---------------------------- MODULE AttentionWait ----------------------------
(***************************************************************************)
(* The explicit attention wait of one orchestrator: the durable wait       *)
(* record and the operations on it                                         *)
(* (orchestration/orchestrator-attention-control.ts), the capture of what  *)
(* its workers did (orchestrator-attention-source.ts), the wake policy     *)
(* (orchestrator-attention-policy.ts) and the scheduler that turns a       *)
(* decision into one wake instruction                                      *)
(* (broker/orchestrator-attention-scheduling.ts).                          *)
(*                                                                         *)
(* Updates of the record are serialised by the store and reread the file   *)
(* (persistence/orchestrator-attention-store.ts), so one variable stands   *)
(* for it; an arm holds that serialisation across its capture.  Workers,   *)
(* the orchestrator's process, its turns, its tool calls, the operator,    *)
(* the instruction queue and broker restarts run beside the scheduler.     *)
(***************************************************************************)
EXTENDS Naturals, Sequences, FiniteSets, SequencesExt

CONSTANTS
    Awaited,          \* the workers of the wait's statement, in its order
    ReportKinds,      \* of "report", "blocked" and "ask": what a report says
    MaxWaitTurns,     \* bound: turns a worker completes
    MaxWaitReports,   \* bound: reports a worker makes
    PageReports,      \* ATTENTION_LIMITS.reports: reports of one read page
    ScanMax,          \* reports the policy scans: 20 pages of 50
    ReceiptMax,       \* ATTENTION_LIMITS.receipts
    HourlyWakes,      \* policy.maxWakesPerHour
    MaxEpochs,        \* bound: waits armed
    MaxReads,         \* bound: pages read per epoch
    MaxWaitMoves,     \* bound: moves of everyone but the broker; acknowledging is free
    MaxWaitFaults     \* bound: exits, restarts and losses of authority among them

ASSUME AttentionAssumption ==
    /\ Awaited \in Seq(ToSet(Awaited))
    /\ ReportKinds \subseteq {"report", "blocked", "ask"}
    /\ PageReports \in Nat \ {0} /\ ScanMax \in Nat \ {0} /\ ReceiptMax \in Nat \ {0}
    /\ HourlyWakes \in Nat /\ MaxWaitTurns \in Nat /\ MaxWaitReports \in Nat
    /\ MaxEpochs \in Nat /\ MaxReads \in Nat /\ MaxWaitMoves \in Nat /\ MaxWaitFaults \in Nat

VARIABLES
    waitWorker,  \* w -> [ev, done, busy, lease]: its journals, its truth, its lease version
    orc,         \* [up, bound, on, busy, reading, got, sent]: the orchestrator and its policy
    rec,         \* the wait record on disk
    arming,      \* the record an arm is about to commit, holding the store, or NoRec
    active,      \* the record is in the control plane's map of armed waits
    sched,       \* [pc, dirty, timer, deadline, seen]: the scheduler
    queue,       \* [flush, id]: a flush is due; the message id under admission
    waitWakes,   \* message id -> [status, recent]
    late,        \* the review deadline of the current statement has passed
    waitMoves, waitFaults,
    shown,       \* history: w -> the reports and results of acknowledged pages
    made         \* history: <<mutation id, epoch>> of every record an arm created

waitVars == <<waitWorker, orc, rec, arming, active, sched, queue, waitWakes, late,
          waitMoves, waitFaults, shown, made>>

AwaitedWorkers == ToSet(Awaited)
Nothing == <<>>
ZeroPoint == [ord |-> 0, turn |-> 0, key |-> Nothing]
NoCoverage == [w \in AwaitedWorkers |-> ZeroPoint]
NoIntent == [id |-> Nothing, cov |-> NoCoverage, floor |-> 0]

NoRec == [epoch |-> 0, mut |-> 0, armed |-> FALSE, ready |-> TRUE, auth |-> [w \in AwaitedWorkers |-> 0],
          target |-> [w \in AwaitedWorkers |-> 1], cap |-> NoCoverage, cons |-> NoCoverage,
          decided |-> Nothing, intent |-> NoIntent, seq |-> 0, receipts |-> <<>>,
          consumption |-> 0, ackLate |-> FALSE, notified |-> FALSE]

--------------------------------------------------------------------------
(* Source capture *)

Higher(a, b) == IF a > b THEN a ELSE b
Lower(a, b) == IF a < b THEN a ELSE b

Held(r, w) == waitWorker[w].lease = r.auth[w]
Gaps(r) == {w \in AwaitedWorkers : ~Held(r, w)}
TruthKey(r, w) == <<Held(r, w), waitWorker[w].busy, waitWorker[w].done>>

(* The head of one worker's sources; what was captured once is never lowered. *)
CapturedPoint(r, w) ==
    [ord  |-> Higher(r.cap[w].ord, IF Held(r, w) THEN Len(waitWorker[w].ev) ELSE 0),
     turn |-> Higher(r.cap[w].turn, IF waitWorker[w].done >= r.target[w] THEN r.target[w] ELSE 0),
     key  |-> TruthKey(r, w)]
Captured(r) == [w \in AwaitedWorkers |-> CapturedPoint(r, w)]

(* The unread reports, in the statement's order and then in their own: the ones
   up to report n of w, and the ones of w that a page has room for. *)
Unread(r, w) == IF Held(r, w) THEN r.cons[w].ord + 1 .. Len(waitWorker[w].ev) ELSE {}
Earlier(w) == {Awaited[i] : i \in {i \in DOMAIN Awaited : \E j \in DOMAIN Awaited : i < j /\ Awaited[j] = w}}
UpTo(r, w, n) ==
    {<<w, m>> : m \in {m \in Unread(r, w) : m <= n}} \union
    UNION {{<<v, m>> : m \in Unread(r, v)} : v \in Earlier(w)}
Reports(r, w) == {n \in Unread(r, w) : Cardinality(UpTo(r, w, n)) <= PageReports}

(* The worker views of a page: its share of the reports, a new result. *)
PageOf(r) ==
    [w \in AwaitedWorkers |->
        {<<"report", n>> : n \in Reports(r, w)}
        \union {<<"turn", t>> : t \in {CapturedPoint(r, w).turn} \ (0 .. r.cons[w].turn)}]

\* Bug: a receipt covers the heads, not the page.
ReceivedHeads(r) == Captured(r)

(* The coverage of its receipt: the last report the page shows. *)
Received(r) ==
    [w \in AwaitedWorkers |->
        [ord  |-> Max({r.cons[w].ord} \union Reports(r, w)),
         turn |-> Higher(r.cons[w].turn, CapturedPoint(r, w).turn),
         key  |-> TruthKey(r, w)]]

Scanned(r, w) ==
    IF Held(r, w)
    THEN {waitWorker[w].ev[n] : n \in r.cons[w].ord + 1 .. Lower(r.cons[w].ord + ScanMax, Len(waitWorker[w].ev))}
    ELSE {}
Backlog(r, w) == Held(r, w) /\ r.cons[w].ord + ScanMax < CapturedPoint(r, w).ord

--------------------------------------------------------------------------
(* The wake policy *)

CoverageContains(covered, asked, truth) ==
    \A w \in AwaitedWorkers :
        /\ covered[w].ord >= asked[w].ord /\ covered[w].turn >= asked[w].turn
        /\ truth => covered[w].key = asked[w].key

ReviewDue(r) == late /\ ~r.notified
InputId(r) == <<r.cap, r.cons, ReviewDue(r)>>

GroupStopped(r) ==
    \A w \in AwaitedWorkers : r.cap[w].turn >= r.target[w] \/ (Held(r, w) /\ ~waitWorker[w].busy)

(* attentionLivenessFloor: what no decision may defer. *)
LivenessFloor(r) ==
    \/ ReviewDue(r)
    \/ /\ ~CoverageContains(r.cons, r.cap, TRUE)
       /\ \/ Gaps(r) # {}
          \/ \E w \in AwaitedWorkers : "ask" \in Scanned(r, w) \/ Backlog(r, w)
          \/ GroupStopped(r)

(* Floor or group-wait decision; a decision that fails twice falls back to a wake. *)
Wakes(r) ==
    \/ LivenessFloor(r)
    \/ /\ ~CoverageContains(r.cons, r.cap, TRUE)
       /\ \E w \in AwaitedWorkers : "blocked" \in Scanned(r, w)

--------------------------------------------------------------------------
(* The record *)

StoreFree == arming = NoRec
Cancelled(r) == [r EXCEPT !.armed = FALSE, !.intent = NoIntent]

(* refresh: the binding, stop, grant and cancelled-turn checks all read
   `bound`; then the process and the sources are captured. *)
Refresh(r) ==
    IF ~r.armed THEN r
    ELSE IF ~orc.bound THEN Cancelled(r)
    ELSE [r EXCEPT !.ready = orc.up, !.cap = Captured(r)]

(* mergeConsumed: the higher positions, the newer truth. *)
MergeConsumed(prior, received, newer) ==
    [w \in AwaitedWorkers |->
        [ord  |-> Higher(prior[w].ord, received[w].ord),
         turn |-> Higher(prior[w].turn, received[w].turn),
         key  |-> IF newer \/ prior[w] = ZeroPoint THEN received[w].key ELSE prior[w].key]]

(* inheritedCoverage: another completion target forgets the completion. *)
Inherited(cov, old, target) ==
    [w \in AwaitedWorkers |-> [cov[w] EXCEPT !.turn = IF old[w] = target[w] THEN @ ELSE 0]]

(* The record of the next epoch, before its first capture. *)
Fresh(old, req) ==
    [NoRec EXCEPT !.epoch = old.epoch + 1, !.mut = req.mut, !.armed = TRUE,
                  !.auth = [w \in AwaitedWorkers |-> waitWorker[w].lease], !.target = req.target,
                  !.cap = Inherited(old.cap, old.target, req.target),
                  !.cons = Inherited(old.cons, old.target, req.target)]

(* remember with its notification; changed of the scheduler. *)
Scheduled(s) == [s EXCEPT !.dirty = TRUE, !.timer = @ \/ s.pc = "rest"]
Remember(r) == active' = r.armed
Notify == sched' = Scheduled(sched)

(* A registry, event or lease update of a registered wait: the control plane's
   capture of it ends in the same notification, and the tick captures again. *)
WaitObserved == sched' = IF active THEN Scheduled(sched) ELSE sched

(* A broker that has no wait yet, or has just committed the first one. *)
FirstRequest == [mut |-> 1, prev |-> 0, target |-> [w \in AwaitedWorkers |-> 1]]
WaitInit ==
    /\ waitWorker = [w \in AwaitedWorkers |-> [ev |-> <<>>, done |-> 0, busy |-> TRUE, lease |-> 1]]
    /\ active \in BOOLEAN /\ arming = NoRec
    /\ orc = [up |-> TRUE, bound |-> TRUE, on |-> TRUE, busy |-> TRUE, reading |-> Nothing,
              got |-> {}, sent |-> IF active THEN {FirstRequest} ELSE {}]
    /\ rec = IF active THEN Refresh(Fresh(NoRec, FirstRequest)) ELSE NoRec
    /\ sched = [pc |-> "rest", dirty |-> active, timer |-> active, deadline |-> "none", seen |-> Nothing]
    /\ queue = [flush |-> FALSE, id |-> Nothing] /\ waitWakes = <<>> /\ late = FALSE
    /\ waitMoves = 0 /\ waitFaults = 0
    /\ shown = [w \in AwaitedWorkers |-> {}] /\ made = IF active THEN {<<1, 1>>} ELSE {}

WaitMove == waitMoves < MaxWaitMoves /\ waitMoves' = waitMoves + 1
Fault == waitFaults < MaxWaitFaults /\ waitFaults' = waitFaults + 1

--------------------------------------------------------------------------
(* Workers, the operator, time *)

WorkerChanges(w, after) ==
    /\ WaitMove
    /\ waitWorker' = [waitWorker EXCEPT ![w] = after]
    /\ WaitObserved
    /\ UNCHANGED <<orc, rec, arming, active, queue, waitWakes, late, shown, made>>

ReportArrives(w, kind) ==
    /\ Len(waitWorker[w].ev) < MaxWaitReports
    /\ WorkerChanges(w, [waitWorker[w] EXCEPT !.ev = Append(@, kind)])
    /\ UNCHANGED waitFaults

(* A turn ends or starts; the truth's state follows. *)
CompleteTurn(w) ==
    /\ waitWorker[w].busy /\ waitWorker[w].done < MaxWaitTurns
    /\ WorkerChanges(w, [waitWorker[w] EXCEPT !.done = @ + 1, !.busy = FALSE])
    /\ UNCHANGED waitFaults
StateFlips(w) ==
    /\ WorkerChanges(w, [waitWorker[w] EXCEPT !.busy = ~@])
    /\ UNCHANGED waitFaults

LeaseMoves(w) ==
    /\ Fault
    /\ WorkerChanges(w, [waitWorker[w] EXCEPT !.lease = @ + 1])

(* wake: off and back; the inbox notifies the scheduler of either. *)
SetPolicy ==
    /\ WaitMove /\ Fault
    /\ orc' = [orc EXCEPT !.on = FALSE]
    /\ Notify
    /\ UNCHANGED <<waitWorker, rec, arming, active, queue, waitWakes, late, shown, made>>
RestorePolicy ==
    /\ ~orc.on
    /\ orc' = [orc EXCEPT !.on = TRUE]
    /\ Notify
    /\ UNCHANGED <<waitWorker, rec, arming, active, queue, waitWakes, late, waitMoves, waitFaults, shown, made>>

(* The review deadline passes; the timer armed for it starts a tick. *)
DeadlinePasses ==
    /\ WaitMove /\ rec.armed /\ ~late /\ late' = TRUE
    /\ sched' = IF sched.deadline # "review" THEN sched
                ELSE IF sched.pc = "rest" THEN [sched EXCEPT !.deadline = "none", !.pc = "tick", !.dirty = FALSE]
                ELSE [sched EXCEPT !.deadline = "none", !.dirty = TRUE]
    /\ UNCHANGED <<waitWorker, orc, rec, arming, active, queue, waitWakes, waitFaults, shown, made>>

(* The oldest wake leaves the rolling hour; the timer armed for it fires. *)
WaitHourPasses ==
    /\ \E id \in DOMAIN waitWakes : waitWakes[id].recent
    /\ sched.deadline = "budget"
    /\ waitWakes' = [id \in DOMAIN waitWakes |-> [waitWakes[id] EXCEPT !.recent = FALSE]]
    /\ sched' = IF sched.pc = "rest" THEN [sched EXCEPT !.deadline = "none", !.pc = "tick", !.dirty = FALSE]
                ELSE [sched EXCEPT !.deadline = "none", !.dirty = TRUE]
    /\ UNCHANGED <<waitWorker, orc, rec, arming, active, queue, late, waitMoves, waitFaults, shown, made>>

--------------------------------------------------------------------------
(* The orchestrator's process, its turns and its tool calls *)

(* A turn the operator starts. *)
StartTurn ==
    /\ WaitMove /\ orc.up /\ ~orc.busy
    /\ orc' = [orc EXCEPT !.busy = TRUE]
    /\ UNCHANGED <<waitWorker, rec, arming, active, sched, queue, waitWakes, late, waitFaults, shown, made>>

SettledWakes(from, to) == [id \in DOMAIN waitWakes |-> IF waitWakes[id].status = from
                                              THEN [waitWakes[id] EXCEPT !.status = to] ELSE waitWakes[id]]

(* The turn ends: a rendered wake completes, the boundary flushes the queue. *)
EndTurn ==
    /\ orc.up /\ orc.busy /\ orc.reading = Nothing
    /\ orc' = [orc EXCEPT !.busy = FALSE]
    /\ waitWakes' = SettledWakes("rendered", "completed")
    /\ queue' = [queue EXCEPT !.flush = TRUE]
    /\ sched' = IF active \/ waitWakes' # waitWakes THEN Scheduled(sched) ELSE sched
    /\ UNCHANGED <<waitWorker, rec, arming, active, late, waitMoves, waitFaults, shown, made>>

(* The process exits: what its composer held is undelivered. *)
Exit ==
    /\ WaitMove /\ Fault /\ orc.up
    /\ orc' = [orc EXCEPT !.up = FALSE, !.busy = FALSE, !.reading = Nothing, !.got = {}]
    /\ waitWakes' = SettledWakes("rendered", "undelivered")
    /\ sched' = IF active \/ waitWakes' # waitWakes THEN Scheduled(sched) ELSE sched
    /\ UNCHANGED <<waitWorker, rec, arming, active, queue, late, shown, made>>
Resume ==
    /\ ~orc.up
    /\ orc' = [orc EXCEPT !.up = TRUE]
    /\ queue' = [queue EXCEPT !.flush = TRUE]
    /\ WaitObserved
    /\ UNCHANGED <<waitWorker, rec, arming, active, waitWakes, late, waitMoves, waitFaults, shown, made>>

(* The binding is removed, replaced or loses its grant; a stop or a cancelled
   turn reads the same.  bindingRemoved follows; the record may be refreshed first. *)
Unbind ==
    /\ WaitMove /\ Fault /\ orc.bound
    /\ orc' = [orc EXCEPT !.bound = FALSE]
    /\ WaitObserved
    /\ UNCHANGED <<waitWorker, rec, arming, active, queue, waitWakes, late, shown, made>>
BindingRemoved ==
    /\ ~orc.bound /\ StoreFree /\ rec.armed
    /\ rec' = Cancelled(rec)
    /\ Remember(rec') /\ Notify
    /\ UNCHANGED <<waitWorker, orc, arming, queue, waitWakes, late, waitMoves, waitFaults, shown, made>>
Rebind ==
    /\ ~orc.bound /\ ~rec.armed /\ StoreFree
    /\ orc' = [orc EXCEPT !.bound = TRUE]
    /\ UNCHANGED <<waitWorker, rec, arming, active, sched, queue, waitWakes, late, waitMoves, waitFaults, shown, made>>

(* arm, first half: inside the store's serialisation, the mutation id and the
   epoch are compared, the leases and the sources are read. *)
ArmCut(req) ==
    /\ StoreFree /\ orc.bound
    /\ req.mut # rec.mut /\ req.prev = rec.epoch
    /\ rec.epoch < MaxEpochs
    /\ arming' = Refresh(Fresh(rec, req))
    /\ UNCHANGED <<waitWorker, rec, active, sched, queue, waitWakes, late, shown, made>>

(* A new request, or one whose answer was lost and that is sent again: the
   current mutation id answers with the record as it stands, cancelled or not;
   any other previous epoch is refused. *)
Arm(req) ==
    /\ WaitMove /\ orc.busy /\ UNCHANGED waitFaults
    /\ orc' = [orc EXCEPT !.sent = @ \union {req}]
    /\ ArmCut(req)
ArmRepeated(req) ==
    /\ WaitMove /\ orc.busy /\ req \in orc.sent /\ orc.bound /\ StoreFree
    /\ req.mut = rec.mut
    /\ rec' = Refresh(rec)
    /\ Remember(rec') /\ Notify
    /\ UNCHANGED <<waitWorker, orc, arming, queue, waitWakes, late, waitFaults, shown, made>>

(* arm, second half: the binding and the leases are read again, the record is
   written and registered, and a second cut of the sources is taken. *)
SecondCut(r) == Refresh(r)
ArmCommit ==
    /\ ~StoreFree
    /\ arming' = NoRec
    /\ IF orc.bound /\ \A w \in AwaitedWorkers : Held(arming, w)
       THEN /\ rec' = SecondCut(arming) /\ Remember(rec') /\ Notify
            /\ late' = FALSE /\ made' = made \union {<<arming.mut, arming.epoch>>}
       ELSE UNCHANGED <<rec, active, sched, late, made>>
    /\ UNCHANGED <<waitWorker, orc, queue, waitWakes, waitMoves, waitFaults, shown>>

(* cancel of the epoch the orchestrator holds. *)
Cancel ==
    /\ WaitMove /\ orc.busy /\ orc.bound /\ StoreFree /\ rec.armed
    /\ rec' = Cancelled(rec)
    /\ Remember(rec') /\ Notify
    /\ UNCHANGED <<waitWorker, orc, arming, queue, waitWakes, late, waitFaults, shown, made>>

(* readPage: reconcile, then bank a receipt for exactly what the page shows. *)
ReadPage ==
    /\ WaitMove /\ orc.busy /\ orc.reading = Nothing /\ orc.bound /\ StoreFree
    /\ rec.armed /\ rec.seq < MaxReads
    /\ LET r == Refresh(rec)
           seq == r.seq + 1
           page == [seq |-> seq, cov |-> Received(r), acked |-> FALSE]
       IN  /\ rec' = [r EXCEPT !.seq = seq, !.receipts =
                        LET all == Append(r.receipts, page)
                        IN  SubSeq(all, Higher(1, Len(all) - ReceiptMax + 1), Len(all))]
           /\ orc' = [orc EXCEPT !.reading =
                        [epoch |-> r.epoch, seq |-> seq, items |-> PageOf(r)]]
    /\ Remember(rec') /\ Notify
    /\ UNCHANGED <<waitWorker, arming, queue, waitWakes, late, waitFaults, shown, made>>

(* The page is returned only if the wait still stands. *)
ReadReturns ==
    /\ orc.reading # Nothing /\ StoreFree
    /\ orc' = [orc EXCEPT !.reading = Nothing,
                 !.got = IF orc.bound /\ rec.armed /\ rec.epoch = orc.reading.epoch
                         THEN @ \union {orc.reading} ELSE @]
    /\ UNCHANGED <<waitWorker, rec, arming, active, sched, queue, waitWakes, late, waitMoves, waitFaults, shown, made>>

(* acknowledge of a page that was returned; a receipt that fell out of the
   retained ones, or of another epoch, is refused. *)
Acknowledge(p) ==
    /\ orc.busy /\ p \in orc.got /\ orc.bound /\ StoreFree
    /\ rec.armed /\ rec.epoch = p.epoch
    /\ \E i \in DOMAIN rec.receipts :
        /\ rec.receipts[i].seq = p.seq /\ ~rec.receipts[i].acked
        /\ LET newer == p.seq > rec.consumption
           IN  rec' = [rec EXCEPT !.cons = MergeConsumed(@, rec.receipts[i].cov, newer),
                                  !.receipts[i].acked = TRUE,
                                  !.consumption = IF newer THEN p.seq ELSE @,
                                  !.ackLate = IF newer THEN late ELSE @]
    /\ shown' = [w \in AwaitedWorkers |-> shown[w] \union p.items[w]]
    /\ orc' = [orc EXCEPT !.got = @ \ {p}]
    /\ Remember(rec') /\ Notify
    /\ UNCHANGED <<waitWorker, arming, queue, waitWakes, late, waitMoves, waitFaults, made>>

--------------------------------------------------------------------------
(* The scheduler *)

(* The end of a tick: what changed meanwhile starts the next one. *)
Ends(s) == [s EXCEPT !.pc = IF s.dirty THEN "tick" ELSE "rest", !.dirty = FALSE, !.seen = Nothing]

(* The coalescing timer fires while a tick another timer started still runs. *)
CoalesceTimer ==
    /\ sched.timer /\ sched.pc # "rest"
    /\ sched' = [sched EXCEPT !.timer = FALSE, !.dirty = TRUE]
    /\ UNCHANGED <<waitWorker, orc, rec, arming, active, queue, waitWakes, late, waitMoves, waitFaults, shown, made>>

Unsent(id) == id \in DOMAIN waitWakes /\ waitWakes[id].status = "queued"
Withdrawn(ids) == [id \in DOMAIN waitWakes |-> IF id \in ids /\ Unsent(id)
                                           THEN [waitWakes[id] EXCEPT !.status = "cancelled"] ELSE waitWakes[id]]

(* tick, after a timer or again: reconcile, arm the review timer, withdraw
   what is not the intent. *)
Tick ==
    /\ sched.pc = "tick" \/ (sched.pc = "rest" /\ sched.timer)
    /\ StoreFree
    /\ rec' = Refresh(rec)
    /\ Remember(rec')
    /\ waitWakes' = Withdrawn(DOMAIN waitWakes \ (IF rec'.armed THEN {rec'.intent.id} ELSE {}))
    /\ sched' =
        LET timed == [sched EXCEPT !.timer = @ /\ sched.pc = "tick",
                                   !.dirty = @ /\ sched.pc = "tick",
                                   !.deadline = IF rec'.armed /\ ~rec'.notified /\ ~late
                                                THEN "review" ELSE "none"]
        IN  IF ~rec'.armed THEN Ends(timed)
            ELSE IF rec'.intent = NoIntent THEN [timed EXCEPT !.pc = "decide"]
            ELSE [timed EXCEPT !.pc = IF /\ rec'.consumption > 0
                                         /\ CoverageContains(rec'.cons, rec'.intent.cov,
                                                             rec'.consumption <= rec'.intent.floor)
                                      THEN "clear" ELSE "offer",
                               !.seen = [id |-> rec'.intent.id, late |-> rec'.ackLate, ready |-> rec'.ready]]
    /\ UNCHANGED <<waitWorker, orc, arming, queue, late, waitMoves, waitFaults, shown, made>>

(* The intent was consumed: withdraw its wake and clear it, unless it changed. *)
ClearIntent ==
    /\ sched.pc = "clear" /\ StoreFree
    /\ waitWakes' = Withdrawn({sched.seen.id})
    /\ LET r == Refresh(rec)
       IN  rec' = IF r.armed /\ r.intent.id = sched.seen.id
                  THEN [r EXCEPT !.intent = NoIntent, !.notified = @ \/ sched.seen.late] ELSE r
    /\ sched' = IF rec'.armed THEN [sched EXCEPT !.pc = "decide", !.seen = Nothing] ELSE Ends(sched)
    /\ UNCHANGED <<waitWorker, orc, arming, active, queue, late, waitMoves, waitFaults, shown, made>>

Recent == Cardinality({id \in DOMAIN waitWakes : waitWakes[id].recent})

(* enqueue under the hourly ceiling; enqueueBroker keeps a known message. *)
Enqueue(id) ==
    IF Recent >= HourlyWakes
    THEN /\ sched' = Ends([sched EXCEPT !.deadline = IF HourlyWakes > 0 THEN "budget" ELSE @])
         /\ UNCHANGED <<waitWakes, queue>>
    ELSE /\ waitWakes' = IF id \in DOMAIN waitWakes THEN waitWakes
                     ELSE [i \in DOMAIN waitWakes \union {id} |->
                             IF i = id THEN [status |-> "queued", recent |-> TRUE] ELSE waitWakes[i]]
         /\ queue' = [queue EXCEPT !.flush = TRUE]
         /\ sched' = Ends(sched)

(* A pending intent: held while wakes are off or the process is missing,
   enqueued when no instruction has its id, flushed while it is unsent. *)
Offer ==
    /\ sched.pc = "offer" /\ StoreFree
    /\ rec' = Refresh(rec)
    /\ IF ~orc.on \/ ~sched.seen.ready
       THEN sched' = Ends(sched) /\ UNCHANGED <<waitWakes, queue>>
       ELSE IF sched.seen.id \notin DOMAIN waitWakes THEN Enqueue(sched.seen.id)
       ELSE /\ queue' = [queue EXCEPT !.flush = @ \/ Unsent(sched.seen.id)]
            /\ sched' = Ends(sched) /\ UNCHANGED waitWakes
    /\ UNCHANGED <<waitWorker, orc, arming, active, late, waitMoves, waitFaults, shown, made>>

(* schedulingSnapshot and the decision on it; an input already decided rests. *)
Decide ==
    /\ sched.pc = "decide" /\ StoreFree
    /\ rec' = Refresh(rec)
    /\ sched' = IF ~rec'.armed \/ rec'.decided = InputId(rec') THEN Ends(sched)
                ELSE [sched EXCEPT !.pc = "bank",
                        !.seen = [epoch |-> rec'.epoch, input |-> InputId(rec'), wake |-> Wakes(rec'),
                                  review |-> ReviewDue(rec')]]
    /\ UNCHANGED <<waitWorker, orc, arming, active, queue, waitWakes, late, waitMoves, waitFaults, shown, made>>

(* The decision and its intent are banked in one write, if the input stands. *)
Stands(r, s) == r.armed /\ r.epoch = s.epoch /\ r.intent = NoIntent /\ InputId(r) = s.input
Bank ==
    /\ sched.pc = "bank" /\ StoreFree
    /\ LET r == Refresh(rec)
           s == sched.seen
           id == <<s.epoch, s.input>>
           decided == [r EXCEPT !.decided = s.input]
       IN  rec' = IF ~Stands(r, s) THEN r
                  ELSE IF ~s.wake THEN decided
                  ELSE [decided EXCEPT !.intent = [id |-> id, cov |-> r.cap, floor |-> r.seq],
                                       !.notified = @ \/ s.review]
    /\ sched' = IF rec'.armed /\ rec'.intent # NoIntent /\ rec'.ready
                THEN [sched EXCEPT !.pc = "enqueue", !.seen = [id |-> rec'.intent.id]] ELSE Ends(sched)
    /\ UNCHANGED <<waitWorker, orc, arming, active, queue, waitWakes, late, waitMoves, waitFaults, shown, made>>

EnqueueWake ==
    /\ sched.pc = "enqueue" /\ StoreFree
    /\ IF orc.on THEN Enqueue(sched.seen.id)
       ELSE sched' = Ends(sched) /\ UNCHANGED <<waitWakes, queue>>
    /\ UNCHANGED <<waitWorker, orc, rec, arming, active, late, waitMoves, waitFaults, shown, made>>

--------------------------------------------------------------------------
(* The instruction queue's attempt and the admission transaction *)

(* flush takes an unsent wake; a busy orchestrator holds it, a missing process
   refuses it, otherwise the admission reconciles the record first. *)
FlushWake(id) ==
    /\ queue.flush /\ queue.id = Nothing /\ Unsent(id) /\ StoreFree
    /\ queue' = [flush |-> FALSE, id |-> IF orc.up /\ ~orc.busy THEN id ELSE Nothing]
    /\ waitWakes' = IF orc.up THEN waitWakes ELSE [waitWakes EXCEPT ![id].status = "undelivered"]
    /\ rec' = IF orc.up /\ ~orc.busy /\ rec.epoch = id[1] THEN Refresh(rec) ELSE rec
    /\ sched' = IF waitWakes' # waitWakes THEN Scheduled(sched) ELSE sched
    /\ UNCHANGED <<waitWorker, orc, arming, active, late, waitMoves, waitFaults, shown, made>>
FlushNothing ==
    /\ queue.flush /\ queue.id = Nothing /\ \A id \in DOMAIN waitWakes : ~Unsent(id)
    /\ queue' = [queue EXCEPT !.flush = FALSE]
    /\ UNCHANGED <<waitWorker, orc, rec, arming, active, sched, waitWakes, late, waitMoves, waitFaults, shown, made>>

Obsolete(id) == ~rec.armed \/ rec.epoch # id[1] \/ rec.intent.id # id \/ ~orc.bound
(* The recorded gaps are what they are now. *)
GapsCurrent == \A w \in AwaitedWorkers : Held(rec, w) <=> rec.cap[w].key[1]

(* admitWake: under the store's serialisation up to the provider write. *)
AdmitWake ==
    /\ queue.id # Nothing /\ StoreFree
    /\ LET id == queue.id
           status == IF ~Unsent(id) THEN waitWakes[id].status
                     ELSE IF Obsolete(id) THEN "cancelled"
                     ELSE IF rec.ready /\ orc.up /\ ~orc.busy /\ GapsCurrent /\ orc.on THEN "rendered"
                     ELSE "queued"
       IN  /\ waitWakes' = [waitWakes EXCEPT ![id].status = status]
           /\ orc' = IF status = "rendered" /\ Unsent(id) THEN [orc EXCEPT !.busy = TRUE] ELSE orc
    /\ queue' = [queue EXCEPT !.id = Nothing]
    /\ sched' = IF waitWakes' # waitWakes THEN Scheduled(sched) ELSE sched
    /\ UNCHANGED <<waitWorker, rec, arming, active, late, waitMoves, waitFaults, shown, made>>

--------------------------------------------------------------------------
(* The broker restarts: subscriptions first, then every record is reconciled
   and ticked.  The orchestrator's session comes back without its process. *)
WaitRestart ==
    /\ WaitMove /\ Fault
    /\ arming' = NoRec
    /\ orc' = [orc EXCEPT !.up = FALSE, !.busy = FALSE, !.reading = Nothing, !.got = {}]
    /\ active' = rec.armed
    /\ sched' = [pc |-> "tick", dirty |-> FALSE, timer |-> FALSE, deadline |-> "none", seen |-> Nothing]
    /\ queue' = [flush |-> FALSE, id |-> Nothing]
    /\ UNCHANGED <<waitWorker, rec, waitWakes, late, shown, made>>

--------------------------------------------------------------------------
Requests == {[mut |-> Cardinality(orc.sent) + 1, prev |-> e, target |-> t] :
                e \in {0, rec.epoch}, t \in [AwaitedWorkers -> 1..MaxWaitTurns]}

AwaitedMoves ==
    \E w \in AwaitedWorkers :
        \/ \E kind \in ReportKinds : ReportArrives(w, kind)
        \/ CompleteTurn(w) \/ StateFlips(w) \/ LeaseMoves(w)
OperatorMoves == SetPolicy \/ RestorePolicy \/ DeadlinePasses \/ WaitHourPasses
                 \/ StartTurn \/ Unbind \/ BindingRemoved \/ Rebind
ProcessMoves == EndTurn \/ Exit \/ Resume \/ WaitRestart
ToolCalls ==
    \/ \E req \in Requests \union orc.sent : Arm(req) \/ ArmRepeated(req)
    \/ ArmCommit \/ Cancel \/ ReadPage \/ ReadReturns
    \/ \E p \in orc.got : Acknowledge(p)
Scheduler == CoalesceTimer \/ Tick \/ ClearIntent \/ Offer \/ Decide \/ Bank \/ EnqueueWake
Queue == (\E id \in DOMAIN waitWakes : FlushWake(id)) \/ FlushNothing \/ AdmitWake

WaitNext == AwaitedMoves \/ OperatorMoves \/ ProcessMoves \/ ToolCalls \/ Scheduler \/ Queue

WaitSpec == WaitInit /\ [][WaitNext]_waitVars

--------------------------------------------------------------------------
(* Properties *)

(* Consumption is what the orchestrator acknowledged of pages it was given:
   every report up to the consumed position and the consumed result were on
   such a page, across page bounds, refused returns, dropped receipts, late
   acknowledgements and re-armed waits. *)
ConsumedWasRead ==
    \A w \in AwaitedWorkers :
        /\ \A n \in 1 .. rec.cons[w].ord : <<"report", n>> \in shown[w]
        /\ rec.cons[w].turn > 0 => <<"turn", rec.cons[w].turn>> \in shown[w]

==============================================================================
