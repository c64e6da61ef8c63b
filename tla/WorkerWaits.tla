----------------------------- MODULE WorkerWaits -----------------------------
(***************************************************************************)
(* Waiting for the results of workers: what the broker concludes about a   *)
(* worker from all it has observed (domain/worker-truth.ts), what a wait   *)
(* reads for one target turn (orchestration/session/worker-turn-state.ts), *)
(* the receipts of completed turns, and the coordinator that blocks until  *)
(* every target has settled (session-wait-coordinator.ts) and learns of    *)
(* changes from the update bus, at once or with the next flush             *)
(* (session-update-bus.ts).                                                *)
(*                                                                         *)
(* A screen is abstracted to the activity and the input surface read off   *)
(* it; Scouts are those that run headless.  How a turn is captured and     *)
(* made durable is the subject of TurnEngine; how a process starts, stops, *)
(* exits and is recovered of SessionLifecycle.                             *)
(***************************************************************************)
EXTENDS Naturals

CONSTANTS
    Targets,    \* the workers of the wait
    Scouts,     \* those of them that are Scouts
    Retained,   \* receipts a ledger keeps: 64
    MaxTurns,   \* bound: turns of a worker
    MaxMoves    \* bound: moves of workers and of the operator

WaitsConstants ==
    /\ Scouts \subseteq Targets
    /\ Retained \in Nat \ {0} /\ MaxTurns \in Nat /\ MaxMoves \in Nat

VARIABLES
    worker,   \* what the broker knows of each worker
    wait,     \* the wait: open, the target turn of each worker, the cached statuses
    flush,    \* workers whose update is scheduled and not announced yet
    moves,    \* moves made
    given     \* history: the turns of each worker whose result a wait handed over,
              \* since the broker was started (here) and before (earlier)

vars == <<worker, wait, flush, moves, given>>

Turn == 1 .. MaxTurns
Activities == {"working", "awaiting-input", "needs-input", "unknown"}
Surfaces == {"ready", "occupied", "modal", "unrecognized"}

\* A worker whose process has just started and shown nothing yet.
Started(w) == [proc |-> "live", exec |-> "active", stop |-> FALSE, limit |-> FALSE, scout |-> "none",
               activity |-> "unknown", surface |-> "unrecognized", pending |-> w \notin Scouts, stall |-> "no",
               done |-> 0, floor |-> 0, kept |-> [t \in {} |-> [cut |-> FALSE, told |-> FALSE]]]

Closed == [open |-> FALSE, turn |-> [w \in Targets |-> 1], cached |-> [w \in Targets |-> "waiting"]]

Init ==
    /\ worker = [w \in Targets |-> Started(w)]
    /\ wait = Closed /\ flush = {} /\ moves = 0
    /\ given = [w \in Targets |-> [here |-> {}, earlier |-> {}]]

---------------------------------------------------------------------------
(* What is concluded from what was observed *)

Truth(r) ==
    IF r.proc = "finalizing" THEN "working"
    ELSE IF r.limit THEN "provider-limit"
    ELSE IF r.scout = "budget_exhausted" THEN "stopped"
    ELSE IF r.scout = "failed" THEN "failed"
    ELSE IF r.exec = "errored" THEN "errored"
    ELSE IF r.exec = "lost" THEN "interrupted"
    ELSE IF r.exec = "cancelled" THEN (IF r.proc = "live" THEN "stopping" ELSE "stopped")
    ELSE IF r.exec = "failed" THEN "failed"
    ELSE IF r.exec = "exited" THEN (IF r.stop THEN "stopped" ELSE "exited")
    ELSE IF r.surface = "modal" \/ r.activity = "needs-input" THEN "blocked-modal"
    ELSE IF r.activity # "working" /\ r.surface = "occupied" THEN "blocked-composer"
    ELSE IF r.activity # "working" /\ r.pending THEN (IF r.stall = "startup" THEN "stalled" ELSE "starting")
    ELSE IF r.stall = "turn" THEN "stalled"
    ELSE IF r.activity = "working" THEN "working"
    ELSE IF r.activity = "unknown" /\ r.surface # "ready" THEN "unknown"
    ELSE "idle"

WaitReading(state) ==
    CASE state \in {"errored", "failed"}                   -> "failed"
      [] state \in {"blocked-modal", "blocked-composer"}   -> "needs-input"
      [] state \in {"provider-limit", "stopped", "interrupted", "exited", "stalled", "working"} -> state
      [] OTHER                                             -> "waiting"

\* Bug: a result that was handed over does not outrank a later instruction.
AnsweredAnew(r, t) == t \in DOMAIN r.kept /\ r.done >= t /\ t > r.floor

Answered(r, t) == t \in DOMAIN r.kept /\ r.done >= t /\ (r.kept[t].told \/ t > r.floor)

\* What a wait for the turn t of a worker reads.
Reading(r, t) ==
    IF r.scout = "exhausting" THEN "waiting"
    ELSE IF r.scout = "budget_exhausted" THEN (IF r.proc = "gone" THEN "budget_exhausted" ELSE "waiting")
    ELSE IF t \in DOMAIN r.kept /\ r.kept[t].cut THEN "stopped"
    ELSE IF Answered(r, t) THEN "completed"
    ELSE WaitReading(Truth(r))

IsSettled(status) == status \notin {"working", "waiting"}

---------------------------------------------------------------------------
(* The coordinator *)

\* The results that reach the caller count as delivered; turn is what the wait
\* asked of each worker.
Handed(W, turn) ==
    [w \in Targets |->
        IF Reading(W[w], turn[w]) = "completed" THEN [W[w] EXCEPT !.kept[turn[w]].told = TRUE] ELSE W[w]]

Answers(W, turn) ==
    /\ worker' = Handed(W, turn)
    /\ given' = [w \in Targets |->
                    IF Reading(W[w], turn[w]) = "completed" THEN [given[w] EXCEPT !.here = @ \cup {turn[w]}]
                    ELSE given[w]]

\* The bus announces w, whose state is now in W; an open wait reads w again and
\* answers when every target has settled.
Announce(w, W) ==
    LET cached == [wait.cached EXCEPT ![w] = Reading(W[w], wait.turn[w])]
        over   == wait.open /\ \A v \in Targets : IsSettled(cached[v])
    IN /\ flush' = flush \ {w}
       /\ IF over THEN Answers(W, wait.turn) ELSE worker' = W /\ UNCHANGED given
       /\ wait' = IF over THEN Closed
                  ELSE IF wait.open THEN [wait EXCEPT !.cached = cached]
                  ELSE wait

\* The update of w is coalesced with those that come before the next flush.
Schedule(w, W) == flush' = flush \cup {w} /\ worker' = W /\ UNCHANGED <<wait, given>>

Silently(W) == worker' = W /\ UNCHANGED <<wait, flush, given>>

Open(turn) ==
    /\ ~wait.open
    /\ LET cached == [w \in Targets |-> Reading(worker[w], turn[w])]
       IN IF \A w \in Targets : IsSettled(cached[w])
          THEN Answers(worker, turn) /\ UNCHANGED wait
          ELSE wait' = [open |-> TRUE, turn |-> turn, cached |-> cached] /\ UNCHANGED <<worker, given>>
    /\ UNCHANGED <<flush, moves>>

TimeOut ==
    /\ wait.open /\ wait' = Closed
    /\ Answers(worker, wait.turn)
    /\ UNCHANGED <<flush, moves>>

FlushUpdates(w) == w \in flush /\ Announce(w, worker) /\ UNCHANGED moves

---------------------------------------------------------------------------
(* What happens to a worker *)

Move == moves < MaxMoves /\ moves' = moves + 1

With(w, r) == [worker EXCEPT ![w] = r]

Running(w) == worker[w].proc = "live" /\ worker[w].exec = "active"

\* The screen of a stopped or faulted worker is not read any more; a headless
\* Scout shows what it does, but no input surface.
Output(w, activity, surface) ==
    /\ Move /\ Running(w)
    /\ w \in Scouts => activity # "needs-input" /\ surface = "unrecognized"
    /\ Schedule(w, With(w, [worker[w] EXCEPT !.activity = activity, !.surface = surface, !.stall = "no",
                                !.pending = @ /\ ~(surface = "ready" /\ activity # "working")]))

\* Time passes over a screen that does not change: a turn stalls unnoticed, the
\* deadline of a start is a timer that announces the worker.
StallTurn(w) ==
    /\ Move /\ Running(w) /\ w \notin Scouts
    /\ worker[w].activity = "working" /\ worker[w].stall = "no"
    /\ Silently(With(w, [worker[w] EXCEPT !.stall = "turn"]))

StallStartup(w) ==
    /\ Move /\ Running(w)
    /\ worker[w].pending /\ worker[w].activity # "working"
    /\ Announce(w, With(w, [worker[w] EXCEPT !.stall = "startup"]))

\* An instruction is rendered; a turn whose capture is in flight is reserved.
Instruct(w, floor) ==
    /\ Move /\ Running(w) /\ w \notin Scouts
    /\ floor \in {worker[w].done, worker[w].done + 1}
    /\ Silently(With(w, [worker[w] EXCEPT !.floor = floor, !.stall = "no"]))

\* Only the newest receipts are retained.
Recorded(r, cut) ==
    [r EXCEPT !.done = @ + 1,
              !.kept = [t \in {u \in DOMAIN r.kept \cup {r.done + 1} : u + Retained > r.done + 1} |->
                           IF t = r.done + 1 THEN [cut |-> cut, told |-> FALSE] ELSE r.kept[t]]]

\* A turn is banked by the capture that owns it, and announced.  A commit that
\* outlives a stop, a fault or an exit is recorded, but its capture is stale;
\* what an exit finds is announced with the exit.
BankTurn(w, cut) ==
    /\ Move /\ w \notin Scouts /\ worker[w].done < MaxTurns
    /\ LET W == With(w, Recorded(worker[w], cut))
       IN IF Running(w) THEN Announce(w, W) ELSE Silently(W)

\* The provider names a limit, or fails.
Fatal(w, limit) ==
    /\ Move /\ Running(w) /\ w \notin Scouts
    /\ Announce(w, With(w, [worker[w] EXCEPT !.exec = "errored", !.limit = limit,
                                             !.activity = "unknown", !.stall = "no"]))

\* A stop is announced when the process has exited; that of a finished thread
\* changes how its exit reads.
Stop(w) ==
    /\ Move
    /\ \/ /\ worker[w].proc = "live" /\ worker[w].exec \in {"active", "errored"} /\ ~worker[w].stop
          /\ Silently(With(w, [worker[w] EXCEPT !.exec = "cancelled", !.stop = TRUE]))
       \/ /\ worker[w].proc = "gone" /\ worker[w].exec # "lost" /\ ~worker[w].stop
          /\ Announce(w, With(w, [worker[w] EXCEPT !.stop = TRUE]))

\* Whether the exit of the process waits for the last turn to settle.
SettlesTurn(w) == worker[w].exec = "active" /\ w \notin Scouts

Outcome(r, zero) ==
    IF r.scout = "complete" THEN "exited"
    ELSE IF r.scout = "budget_exhausted" THEN "cancelled"
    ELSE IF r.limit \/ r.exec = "errored" THEN "failed"
    ELSE IF r.stop THEN "cancelled"
    ELSE IF r.scout = "failed" \/ ~zero THEN "failed"
    ELSE "exited"

\* Bug: the terminal record is published without an announcement.
PublishUnannounced(w, zero) ==
    Silently(With(w, [worker[w] EXCEPT !.proc = "gone", !.exec = Outcome(worker[w], zero)]))

Publish(w, zero) ==
    Announce(w, With(w, [worker[w] EXCEPT !.proc = "gone", !.exec = Outcome(worker[w], zero)]))

\* A normal exit is published once its last turn has settled, that of a Scout
\* once its verdict has.
Exit(w, zero) ==
    /\ Move /\ worker[w].proc = "live"
    /\ w \in Scouts => worker[w].scout \notin {"none", "exhausting"}
    /\ IF SettlesTurn(w) THEN Silently(With(w, [worker[w] EXCEPT !.proc = "finalizing"]))
       ELSE Publish(w, zero)

FinishExit(w, zero) ==
    /\ worker[w].proc = "finalizing"
    /\ Publish(w, zero) /\ UNCHANGED moves

\* The time of a Scout is over; it is cut off, or has answered already.
Exhaust(w) ==
    /\ Move /\ w \in Scouts /\ Running(w) /\ worker[w].scout = "none"
    /\ Silently(With(w, [worker[w] EXCEPT !.scout = "exhausting"]))

CutOff(w, answered) ==
    /\ worker[w].scout = "exhausting"
    /\ Announce(w, With(w, [worker[w] EXCEPT !.scout = IF answered THEN "none" ELSE "budget_exhausted",
                                             !.exec = IF answered THEN @ ELSE "cancelled"]))
    /\ UNCHANGED moves

\* The process of a Scout has exited and its card is judged.
Judge(w, complete) ==
    /\ Move /\ w \in Scouts /\ worker[w].proc = "live" /\ worker[w].scout = "none"
    /\ complete => ~worker[w].stop
    /\ LET r == IF complete THEN [Recorded(worker[w], FALSE) EXCEPT !.scout = "complete"]
                ELSE [worker[w] EXCEPT !.scout = "failed",
                                       !.exec = IF worker[w].stop THEN @ ELSE "failed"]
       IN IF complete \/ worker[w].stop THEN Silently(With(w, r)) ELSE Announce(w, With(w, r))

Resume(w) ==
    /\ Move /\ worker[w].proc = "gone" /\ w \notin Scouts
    /\ Announce(w, With(w, [Started(w) EXCEPT !.done = worker[w].done, !.floor = worker[w].floor,
                                              !.kept = worker[w].kept]))

\* A new broker has the receipts, unread, and lost the processes that were live.
RestartBroker ==
    /\ Move /\ wait' = Closed /\ flush' = {}
    /\ worker' = [w \in Targets |->
          [worker[w] EXCEPT !.proc = "gone", !.floor = 0,
                            !.exec = IF worker[w].proc = "gone" THEN @ ELSE "lost",
                            !.scout = IF @ = "exhausting" THEN "none" ELSE @,
                            !.kept = [t \in DOMAIN worker[w].kept |-> [worker[w].kept[t] EXCEPT !.told = FALSE]]]]
    /\ given' = [w \in Targets |-> [here |-> {}, earlier |-> given[w].earlier \cup given[w].here]]

Next ==
    \/ \E turn \in [Targets -> Turn] : Open(turn)
    \/ TimeOut
    \/ RestartBroker
    \/ \E w \in Targets :
          \/ FlushUpdates(w)
          \/ \E a \in Activities, s \in Surfaces : Output(w, a, s)
          \/ StallTurn(w)
          \/ StallStartup(w)
          \/ \E floor \in 0 .. MaxTurns : Instruct(w, floor)
          \/ \E b \in BOOLEAN : BankTurn(w, b) \/ Fatal(w, b) \/ Exit(w, b) \/ FinishExit(w, b)
                                  \/ CutOff(w, b) \/ Judge(w, b)
          \/ Stop(w)
          \/ Exhaust(w)
          \/ Resume(w)

Spec == Init /\ [][Next]_vars

---------------------------------------------------------------------------
(* A result that a wait handed over is read as completed by every later wait on the same
   broker, whatever the worker is told and whatever becomes of it, for as long as its receipt
   is retained.  A broker that was restarted since has the receipt but does not know that it
   was delivered (worker-turn-state.ts keeps deliveries in memory): it is read as completed
   until the worker is instructed again, and may be hidden by that instruction. *)
DeliveredStays ==
    \A w \in Targets : \A t \in DOMAIN worker[w].kept :
        t \in given[w].here \/ (t \in given[w].earlier /\ t > worker[w].floor)
            => Reading(worker[w], t) = "completed"

\* What settles w without an announcement of its own: a stall, which is time
\* passing, and what comes with the end of a process: its exit is announced.
ExitDue(w) == worker[w].proc = "finalizing" \/ (worker[w].proc = "live" /\ worker[w].exec # "active")
              \/ (worker[w].proc = "live" /\ worker[w].scout = "complete")
Unannounced(w) == worker[w].stall = "turn" \/ ExitDue(w)

(* No wait hangs on settled workers: while one is open and all its targets have settled, the
   update of one of them is still to be announced. *)
NoSettledWaitHangs ==
    (wait.open /\ \A w \in Targets : IsSettled(Reading(worker[w], wait.turn[w])))
        => \E w \in Targets : w \in flush \/ Unannounced(w)
==============================================================================
