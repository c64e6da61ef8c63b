---------------------------- MODULE JobDispatch ----------------------------
(***************************************************************************)
(* The dispatch adapters behind the job control plane and the worktree     *)
(* leases a writing job holds: AppServerJobDispatchAdapter with            *)
(* WorktreeLeaseManager and LeaseStore (a Codex job), and the headless     *)
(* adapters of Claude, Cursor and Antigravity.                             *)
(*                                                                         *)
(* All writing jobs name one worktree.  The lease manager runs its         *)
(* operations one after the other (`calls`), so each is one step.  A TTL   *)
(* has no length here: `lapsed` are the leases whose expiry has passed.    *)
(* The adapter is the only caller of acquire, always for workspace-write.  *)
(* What a provider writes is a response, good or bad, or a turn's end.     *)
(***************************************************************************)
EXTENDS Naturals, Sequences, FiniteSets

CONSTANTS
    Runs,           \* the jobs that reach an adapter
    Scenes,         \* jobs submitted, their adapter, and what may happen to them
    MaxFaults       \* bound: failing writes, crashes, lapses, cancellations

\* `kind` is "codex" or a headless adapter, `writes` the jobs that ask for a
\* writable sandbox.
JobDispatchConstants ==
    /\ \A s \in Scenes : /\ s.jobs \subseteq Runs /\ s.writes \subseteq s.jobs
                         /\ s.kind \in {"codex", "claude", "cursor", "antigravity"}
                         /\ s.faults \subseteq {"append", "crash", "lapse", "cancel", "timeout", "artifact"}
    /\ MaxFaults \in Nat

VARIABLES
    scene,
    records,    \* WorktreeLeaseManager.records, one lease per job
    leaseFile,  \* leases.jsonl: the latest snapshot of each lease
    tail,       \* how the file ends: "line", "torn", or "corrupt" before the end
    lapsed,     \* leases whose expiresAt has passed
    calls,      \* operations waiting in the manager's chain
    job,        \* the adapter's RunningJob
    process,    \* the provider process: none, running, stopping, gone
    delivered,  \* reports delivered to the control plane
    answer,     \* what dispatch answered: none, accepted, thrown
    up,         \* the broker runs
    granted,    \* history: fencing tokens in the order of their grants
    stuck,      \* history: jobs whose lease could not be released
    faults

leases == <<records, leaseFile, tail, lapsed, granted>>
dispatchVars == <<scene, leases, calls, job, process, delivered, answer, up, stuck, faults>>

NoLease == [state |-> "none", fence |-> 0, orphaned |-> FALSE]
NewJob == [phase |-> "new", settled |-> FALSE, cancelled |-> FALSE, turn |-> FALSE,
           leased |-> FALSE, result |-> "none", asked |-> FALSE]

Codex == scene.kind = "codex"
Fault(kind) == kind \in scene.faults /\ faults < MaxFaults /\ faults' = faults + 1

DispatchInit ==
    /\ scene \in Scenes
    /\ records = [j \in Runs |-> NoLease] /\ leaseFile = [j \in Runs |-> NoLease] /\ tail = "line"
    /\ lapsed = {} /\ calls = <<>> /\ granted = <<>> /\ stuck = {}
    /\ job = [j \in Runs |-> NewJob] /\ process = [j \in Runs |-> "none"]
    /\ delivered = [j \in Runs |-> <<>>] /\ answer = [j \in Runs |-> "none"]
    /\ up = TRUE /\ faults = 0

(***************************************************************************)
(* LeaseStore.append, and what is in memory when it returns                *)
(***************************************************************************)
Held == {j \in Runs : records[j].state = "held"}

\* The snapshots of `js` are written.  A line after a torn one is corrupt.
Append_(js, r) ==
    /\ leaseFile' = [j \in Runs |-> IF j \in js THEN r[j] ELSE leaseFile[j]]
    /\ tail' = IF tail = "torn" /\ js # {} THEN "corrupt" ELSE tail

\* The snapshots of `js` are there; then the write or sync of j's fails, and
\* nothing, a part or all of its line is in the file.
AppendFails(js, j, r) ==
    /\ Fault("append")
    /\ \/ Append_(js, r)
       \/ /\ leaseFile' = [k \in Runs |-> IF k \in js THEN r[k] ELSE leaseFile[k]]
          /\ tail' = IF tail = "corrupt" \/ (tail = "torn" /\ js # {}) THEN "corrupt" ELSE "torn"
       \/ Append_(js \cup {j}, r)

Released(r, js) == [j \in Runs |-> IF j \in js THEN [r[j] EXCEPT !.state = "released"] ELSE r[j]]

\* One above every token ever recorded for the target.
NextFence(r) == 1 + CHOOSE n \in {r[j].fence : j \in Runs} : \A j \in Runs : r[j].fence <= n

(***************************************************************************)
(* The adapter                                                             *)
(***************************************************************************)
Call(op, j) == calls' = Append(calls, [op |-> op, job |-> j])

\* dispatch: a writing Codex job takes its lease first.
Dispatch(j) ==
    /\ up /\ j \in scene.jobs /\ answer[j] = "none" /\ job[j].phase = "new"
    /\ IF Codex /\ j \in scene.writes
       THEN job' = [job EXCEPT ![j].phase = "acquiring"] /\ Call("acquire", j) /\ UNCHANGED <<process, answer>>
       ELSE /\ job' = [job EXCEPT ![j].phase = IF Codex THEN "handshake" ELSE "accepted"]
            /\ process' = [process EXCEPT ![j] = "running"]
            /\ answer' = [answer EXCEPT ![j] = IF Codex THEN "none" ELSE "accepted"]
            /\ calls' = calls
    /\ UNCHANGED <<scene, leases, delivered, up, stuck, faults>>

Refused(j) ==
    /\ job' = [job EXCEPT ![j].phase = "over", ![j].settled = TRUE]
    /\ answer' = [answer EXCEPT ![j] = "thrown"]

\* Bug: only a job that was accepted counts as an owner.
BlockingAccepted == {j \in Held \ lapsed : job[j].phase = "accepted"}

\* Any lease that is held and not expired, orphaned or not.
Blocking == Held \ lapsed

\* acquire: what has expired is released first.
Acquire(j) ==
    LET expired == Held \cap lapsed
        r == Released(records, expired)
        grant == [state |-> "held", fence |-> NextFence(r), orphaned |-> FALSE]
    IN  \/ /\ Blocking = {}
           /\ records' = [r EXCEPT ![j] = grant] /\ Append_(expired \cup {j}, records')
           /\ granted' = Append(granted, grant.fence) /\ lapsed' = lapsed \ {j}
           /\ job' = [job EXCEPT ![j].phase = "handshake", ![j].leased = TRUE]
           /\ process' = [process EXCEPT ![j] = "running"]
           /\ UNCHANGED <<answer, faults>>
        \/ /\ Blocking = {}
           /\ records' = r /\ AppendFails(expired, j, [r EXCEPT ![j] = grant])
           /\ Refused(j) /\ UNCHANGED <<process, lapsed, granted>>
        \/ /\ Blocking # {}
           /\ records' = r /\ Append_(expired, r)
           /\ Refused(j) /\ UNCHANGED <<process, lapsed, granted, faults>>

(***************************************************************************)
(* The end of a run.  Each operator gives the job as it is afterwards.     *)
(***************************************************************************)
\* cleanup: SIGTERM, and the lease is given back once.
Cleaning(j, e) == [e EXCEPT !.settled = TRUE, !.leased = FALSE,
                            !.phase = IF e.leased THEN "releasing" ELSE "released"]
Releases(j) == IF job[j].leased THEN Call("release", j) ELSE calls' = calls
Signalled(j) == process' = [process EXCEPT ![j] = IF @ = "running" THEN "stopping" ELSE @]

\* finish: pending requests are rejected, so a dispatch that still waits for
\* one throws.
FinishRun(j, outcome) ==
    IF job[j].settled THEN UNCHANGED <<job, answer, calls>> /\ process' = process
    ELSE /\ job' = [job EXCEPT ![j] = [Cleaning(j, @) EXCEPT !.result = outcome]]
         /\ answer' = IF answer[j] = "none" THEN [answer EXCEPT ![j] = "thrown"] ELSE answer
         /\ Releases(j) /\ Signalled(j)

\* dispatch's catch: no report, the caller is told.
DispatchFails(j) ==
    /\ job' = [job EXCEPT ![j] = Cleaning(j, @)]
    /\ answer' = [answer EXCEPT ![j] = "thrown"]
    /\ Releases(j) /\ Signalled(j)

\* fatal: before acceptance the pending request is rejected; afterwards the
\* job is finished, as cancelled when it was cancelled.
Fatal(j, outcome) ==
    IF job[j].settled THEN UNCHANGED <<job, answer, calls>> /\ process' = process
    ELSE IF job[j].phase = "accepted" THEN FinishRun(j, IF job[j].cancelled THEN "cancelled" ELSE outcome)
    ELSE DispatchFails(j)

(***************************************************************************)
(* The manager serves the head of its chain                                *)
(***************************************************************************)
\* The heartbeat failed: fatal, behind whatever else waits in the chain.
HeartbeatFailed(j) ==
    IF job[j].settled THEN UNCHANGED <<job, answer, process>> /\ calls' = Tail(calls)
    ELSE /\ job' = [job EXCEPT ![j] = [Cleaning(j, @) EXCEPT !.result =
                        CASE answer[j] = "none" -> "none"
                          [] answer[j] # "none" /\ job[j].cancelled -> "cancelled"
                          [] OTHER -> "interrupted"]]
         /\ answer' = IF answer[j] = "none" THEN [answer EXCEPT ![j] = "thrown"] ELSE answer
         /\ calls' = Append(Tail(calls), [op |-> "release", job |-> j])
         /\ Signalled(j)

\* renew: an orphaned or expired lease cannot be renewed.  Nothing checks that
\* the lease is still held.
Renew(j) ==
    LET stale == records[j].orphaned \/ j \in lapsed
        r == Released(records, {j} \cap lapsed)
    IN  /\ \/ /\ stale /\ records' = r /\ Append_({j} \cap lapsed \cap Held, r)
              /\ HeartbeatFailed(j) /\ UNCHANGED faults
           \/ /\ ~stale /\ Append_({j}, records) /\ calls' = Tail(calls)
              /\ UNCHANGED <<records, job, answer, process, faults>>
           \/ /\ ~stale /\ AppendFails({}, j, records)
              /\ HeartbeatFailed(j) /\ UNCHANGED records
        /\ UNCHANGED <<lapsed, granted, stuck>>

\* release: refused when a newer token exists; then the rejection takes the
\* report, or dispatch's answer, with it.
Release(j) ==
    LET r == Released(records, {j})
        next == [job EXCEPT ![j].phase = "released"]
    IN  /\ calls' = Tail(calls)
        /\ \/ /\ \E k \in Runs : records[k].fence > records[j].fence
              /\ stuck' = stuck \cup {j} /\ job' = [job EXCEPT ![j].phase = "over"]
              /\ UNCHANGED <<records, leaseFile, tail, faults>>
           \/ /\ \A k \in Runs : records[k].fence <= records[j].fence
              /\ records' = r /\ Append_({j} \cap Held, r) /\ job' = next
              /\ UNCHANGED <<stuck, faults>>
           \/ /\ \A k \in Runs : records[k].fence <= records[j].fence
              /\ j \in Held /\ AppendFails({}, j, r)
              /\ stuck' = stuck \cup {j} /\ job' = [job EXCEPT ![j].phase = "over"]
              /\ UNCHANGED records
        /\ UNCHANGED <<lapsed, granted, answer, process>>

ServeAcquire ==
    /\ up /\ calls # <<>> /\ Head(calls).op = "acquire"
    /\ calls' = Tail(calls) /\ Acquire(Head(calls).job)
    /\ UNCHANGED <<scene, delivered, up, stuck>>

ServeRenew ==
    /\ up /\ calls # <<>> /\ Head(calls).op = "renew"
    /\ Renew(Head(calls).job)
    /\ UNCHANGED <<scene, delivered, up>>

ServeRelease ==
    /\ up /\ calls # <<>> /\ Head(calls).op = "release"
    /\ Release(Head(calls).job)
    /\ UNCHANGED <<scene, delivered, up>>

\* The interval at half the TTL.
Heartbeat(j) ==
    /\ up /\ job[j].leased /\ ~job[j].settled
    /\ \A i \in DOMAIN calls : calls[i].job # j
    /\ Call("renew", j)
    /\ UNCHANGED <<scene, leases, job, process, delivered, answer, up, stuck, faults>>

(***************************************************************************)
(* The Codex process answers                                               *)
(***************************************************************************)
Talking(j) == up /\ Codex /\ process[j] = "running"

\* initialize and thread/start, validated; then turn/start.
HandshakeOK(j) ==
    /\ Talking(j) /\ job[j].phase = "handshake"
    /\ job' = [job EXCEPT ![j].phase = "turn"]
    /\ UNCHANGED <<scene, leases, calls, process, delivered, answer, up, stuck, faults>>

\* An error response, one that fails validation, or none in time.
RequestFails(j) ==
    /\ Talking(j) /\ job[j].phase \in {"handshake", "turn"}
    /\ DispatchFails(j)
    /\ UNCHANGED <<scene, leases, delivered, up, stuck, faults>>

\* The response to turn/start: dispatch answers.
TurnStarted(j) ==
    /\ Talking(j) /\ job[j].phase = "turn"
    /\ job' = [job EXCEPT ![j].phase = "accepted", ![j].turn = TRUE]
    /\ answer' = [answer EXCEPT ![j] = "accepted"]
    /\ UNCHANGED <<scene, leases, calls, process, delivered, up, stuck, faults>>

TurnOutcome(j, status) ==
    CASE status = "completed" -> "completed"
      [] status = "interrupted" /\ job[j].cancelled -> "cancelled"
      [] OTHER -> "failed"

\* turn/completed, which may come before the response to turn/start is read.
TurnCompleted(j, status) ==
    /\ Talking(j) /\ job[j].phase \in {"turn", "accepted"}
    /\ status = "interrupted" => job[j].cancelled
    /\ FinishRun(j, TurnOutcome(j, status))
    /\ UNCHANGED <<scene, leases, delivered, up, stuck, faults>>

\* Both frames in one chunk: the job is finished before dispatch goes on, and
\* dispatch still answers that it was accepted.
StartedAndCompleted(j) ==
    /\ Talking(j) /\ job[j].phase = "turn"
    /\ job' = [job EXCEPT ![j] = [Cleaning(j, @) EXCEPT !.result = "completed"]]
    /\ answer' = [answer EXCEPT ![j] = "accepted"]
    /\ Releases(j) /\ Signalled(j)
    /\ UNCHANGED <<scene, leases, delivered, up, stuck, faults>>

\* A malformed frame, or more output than allowed.
BadOutput(j) ==
    /\ Talking(j) /\ job[j].phase \in {"handshake", "turn", "accepted"}
    /\ Fatal(j, "failed")
    /\ UNCHANGED <<scene, leases, delivered, up, stuck, faults>>

\* Bug: the exit of a process whose job has ended is reported too.
CodexExitAgain(j) ==
    /\ Codex /\ process[j] \in {"running", "stopping"}
    /\ process' = [process EXCEPT ![j] = "gone"]
    /\ IF ~up \/ job[j].phase = "dead" THEN UNCHANGED <<job, answer, calls>>
       ELSE /\ job' = [job EXCEPT ![j] = [Cleaning(j, @) EXCEPT !.result = "interrupted"]]
            /\ answer' = IF answer[j] = "none" THEN [answer EXCEPT ![j] = "thrown"] ELSE answer
            /\ Releases(j)
    /\ UNCHANGED <<scene, leases, delivered, up, stuck, faults>>

\* The process is gone, with or without a cause: fatal.
CodexExit(j) ==
    /\ Codex /\ process[j] \in {"running", "stopping"}
    /\ process' = [process EXCEPT ![j] = "gone"]
    /\ IF ~up \/ job[j].settled THEN UNCHANGED <<job, answer, calls>>
       ELSE /\ job' = [job EXCEPT ![j] = [Cleaning(j, @) EXCEPT !.result =
                           CASE answer[j] = "none" -> "none"
                             [] answer[j] # "none" /\ job[j].cancelled -> "cancelled"
                             [] OTHER -> "interrupted"]]
            /\ answer' = IF answer[j] = "none" THEN [answer EXCEPT ![j] = "thrown"] ELSE answer
            /\ Releases(j)
    /\ UNCHANGED <<scene, leases, delivered, up, stuck, faults>>

\* The error event of a process that could not be started or signalled.
CodexError(j) ==
    /\ Talking(j) /\ Fatal(j, "interrupted")
    /\ UNCHANGED <<scene, leases, delivered, up, stuck, faults>>

(***************************************************************************)
(* Headless adapters: one process, read when it is gone, and a report in   *)
(* the same step                                                           *)
(***************************************************************************)
Headless(j) == up /\ ~Codex /\ job[j].phase = "accepted"

Reported(j, outcome) ==
    /\ job' = [job EXCEPT ![j].settled = TRUE, ![j].phase = "over"]
    /\ delivered' = [delivered EXCEPT ![j] = Append(@, outcome)]

\* A cancellation goes before a timeout, a timeout before the result.
ExitOutcome(j, result) ==
    CASE job[j].cancelled -> "cancelled"
      [] ~job[j].cancelled /\ job[j].asked -> "timedOut"
      [] OTHER -> result

HeadlessExit(j, result) ==
    /\ ~Codex /\ process[j] \in {"running", "stopping"}
    /\ process' = [process EXCEPT ![j] = "gone"]
    /\ IF Headless(j) THEN Reported(j, ExitOutcome(j, result)) ELSE UNCHANGED <<job, delivered>>
    /\ UNCHANGED <<scene, leases, calls, answer, up, stuck, faults>>

\* The error event.  An exit may follow or not.  Cursor's adapter reports a
\* failure whatever was asked; Claude's does not listen, and the uncaught
\* error ends the broker (Crash).
HeadlessError(j) ==
    /\ Headless(j) /\ scene.kind \in {"cursor", "antigravity"} /\ process[j] # "gone"
    /\ Reported(j, IF scene.kind = "antigravity" THEN ExitOutcome(j, "failed") ELSE "failed")
    /\ process' \in {process, [process EXCEPT ![j] = "gone"]}
    /\ UNCHANGED <<scene, leases, calls, answer, up, stuck, faults>>

\* AntigravityTextCollector refuses more output: failAndTerminate.
Overflow(j) ==
    /\ Headless(j) /\ scene.kind = "antigravity" /\ process[j] # "gone"
    /\ Reported(j, "failed") /\ Signalled(j)
    /\ UNCHANGED <<scene, leases, calls, answer, up, stuck, faults>>

(***************************************************************************)
(* Cancellation, timeout, report                                           *)
(***************************************************************************)
Running(j) == job[j].phase \in {"handshake", "turn", "accepted", "releasing"}

\* cancel: a headless process is signalled, a Codex turn interrupted.
CancelRun(j) ==
    /\ up /\ Running(j) /\ ~job[j].cancelled
    /\ Fault("cancel")
    /\ job' = [job EXCEPT ![j].cancelled = TRUE]
    /\ IF Codex THEN process' = process ELSE Signalled(j)
    /\ UNCHANGED <<scene, leases, calls, delivered, answer, up, stuck>>

\* A second after a Codex job was cancelled: SIGTERM and the end.
CancellationTimer(j) ==
    /\ up /\ Codex /\ job[j].cancelled /\ Running(j) /\ ~job[j].settled
    /\ FinishRun(j, "cancelled")
    /\ UNCHANGED <<scene, leases, delivered, up, stuck, faults>>

\* timeoutMs: Codex reports at once, the others when the process is gone.
Timeout(j) ==
    /\ up /\ job[j].phase = "accepted" /\ ~job[j].settled /\ ~job[j].asked /\ ~job[j].cancelled
    /\ scene.kind # "claude"
    /\ Fault("timeout")
    /\ IF Codex THEN FinishRun(j, "timedOut")
       ELSE job' = [job EXCEPT ![j].asked = TRUE] /\ Signalled(j) /\ UNCHANGED <<calls, answer>>
    /\ UNCHANGED <<scene, leases, delivered, up, stuck>>

\* finish goes on after cleanup: the message is stored, and the report sent.
Report(j) ==
    /\ up /\ job[j].phase = "released"
    /\ job' = [job EXCEPT ![j].phase = "over"]
    /\ \/ /\ delivered' = IF job[j].result = "none" THEN delivered
                          ELSE [delivered EXCEPT ![j] = Append(@, job[j].result)]
          /\ UNCHANGED faults
       \/ /\ Codex /\ job[j].result = "completed" /\ Fault("artifact")
          /\ delivered' = [delivered EXCEPT ![j] = Append(@, "failed")]
    /\ UNCHANGED <<scene, leases, calls, process, answer, up, stuck>>

(***************************************************************************)
(* Time, crashes and the operator                                          *)
(***************************************************************************)
\* No heartbeat ran for a TTL: the host slept, or the job's broker is gone.
Lapse(j) ==
    /\ leaseFile[j].state = "held" \/ records[j].state = "held"
    /\ j \notin lapsed
    /\ Fault("lapse")
    /\ lapsed' = lapsed \cup {j}
    /\ UNCHANGED <<scene, records, leaseFile, tail, granted, calls, job, process, delivered, answer, up, stuck>>

\* The broker dies; its children lose their stdin and end, sooner or later.
BrokerCrash ==
    /\ up /\ Fault("crash")
    /\ up' = FALSE /\ calls' = <<>>
    /\ records' = [j \in Runs |-> NoLease]
    /\ job' = [j \in Runs |-> IF job[j].phase = "new" THEN job[j] ELSE [job[j] EXCEPT !.phase = "dead", !.settled = TRUE, !.leased = FALSE]]
    /\ process' = [j \in Runs |-> IF process[j] = "running" THEN "stopping" ELSE process[j]]
    /\ UNCHANGED <<scene, leaseFile, tail, lapsed, granted, delivered, answer, stuck>>

\* load and recover: an unterminated tail is dropped but stays in the file,
\* expired leases are released and the other held ones orphaned.
Recover ==
    LET held == {j \in Runs : leaseFile[j].state = "held"}
        now == [j \in Runs |-> CASE j \in held \cap lapsed -> [leaseFile[j] EXCEPT !.state = "released"]
                                 [] j \in held \ lapsed -> [leaseFile[j] EXCEPT !.orphaned = TRUE]
                                 [] OTHER -> leaseFile[j]]
    IN  /\ ~up /\ tail # "corrupt"
        /\ records' = now
        /\ Append_({j \in Runs : now[j] # leaseFile[j]}, now)
        /\ up' = TRUE
        /\ UNCHANGED <<scene, lapsed, granted, calls, job, process, delivered, answer, stuck, faults>>

\* resolveOrphan, with the operator's confirmation.
ResolveOrphan(j) ==
    /\ up /\ records[j].state = "held" /\ records[j].orphaned /\ j \notin lapsed
    /\ records' = Released(records, {j}) /\ Append_({j}, records')
    /\ UNCHANGED <<scene, lapsed, granted, calls, job, process, delivered, answer, up, stuck, faults>>

DispatchNext ==
    \/ \E j \in Runs :
        \/ Dispatch(j) \/ Heartbeat(j)
        \/ HandshakeOK(j) \/ RequestFails(j) \/ TurnStarted(j) \/ StartedAndCompleted(j) \/ BadOutput(j)
        \/ \E status \in {"completed", "interrupted", "failed"} : TurnCompleted(j, status)
        \/ CodexExit(j) \/ CodexError(j)
        \/ \E result \in {"completed", "failed"} : HeadlessExit(j, result)
        \/ HeadlessError(j) \/ Overflow(j)
        \/ CancelRun(j) \/ CancellationTimer(j) \/ Timeout(j) \/ Report(j)
        \/ Lapse(j) \/ ResolveOrphan(j)
    \/ ServeAcquire \/ ServeRenew \/ ServeRelease
    \/ BrokerCrash \/ Recover

DispatchSpec == DispatchInit /\ [][DispatchNext]_dispatchVars

-----------------------------------------------------------------------------
\* A job that was accepted gets one report, never two, once its process is
\* gone and its lease given back: whatever is cancelled, timed out, malformed,
\* disconnected or out of order on the way ("Completion is asynchronous and
\* arrives exactly once per job").  Not so when the lease cannot be released.
ReportedExactlyOnce ==
    \A j \in Runs :
        /\ Len(delivered[j]) <= 1
        /\ answer[j] = "accepted" /\ process[j] = "gone" /\ calls = <<>> /\ j \notin stuck
           /\ job[j].phase \notin {"released", "dead"}
           => Len(delivered[j]) = 1

\* Two providers work in one worktree only when the earlier one has missed its
\* heartbeats for a whole TTL, or has been told to stop.
WritersFenced ==
    \A j, k \in Runs :
        /\ process[j] = "running" /\ process[k] = "running"
        /\ 0 < records[j].fence /\ records[j].fence < records[k].fence
        => j \in lapsed

=============================================================================
