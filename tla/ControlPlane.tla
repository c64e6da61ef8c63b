---------------------------- MODULE ControlPlane ----------------------------
(***************************************************************************)
(* The bounded-job control plane: JobControlPlane, AdmissionScheduler and  *)
(* BudgetLedger of src/control-plane, the ControlPlaneRuntime that starts  *)
(* and stops them, the append-only JobStore, and a dispatch adapter as the *)
(* control plane sees it.                                                  *)
(*                                                                         *)
(* Every method runs to its next await without interruption.  `tasks` are  *)
(* the methods suspended in persist or emit, each with the snapshot it     *)
(* handed to the store; JobStore.append does not serialize its callers, so *)
(* two snapshots of one job land in either order.                          *)
(*                                                                         *)
(* A job stands for its idempotency key: a repeated submission answers     *)
(* with the existing job and changes nothing.  A submission refused by a   *)
(* provider, model, wall-clock or artifact limit creates nothing either,   *)
(* and is a step not taken.                                                *)
(***************************************************************************)
EXTENDS Naturals, Sequences, FiniteSets

CONSTANTS
    Jobs, NoJob,
    Setups,             \* what is submitted, to which limits, and what goes wrong
    MaxPerBucket,       \* maxConcurrentPerRepository, or the provider's limit
    MaxJobs,            \* config.budget.maxJobs
    MaxDelegationDepth,
    MaxDisturbances     \* bound: how often something goes wrong

\* `jobs` are submitted and `cancels` may be cancelled by a client; `ceiling` is
\* config.concurrency.maxConcurrentJobs and `tokens` the declared
\* maxTotalTokens, 0 if there is none; `results` are the <<outcome, usage>> a
\* run may end with, and `disturbances` the kinds of trouble a setup meets.
SetupOK(s) ==
    /\ s.jobs \subseteq Jobs /\ s.cancels \subseteq Jobs
    /\ s.parent \in [Jobs -> Jobs \cup {NoJob}]
    /\ DOMAIN s.bucket = Jobs
    /\ s.ceiling \in Nat \ {0} /\ s.tokens \in Nat
    /\ s.results \subseteq {"completed", "failed", "interrupted"} \X {"known", "unknown"}
    /\ s.disturbances \subseteq {"fail", "report", "crash", "shutdown"}

ASSUME ControlPlaneConstants ==
    /\ NoJob \notin Jobs
    /\ {MaxPerBucket, MaxJobs} \subseteq Nat \ {0}
    /\ {MaxDelegationDepth, MaxDisturbances} \subseteq Nat
    /\ \A s \in Setups : SetupOK(s)

VARIABLES
    setup,
    entry,      \* jobs: lifecycle, result and report-back of every job
    disk,       \* the latest snapshot of every job in jobs.jsonl
    tasks,      \* suspended methods
    queue,      \* scheduler.queue in admission order
    during,     \* <<j, k>>: k was created while the submission of j was suspended
    reserved,   \* scheduler.reservations, and entry.holdsSlot
    pump,       \* the running pump loop: the job it dispatches and who awaits it
    admitted,   \* ledger: jobs counted against their scope
    charged,    \* ledger: what each settled job was debited
    proc,       \* the adapter's `running` and `seen`
    reports,    \* reports emitted and not yet taken by the pendingReports chain
    draining,   \* shutdown: the jobs it has still to cancel, or Serving
    launches,   \* history: provider launches, over all broker lifetimes
    damaged,    \* history: jobs with a method ended by a failed write
    stalled,    \* history: the pump loop was ended by a failed write
    disturbed   \* history: disturbances so far

scheduler == <<queue, reserved, pump, stalled, proc, launches>>
ledger == <<admitted, charged>>
vars == <<setup, entry, disk, tasks, during, scheduler, ledger, reports, draining, damaged, disturbed>>

Parent(j) == setup.parent[j]
Absent == [status |-> "absent", outcome |-> "none", reportBack |-> "none"]
Lifecycles == [status : {"absent", "queued", "dispatched", "interrupted", "settled"},
               outcome : {"none", "completed", "failed", "cancelled"},
               reportBack : {"none", "pending", "delivered"}]
Status(j) == entry[j].status
Over(j) == Status(j) \in {"absent", "settled"}

Tasks == [kind : {"create", "settle", "interrupt", "mark", "acknowledge"},
          job : Jobs, by : {"call", "chain", "pump", "drain"},
          at : {"write", "emit"}, snap : Lifecycles, usage : {"known", "unknown"}]
Task(kind, j, by, snap, usage) ==
    [kind |-> kind, job |-> j, by |-> by, at |-> "write", snap |-> snap, usage |-> usage]

NoPump == [job |-> NoJob, at |-> "idle", chain |-> FALSE]
Pumping == pump.at # "idle"

Serving == [serving |-> TRUE, left |-> {}]
AdmissionOpen == draining.serving

Init ==
    /\ setup \in Setups
    /\ entry = [j \in Jobs |-> Absent] /\ disk = entry
    /\ tasks = {} /\ during = {} /\ queue = <<>> /\ reserved = {} /\ pump = NoPump
    /\ admitted = {} /\ charged = [j \in Jobs |-> "no"]
    /\ proc = [j \in Jobs |-> "none"] /\ reports = <<>> /\ draining = Serving
    /\ launches = [j \in Jobs |-> 0] /\ damaged = {} /\ stalled = FALSE
    /\ disturbed = 0

(***************************************************************************)
(* Lineage and budget                                                      *)
(***************************************************************************)

\* The ancestors of a job; the walk stops when it meets a job again.
Lineage(j) ==
    LET up[n \in 0..Cardinality(Jobs)] ==
            IF n = 0 THEN {Parent(j)} \ {NoJob}
            ELSE up[n - 1] \cup ({Parent(k) : k \in up[n - 1]} \ {NoJob})
    IN  up[Cardinality(Jobs)]

ScopeOf(j) == CHOOSE k \in Lineage(j) \cup {j} : Parent(k) = NoJob

Scope(j) == {k \in Jobs : ScopeOf(k) = ScopeOf(j)}

\* BudgetLedger.blockReason.
Blocked(j) ==
    \/ Cardinality(Scope(j) \cap admitted) >= MaxJobs
    \/ /\ setup.tokens > 0
       /\ \/ Cardinality({k \in Scope(j) : charged[k] = "known"}) >= setup.tokens
          \/ \E k \in Scope(j) : charged[k] = "unknown"

\* BudgetLedger.settle: once per job, and only in a scope this process opened.
Debited(j, usage) ==
    IF charged[j] # "no" \/ Scope(j) \cap admitted = {} THEN charged
    ELSE [charged EXCEPT ![j] = usage]

(***************************************************************************)
(* Admission                                                               *)
(***************************************************************************)

BlockReason(j, r) ==
    \/ Cardinality(r) >= setup.ceiling
    \/ Cardinality({k \in r : setup.bucket[k] = setup.bucket[j]}) >= MaxPerBucket

Queued(q) == {q[i] : i \in DOMAIN q}
\* The queue without the jobs js, in its order.
Without(q, js) ==
    LET kept[n \in 0..Len(q)] ==
            IF n = 0 THEN <<>>
            ELSE IF q[n] \in js THEN kept[n - 1] ELSE Append(kept[n - 1], q[n])
    IN  kept[Len(q)]

\* enqueue.  The queue is ordered by enqueuedAt, read when the job was created
\* and exact to the millisecond, and then by arrival: a job that arrives late
\* goes before any of the jobs created during its submission.
Enqueued(j) ==
    IF j \in Queued(queue) \cup reserved THEN {queue}
    ELSE {SubSeq(queue, 1, n) \o <<j>> \o SubSeq(queue, n + 1, Len(queue)) :
             n \in {m \in 0..Len(queue) : \A i \in m + 1..Len(queue) : <<j, queue[i]>> \in during}}

\* The jobs the pump loop is offered before it stops at one: admitNext passes
\* over the blocked, and the loop gives back the slot of one not queued.
Eligible(q, r) == {j \in Queued(q) : ~BlockReason(j, r)}
Before(q, j, k) == \E m, n \in DOMAIN q : m < n /\ q[m] = j /\ q[n] = k
Admissible(q, r, e) == {j \in Eligible(q, r) : e[j].status = "queued"}
First(q, r, e) ==
    CHOOSE j \in Admissible(q, r, e) : \A k \in Admissible(q, r, e) \ {j} : Before(q, j, k)

\* adapter.dispatch up to its first await; a job it has seen is refused.
Launch(j) ==
    /\ proc' = [proc EXCEPT ![j] = IF @ = "none" THEN "launching" ELSE "rejected"]
    /\ launches' = [launches EXCEPT ![j] = IF proc[j] = "none" THEN @ + 1 ELSE @]

\* One turn of the loop of pump(), from the queue q and the reservations r.
Loop(q, r, e, chain) ==
    IF AdmissionOpen /\ Admissible(q, r, e) # {}
    THEN LET j == First(q, r, e)
         IN  /\ queue' = Without(q, {j} \cup {k \in Eligible(q, r) : Before(q, k, j)})
             /\ reserved' = r \cup {j}
             /\ pump' = [job |-> j, at |-> "dispatch", chain |-> chain]
             /\ Launch(j)
             /\ UNCHANGED stalled
    ELSE /\ queue' = IF AdmissionOpen THEN Without(q, Eligible(q, r)) ELSE q
         /\ reserved' = r
         /\ pump' = NoPump
         /\ stalled' = FALSE
         /\ UNCHANGED <<proc, launches>>

\* pump(): a call while the loop runs returns at once.
Pump(q, r, e, chain) ==
    IF Pumping
    THEN queue' = q /\ reserved' = r /\ UNCHANGED <<pump, stalled, proc, launches>>
    ELSE Loop(q, r, e, chain)

(***************************************************************************)
(* Methods, up to their first await                                        *)
(***************************************************************************)

\* submit and delegate.
Create(j) ==
    LET record == [Absent EXCEPT !.status = "queued"]
    IN  /\ j \in setup.jobs /\ entry[j] = Absent
        /\ Parent(j) # NoJob =>
               /\ entry[Parent(j)] # Absent
               /\ Cardinality(Lineage(Parent(j))) < MaxDelegationDepth
        /\ ~Blocked(j)
        /\ admitted' = admitted \cup {j}
        /\ entry' = [entry EXCEPT ![j] = record]
        /\ tasks' = tasks \cup {Task("create", j, "call", record, "unknown")}
        /\ during' = during \cup {<<t.job, j>> : t \in {u \in tasks : u.kind = "create"}}
        /\ UNCHANGED <<setup, disk, scheduler, charged, reports, draining, damaged, disturbed>>

\* settle does not ask whether the job is settled already.
Settle(j, outcome, usage, by) ==
    LET record == [status |-> "settled", outcome |-> outcome,
                   reportBack |-> IF Parent(j) = NoJob THEN entry[j].reportBack ELSE "pending"]
    IN  /\ entry' = [entry EXCEPT ![j] = record]
        /\ tasks' = tasks \cup {Task("settle", j, by, record, usage)}

Interrupt(j, by) ==
    LET record == [entry[j] EXCEPT !.status = "interrupted"]
    IN  /\ entry' = [entry EXCEPT ![j] = record]
        /\ tasks' = tasks \cup {Task("interrupt", j, by, record, "unknown")}

\* ingestReport: RUNTIME_INTERRUPTED is not a terminal outcome.
Ingest(report, by) ==
    IF Over(report.job) THEN UNCHANGED <<entry, tasks>>
    ELSE IF report.result[1] = "interrupted" THEN Interrupt(report.job, by)
    ELSE Settle(report.job, report.result[1], report.result[2], by)

\* The pendingReports chain ingests one report at a time, the pump its
\* settlement starts included.
ChainBusy == (\E t \in tasks : t.by = "chain") \/ (Pumping /\ pump.chain)

IngestNext ==
    /\ reports # <<>> /\ ~ChainBusy
    /\ reports' = Tail(reports)
    /\ Ingest(Head(reports), "chain")
    /\ UNCHANGED <<setup, during, disk, scheduler, ledger, draining, damaged, disturbed>>

Disturb(kind) ==
    /\ kind \in setup.disturbances /\ disturbed < MaxDisturbances
    /\ disturbed' = disturbed + 1

\* job.report: a client reports for a job, whatever the adapter does.
IngestCall(j, result) ==
    /\ Disturb("report")
    /\ ~Over(j)
    /\ Ingest([job |-> j, result |-> result], "call")
    /\ UNCHANGED <<setup, during, disk, scheduler, ledger, reports, draining, damaged>>

\* cancel.  adapter.cancel has no await, so nothing comes between it and the
\* settlement; a run that is over is not cancelled.
CancelSteps(j, by) ==
    IF Status(j) \in {"queued", "interrupted"}
    THEN Settle(j, "cancelled", "unknown", by) /\ UNCHANGED proc
    ELSE IF proc[j] \in {"running", "stopping"}
    THEN Settle(j, "cancelled", "unknown", by) /\ proc' = [proc EXCEPT ![j] = "stopping"]
    ELSE UNCHANGED <<entry, tasks, proc>>

Cancel(j) ==
    /\ j \in setup.cancels /\ ~Over(j)
    /\ CancelSteps(j, "call")
    /\ UNCHANGED <<setup, during, disk, queue, reserved, pump, stalled, launches, ledger, reports,
                   draining, damaged, disturbed>>

AcknowledgeReport(j) ==
    LET record == [entry[j] EXCEPT !.reportBack = "delivered"]
    IN  /\ entry[j].reportBack = "pending"
        /\ entry' = [entry EXCEPT ![j] = record]
        /\ tasks' = tasks \cup {Task("acknowledge", j, "call", record, "unknown")}
        /\ UNCHANGED <<setup, during, disk, scheduler, ledger, reports, draining, damaged, disturbed>>

(***************************************************************************)
(* Methods, from an await on                                               *)
(***************************************************************************)

WriteLands(t) ==
    /\ t.at = "write"
    /\ disk' = [disk EXCEPT ![t.job] = t.snap]
    /\ tasks' = (tasks \ {t}) \cup {[t EXCEPT !.at = "emit"]}
    /\ UNCHANGED <<setup, during, entry, scheduler, ledger, reports, draining, damaged, disturbed>>

\* The store or the event journal rejects: the rest of the method is skipped,
\* and a method the pump loop awaits takes the loop with it.
WriteFails(t) ==
    /\ Disturb("fail")
    /\ tasks' = tasks \ {t}
    /\ damaged' = damaged \cup {t.job}
    /\ IF t.by = "pump" THEN pump' = NoPump /\ stalled' = TRUE ELSE UNCHANGED <<pump, stalled>>
    /\ UNCHANGED <<setup, during, entry, disk, queue, reserved, proc, launches, ledger, reports, draining>>

CreateReturns(t) ==
    /\ t.kind = "create"
    /\ \E q \in Enqueued(t.job) : Pump(q, reserved, entry, FALSE)
    /\ during' = {pair \in during : pair[1] # t.job}
    /\ UNCHANGED ledger

\* releaseSlot; a settlement the pump loop awaits goes on with the loop.
ReleaseSlot(t) ==
    LET q == Without(queue, {t.job})
        r == reserved \ {t.job}
    IN  IF t.by = "pump" THEN Loop(q, r, entry, pump.chain)
        ELSE Pump(q, r, entry, t.by = "chain")

\* Mutant: an interrupted job keeps its slot.
EndReturnsKeeping(t) ==
    /\ t.kind \in {"settle", "interrupt"}
    /\ charged' = IF t.kind = "settle" THEN Debited(t.job, t.usage) ELSE charged
    /\ IF t.kind = "settle" THEN ReleaseSlot(t) ELSE Pump(queue, reserved, entry, FALSE)
    /\ UNCHANGED <<during, admitted>>

EndReturns(t) ==
    /\ t.kind \in {"settle", "interrupt"}
    /\ charged' = IF t.kind = "settle" THEN Debited(t.job, t.usage) ELSE charged
    /\ ReleaseSlot(t)
    /\ UNCHANGED <<during, admitted>>

MarkReturns(t) ==
    /\ t.kind = "mark"
    /\ Loop(queue, reserved, entry, pump.chain)
    /\ UNCHANGED <<during, ledger>>

AcknowledgeReturns(t) ==
    /\ t.kind = "acknowledge"
    /\ UNCHANGED <<during, scheduler, ledger>>

Resume(t) ==
    /\ t.at = "emit"
    /\ tasks' = tasks \ {t}
    /\ CreateReturns(t) \/ EndReturns(t) \/ MarkReturns(t) \/ AcknowledgeReturns(t)
    /\ UNCHANGED <<setup, entry, disk, reports, draining, damaged, disturbed>>

\* dispatch, from the adapter's answer on.
DispatchAccepted ==
    LET j == pump.job
        record == [entry[j] EXCEPT !.status = "dispatched"]
    IN  /\ pump.at = "dispatch" /\ proc[j] \in {"running", "stopping", "over"}
        /\ IF Status(j) = "queued"
           THEN /\ entry' = [entry EXCEPT ![j] = record]
                /\ tasks' = tasks \cup {Task("mark", j, "pump", record, "unknown")}
                /\ pump' = [pump EXCEPT !.at = "task"]
                /\ UNCHANGED <<queue, reserved, stalled, proc, launches>>
           ELSE Loop(queue, reserved, entry, pump.chain) /\ UNCHANGED <<entry, tasks>>
        /\ UNCHANGED <<setup, during, disk, ledger, reports, draining, damaged, disturbed>>

\* The adapter throws: it has seen the job, or the launch failed.
DispatchRejected ==
    /\ pump.at = "dispatch" /\ proc[pump.job] \in {"launching", "rejected"}
    /\ proc' = [proc EXCEPT ![pump.job] = "rejected"]
    /\ Settle(pump.job, "failed", "unknown", "pump")
    /\ pump' = [pump EXCEPT !.at = "task"]
    /\ UNCHANGED <<setup, during, disk, queue, reserved, stalled, launches, ledger, reports,
                   draining, damaged, disturbed>>

(***************************************************************************)
(* The adapter's side of a run                                             *)
(***************************************************************************)

Launched(j) ==
    /\ proc[j] = "launching"
    /\ proc' = [proc EXCEPT ![j] = "running"]
    /\ UNCHANGED <<setup, during, entry, disk, tasks, queue, reserved, pump, stalled, launches, ledger,
                   reports, draining, damaged, disturbed>>

Finish(j, result) ==
    /\ proc[j] \in {"running", "stopping"}
    /\ proc' = [proc EXCEPT ![j] = "over"]
    /\ reports' = Append(reports, [job |-> j, result |-> result])
    /\ UNCHANGED <<setup, during, entry, disk, tasks, queue, reserved, pump, stalled, launches, ledger,
                   draining, damaged, disturbed>>

(***************************************************************************)
(* Shutdown, crash and start                                               *)
(***************************************************************************)

Shutdown ==
    /\ AdmissionOpen /\ Disturb("shutdown")
    /\ draining' = [serving |-> FALSE, left |-> {j \in Jobs : ~Over(j)}]
    /\ UNCHANGED <<setup, during, entry, disk, tasks, scheduler, ledger, reports, damaged>>

Drained == \A t \in tasks : t.by # "drain"

\* One cancel after the other; what a cancel throws is ignored.
Drain(j) ==
    /\ j \in draining.left /\ Drained
    /\ draining' = [draining EXCEPT !.left = @ \ {j}]
    /\ IF Over(j) THEN UNCHANGED <<entry, tasks, proc>> ELSE CancelSteps(j, "drain")
    /\ UNCHANGED <<setup, during, disk, queue, reserved, pump, stalled, launches, ledger, reports,
                   damaged, disturbed>>

Recovered(record) ==
    IF record.status \in {"queued", "dispatched"} THEN [record EXCEPT !.status = "interrupted"]
    ELSE record

\* start: recovery persists every interruption before admission opens, and
\* nothing is queued then.  The ledger and the adapters start empty.
Start ==
    /\ entry' = [j \in Jobs |-> Recovered(disk[j])] /\ disk' = entry'
    /\ tasks' = {} /\ during' = {} /\ queue' = <<>> /\ reserved' = {} /\ pump' = NoPump /\ stalled' = FALSE
    /\ admitted' = {} /\ charged' = [j \in Jobs |-> "no"]
    /\ proc' = [j \in Jobs |-> "none"] /\ reports' = <<>> /\ draining' = Serving
    /\ damaged' = {}
    /\ UNCHANGED <<setup, launches>>

Crash == Disturb("crash") /\ Start

\* shutdown waits for the reports it knows of and the process ends.
Exit ==
    /\ ~AdmissionOpen /\ draining.left = {} /\ Drained
    /\ reports = <<>> /\ ~ChainBusy
    /\ Start
    /\ UNCHANGED disturbed

Next ==
    \/ \E j \in Jobs : Create(j) \/ Cancel(j) \/ AcknowledgeReport(j) \/ Launched(j) \/ Drain(j)
    \/ \E j \in Jobs, result \in setup.results : IngestCall(j, result) \/ Finish(j, result)
    \/ \E t \in tasks : WriteLands(t) \/ WriteFails(t) \/ Resume(t)
    \/ IngestNext \/ DispatchAccepted \/ DispatchRejected
    \/ Shutdown \/ Exit \/ Crash

Spec == Init /\ [][Next]_vars

(***************************************************************************)
(* Properties                                                              *)
(***************************************************************************)

\* Every part of the state has the shape the code gives it.
TypeOK ==
    /\ setup \in Setups
    /\ {entry, disk} \subseteq [Jobs -> Lifecycles]
    /\ tasks \subseteq Tasks /\ during \subseteq Jobs \X Jobs
    /\ queue \in Seq(Jobs) /\ Cardinality(Queued(queue)) = Len(queue)
    /\ reserved \subseteq Jobs /\ Cardinality(reserved) <= setup.ceiling
    /\ pump \in [job : Jobs \cup {NoJob}, at : {"idle", "dispatch", "task"}, chain : BOOLEAN]
    /\ admitted \subseteq Jobs /\ charged \in [Jobs -> {"no", "known", "unknown"}]
    /\ proc \in [Jobs -> {"none", "launching", "running", "stopping", "rejected", "over"}]
    /\ draining \in [serving : BOOLEAN, left : SUBSET Jobs]

Ending(j) == \E t \in tasks : t.job = j /\ t.kind \in {"settle", "interrupt"}

\* The jobs and the scheduler agree at every await: a queued job waits in the
\* queue, in the hands of the loop or in its own submission, a dispatched job
\* holds its slot, and a slot is held only by a job that is still alive or
\* whose ending is under way.  A method a failed write cut short is excepted.
AdmissionMatchesJobs ==
    \A j \in Jobs \ damaged :
        /\ Status(j) = "queued" =>
               \/ j \in Queued(queue)
               \/ pump.job = j /\ pump.at = "dispatch"
               \/ \E t \in tasks : t.kind = "create" /\ t.job = j
        /\ Status(j) = "dispatched" => j \in reserved
        /\ j \in reserved =>
               \/ Status(j) = "dispatched"
               \/ Status(j) = "queued" /\ pump.job = j
               \/ Ending(j)

=============================================================================
