------------------------- MODULE SessionLifecycle -------------------------
(***************************************************************************)
(* The broker's session registry: how a thread is admitted and launched    *)
(* (session-launch-coordinator.ts, session-workspace-coordinator.ts,       *)
(* session-runtime-assembly.ts), stopped, resumed, deleted and retired     *)
(* (session-lifecycle-controller.ts), how the exit of its process becomes  *)
(* the record's exit (session-runtime-observer.ts), what a restart makes   *)
(* of the stored record (session-record-projection.ts), the execution      *)
(* service that owns a worker's process (worker-execution-service.ts with  *)
(* the host executor) and the Scout supervisor that decides a Scout's      *)
(* result before its exit is published (scout-session-supervisor.ts).      *)
(*                                                                         *)
(* The broker is one thread: an action is the code between two awaits.  A  *)
(* store append is part of the action that issues it, because the catalog  *)
(* serialises its writes in the order of the calls.  A process id is used  *)
(* once; so is a session id.                                               *)
(***************************************************************************)
EXTENDS Naturals, FiniteSets

CONSTANTS
    Orchestrators,  \* sessions of kind orchestrator: no execution service
    Workers,        \* ordinary workers on the host executor
    ScoutIds,       \* headless Scouts on the host executor
    AtStart,        \* the sessions that are up at the start
    ParentOf,       \* session -> parentSessionId of its start, or NoOne
    NoOne,
    MaxWorkers,     \* config.maxConcurrentWorkers
    MaxProcs,       \* bound: processes ever spawned
    MaxEvents,      \* bound: operations, outputs and spontaneous exits
    MaxFaults       \* bound: failing steps and restarts among them

Ids == Orchestrators \union Workers \union ScoutIds
Executed == Workers \union ScoutIds      \* kind worker: the execution service runs them

SessionAssumption ==
    /\ AtStart \subseteq Ids /\ NoOne \notin Ids
    /\ ParentOf \in [Ids -> Orchestrators \union {NoOne}]
    /\ {MaxWorkers, MaxProcs, MaxEvents, MaxFaults} \subseteq Nat
    /\ IsFiniteSet(AtStart) /\ Cardinality(AtStart) <= MaxProcs
    /\ Cardinality(AtStart \intersect Executed) <= MaxWorkers

VARIABLES
    rec,        \* session -> its record and runtime flags in the catalog
    disk,       \* session -> the latest record in the session store
    proc,       \* process -> [of, gen, alive, sig, heard, told, rang]: heard once the thread listens,
                \* told once its exit event fired, rang once the thread's listener ran
    launch,     \* session -> [pc, p]: where its start is
    beingStopped, \* the sessions whose stop awaits its record write before the kill
    resume,     \* session -> [pc, prev, p]: where its resume is
    deleting,   \* session -> where its delete is
    exec,       \* session -> [phase, gen]: the execution store
    busy,       \* WorkerExecutionService.starting, the sessions with a pending start
    abort,      \* those whose pending start was aborted
    observers,  \* processes whose exit the execution service is still looking at
    reserved,   \* pendingWorkerStarts
    tree,       \* session -> "none" / "held" / "back": the worktree its start made
    sup,        \* Scout -> the supervisor's own state
    closing,    \* shuttingDown: admission is closed
    todo,       \* the sessions a stopAll or a stopTree has still to stop
    events, faults

sessionsVars == <<rec, disk, proc, launch, beingStopped, resume, deleting, exec, busy, abort,
                  observers, reserved, tree, sup, closing, todo, events, faults>>

Procs == 1 .. MaxProcs
NoProc == 0
Null == "null"                         \* exitCode === null
Terminal == {"zero", "bad", "unknown"} \* exit 0, any other code, the -1 sentinel

NoProcess == [of |-> NoOne, gen |-> 0, alive |-> FALSE, sig |-> "none", heard |-> FALSE, told |-> FALSE, rang |-> FALSE]
Blank == [in |-> FALSE, st |-> "starting", exit |-> Null, gen |-> 1, attn |-> "none",
          up |-> NoOne, kids |-> {}, limit |-> FALSE, term |-> "none", card |-> FALSE,
          h |-> NoProc, stop |-> FALSE, fin |-> FALSE, res |-> FALSE, keep |-> FALSE]
NoSup == [cap |-> "idle", final |-> "no", code |-> "zero", clean |-> FALSE, armed |-> FALSE,
          cut |-> "no", answered |-> FALSE, said |-> FALSE, dirty |-> FALSE]
NoResume == [pc |-> "idle", prev |-> NoProc, p |-> NoProc]

(* What a snapshot of the record keeps. *)
Stored(r) == [in |-> TRUE, st |-> r.st, exit |-> r.exit, gen |-> r.gen, attn |-> r.attn,
              up |-> r.up, kids |-> r.kids, limit |-> r.limit, term |-> r.term, card |-> r.card]
Unstored == [Stored(Blank) EXCEPT !.in = FALSE]

Live(i) == {p \in Procs : proc[p].of = i /\ proc[p].alive}
Unreaped(i) == {p \in Procs : proc[p].of = i /\ ~proc[p].told}   \* HostExecutor.running
SparePids == {p \in Procs : proc[p].of = NoOne}
NextProc == CHOOSE p \in SparePids : \A q \in SparePids : p <= q

Happens == events < MaxEvents /\ events' = events + 1
Fault == faults < MaxFaults /\ faults' = faults + 1

processes == <<proc, observers>>
services == <<exec, busy, abort>>
shutdown == <<closing, todo>>
counters == <<events, faults>>

---------------------------------------------------------------------------
(* The start of a session *)

ParentActive(i) ==
    ParentOf[i] = NoOne \/ /\ rec[ParentOf[i]].in
                           /\ rec[ParentOf[i]].st = "active" /\ ~rec[ParentOf[i]].stop

ActiveWorkers == Cardinality({i \in Executed : rec[i].in /\ rec[i].st = "active"})

\* Bug: a start that has not spawned yet holds no slot.
MayStartUnreserved(i) == i \in Executed => ActiveWorkers < MaxWorkers

MayStart(i) == i \in Executed => ActiveWorkers + reserved < MaxWorkers

Reserves(i) == IF i \in Executed THEN 1 ELSE 0

At(i, pc) == launch[i].pc = pc
LaunchGoes(i, pc) == launch' = [launch EXCEPT ![i].pc = pc]

Admit(i) ==
    /\ At(i, "idle") /\ ~closing /\ Happens
    /\ ParentActive(i) /\ MayStart(i)
    /\ reserved' = reserved + Reserves(i)
    /\ LaunchGoes(i, "reserved")
    /\ UNCHANGED <<rec, disk, processes, beingStopped, resume, deleting, services, tree,
                   sup, shutdown, faults>>

(* A worktree is cut after admission; one that cannot be journaled is given back. *)
Provision(i) ==
    /\ At(i, "reserved")
    /\ \/ /\ tree' = [tree EXCEPT ![i] = IF i \in Workers THEN "held" ELSE "none"]
          /\ LaunchGoes(i, "provisioned") /\ UNCHANGED <<reserved, faults>>
       \/ /\ Fault /\ LaunchGoes(i, "failed") /\ reserved' = reserved - Reserves(i)
          /\ tree' = [tree EXCEPT ![i] = IF i \in Workers THEN "back" ELSE "none"]
    /\ UNCHANGED <<rec, disk, processes, beingStopped, resume, deleting, services,
                   sup, shutdown, events>>

(* A Scout that never launched becomes a failed row: registered under its parent, if that
   is still there. *)
FailedScout(i) ==
    [Blank EXCEPT !.in = TRUE, !.st = "failed", !.attn = "failed", !.exit = "bad",
                  !.term = "failed", !.up = ParentOf[i]]

Adopted(children, i) ==
    IF ParentOf[i] # NoOne /\ children[ParentOf[i]].in
    THEN [children EXCEPT ![ParentOf[i]].kids = @ \union {i}]
    ELSE children

(* Every failure before the process is adopted: the slot and the worktree go back. *)
FailLaunch(i) ==
    /\ LaunchGoes(i, "failed")
    /\ reserved' = reserved - Reserves(i)
    /\ tree' = [tree EXCEPT ![i] = IF @ = "held" THEN "back" ELSE @]
    /\ IF i \in ScoutIds
       THEN /\ rec' = Adopted([rec EXCEPT ![i] = FailedScout(i)], i)
            /\ disk' = [j \in Ids |-> IF rec'[j] # rec[j] THEN Stored(rec'[j]) ELSE disk[j]]
       ELSE UNCHANGED <<rec, disk>>

(* The caller's activation, then the launch attempt is made discoverable. *)
Activate(i) ==
    /\ At(i, "provisioned")
    /\ \/ /\ LaunchGoes(i, "activated")
          /\ disk' = [disk EXCEPT ![i] = Stored([Blank EXCEPT !.up = ParentOf[i]])]
          /\ UNCHANGED <<rec, reserved, tree, faults>>
       \/ Fault /\ FailLaunch(i)
    /\ UNCHANGED <<processes, beingStopped, resume, deleting, services, sup, shutdown, events>>

(* The parent is checked again on both sides of the transcript append, then the execution
   service takes the start: its intent is durable before the executor prepares. *)
BeginSpawn(i) ==
    /\ At(i, "activated")
    /\ IF ParentActive(i) /\ ~(closing /\ i \in Executed)
       THEN /\ exec' = IF i \in Executed THEN [exec EXCEPT ![i] = [phase |-> "preparing", gen |-> 1]] ELSE exec
            /\ busy' = IF i \in Executed THEN busy \union {i} ELSE busy
            /\ LaunchGoes(i, "preparing") /\ UNCHANGED <<rec, disk, reserved, tree>>
       ELSE FailLaunch(i) /\ UNCHANGED <<exec, busy>>
    /\ UNCHANGED <<processes, beingStopped, resume, deleting, abort, sup, shutdown, counters>>

Spawned(i, g) ==
    [of |-> i, gen |-> g, alive |-> TRUE, sig |-> "none", heard |-> FALSE, told |-> FALSE, rang |-> FALSE]

ExecutionFails(i) ==
    /\ exec' = [exec EXCEPT ![i].phase = "failed"]
    /\ busy' = busy \ {i} /\ abort' = abort \ {i}

(* prepare, the "ready" record, and the executor's start. *)
Spawn(i) ==
    /\ At(i, "preparing")
    /\ \/ /\ i \notin abort /\ SparePids # {}
          /\ proc' = [proc EXCEPT ![NextProc] = Spawned(i, 1)]
          /\ launch' = [launch EXCEPT ![i] = [pc |-> "spawned", p |-> NextProc]]
          /\ exec' = IF i \in Executed THEN [exec EXCEPT ![i].phase = "ready"] ELSE exec
          /\ UNCHANGED <<rec, disk, reserved, tree, busy, abort, faults>>
       \/ /\ \/ i \in abort /\ UNCHANGED faults
             \/ Fault
          /\ FailLaunch(i) /\ UNCHANGED proc
          /\ IF i \in Executed THEN ExecutionFails(i) ELSE UNCHANGED <<exec, busy, abort>>
    /\ UNCHANGED <<observers, beingStopped, resume, deleting, sup, shutdown, events>>

Killed(p) == [proc EXCEPT ![p].alive = FALSE, ![p].sig = IF proc[p].alive THEN "kill" ELSE @]
Terminated(p) == [proc EXCEPT ![p].sig = IF proc[p].alive /\ @ = "none" THEN "term" ELSE @]

(* The "running" record, then the new thread is in the catalog and hears its process. *)
Adopt(i) ==
    /\ At(i, "spawned")
    /\ LET p == launch[i].p IN
       IF i \in abort
       THEN /\ proc' = Killed(p)
            /\ ExecutionFails(i) /\ FailLaunch(i) /\ UNCHANGED observers
       ELSE /\ exec' = IF i \in Executed THEN [exec EXCEPT ![i].phase = "running"] ELSE exec
            /\ busy' = busy \ {i} /\ UNCHANGED abort
            /\ rec' = [rec EXCEPT ![i] = [Blank EXCEPT !.in = TRUE, !.st = "active",
                                                       !.h = p, !.up = ParentOf[i]]]
            /\ proc' = [proc EXCEPT ![p].heard = TRUE]
            /\ observers' = IF i \in Executed THEN observers \union {p} ELSE observers
            /\ reserved' = reserved - Reserves(i)
            /\ LaunchGoes(i, IF i \in ScoutIds THEN "register" ELSE "init")
            /\ UNCHANGED <<disk, tree>>
    /\ UNCHANGED <<beingStopped, resume, deleting, sup, shutdown, counters>>

FailLive(i, r) == [r EXCEPT !.st = "failed", !.attn = "failed", !.term = "failed"]

(* The provider's own initialization and a deferred first prompt; a Scout has neither. *)
Initialize(i) ==
    /\ At(i, "init")
    /\ LET p == launch[i].p
           down == [rec EXCEPT ![i].in = FALSE, ![i].h = IF @ = p THEN NoProc ELSE @]
       IN \/ /\ i \in ScoutIds \/ rec[i].st = "active"
             /\ LaunchGoes(i, IF i \in ScoutIds THEN "done" ELSE "register")
             /\ sup' = IF i \in ScoutIds /\ sup[i].final = "no" THEN [sup EXCEPT ![i].armed = TRUE] ELSE sup
             /\ UNCHANGED <<rec, proc, faults>>
          \/ /\ i \notin ScoutIds
             /\ \/ rec[i].st # "active" /\ UNCHANGED faults
                \/ Fault
             /\ rec' = down /\ proc' = Terminated(p)
             /\ LaunchGoes(i, "failed") /\ UNCHANGED sup
    /\ UNCHANGED <<disk, observers, beingStopped, resume, deleting, services, reserved, tree,
                   shutdown, events>>

(* The record is persisted and the parent learns of its child; a parent that is gone by
   then fails the start. *)
RegisterSession(i) ==
    /\ At(i, "register")
    /\ IF ParentOf[i] = NoOne \/ rec[ParentOf[i]].in
       THEN /\ rec' = Adopted(rec, i)
            /\ disk' = [j \in Ids |-> IF j \in {i, ParentOf[i]} THEN Stored(rec'[j]) ELSE disk[j]]
            /\ LaunchGoes(i, IF i \in ScoutIds THEN "init" ELSE "done")
            /\ UNCHANGED proc
       ELSE /\ rec' = IF i \in ScoutIds THEN [rec EXCEPT ![i] = FailLive(i, @)]
                                      ELSE [rec EXCEPT ![i].in = FALSE]
            /\ disk' = [disk EXCEPT ![i] = Stored(rec'[i])]
            /\ proc' = Terminated(launch[i].p)
            /\ LaunchGoes(i, "failed")
    /\ UNCHANGED <<observers, beingStopped, resume, deleting, services, reserved, tree,
                   sup, shutdown, counters>>

---------------------------------------------------------------------------
(* Stopping *)

PendingStart(i) == i \in busy

(* A shutdown leaves the threads alone whose process is gone when their turn comes. *)
Skipped(i, why) == why = "all" /\ rec[i].exit # Null

(* A pending execution start is aborted instead; a finished thread is marked; a repeated
   request changes nothing; otherwise the record is cancelled and written before the kill. *)
StopSession(i) ==
    LET r == rec[i]
        asked == [r EXCEPT !.stop = TRUE, !.st = "cancelled", !.keep = closing /\ r.attn = "done",
                           !.attn = IF closing /\ r.attn = "done" THEN @ ELSE "stopping"]
    IN IF PendingStart(i)
       THEN abort' = abort \union {i} /\ UNCHANGED <<rec, disk, beingStopped, proc>>
       ELSE IF ~r.in \/ r.fin
       THEN UNCHANGED <<rec, disk, beingStopped, proc, abort>>
       ELSE IF r.exit # Null
       THEN /\ rec' = [rec EXCEPT ![i].attn = "stopped"]
            /\ disk' = [disk EXCEPT ![i] = Stored(rec'[i])]
            /\ UNCHANGED <<beingStopped, proc, abort>>
       ELSE IF r.stop \/ r.st \notin {"active", "errored", "failed"}
       THEN UNCHANGED <<rec, disk, beingStopped, proc, abort>>
       ELSE /\ rec' = [rec EXCEPT ![i] = asked]
            /\ disk' = IF asked.keep THEN disk ELSE [disk EXCEPT ![i] = Stored(asked)]
            /\ beingStopped' = IF asked.keep THEN beingStopped ELSE beingStopped \union {i}
            /\ proc' = IF asked.keep /\ r.h # NoProc THEN Terminated(r.h) ELSE proc
            /\ UNCHANGED abort

StopThread(i) ==
    /\ Happens /\ (rec[i].in \/ PendingStart(i)) /\ StopSession(i)
    /\ UNCHANGED <<observers, launch, resume, deleting, exec, busy, reserved, tree,
                   sup, shutdown, faults>>

(* The record is written: the process is asked to go, or the stop throws without a handle. *)
StopKills(i) ==
    /\ i \in beingStopped /\ beingStopped' = beingStopped \ {i}
    /\ proc' = IF rec[i].h # NoProc THEN Terminated(rec[i].h) ELSE proc
    /\ UNCHANGED <<rec, disk, observers, launch, resume, deleting, services, reserved, tree,
                   sup, shutdown, counters>>

ForceStop(i) ==
    /\ Happens
    /\ rec[i].in /\ ~rec[i].fin /\ rec[i].exit = Null /\ rec[i].stop /\ rec[i].h # NoProc
    /\ proc' = Killed(rec[i].h)
    /\ UNCHANGED <<rec, disk, observers, launch, beingStopped, resume, deleting, services, reserved,
                   tree, sup, shutdown, faults>>

(* Shutdown closes the execution service's admission, which aborts the pending starts, and
   then stops what still owns a process. *)
Shutdown ==
    /\ ~closing /\ Happens
    /\ closing' = TRUE /\ abort' = busy
    /\ UNCHANGED <<rec, disk, processes, launch, beingStopped, resume, deleting, exec, busy,
                   reserved, tree, sup, todo, faults>>

StopAll ==
    /\ closing /\ busy = {} /\ todo = {} /\ Happens
    /\ todo' = {[of |-> i, why |-> "all"] : i \in {j \in Ids : rec[j].in}}
    /\ UNCHANGED <<rec, disk, processes, launch, beingStopped, resume, deleting, services,
                   reserved, tree, sup, closing, faults>>

StopNext(job) ==
    /\ job \in todo /\ todo' = todo \ {job}
    /\ IF Skipped(job.of, job.why) THEN UNCHANGED <<rec, disk, beingStopped, proc, abort>>
       ELSE StopSession(job.of)
    /\ UNCHANGED <<observers, launch, resume, deleting, exec, busy, reserved, tree,
                   sup, closing, counters>>

(* stopTree: the root first, then every descendant of the tree read before. *)
StopTree(i) ==
    /\ Happens /\ rec[i].in /\ todo = {} /\ {j \in rec[i].kids : rec[j].in} # {}
    /\ StopSession(i)
    /\ todo' = {[of |-> j, why |-> "tree"] : j \in {k \in rec[i].kids : rec[k].in}}
    /\ UNCHANGED <<observers, launch, resume, deleting, exec, busy, reserved, tree,
                   sup, closing, faults>>

---------------------------------------------------------------------------
(* Resuming *)

MayResume(i) == /\ rec[i].in /\ ~rec[i].fin /\ ~rec[i].res
                /\ rec[i].st \notin {"active", "starting"}

(* The outgoing handle stops speaking for the thread before anything is awaited. *)
ResumeThread(i) ==
    /\ Happens /\ MayResume(i)
    /\ rec' = [rec EXCEPT ![i].res = TRUE, ![i].h = NoProc]
    /\ resume' = [resume EXCEPT ![i] = [pc |-> "barrier", prev |-> rec[i].h, p |-> NoProc]]
    /\ UNCHANGED <<disk, processes, launch, beingStopped, deleting, services, reserved, tree,
                   sup, shutdown, faults>>

HandleRestored(i) == [rec EXCEPT ![i].res = FALSE,
                           ![i].h = IF @ = NoProc THEN resume[i].prev ELSE @]

(* Every turn of the outgoing process is settled; an errored process is killed; then the
   provider says whether it can resume at all: a Scout cannot. *)
ResumeBarrier(i) ==
    /\ resume[i].pc = "barrier"
    /\ \/ /\ Fault /\ rec' = HandleRestored(i) /\ resume' = [resume EXCEPT ![i] = NoResume]
          /\ UNCHANGED proc
       \/ /\ proc' = IF rec[i].st = "errored" /\ resume[i].prev # NoProc
                     THEN Terminated(resume[i].prev) ELSE proc
          /\ IF i \in ScoutIds
             THEN rec' = [rec EXCEPT ![i].res = FALSE] /\ resume' = [resume EXCEPT ![i] = NoResume]
             ELSE UNCHANGED rec /\ resume' = [resume EXCEPT ![i].pc = "prepare"]
          /\ UNCHANGED faults
    /\ UNCHANGED <<disk, observers, launch, beingStopped, deleting, services, reserved, tree,
                   sup, shutdown, events>>

\* Bug: the previous attempt is not looked at before a new one.
QuiescentAssumed(i) == ~closing /\ i \notin busy

Quiescent(i) == ~closing /\ i \notin busy /\ Unreaped(i) = {}

(* The execution service inspects the previous attempt and writes the new generation. *)
ResumePrepare(i) ==
    /\ resume[i].pc = "prepare"
    /\ \/ /\ i \in Executed => Quiescent(i)
          /\ resume' = [resume EXCEPT ![i].pc = "preparing"]
          /\ exec' = IF i \in Executed THEN [exec EXCEPT ![i] = [phase |-> "preparing", gen |-> rec[i].gen + 1]] ELSE exec
          /\ busy' = IF i \in Executed THEN busy \union {i} ELSE busy
          /\ UNCHANGED faults
       \/ /\ \/ i \in Executed /\ ~Quiescent(i) /\ UNCHANGED faults
             \/ Fault
          /\ resume' = [resume EXCEPT ![i].pc = "restoring"]
          /\ UNCHANGED <<exec, busy>>
    /\ UNCHANGED <<rec, disk, processes, launch, beingStopped, deleting, abort, reserved, tree,
                   sup, shutdown, events>>

ResumeSpawn(i) ==
    /\ resume[i].pc = "preparing"
    /\ \/ /\ i \notin abort /\ SparePids # {}
          /\ proc' = [proc EXCEPT ![NextProc] = Spawned(i, rec[i].gen + 1)]
          /\ resume' = [resume EXCEPT ![i].pc = "spawned", ![i].p = NextProc]
          /\ exec' = IF i \in Executed THEN [exec EXCEPT ![i].phase = "ready"] ELSE exec
          /\ UNCHANGED <<busy, abort>>
       \/ /\ i \in abort \/ SparePids = {}
          /\ resume' = [resume EXCEPT ![i].pc = "restoring"]
          /\ IF i \in Executed THEN ExecutionFails(i) ELSE UNCHANGED <<exec, busy, abort>>
          /\ UNCHANGED proc
    /\ UNCHANGED <<rec, disk, observers, launch, beingStopped, deleting, reserved, tree,
                   sup, shutdown, counters>>

(* The replacement is the thread's process from here on. *)
ResumeAdopt(i) ==
    /\ resume[i].pc = "spawned"
    /\ LET p == resume[i].p
           back == [rec[i] EXCEPT !.stop = FALSE, !.st = "active", !.exit = Null, !.attn = "none",
                                  !.gen = proc[p].gen, !.limit = FALSE, !.h = p, !.res = FALSE]
       IN IF i \in abort
          THEN /\ proc' = Killed(p)
               /\ resume' = [resume EXCEPT ![i].pc = "restoring"]
               /\ ExecutionFails(i) /\ UNCHANGED <<rec, disk, observers>>
          ELSE /\ exec' = IF i \in Executed THEN [exec EXCEPT ![i].phase = "running"] ELSE exec
               /\ busy' = busy \ {i} /\ UNCHANGED abort
               /\ rec' = [rec EXCEPT ![i] = back]
               /\ disk' = [disk EXCEPT ![i] = Stored(back)]
               /\ proc' = [proc EXCEPT ![p].heard = TRUE]
               /\ observers' = IF i \in Executed THEN observers \union {p} ELSE observers
               /\ resume' = [resume EXCEPT ![i] = NoResume]
    /\ UNCHANGED <<launch, beingStopped, deleting, reserved, tree, sup, shutdown, counters>>

(* A resume that could not spawn puts the outgoing handle back. *)
ResumeRestore(i) ==
    /\ resume[i].pc = "restoring"
    /\ rec' = HandleRestored(i) /\ resume' = [resume EXCEPT ![i] = NoResume]
    /\ UNCHANGED <<disk, processes, launch, beingStopped, deleting, services, reserved, tree,
                   sup, shutdown, counters>>

---------------------------------------------------------------------------
(* Deleting *)

MayDelete(i) == /\ rec[i].in /\ deleting[i] = "idle" /\ i \notin busy
                /\ rec[i].st \notin {"active", "starting"} /\ rec[i].exit # Null

(* Children outlive their parent: their link goes first. *)
Orphaned(i) ==
    [j \in Ids |-> IF rec[j].in /\ j \in rec[i].kids /\ rec[j].up = i
                   THEN [rec[j] EXCEPT !.up = NoOne]
                   ELSE IF rec[j].in /\ rec[i].up = j
                   THEN [rec[j] EXCEPT !.kids = @ \ {i}]
                   ELSE rec[j]]

Delete(i) ==
    /\ Happens /\ MayDelete(i)
    /\ rec' = Orphaned(i)
    /\ disk' = [j \in Ids |-> IF rec'[j] # rec[j] THEN Stored(rec'[j]) ELSE disk[j]]
    /\ deleting' = [deleting EXCEPT ![i] = "drop"]
    /\ UNCHANGED <<processes, launch, beingStopped, resume, services, reserved, tree,
                   sup, shutdown, faults>>

(* Retention retires a finished thread without surviving children, through the same delete. *)
SweepRetention(i) ==
    /\ rec[i].st \in {"exited", "failed", "cancelled"}
    /\ \A j \in rec[i].kids : ~rec[j].in
    /\ Delete(i)

DeleteDrop(i) ==
    /\ deleting[i] = "drop" /\ deleting' = [deleting EXCEPT ![i] = "done"]
    /\ disk' = [disk EXCEPT ![i].in = FALSE]
    /\ rec' = [rec EXCEPT ![i].in = FALSE]
    /\ UNCHANGED <<processes, launch, beingStopped, resume, services, reserved, tree,
                   sup, shutdown, counters>>

---------------------------------------------------------------------------
(* The exit of a process becomes the exit of its thread *)

ProviderFailed(r) == r.limit \/ r.st = "errored"

ExitStatus(r, code) ==
    IF r.term = "complete" THEN "exited"
    ELSE IF r.term = "cut" THEN "cancelled"
    ELSE IF ProviderFailed(r) THEN "failed"
    ELSE IF r.stop THEN "cancelled"
    ELSE IF r.term = "failed" THEN "failed"
    ELSE IF code = "zero" THEN "exited"
    ELSE "failed"

Attention(r, code) ==
    IF r.term = "complete" THEN "done"
    ELSE IF r.term = "cut" THEN "stopped"
    ELSE IF ProviderFailed(r) THEN "failed"
    ELSE IF r.stop THEN (IF r.keep THEN "done" ELSE "stopped")
    ELSE IF r.term = "failed" THEN "failed"
    ELSE IF code = "zero" THEN (IF r.attn = "done" THEN "done" ELSE "none")
    ELSE "failed"

PublishRecord(i, r, code) ==
    /\ rec' = [rec EXCEPT ![i] = [r EXCEPT !.st = ExitStatus(r, code), !.attn = Attention(r, code),
                                           !.exit = code, !.fin = FALSE]]
    /\ disk' = [disk EXCEPT ![i] = Stored(rec'[i])]

TurnToSettle(r, i) == r.st = "active" /\ ~r.stop /\ i \notin ScoutIds /\ ~r.limit

(* A normal exit closes the input first and is published once its last turn has settled. *)
HandleExit(i, p, r, code) ==
    IF r.h # p \/ r.fin \/ r.exit # Null
    THEN rec' = [rec EXCEPT ![i] = r] /\ UNCHANGED disk
    ELSE IF TurnToSettle(r, i)
    THEN rec' = [rec EXCEPT ![i] = [r EXCEPT !.fin = TRUE]] /\ UNCHANGED disk
    ELSE PublishRecord(i, r, code)

SpeaksFor(i, p) == rec[i].h = p

(* What a capture of the Scout's stream will find; none is taken once its result is settled
   or its time is over. *)
Captures(s, u, r) ==
    IF r.term # "none" \/ u.cut # "no" THEN u
    ELSE [u EXCEPT !.cap = IF u.said THEN "card" ELSE "junk"]

(* The exit event of a process its thread listens to. *)
Rings(p, code) ==
    LET i == proc[p].of IN
    IF ~SpeaksFor(i, p)
    THEN UNCHANGED <<rec, disk, sup>>
    ELSE IF i \in ScoutIds
    THEN /\ sup' = IF sup[i].final = "no"
                   THEN [sup EXCEPT ![i] = Captures(i, [@ EXCEPT !.final = "capture", !.armed = FALSE,
                                                                 !.code = code], rec[i])]
                   ELSE sup
         /\ UNCHANGED <<rec, disk>>
    ELSE HandleExit(i, rec[i].h, rec[i], code) /\ UNCHANGED sup

(* A process ends, by itself or because it was asked to. *)
Die(p, code) ==
    /\ proc[p].alive
    /\ IF proc[p].sig = "none" THEN Happens ELSE UNCHANGED events
    /\ proc' = [proc EXCEPT ![p].alive = FALSE, ![p].told = TRUE, ![p].rang = proc[p].heard]
    /\ IF proc[p].heard THEN Rings(p, code) ELSE UNCHANGED <<rec, disk, sup>>
    /\ UNCHANGED <<observers, launch, beingStopped, resume, deleting, services, reserved, tree,
                   shutdown, faults>>

(* The exit event of a killed process, and of one that ended before its thread listened. *)
Reap(p) ==
    /\ proc[p].of # NoOne /\ ~proc[p].alive /\ ~proc[p].rang
    /\ ~proc[p].told \/ proc[p].heard
    /\ proc' = [proc EXCEPT ![p].told = TRUE, ![p].rang = proc[p].heard]
    /\ IF proc[p].heard THEN Rings(p, "bad") ELSE UNCHANGED <<rec, disk, sup>>
    /\ UNCHANGED <<observers, launch, beingStopped, resume, deleting, services, reserved, tree,
                   shutdown, counters>>

PublishExit(i, code) ==
    /\ rec[i].fin /\ rec[i].h # NoProc
    /\ PublishRecord(i, rec[i], code)
    /\ UNCHANGED <<processes, launch, beingStopped, resume, deleting, services, reserved, tree,
                   sup, shutdown, counters>>

(* The execution service's own look at the exit, of the generation it started. *)
ExecutionSettles(p) ==
    /\ p \in observers /\ proc[p].told /\ observers' = observers \ {p}
    /\ LET i == proc[p].of IN
       exec' = IF exec[i].gen = proc[p].gen /\ exec[i].phase = "running" /\ Unreaped(i) = {}
               THEN [exec EXCEPT ![i].phase = "stopped"] ELSE exec
    /\ UNCHANGED <<rec, disk, proc, launch, beingStopped, resume, deleting, busy, abort, reserved,
                   tree, sup, shutdown, counters>>

(* Output that ends the provider session: the thread is errored, its process still runs. *)
FatalOutput(i) ==
    /\ i \notin ScoutIds /\ rec[i].h # NoProc /\ proc[rec[i].h].alive /\ ~rec[i].fin /\ Happens
    /\ rec' = [rec EXCEPT ![i].st = "errored", ![i].limit = TRUE,
                          ![i].attn = IF rec[i].st = "errored" THEN @ ELSE "failed"]
    /\ disk' = [disk EXCEPT ![i] = Stored(rec'[i])]
    /\ UNCHANGED <<processes, launch, beingStopped, resume, deleting, services, reserved, tree,
                   sup, shutdown, faults>>

(* A completed turn of the thread's process (the turn engine). *)
TurnDone(i) ==
    /\ i \notin ScoutIds /\ rec[i].in /\ rec[i].st = "active" /\ ~rec[i].fin /\ rec[i].attn # "done"
    /\ rec[i].h # NoProc /\ proc[rec[i].h].alive /\ Happens
    /\ rec' = [rec EXCEPT ![i].attn = "done"]
    /\ disk' = [disk EXCEPT ![i] = Stored(rec'[i])]
    /\ UNCHANGED <<processes, launch, beingStopped, resume, deleting, services, reserved, tree,
                   sup, shutdown, faults>>

---------------------------------------------------------------------------
(* Scouts: the result is decided before the exit is published *)

unsupervised == <<observers, launch, beingStopped, resume, deleting, services, reserved, tree, shutdown>>

(* The stream shows a decision card, or the Scout changes its repository. *)
ScoutOutput(s) ==
    /\ rec[s].h # NoProc /\ proc[rec[s].h].alive /\ Happens
    /\ \/ /\ ~sup[s].said
          /\ sup' = [sup EXCEPT ![s] = Captures(s, [@ EXCEPT !.said = TRUE], rec[s])]
       \/ ~sup[s].dirty /\ sup' = [sup EXCEPT ![s].dirty = TRUE]
    /\ UNCHANGED <<rec, disk, proc, unsupervised, faults>>

Asked(s) == IF rec[s].h # NoProc THEN Terminated(rec[s].h) ELSE proc

(* A card stops the Scout once, as a success; after a cutoff it is evidence only. *)
ApplyCapture(s) ==
    /\ sup[s].cap # "idle"
    /\ LET card == sup[s].cap = "card"
           accepts == card /\ rec[s].term # "cut" /\ sup[s].final = "no" /\ ~sup[s].answered
       IN /\ rec' = [rec EXCEPT ![s].card = @ \/ card]
          /\ disk' = [disk EXCEPT ![s] = Stored(rec'[s])]
          /\ sup' = [sup EXCEPT ![s].cap = "idle", ![s].answered = @ \/ accepts]
          /\ proc' = IF accepts THEN Asked(s) ELSE proc
    /\ UNCHANGED <<unsupervised, counters>>

(* The wall clock runs out; the captures already taken are awaited first. *)
ExhaustBudget(s) ==
    /\ sup[s].armed /\ rec[s].term = "none" /\ sup[s].cut = "no" /\ Happens
    /\ sup' = [sup EXCEPT ![s].armed = FALSE, ![s].cut = "wait"]
    /\ UNCHANGED <<rec, disk, proc, unsupervised, faults>>

(* An answered Scout is stopped as a success; any other is cut off, durably, before the kill. *)
CutOffScout(s) ==
    /\ sup[s].cut = "wait" /\ sup[s].cap = "idle"
    /\ IF rec[s].card
       THEN /\ sup' = [sup EXCEPT ![s].cut = "over", ![s].answered = TRUE]
            /\ proc' = IF sup[s].answered THEN proc ELSE Asked(s)
            /\ UNCHANGED <<rec, disk>>
       ELSE /\ rec' = [rec EXCEPT ![s].term = "cut", ![s].st = "cancelled", ![s].attn = "stopped"]
            /\ disk' = [disk EXCEPT ![s] = Stored(rec'[s])]
            /\ sup' = [sup EXCEPT ![s].cut = "kill"]
            /\ UNCHANGED proc
    /\ UNCHANGED <<unsupervised, counters>>

CutOffKills(s) ==
    /\ sup[s].cut = "kill" /\ sup' = [sup EXCEPT ![s].cut = "over"]
    /\ proc' = Asked(s)
    /\ UNCHANGED <<rec, disk, unsupervised, counters>>

CapturesOver(s) == sup[s].cap = "idle" /\ sup[s].cut # "wait"

FinalFailure(r) == [r EXCEPT !.term = "failed", !.st = "failed", !.attn = "failed"]
Settles(s, r) ==
    /\ HandleExit(s, r.h, r, sup[s].code)
    /\ sup' = [sup EXCEPT ![s].final = "done"]

(* The trace and the repository are checked against what the Scout may have done. *)
VerifyScout(s) ==
    /\ sup[s].final = "capture" /\ CapturesOver(s)
    /\ IF ~sup[s].dirty
       THEN IF rec[s].term = "failed"
            THEN Settles(s, rec[s])
            ELSE sup' = [sup EXCEPT ![s].final = "verified"] /\ UNCHANGED <<rec, disk>>
       ELSE Settles(s, FinalFailure(rec[s]))
    /\ UNCHANGED <<proc, unsupervised, counters>>

SettledScout(s) ==
    IF rec[s].stop THEN [rec[s] EXCEPT !.term = "failed"]
    ELSE IF rec[s].term = "cut" THEN rec[s]
    ELSE IF sup[s].code # "zero" /\ ~sup[s].answered THEN FinalFailure(rec[s])
    ELSE IF ~rec[s].card THEN FinalFailure(rec[s])
    ELSE [rec[s] EXCEPT !.term = "complete", !.attn = "done"]

SettleScout(s) ==
    /\ sup[s].final = "verified"
    /\ Settles(s, SettledScout(s))
    /\ UNCHANGED <<proc, unsupervised, counters>>

---------------------------------------------------------------------------
(* A new broker process: nothing that was live before is live now *)

Recovered(d) ==
    LET lost == d.st \in {"active", "starting", "errored"}
        st == IF ~lost THEN d.st ELSE IF d.st = "errored" THEN "failed" ELSE "cancelled"
        attn == IF lost THEN IF d.st = "errored" THEN "failed" ELSE "interrupted"
                ELSE IF st = "cancelled" /\ d.attn \in {"none", "stopping"} THEN "stopped"
                ELSE IF st = "failed" /\ d.attn = "none" THEN "failed"
                ELSE d.attn
    IN [Blank EXCEPT !.in = TRUE, !.st = st, !.attn = attn, !.gen = d.gen, !.up = d.up,
                     !.kids = d.kids, !.limit = d.limit, !.term = d.term, !.card = d.card,
                     !.exit = IF lost /\ @ = Null /\ d.exit = Null THEN "unknown" ELSE d.exit]

(* A Scout's result is read back; only one that was complete already is. *)
RecoveredScout(s, r) ==
    IF r.card /\ r.term = "complete"
    THEN [r EXCEPT !.st = "exited", !.attn = "done", !.exit = IF @ = Null THEN "zero" ELSE @]
    ELSE r

Restart ==
    /\ Fault
    /\ rec' = [i \in Ids |-> IF ~disk[i].in THEN Blank
                             ELSE IF i \in ScoutIds THEN RecoveredScout(i, Recovered(disk[i]))
                             ELSE Recovered(disk[i])]
    /\ disk' = [i \in Ids |-> IF rec'[i].in THEN Stored(rec'[i]) ELSE disk[i]]
    /\ proc' = [p \in Procs |-> [proc[p] EXCEPT !.alive = FALSE, !.told = TRUE, !.rang = TRUE]]
    /\ launch' = [i \in Ids |-> [launch[i] EXCEPT !.pc = IF @ \in {"idle", "done", "failed"} THEN @ ELSE "lost"]]
    /\ resume' = [i \in Ids |-> NoResume]
    /\ deleting' = [i \in Ids |-> IF disk[i].in THEN "idle" ELSE deleting[i]]
    /\ beingStopped' = {} /\ busy' = {} /\ abort' = {} /\ observers' = {} /\ reserved' = 0
    /\ sup' = [s \in ScoutIds |-> [NoSup EXCEPT !.said = sup[s].said, !.dirty = sup[s].dirty,
                                              !.final = IF launch[s].pc = "idle" THEN @ ELSE "done"]]
    /\ closing' = FALSE /\ todo' = {}
    /\ UNCHANGED <<exec, tree, events>>

---------------------------------------------------------------------------
SessionsInit ==
    LET order == CHOOSE f \in [AtStart -> Procs] : \A i, j \in AtStart : i # j => f[i] # f[j]
        kids(i) == {j \in AtStart : ParentOf[j] = i}
    IN /\ rec = [i \in Ids |-> IF i \in AtStart
                               THEN [Blank EXCEPT !.in = TRUE, !.st = "active", !.h = order[i],
                                                  !.up = ParentOf[i], !.kids = kids(i)]
                               ELSE Blank]
       /\ disk = [i \in Ids |-> IF i \in AtStart THEN Stored(rec[i]) ELSE Unstored]
       /\ proc = [p \in Procs |-> IF \E i \in AtStart : order[i] = p
                                  THEN [Spawned(CHOOSE i \in AtStart : order[i] = p, 1) EXCEPT !.heard = TRUE]
                                  ELSE NoProcess]
       /\ launch = [i \in Ids |-> IF i \in AtStart THEN [pc |-> "done", p |-> order[i]]
                                  ELSE [pc |-> "idle", p |-> NoProc]]
       /\ exec = [i \in Ids |-> [phase |-> IF i \in AtStart \intersect Executed THEN "running" ELSE "none", gen |-> 1]]
       /\ observers = {order[i] : i \in AtStart \intersect Executed}
       /\ sup = [s \in ScoutIds |-> [NoSup EXCEPT !.armed = s \in AtStart]]
       /\ resume = [i \in Ids |-> NoResume] /\ deleting = [i \in Ids |-> "idle"]
       /\ tree = [i \in Ids |-> IF i \in AtStart \intersect Workers THEN "held" ELSE "none"]
       /\ beingStopped = {} /\ busy = {} /\ abort = {} /\ reserved = 0
       /\ closing = FALSE /\ todo = {} /\ events = 0 /\ faults = 0

Launching == \E i \in Ids : \/ Admit(i) \/ Provision(i) \/ Activate(i) \/ BeginSpawn(i)
                            \/ Spawn(i) \/ Adopt(i) \/ Initialize(i) \/ RegisterSession(i)
Stopping == \/ \E i \in Ids : StopThread(i) \/ StopKills(i) \/ ForceStop(i) \/ StopTree(i)
            \/ Shutdown \/ StopAll \/ \E job \in todo : StopNext(job)
Resuming == \E i \in Ids : \/ ResumeThread(i) \/ ResumeBarrier(i) \/ ResumePrepare(i)
                           \/ ResumeSpawn(i) \/ ResumeAdopt(i) \/ ResumeRestore(i)
Deletion == \E i \in Ids : Delete(i) \/ SweepRetention(i) \/ DeleteDrop(i)
ProcessExits == \/ \E p \in Procs : (\E code \in {"zero", "bad"} : Die(p, code)) \/ Reap(p) \/ ExecutionSettles(p)
                \/ \E i \in Ids : (\E code \in {"zero", "bad"} : PublishExit(i, code)) \/ FatalOutput(i) \/ TurnDone(i)
Supervision == \E s \in ScoutIds : \/ ScoutOutput(s) \/ ApplyCapture(s) \/ ExhaustBudget(s) \/ CutOffScout(s)
                                   \/ CutOffKills(s) \/ VerifyScout(s) \/ SettleScout(s)

SessionsNext == Launching \/ Stopping \/ Resuming \/ Deletion \/ ProcessExits \/ Supervision \/ Restart

SessionsSpec == SessionsInit /\ [][SessionsNext]_sessionsVars

---------------------------------------------------------------------------
(* Two processes never drive one worker: a resume, a cancelled start and an exit that is
   still to be heard of leave the execution service with one live process at most. *)
OneProcess == \A i \in Executed : Cardinality(Live(i)) <= 1

(* A start holds its slot from admission until the thread counts as active or has failed;
   workers of their first generation never exceed the ceiling with it. *)
SlotsAgree ==
    /\ reserved = Cardinality({i \in Executed : launch[i].pc \in
                     {"reserved", "provisioned", "activated", "preparing", "spawned"}})
    /\ reserved + Cardinality({i \in Executed : rec[i].in /\ rec[i].st = "active" /\ rec[i].gen = 1})
         <= MaxWorkers

============================================================================
