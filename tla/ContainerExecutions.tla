------------------------ MODULE ContainerExecutions ------------------------
(***************************************************************************)
(* Workers that run in a container: WorkerExecutionService and its journal *)
(* of execution records, the slot scheduler and the OrbStack executor, the *)
(* ContainerSessionRuntime that stands between a session and its guest,    *)
(* the startup reconciliation, and the timers for expired attempts and for *)
(* the cleanup of failed acquisitions.                                     *)
(*                                                                         *)
(* A session has one execution and so one container name; a resume reuses  *)
(* the container at the next generation.  The Docker daemon and the guest  *)
(* are the environment: the daemon may stop answering and answer again,    *)
(* the guest may exit, the attached docker process may die.  A start only  *)
(* spawns that process: the guest runs when the daemon has carried out its *)
(* command, or never.  Every other call to the daemon is one step (the     *)
(* inspect inside OrbStackClient.stop and the command it decides on are    *)
(* not separated), and so is each put of the journal, whose failures are   *)
(* left out.  The stop that a failed start makes twice, in the executor    *)
(* and in the service, is made once.                                       *)
(***************************************************************************)
EXTENDS Integers, Sequences, FiniteSets, SequencesExt, FiniteSetsExt

CONSTANTS
  Sessions,
  SessionOrder,  \* the order of the journal's map: a sequence of Sessions
  Slots,         \* capacity of ExecutionSlotScheduler
  Allowances,    \* bounds: how many outages, crashes, cancels, renewals happen, how
                 \* often each session is launched or resumed (tries), and whose
                 \* attempt deadline may pass (timed)
  Nothing

(* A record of the journal, as far as it is modelled. *)
ExecutionRecords ==
  [phase : {"preparing", "ready", "running", "stopping", "stopped", "failed", "collecting",
            "retained", "destroyed"},
   generation : Nat, deadline : {"none", "ahead", "passed"},
   timedOut : BOOLEAN, cleanupFailed : BOOLEAN, manifest : BOOLEAN]

ASSUME ContainersAssumption ==
  /\ Slots \in Nat \ {0} /\ Nothing \notin ExecutionRecords
  /\ SessionOrder \in Seq(Sessions)
  /\ \A s \in Sessions : \E i \in DOMAIN SessionOrder : SessionOrder[i] = s

VARIABLES
  executions, \* the journal's latest record of each session, or Nothing
  box,        \* the container: "absent", "created", "running", "exited"
  evidence,   \* the collection files: a set of [generation, logs], one a generation
  daemon,     \* does the daemon answer
  session,    \* registry: "new", "starting", "live", "ended", "unregistered"
  generation, \* generation of the session's record
  tries,      \* launches and resumes so far
  operation,  \* what WorkerExecutionService is doing for the session ("starting" set)
  intent,     \* that operation's own copy of the record
  aborted,    \* sessions whose start was cancelled
  held, pending, \* ExecutionSlotScheduler
  runtimes,   \* ContainerSessionRuntime objects that have not published an exit
  observers,  \* exit observers of the service that have not run yet
  expiring,   \* the list expireAttempts walks: [todo, snapshot]
  admission,  \* the container backend is in `backends`
  recovery,   \* the pass of reconcileExecutions: [todo, snapshot, blocked]
  starts,     \* start commands on their way to the daemon: a set of [s, try, late]; late
              \* is history: the slot was given back since the command was sent
  robbed,     \* history: sessions whose slot the runtime of a cancelled start gave back
  late,       \* history: sessions whose last guest was started by a late command
  left        \* member of Allowances: environment moves that are left

containersVars == <<executions, box, evidence, daemon, session, generation, tries, operation,
                    intent, aborted, held, pending, runtimes, observers, expiring, admission,
                    recovery, starts, robbed, late, left>>

durables == <<executions, evidence>>
memory == <<runtimes, observers, expiring, robbed, late>>
slots == <<held, pending, starts>>
startup == <<admission, recovery>>

\* A list of records that is walked over is a copy of them and the places of
\* SessionOrder that are still to come.
Idle == [todo |-> {}, snapshot |-> [s \in Sessions |-> Nothing]]
NoPass == [todo |-> {}, snapshot |-> [s \in Sessions |-> Nothing], blocked |-> FALSE]
Leads(i, todo) == i \in todo /\ \A j \in todo : i <= j

ContainersInit ==
  /\ executions = [s \in Sessions |-> Nothing]
  /\ box = [s \in Sessions |-> "absent"]
  /\ evidence = [s \in Sessions |-> {}]
  /\ daemon = TRUE
  /\ session = [s \in Sessions |-> "new"]
  /\ generation = [s \in Sessions |-> 0]
  /\ tries = [s \in Sessions |-> 0]
  /\ operation = [s \in Sessions |-> "idle"]
  /\ intent = [s \in Sessions |-> Nothing]
  /\ aborted = {}
  /\ held = {} /\ pending = <<>>
  /\ runtimes = {} /\ observers = {} /\ expiring = Idle
  /\ admission = TRUE /\ recovery = NoPass /\ starts = {} /\ robbed = {} /\ late = {}
  /\ left \in Allowances

At(s, where) == operation[s] = where
Goes(s, where) == operation' = [operation EXCEPT ![s] = where]
Put(s, record) == executions' = [executions EXCEPT ![s] = record]

----------------------------------------------------------------------------
(* ExecutionSlotScheduler.                                                 *)

(* Waiters leave the queue in order while there is capacity. *)
DrainSlots(holders, queue) ==
  LET free == Slots - Cardinality(holders)
      n == IF free < Len(queue) THEN free ELSE Len(queue)
  IN [held |-> holders \cup {queue[i] : i \in 1 .. n}, pending |-> SubSeq(queue, n + 1, Len(queue))]

SetSlots(next) == held' = next.held /\ pending' = next.pending

(* OrbStackExecutor.release: whoever holds a reservation gives it back. *)
SlotsReleased(s) == DrainSlots(held \ {s}, pending)

(* A start of s that is still on its way when its slot is given back. *)
Overtaken(s) == {IF e.s = s THEN [e EXCEPT !.late = TRUE] ELSE e : e \in starts}

GiveBack(s, next) == SetSlots(next) /\ starts' = Overtaken(s)

(* What stop() leaves of a container. *)
Quieted(s) == [box EXCEPT ![s] = IF @ = "running" THEN "exited" ELSE @]

----------------------------------------------------------------------------
(* start: a launch or a resume.                                            *)

StartExecution(s) ==
  /\ session[s] \in {"new", "ended"} /\ At(s, "idle")
  /\ tries[s] < left.tries[s]
  /\ session' = [session EXCEPT ![s] = "starting"]
  /\ tries' = [tries EXCEPT ![s] = @ + 1]
  /\ Goes(s, "check")
  /\ UNCHANGED <<durables, box, daemon, generation, intent, aborted, slots, memory, startup, left>>

(* A failed launch leaves no session, a failed resume the one it found. *)
Restored(s) ==
  session' = [session EXCEPT ![s] = IF generation[s] = 0 THEN "unregistered" ELSE "ended"]

(* The previous container must be known not to run. *)
Refuses(s) == executions[s].phase = "destroyed" \/ ~daemon \/ box[s] = "running"

CheckRefused(s) ==
  /\ At(s, "check")
  /\ executions[s] # Nothing /\ admission /\ Refuses(s)
  /\ Goes(s, "idle") /\ Restored(s)
  /\ aborted' = aborted \ {s}
  /\ UNCHANGED <<durables, box, daemon, generation, tries, intent, slots, memory, startup, left>>

(* The intent is journalled before the backend does anything, and also     *)
(* when there is no backend to do it.                                      *)
PutIntent(s) ==
  LET record == [phase |-> "preparing", generation |-> generation[s] + 1, deadline |-> "none",
                 timedOut |-> FALSE, cleanupFailed |-> FALSE, manifest |-> FALSE]
  IN /\ At(s, "check")
     /\ ~(executions[s] # Nothing /\ admission /\ Refuses(s))
     /\ intent' = [intent EXCEPT ![s] = record]
     /\ Put(s, record)
     /\ Goes(s, IF admission /\ s \notin aborted THEN "reserve" ELSE "failing")
     /\ UNCHANGED <<evidence, box, daemon, session, generation, tries, aborted, slots, memory,
                    startup, left>>

(* prepare: the capacity is asked for, then the slot. *)
ReserveSlot(s) ==
  /\ At(s, "reserve")
  /\ IF daemon /\ s \notin aborted /\ s \notin held
       THEN Goes(s, "queued") /\ SetSlots(DrainSlots(held, Append(pending, s))) /\ UNCHANGED starts
       ELSE Goes(s, "failing") /\ UNCHANGED slots
  /\ UNCHANGED <<durables, box, daemon, session, generation, tries, intent, aborted, memory,
                 startup, left>>

(* With the slot in hand: the context, then the container, created stopped *)
(* or found from an earlier generation.  Any of it may fail.               *)
CreateContainer(s) ==
  /\ At(s, "queued") /\ s \in held
  /\ \/ /\ daemon /\ s \notin aborted /\ box[s] # "running"
        /\ box' = [box EXCEPT ![s] = IF @ = "absent" THEN "created" ELSE @]
        /\ intent' = [intent EXCEPT ![s].phase = "ready"]
        /\ Put(s, [intent[s] EXCEPT !.phase = "ready"])
        /\ Goes(s, "ready")
        /\ UNCHANGED slots
     \/ /\ GiveBack(s, SlotsReleased(s))
        /\ Goes(s, "failing")
        /\ box' \in {box, [box EXCEPT ![s] = IF @ = "absent" /\ daemon THEN "created" ELSE @]}
        /\ UNCHANGED <<executions, intent>>
  /\ UNCHANGED <<evidence, daemon, session, generation, tries, aborted, memory, startup, left>>

Runtime(s, mode) == [s |-> s, generation |-> intent[s].generation, try |-> tries[s], mode |-> mode]

(* start of the executor: a docker process is spawned that will start the  *)
(* guest and attach to it.  What follows, which for a session that writes  *)
(* waits for the guest, may fail, and then no runtime is left; nobody      *)
(* kills the docker process.                                               *)
RunGuest(s) ==
  /\ At(s, "ready")
  /\ starts' = starts \cup {[s |-> s, try |-> tries[s], late |-> FALSE]}
  /\ \/ runtimes' = runtimes \cup {Runtime(s, "attached")} /\ Goes(s, "started")
     \/ UNCHANGED runtimes /\ Goes(s, "failing")
  /\ UNCHANGED <<durables, box, daemon, session, generation, tries, intent, aborted, held, pending,
                 observers, expiring, robbed, late, startup, left>>

(* The daemon carries out a start command.                                 *)
GuestStarts(e) ==
  /\ e \in starts /\ daemon /\ box[e.s] \in {"created", "exited"}
  /\ starts' = starts \ {e}
  /\ box' = [box EXCEPT ![e.s] = "running"]
  /\ late' = IF e.late THEN late \cup {e.s} ELSE late \ {e.s}
  /\ UNCHANGED <<durables, daemon, session, generation, tries, operation, intent, aborted, held,
                 pending, runtimes, observers, expiring, robbed, startup, left>>

(* Or it does not: the docker process was killed, the daemon is away or    *)
(* refuses, the container is gone or runs already.                         *)
StartLost(e) ==
  /\ e \in starts
  /\ starts' = starts \ {e}
  /\ UNCHANGED <<durables, box, daemon, session, generation, tries, operation, intent, aborted, held,
                 pending, memory, startup, left>>

(* The start succeeds, unless it was cancelled while the guest started. *)
PutRunning(s) ==
  /\ At(s, "started")
  /\ IF s \in aborted
       THEN Goes(s, "failing") /\ UNCHANGED <<executions, session, generation>>
       ELSE /\ Put(s, [intent[s] EXCEPT !.phase = "running", !.deadline = "ahead"])
            /\ session' = [session EXCEPT ![s] = "live"]
            /\ generation' = [generation EXCEPT ![s] = intent[s].generation]
            /\ Goes(s, "idle")
  /\ UNCHANGED <<evidence, box, daemon, tries, intent, aborted, slots, memory, startup, left>>

(* Bug: the guest is stopped and its slot forgotten. *)
StopKeepsSlot(s) == [held |-> held, pending |-> pending]

(* OrbStackExecutor.stop, once the daemon has confirmed it. *)
StopGuest(s) == SlotsReleased(s)

(* The catch of startExclusive: stop by the durable identity. *)
StartFails(s) ==
  /\ At(s, "failing")
  /\ IF admission /\ daemon
       THEN box' = Quieted(s) /\ GiveBack(s, StopGuest(s))
       ELSE UNCHANGED <<box, slots>>
  /\ Put(s, [intent[s] EXCEPT !.phase = "failed", !.cleanupFailed = admission /\ ~daemon])
  /\ Goes(s, "idle") /\ Restored(s)
  /\ aborted' = aborted \ {s}
  /\ UNCHANGED <<evidence, daemon, generation, tries, intent, memory, startup, left>>

(* stop of a session that is still starting: the signal takes a queued     *)
(* start out of the queue, and every other one fails at its next check.    *)
CancelStart(s) ==
  /\ session[s] = "starting" /\ s \notin aborted
  /\ operation[s] \in {"check", "reserve", "queued", "ready", "started"}
  /\ left.cancels > 0
  /\ left' = [left EXCEPT !.cancels = @ - 1]
  /\ aborted' = aborted \cup {s}
  /\ \/ /\ At(s, "queued")
        /\ \E i \in DOMAIN pending : pending[i] = s /\ pending' = RemoveAt(pending, i)
        /\ Goes(s, "failing")
     \/ s \notin ToSet(pending) /\ UNCHANGED <<pending, operation>>
  /\ UNCHANGED <<durables, box, daemon, session, generation, tries, intent, held, starts, memory,
                 startup>>

----------------------------------------------------------------------------
(* ContainerSessionRuntime.                                                *)

GuestExits(s) ==
  /\ box[s] = "running"
  /\ box' = [box EXCEPT ![s] = "exited"]
  /\ UNCHANGED <<durables, daemon, session, generation, tries, operation, intent, aborted, slots,
                 memory, startup, left>>

(* The attached process ends with its guest, or with a command that failed; *)
(* it may also be lost, and a stop of the session asks for the same end.   *)
FinishRuntime(r) ==
  /\ r \in runtimes /\ r.mode = "attached"
  /\ \/ box[r.s] # "running" /\ \A e \in starts : ~(e.s = r.s /\ e.try = r.try)
     \/ session[r.s] = "live"
  /\ runtimes' = (runtimes \ {r}) \cup {[r EXCEPT !.mode = "finishing"]}
  /\ UNCHANGED <<durables, box, daemon, session, generation, tries, operation, intent, aborted,
                 slots, observers, expiring, robbed, late, startup, left>>

(* completeStop: the guest of the container is stopped, whatever started   *)
(* it; only an inspected stop gives the slot back and publishes the exit.  *)
(* Otherwise the timer tries again.  The runtime of a start that was       *)
(* cancelled is not told of later ones: the slot goes by the execution id, *)
(* and the slot it gives back may be theirs.                               *)
CompleteStop(r) ==
  /\ r \in runtimes /\ r.mode = "finishing"
  /\ daemon /\ box[r.s] # "absent"
  /\ box' = Quieted(r.s)
  /\ GiveBack(r.s, SlotsReleased(r.s))
  /\ runtimes' = runtimes \ {r}
  /\ robbed' = IF r.try # tries[r.s] /\ r.s \in held THEN robbed \cup {r.s} ELSE robbed
  /\ IF session[r.s] = "live" /\ r.try = tries[r.s]
       THEN /\ session' = [session EXCEPT ![r.s] = "ended"]
            /\ observers' = observers \cup {[s |-> r.s, generation |-> r.generation]}
       ELSE UNCHANGED <<session, observers>>
  /\ UNCHANGED <<durables, daemon, generation, tries, operation, intent, aborted, expiring, late,
                 startup, left>>

(* The observer of a previous generation leaves a resumed one alone. *)
Stale(o) == executions[o.s].generation # o.generation \/ executions[o.s].phase # "running"

Observe(o) ==
  /\ o \in observers
  /\ observers' = observers \ {o}
  /\ IF Stale(o) \/ ~daemon \/ box[o.s] \notin {"created", "exited"}
       THEN UNCHANGED executions
       ELSE Put(o.s, [executions[o.s] EXCEPT !.phase = "stopped"])
  /\ UNCHANGED <<evidence, box, daemon, session, generation, tries, operation, intent, aborted,
                 slots, runtimes, expiring, robbed, late, startup, left>>

----------------------------------------------------------------------------
(* expireAttempts and renewAttempt.                                        *)

DeadlinePasses(s) ==
  /\ s \in left.timed
  /\ executions[s] # Nothing /\ executions[s].phase = "running" /\ executions[s].deadline = "ahead"
  /\ Put(s, [executions[s] EXCEPT !.deadline = "passed"])
  /\ UNCHANGED <<evidence, box, daemon, session, generation, tries, operation, intent, aborted,
                 slots, memory, startup, left>>

(* A renewal takes the mutex of the session for one put. *)
RenewAttempt(s) ==
  /\ session[s] = "live" /\ At(s, "idle")
  /\ executions[s].phase = "running" /\ executions[s].deadline = "passed"
  /\ left.renewals > 0
  /\ left' = [left EXCEPT !.renewals = @ - 1]
  /\ Put(s, [executions[s] EXCEPT !.deadline = "ahead"])
  /\ UNCHANGED <<evidence, box, daemon, session, generation, tries, operation, intent, aborted,
                 slots, memory, startup>>

Overdue(record) ==
  /\ record # Nothing /\ record.deadline = "passed"
  /\ record.phase = "running" \/ (record.timedOut /\ record.cleanupFailed)

(* Candidates whose session is busy are skipped; a journal that has a      *)
(* later generation refuses the put, which ends the walk.                  *)
Candidate(list, i) == Leads(i, {j \in list.todo : At(SessionOrder[j], "idle")})
Accepted(list, s) == executions[s].generation = list.snapshot[s].generation

Walk(list) ==
  /\ \/ \E i \in list.todo : LET s == SessionOrder[i] IN
          /\ Candidate(list, i) /\ Accepted(list, s)
          /\ Put(s, [list.snapshot[s] EXCEPT !.phase = "stopping", !.timedOut = TRUE])
          /\ Goes(s, "expiring")
          /\ expiring' = [list EXCEPT !.todo = {j \in list.todo : j >= i}]
     \/ /\ \A i \in list.todo : Candidate(list, i) => ~Accepted(list, SessionOrder[i])
        /\ expiring' = Idle
        /\ UNCHANGED <<executions, operation>>
  /\ UNCHANGED <<evidence, box, daemon, session, generation, tries, intent, aborted, slots,
                 runtimes, observers, robbed, late, startup, left>>

(* The walk is over copies of the records as they were when it began: the  *)
(* first put is made of them at once, the next one after the first stop.   *)
Expire ==
  /\ expiring.todo = {}
  /\ \E s \in Sessions : Overdue(executions[s])
  /\ Walk([todo |-> {i \in DOMAIN SessionOrder : Overdue(executions[SessionOrder[i]])},
           snapshot |-> executions])

ExpireNext ==
  /\ \E i \in expiring.todo : Leads(i, expiring.todo) /\ ~At(SessionOrder[i], "expiring")
  /\ Walk(expiring)

ExpireStop ==
  /\ \E i \in expiring.todo :
       LET s == SessionOrder[i]
           record == [expiring.snapshot[s] EXCEPT !.timedOut = TRUE]
           stops == admission /\ daemon
           rest == expiring.todo \ {i}
       IN /\ Leads(i, expiring.todo) /\ At(s, "expiring")
          /\ IF stops THEN box' = Quieted(s) /\ GiveBack(s, StopGuest(s)) ELSE UNCHANGED <<box, slots>>
          /\ Put(s, IF stops /\ box[s] # "absent"
                      THEN [record EXCEPT !.phase = "stopped", !.cleanupFailed = FALSE]
                      ELSE [record EXCEPT !.phase = "failed", !.cleanupFailed = TRUE])
          /\ Goes(s, "idle")
          /\ expiring' = IF rest = {} THEN Idle ELSE [expiring EXCEPT !.todo = rest]
  /\ UNCHANGED <<evidence, daemon, session, generation, tries, intent, aborted, runtimes, observers,
                 robbed, late, startup, left>>

----------------------------------------------------------------------------
(* retire: a deleted session, or a failed acquisition that is swept.       *)

Retire(s) ==
  /\ At(s, "idle") /\ executions[s] # Nothing /\ executions[s].phase # "destroyed"
  /\ session[s] = "ended" \/ (session[s] = "unregistered" /\ executions[s].phase = "failed")
  /\ LET current == [executions[s] EXCEPT !.phase = IF admission THEN "stopping" ELSE "failed",
                                       !.cleanupFailed = @ \/ ~admission]
     IN /\ intent' = [intent EXCEPT ![s] = current]
        /\ Put(s, current)
        /\ Goes(s, IF admission THEN "retiring" ELSE "idle")
  /\ UNCHANGED <<evidence, box, daemon, session, generation, tries, aborted, slots, memory, startup,
                 left>>

(* Collecting and destroying need a guest that does not run.               *)
RetireFails(s) ==
  /\ operation[s] \in {"retiring", "collecting", "retained"}
  /\ ~daemon \/ (~At(s, "retiring") /\ box[s] = "running")
  /\ Put(s, [intent[s] EXCEPT !.phase = "failed", !.cleanupFailed = TRUE])
  /\ Goes(s, "idle")
  /\ UNCHANGED <<evidence, box, daemon, session, generation, tries, intent, aborted, slots, memory,
                 startup, left>>

(* What was collected once is not collected again. *)
Collected(s) == intent[s].manifest

RetireStops(s) ==
  LET next == IF Collected(s) THEN "retained" ELSE "collecting"
      current == [intent[s] EXCEPT !.phase = next]
  IN /\ At(s, "retiring") /\ daemon
     /\ box' = Quieted(s)
     /\ GiveBack(s, StopGuest(s))
     /\ intent' = [intent EXCEPT ![s] = current]
     /\ Put(s, current)
     /\ Goes(s, next)
     /\ UNCHANGED <<evidence, daemon, session, generation, tries, aborted, memory, startup, left>>

(* collect: the workspace and the container's logs, if there is one. *)
Collect(s) ==
  /\ At(s, "collecting") /\ daemon /\ box[s] # "running"
  /\ evidence' = [evidence EXCEPT ![s] =
       {e \in @ : e.generation # intent[s].generation}
         \cup {[generation |-> intent[s].generation, logs |-> box[s] # "absent"]}]
  /\ LET current == [intent[s] EXCEPT !.phase = "retained", !.manifest = TRUE]
     IN intent' = [intent EXCEPT ![s] = current] /\ Put(s, current)
  /\ Goes(s, "retained")
  /\ UNCHANGED <<box, daemon, session, generation, tries, aborted, slots, memory, startup, left>>

(* destroy: the collection is verified again, and a container that runs is *)
(* refused.                                                                *)
Destroy(s) ==
  /\ At(s, "retained") /\ daemon
  /\ \E e \in evidence[s] : e.generation = intent[s].generation
  /\ box[s] # "running"
  /\ box' = [box EXCEPT ![s] = "absent"]
  /\ Goes(s, "removed")
  /\ UNCHANGED <<durables, daemon, session, generation, tries, intent, aborted, slots, memory,
                 startup, left>>

PutDestroyed(s) ==
  /\ At(s, "removed")
  /\ Put(s, [intent[s] EXCEPT !.phase = "destroyed", !.cleanupFailed = FALSE])
  /\ session' = [session EXCEPT ![s] = "unregistered"]
  /\ Goes(s, "idle")
  /\ UNCHANGED <<evidence, box, daemon, generation, tries, intent, aborted, slots, memory, startup,
                 left>>

----------------------------------------------------------------------------
(* The broker starts: reconcileExecutions, again and again until every     *)
(* known guest is stopped.                                                 *)

Known(s) == executions[s] # Nothing /\ executions[s].phase # "destroyed"

RecoverBegin ==
  /\ ~admission /\ recovery.todo = {}
  /\ \E s \in Sessions : Known(s)
  /\ recovery' = [todo |-> {i \in DOMAIN SessionOrder : Known(SessionOrder[i])},
                  snapshot |-> executions, blocked |-> FALSE]
  /\ UNCHANGED <<durables, box, daemon, session, generation, tries, operation, intent, aborted,
                 slots, memory, admission, left>>

(* Bug: a guest that cannot be reached does not keep admission closed. *)
UnreachableNever(s) == FALSE

Unreachable(s) == recovery.blocked \/ ~daemon

(* One record of the pass; the last one opens admission if none is left    *)
(* unreachable.  A put that the journal refuses ends the pass.             *)
RecoverOne ==
  /\ ~admission
  /\ \E i \in recovery.todo :
       LET s == SessionOrder[i]
           rest == recovery.todo \ {i}
           record == recovery.snapshot[s]
           refused == daemon /\ executions[s].generation > record.generation
       IN /\ Leads(i, recovery.todo)
          /\ box' = IF daemon THEN Quieted(s) ELSE box
          /\ IF daemon /\ ~refused
               THEN Put(s, [record EXCEPT !.phase = IF box[s] = "absent" THEN "failed" ELSE "stopped"])
               ELSE UNCHANGED executions
          /\ recovery' = IF refused THEN NoPass
                         ELSE [recovery EXCEPT !.todo = rest, !.blocked = Unreachable(s)]
          /\ admission' = (~refused /\ rest = {} /\ ~Unreachable(s))
  /\ UNCHANGED <<evidence, daemon, session, generation, tries, operation, intent, aborted, slots,
                 memory, left>>

(* Nothing to reconcile: admission opens at once. *)
RecoverNothing ==
  /\ ~admission /\ recovery.todo = {}
  /\ \A s \in Sessions : ~Known(s)
  /\ admission' = TRUE
  /\ UNCHANGED <<durables, box, daemon, session, generation, tries, operation, intent, aborted,
                 slots, memory, recovery, left>>

(* The broker dies; containers go on, and so may the commands on their way. *)
CrashContainers ==
  /\ left.crashes > 0
  /\ left' = [left EXCEPT !.crashes = @ - 1]
  /\ operation' = [s \in Sessions |-> "idle"]
  /\ intent' = [s \in Sessions |-> Nothing]
  /\ session' = [s \in Sessions |-> CASE session[s] = "live" -> "ended"
                                      [] session[s] = "starting" /\ generation[s] > 0 -> "ended"
                                      [] session[s] = "starting" /\ generation[s] = 0 -> "unregistered"
                                      [] OTHER -> session[s]]
  /\ aborted' = {} /\ held' = {} /\ pending' = <<>>
  /\ runtimes' = {} /\ observers' = {} /\ expiring' = Idle /\ robbed' = {} /\ late' = {}
  /\ starts' = {[e EXCEPT !.late = TRUE] : e \in starts}
  /\ admission' = FALSE /\ recovery' = NoPass
  /\ UNCHANGED <<durables, box, daemon, generation, tries>>

Outage ==
  /\ daemon /\ left.outages > 0
  /\ daemon' = FALSE
  /\ left' = [left EXCEPT !.outages = @ - 1]
  /\ UNCHANGED <<durables, box, session, generation, tries, operation, intent, aborted, slots,
                 memory, startup>>

DaemonBack ==
  /\ ~daemon
  /\ daemon' = TRUE
  /\ UNCHANGED <<durables, box, session, generation, tries, operation, intent, aborted, slots,
                 memory, startup, left>>

ContainersNext ==
  \/ \E s \in Sessions :
       \/ StartExecution(s) \/ CheckRefused(s) \/ PutIntent(s) \/ ReserveSlot(s)
       \/ CreateContainer(s) \/ RunGuest(s) \/ PutRunning(s) \/ StartFails(s) \/ CancelStart(s)
       \/ GuestExits(s) \/ DeadlinePasses(s) \/ RenewAttempt(s)
       \/ Retire(s) \/ RetireFails(s) \/ RetireStops(s) \/ Collect(s) \/ Destroy(s) \/ PutDestroyed(s)
  \/ \E e \in starts : GuestStarts(e) \/ StartLost(e)
  \/ \E r \in runtimes : FinishRuntime(r) \/ CompleteStop(r)
  \/ \E o \in observers : Observe(o)
  \/ Expire \/ ExpireNext \/ ExpireStop
  \/ RecoverBegin \/ RecoverOne \/ RecoverNothing
  \/ CrashContainers \/ Outage \/ DaemonBack

ContainersSpec == ContainersInit /\ [][ContainersNext]_containersVars

----------------------------------------------------------------------------
(* A guest runs only in a slot that is accounted to it.  The survivors of  *)
(* a crash are outside this account, and so the container backend takes no *)
(* start before they are stopped.  Excepted are two kinds of sessions,     *)
(* whose guests may run without a slot: those whose slot the runtime of an *)
(* earlier, cancelled start gave back, and those with a guest whose start  *)
(* command was still on its way when the slot was given back, since a stop *)
(* that finds no guest running is confirmed.  All others never outnumber   *)
(* the slots.                                                              *)
GuestsFitTheSlots ==
  admission => /\ {s \in Sessions : box[s] = "running"} \ (robbed \cup late) \subseteq held
              /\ Cardinality(held) <= Slots

(* Physical capacity comes back: when nothing is in progress for a session *)
(* its slot is free again or its guest runs, unless the record says that   *)
(* the cleanup failed, which is what health shows the operator.            *)
SlotsComeBack ==
  \A s \in held :
     \/ operation[s] # "idle" \/ box[s] = "running"
     \/ \E r \in runtimes : r.s = s
     \/ executions[s].cleanupFailed
=============================================================================
