# A verification development for the cyberdeck broker

cyberdeck runs coding agents ("workers") of several providers under a local
broker. The broker launches and supervises their processes, decides who may
control them, queues the instructions they get, records the turns they complete,
enforces their budgets and tells orchestrators what happened. This directory
holds TLA+ models of the parts in which order, failure and concurrency decide
whether that is right, the TLC instances that check them, and TLAPS proofs.

All paths are relative to `src/src/` of the repository unless they start with
`README.md`, `docs/` or `tests/`.

## 1. Inventory

| Component | State it keeps | Operations | Hard behaviour | What makes it correct |
|---|---|---|---|---|
| Worker leases: `broker/worker-coordination.ts`, `broker/worker-lease-liveness.ts` | subjects with lease state, version, token hash, deadlines; controller liveness; mutation receipts; handoff records | register, acquire, adopt, renew, release, transfer, batches, directed handoff, liveness observation, lifecycle reconciliation | controllers racing for a worker, stale tokens, retried mutations, expiry that is only written down when somebody looks, partial batches | one credential at a time authenticates; expiry is not undone; nobody is dispossessed without right; retries issue nothing new; handoffs are all or nothing |
| Event stream: same service, `broker/worker-event-channel.ts` | events with ordinals, rate window, queue per worker, checkpoints, decision gates | submit, resolve, request checkpoint, project by cursor | coalescing and eviction at the limits, re-ordinalled events under a paging consumer, an ordinal counter that a restart rebuilds | a gated worker can be answered; a consumer misses nothing |
| Worker budgets: same service, `broker/worker-budget-enforcer.ts`, `domain/worker-budget.ts` | declared budget, revision, measurement, enforcement state | declare, observe, adjust, advance enforcement, gate, wrap-up, stop | four awaits in one refresh, an operator adjusting in between, counters that restart with the process | recorded enforcement agrees with what was done; the meter is sound; an overrun is stopped |
| Coordination journal: `persistence/worker-coordination-store.ts`, `persistence/journal-exclusivity.ts` | JSONL file, archives, writer lock, replayed maps | append, load, checkpoint | crash and power loss between write, fsync, link and rename; two processes on one file | acknowledged transactions survive; a checkpoint loses nothing |
| Instruction queue: `orchestration/instruction-queue.ts`, `persistence/instruction-store.ts`, `orchestration/session/session-io-surface.ts` | one record per instruction, a writer chain per target | enqueue, flush, withdraw, apply state, launch, recover | callbacks from one PTY frame, a crash between write and record, holds and the wake channel | a payload is written once; a held instruction is watched by somebody |
| Turn engine: `orchestration/session/worker-turn-engine.ts` and `worker-turn-*`, `worker-input-*` | completion ledger, capture claim, pending commit, deferred screens, barrier floor | output, submit, screen bank, reconcile, exit, resume, discard | reads that return after a fence, commits that fail half way, ordinals reserved by several observers | an answer belongs to its instruction; the barrier of an exit ends |
| Truth and waits: `domain/worker-truth.ts`, `orchestration/session/worker-turn-state.ts`, `session-wait-coordinator.ts`, `session-update-bus.ts` | receipts, cached statuses of open waits, scheduled announcements | wait, publish, flush, complete, cut, exit, resume | a change nobody announces, a result that a later turn or exit takes back | a delivered result stays; no wait hangs on settled workers |
| Session registry and lifecycle: `broker/session-registry.ts`, `orchestration/session/session-*`, `runtime/execution/worker-execution-service.ts` | live catalog, runtimes, records, executions | admit, launch, stop, force stop, resume, delete, retire, exit, recover | exit during launch, stop during resume, several starts between admission and spawn | one process per session; a start holds its slot |
| Control plane: `control-plane/*`, `persistence/job-store.ts` | jobs with lifecycle and report-back, admission queue and reservations, budget ledger, running attempts | submit, delegate, pump, dispatch, report, cancel, report back, acknowledge, recover, shut down | methods of one job suspended in a write at the same time, a cancel while the dispatch is awaited, a restart with jobs in flight | a slot is held exactly by a live attempt |
| Job dispatch and worktree leases: `app-server/dispatch-adapter.ts`, the headless adapters, `control-plane/worktree-*`, `persistence/worktree-lease-store.ts` | running attempts, timers, leases with fences | dispatch, cancel, time out, report; acquire, heartbeat, release, reconcile | exit, timer and cancel settling one job; a lapsed lease whose writer still runs | one report per job; writers of a worktree are fenced |
| Containers: `runtime/execution/*` | execution records, slots, runtimes and observers | start, attach, stop, expire, retire, recover | a daemon that stops answering, a crash between record and container | guests fit the slots; slots come back |
| Notifications and attention: `broker/orchestrator-notification-*`, `broker/orchestrator-attention-*`, `orchestration/orchestrator-attention-*` | notice log, cursors, notice file, explicit wait, wake budget | produce, deliver, wake, drain, acknowledge; arm, capture, decide, wake, consume | a wake racing a human turn, a late acknowledgement, a settled turn nobody told | a settled worker is told; what is consumed was read |
| Bindings, peers, liveness: `orchestration/orchestrator-manager.ts`, `orchestrator-peer-service.ts`, `orchestrator-session-liveness.ts` | append-only bindings, peers in creation, followed sessions | ensure, create, toggle, reset, delete, peer create and stop | retried creates, a start that fails after its binding was written | one binding per intent; a live orchestrator counts as connected |
| Control services and tools: `orchestration/worker-control-service.ts`, `worker-handoff-service.ts`, `agent-control-service.ts`, `mcp/server.ts` | token custody, tickets, cursors | lease, stop, answer a dialog, redirect, hand over; read, wait, start | a dialog that changes while it is judged, a wait cut into segments | a key is pressed on the dialog that was judged; a wait is honoured |
| Transcripts and archives: `persistence/thread-transcript-store.ts`, `codex-conversation-discovery.ts`, `artifact-store.ts`, `agent-activity-store.ts`, `scout-report-store.ts` | journals, segments, ledger; provider files; content by digest | append, rotate, recover, read | a crash between journal and ledger, several sessions in one provider home, a listing during a capture | an acknowledged turn is kept and counted once; no foreign turn is credited; what is listed is readable |
| Operator journals, workspaces, workflows: `persistence/*-grant-store.ts`, `fleet-*`, `orchestration/worktree-*`, `orchestration/workflow-service.ts` | grants, read marks, detach notes; worktrees; runs and messages | grant, revoke, replay; cut, validate, prune; send, wake, cancel | a torn line before a revocation, a commit during a prune, a cancel during a send | a revoked root is refused; a prune keeps commits; chains of messages end |
| Fleet client: `client/fleet/*` | snapshot, key queue, gestures | feed, keys, render, attach | a late reply after a newer snapshot | a reply never rewinds the list |
| Replay digest: `runtime/replay-digest.ts`, `domain/terminal-replay.ts` | carry, tail, counters | feed a chunk | a control sequence cut by a chunk boundary | chunked reading is reading at once |
| Providers, runtime I/O, tmux, CLI, RPC, Neovim, observability | parsers, processes, screens | I/O | text | not modelled |

The coordination service is the hub. Workers reach it through the event channel
and the gateway; orchestrators and the local control service through the broker's
RPCs; the budget enforcer reads and advances budgets on a timer, asks the
instruction queue to deliver the wrap-up and the registry to stop the worker; the
registry asks the enforcer's gate before it resumes a worker. Every mutation of
the service runs inside one `exclusive` section and appends one transaction to the
journal before the maps change. The turn engine announces boundaries to the
instruction queue and updates to the bus; waits, notices and attention listen to
the bus.

## 2. Modules

One module per component; a module's constants are its environment and its bounds.

| Module | Models | What its steps are |
|---|---|---|
| `WorkerLease` | leases and handoffs. `subjects`, `liveness`, `receipts`, `handoffs` are the service's maps; `minted` numbers the tokens; `granted` is a history of the credentials ever returned | one action per mutation, singly and over a selection; the clock; the fleet's lifecycle reconciliation |
| `WorkerEventStream` | events, checkpoints, gates and one paging consumer. `events`, `checkpoints`, `gate`, `refused` are durable, `nextOrdinal` is memory | accept or refuse a submission, resolve, request, project, move of the lease, restart, clock |
| `WorkerBudget` | one worker's budget with the enforcer's refresh. `budget` is the durable record, `refresh` the await the refresh is at, `counter`, `frame`, `allowance` the provider | each await of a refresh, declare, adjust, resume in two steps, stop, exit, consumption, a failing refresh, crash |
| `CoordinationJournal` | the journal and its processes. `file`, `torn`, `synced`, `inode`, `archived` are the disk, `lock` the writer lock, `memory` the replayed maps | each system call of append, load and checkpoint, failures, crashes, power loss |
| `InstructionQueue` | one session's mailbox and its delivery boundary. `records` is the store, `chain` and `running` the promise chain of the target, `calls` the enqueue calls before their put | one action per writer, the flush split at the preflight and at the recording of its answer; output, end of turn, operator, stop, exit, resume, crash and recovery |
| `TurnEngine` | the turn engine of one worker with the provider, the transcript store and the lifecycle controller around it | each callback up to its next await; provider turns; exit, stop, resume, crash |
| `WorkerWaits` | what is concluded of a worker and one wait. `worker` is what the broker has observed, `wait` the coordinator's cache, `flush` the announcements still scheduled, `given` a history of the turns whose result a wait handed over | turn events, faults, stalls, exits, restarts, each announced at once, later, or not at all; opening, re-reading and answering a wait |
| `SessionLifecycle` | the registry, launch and lifecycle coordinators, the execution service and the Scout supervisor for several sessions | every operation split at its awaits; process exits; recovery |
| `ControlPlane` | bounded jobs. `entry` is the jobs map, `disk` the last snapshots in `jobs.jsonl`, `tasks` the methods suspended in persist or emit with the snapshot they handed over | each method up to its first await, the write landing or failing, the continuation; shutdown, crash and start |
| `JobDispatch` | dispatch adapters and the worktree leases of writing jobs | dispatch, launch, exit, timer, cancel, report, lease calls, orphaning, crash |
| `ContainerExecutions` | worker execution in containers with the slot scheduler | each call to the daemon, the start command of an attached process until the daemon carries it out, stop, expiry, retirement, recovery, outages |
| `OrchestratorNotices` | producer, inbox, delivery and wakes of one orchestrator | chain operations split at their writes, hook, drains, acknowledgements, restart |
| `AttentionWait` | the explicit wait of one orchestrator with its scheduler | arm, capture page by page, decide, wake, read, acknowledge, consume, mute |
| `OrchestratorBindings` | bindings, peers and the liveness observer | each operator call between its awaits, failed starts, restart |
| `WorkerControl` | the tools on leases, token custody and the operator's handoff. It extends `WorkerLease`: an action that mutates a lease is the lease operation together with what the tool reads and keeps, and `ControlSpec` implements `Spec` | each tool call between its awaits |
| `AgentTools` | reads by cursor, waits in segments, batched starts | request, answer, loss and retry of each |
| `TranscriptLedger`, `NativeTranscripts`, `BrokerArchives` | the transcript of a thread, the files of a provider home, three stores of evidence | writes, rotations, torn tails, recovery, reads |
| `OperatorJournals`, `Workspaces`, `Workflows` | three journals of the operator; worktrees; workflow runs | appends and replays; cut, check and prune; sends and cancels between their reads and writes |
| `FleetClient` | feed, keys and gestures of the terminal client | one key, frame, reply or disconnection at a time |
| `ReplayDigest` | the incremental strip of terminal output | one chunk; the reference is the strip of all that was read |
| `WorkerLeaseProofs`, `WorkerWaitsProofs`, `WorkerBudgetProofs`, `CoordinationJournalProofs`, `WorkerEventStreamProofs`, `OrchestratorBindingsProofs`, `OrchestratorNoticesProofs`, `ControlPlaneProofs` | theorems and proofs (section 4) | |

An operation that runs in one `exclusive` section, or between two awaits, is one
action, since nothing can be seen between its start and its end. An operation
that awaits with nothing held is split at every await. Tokens are numbers:
comparing their hashes is comparing them. Audit records, texts and error wording
are left out. `PROJECT.json` maps definitions to lines of the source; a helper whose
lines lie inside the lines of another definition of its module need not be listed
there. Each module's header says what it abstracts; the larger choices:

* `InstructionQueue`: the screen is one of five readings the delivery boundary
  tells apart; text typed by an operator while a turn runs counts as `working`.
  A launch without an instruction id does not touch the mailbox and is left out.
  The second submit key of a verified wake changes nothing the mailbox sees.
* `ControlPlane`: a job stands for its idempotency key. Refusals for the provider,
  the model, the wall clock or artifacts create nothing and are steps not taken.
  Recovery is one step, since a crash in the middle of it leaves what another
  restart starts from.
* `WorkerWaits`: a screen is the activity and the input surface read off it. What
  a capture reads and banks is the turn engine's subject.
* `Workspaces`, `ContainerExecutions`, `NativeTranscripts`: git, the Docker daemon
  and the providers are environment, with the answers the code distinguishes.
* `ReplayDigest`: a character stands for its class.
* `TurnEngine`: the launch brief is the queue's subject and not the engine's, so the
  read of the transcript that an exit starts while the brief is pending
  (`initialNativeRead`, `worker-turn-engine.ts:601-602`) is left out; the captures
  that an exit waits for are there.
* `OrchestratorNotices`: the controller has no armed wait. With one the delivery
  leaves the wake to the wait and withdraws the wake it had enqueued
  (`orchestrator-notification-delivery.ts:235-241`); the armed wait is `AttentionWait`.
* `OrchestratorBindings`: a creator has one request at a time, its stop included,
  which the code does not demand; requests of two creators and of the operators
  interleave at every await.
* `AgentTools`: one orchestrator. That a ticket is refused to another actor
  (`agent-control-service.ts:1116-1121`) is left out.

Composition in the runs. An MC module EXTENDS one component or several and takes others
with INSTANCE; the variable `part`, fixed at the start, says which of them moves in a
behaviour while the others rest in a fixed initial state. This is a disjoint
union of the state graphs: each component is explored exactly as if it were
alone, and its properties are vacuous in the other parts only because those
parts' behaviours are not about it. `WorkerControl` over `WorkerLease` is a real
composition, proved to be an implementation (section 4).

## 3. Runs

| Run | Instance | Shows |
|---|---|---|
| `lease_authority` | 1 worker, 2 controllers of which one is a broker session, clock 0..2, 3 versions, 1 handoff | `TypeOK`, `SingleAuthority`, `NoResurrection`, `DispossessedByRight` |
| `lease_fleet` | 2 workers, 2 controllers, one retriable mutation id, symmetric | `HandoffsWhole`, `GrantedOnce` |
| `event_stream` | 3 event ids, queue 2, rate 2 per window 1, page size 1, restarts; the operator journals with 4 appends; worktrees with 2 starts, 2 Scouts, 2 commits, 2 faults; the transcript of 2 turns with segments of 1, retention 1, 2 faults | `GateAnswerable`, `NothingSkipped`; `RevokedIsRefused`; `PruneKeepsCommits`; `AckKept`, `TurnOnce` |
| `budget` | all units and telemetry kinds, allocation 2, 3 units consumed, 3 revisions, 2 process generations, 1 fault; a workflow of 3 messages, 1 hop, 2 crashes | `StopRecordedMeansStopped`, `CounterNeverOvercharges`, `OverrunIsStopped` under fairness; `ChainsEnd` |
| `journal` | 2 processes, 2 keys, 3 transactions, 2 faults; archives of 3 sources; every output of 4 tokens in every cut, 2 cases excepted; one session and two in one provider home, with and without hook, marker and a brief of their own, 1 or 2 turns, 2 or 3 moves | `AckedSurvives`, `CheckpointLossless`; `ListedIsReadable`; `ReadsAsWhole`; `NoForeignTurns` |
| `queue` | a wait for a worker and a Scout, 2 turns, 3 moves, 1 retained receipt; 2 instructions in three combinations of kinds, 2 processes, 1 mishap; an orchestrator with a worker and a Scout, 3 processes, 3 moves, 1 fault | `DeliveredStays`, `NoSettledWaitHangs`; `WrittenOnce`, `HeldIsWatched`; `OneProcess`, `SlotsAgree` |
| `control_plane` | five setups of up to 3 jobs with ceilings, chains of delegation and disturbances; 2 dispatched jobs of four adapters with crash, lapse, cancel, timer; 2 workers for 1 container slot with outages, late starts and 3 tries of one | `AdmissionMatchesJobs`; `ReportedExactlyOnce`, `WritersFenced`; `GuestsFitTheSlots`, `SlotsComeBack` |
| `turns` | a transcript that is bound, missing or absent, 2 instructions, 2 turns, 2 generations, 2 disturbances | `AnswersItsInstruction`, `BarrierEnds` under fairness |
| `notices` | a worker of 2 turns, inbox of 2, pages of 1, 1 wake, 1 fault; an armed wait over 2 workers, 2 epochs, 1 fault; the client with 2 workers, 1 drop, 1 gesture | `SettledTold`; `ConsumedWasRead`; `ReplyNeverRewinds` |
| `bindings` | 2 operators, 3 sessions, one retried intent, 3 calls, 2 moves; a worker with 2 controllers, 3 dialogs, 3 calls; 2 tool calls with a wait of 3 polls in segments of 2 | `OneBindingPerIntent`; `PressedAsJudged`; `WaitHonoured` |
| `bindings_live` | as `bindings` | violation, section 5 |
| `workflow_cancel` | as `budget` | violation, section 5 |

Why the bounds are enough. A lease dispute needs an incumbent and a contender;
two controllers and three versions give an issue, a supersession and a second
supersession, and a clock of 2 with grace 1 and duration 2 covers live, in grace
and expired. A batch that is partial needs two workers. A full queue needs
`MaxQueued` + 1 events, and the page size of 1 makes every event a page boundary.
The budget's allocation of 2 with soft threshold at half has a state below, at and
above each threshold, and three revisions let an adjustment land before and after
the wrap-up of another. Three transactions over two keys let a checkpoint drop one
line, keep one and be followed by another append; two faults give a torn write
followed by a crash. Order, overtaking and a hold behind a head need two
instructions; `MaxBacklog` limits only when callers and the session may add to the
chain, so an observation still lands between any two steps of a flush; the mishap is
a resume, a receipt the store refuses or one a crash loses, at any point. A wait
needs one target that settles with an announcement and one without; two turns give
a result that a later turn could take back, and one retained receipt makes
retention forget the first. A lifecycle race needs a session that is stopping while
it is resumed and a second one competing for its slot. A control plane needs one
job more than there are slots, two in one bucket with a third outside it so that
admission must skip the head of the queue, and a tree deep enough for the root, the
parent and the job to be three; one disturbance at every point of every
interleaving. Writers overlap with two jobs in one worktree; a container slot is
contended by two workers, one of which is resumed again after a cancelled resume. Turn capture needs two instructions (the answer of one
could be given to the other) and an ordinal more than there are turns. A provider
home needs two sessions and a file neither owns. Pages of 1 make every notice a
page boundary; the acknowledgement that is late is the one of an earlier page. A
rebinding that fails needs a binding before it, and an intent is doubled by two
calls. Deadlock checking is off where the clock or the counters stop at their
bound.

Fairness. `budget` assumes weak fairness of the enforcer's steps: its interval
timer reschedules every budgeted worker for ever, and each refresh is chained
behind the last whatever its outcome, so a refresh that can take a step eventually
does. `turns` assumes weak fairness of the broker's own steps (its callbacks,
timers and completions of awaits that have returned), which the event loop runs as
long as the process lives. Nothing is assumed of workers, operators or providers.

Each property of a passing run has a mutant in `PROJECT.json`: a definition with a
plausible slip (a dropped guard, a missing reset, an early write) under which TLC
finds the property violated. The mutated definitions stand next to the originals.


## 4. Proofs

TLAPS checks every theorem for all values of the constants that satisfy the named
assumptions: any number of workers, controllers, processes, keys, sessions, any
durations, limits and any bound on steps, versions and faults. Each inductive
invariant below was first checked by TLC as an invariant of a small instance.

| Theorem | States |
|---|---|
| `LeaseTypeCorrect`, `LeaseSingleAuthority`, `LeaseGrantedOnce` | leases: types, one credential per subject, one grant per mutation |
| `LeaseHandoffsWhole` | a handoff record and the credentials issued under it name the same subjects |
| `LeaseNoResurrection` | a credential that was refused is not accepted again |
| `LeaseDispossessedByRight` | a holder loses its lease to time, its own later version, its own token or the operator's handoff only |
| `ControlImplementsLease` | the lease and control tools, the operator's handoff, the sweeper and the session observer do to leases only what the lease specification allows |
| `ControlPressedAsJudged` | a dialog is answered only as it was asked about and judged |
| `WaitsTypeCorrect`, `WaitsDeliveredStays`, `WaitsNeverHang` | waits: types, a completion handed over stays one for every later wait on the same broker, and after a restart until the next instruction, settled workers wake the wait |
| `BudgetTypeCorrect`, `BudgetStopIsStopped`, `BudgetNeverOvercharges` | budgets: types, a recorded hard stop is a stopped worker, the meter charges no more than was consumed |
| `JournalTypeCorrect`, `JournalAckedSurvives`, `JournalCheckpointLossless` | journal: types, acknowledged transactions survive, a checkpoint loses nothing |
| `StreamTypeCorrect`, `StreamGateAnswerable`, `StreamNothingSkipped`, `StreamOrdinalsUnique` | event stream: types, a gated worker can be answered, a consumer misses nothing, an ordinal is one event |
| `JournalsRevokedIsRefused` | operator journals: a root reported revoked is refused, whatever appends were torn |
| `WorkspacesPruneKeepsCommits` | worktrees: prune destroys no commit of the branch, and none that it counted |
| `WorkflowChainsEnd` | workflows: every message stands below an earlier one, within the hop limit |
| `ArchivesListedIsReadable` | artifacts: what is listed has its content |
| `BindingsOnePerIntent` | bindings: one mutation id of one creator is one bound peer |
| `ToolsWaitHonoured` | the orchestrator's wait: it is said to be timed out only after the whole of its time, and a wait that goes on has its ticket |
| `SessionsOneProcess`, `SessionsSlotsAgree` | session lifecycle: one live process of a worker or Scout; a start holds its slot until its thread counts or it has failed, within the ceiling |
| `NoticesSettledTold` | notices: an idle producer has told the inbox of every settlement that is owed |
| `AttentionConsumedWasRead` | attention wait: what counts as consumed was on a page the orchestrator acknowledged |
| `FleetReplyNeverRewinds` | fleet client: a reply never replaces a snapshot that is newer than it |
| `DispatchTypeCorrect`, `DispatchWritersFenced`, `DispatchReportedExactlyOnce` | dispatch: types, a second writer beside a first means the first lapsed, an accepted job is reported once |
| `PlaneTypeCorrect`, `PlaneAdmissionMatchesJobs` | control plane: types, no job queued twice, slots within the ceiling; at every await the jobs agree with the queue and the slots |
| `ContainersGuestsFitTheSlots`, `ContainersSlotsComeBack` | container executions: guests run in slots accounted to them, within the capacity; a held slot has somebody who gives it back, or is reported |

### Leases (`LeaseConstants`)

`WorkerLeaseProofs` strengthens `TypeOK` by three facts. The handoff records are a
finite set, so that counting them is arithmetic. A subject that was never registered
has version 0 (`AbsentIsBlank`). And `Fence`: an issued token is one that was minted
for its subject, its version is not ahead of the subject's, its mutation has a
receipt, and two issued credentials of one subject that share a token, a version or
a retriable mutation are the same credential. An operation computes one outcome per subject and
commits them together. `GoodOutcome` says what commit needs of one outcome: a well
formed subject whose version does not go back, and moves on when a token is issued.
One lemma per operation shows that its outcomes are good,
`CommitKeepsTypesAndFence` that committing good outcomes keeps `Inv`.
`SingleAuthority` follows because authentication compares the token with the one
the subject holds now, and `Fence` makes the credential with that token unique.

The second part of the module adds to the invariant that handoffs are numbered without
gaps (`Numbered`), that a record and its credentials agree (`HandoffsWhole`, which
is inductive only together with `Numbered`: a new number must be unused) and that
what is known of a controller no session observation spoke of is nothing (`Vouched`).

It then proves the two action properties. A credential is judged
by the subject it names and by what is observed of its controller, so each
operation is read for one subject: it leaves the lease as it is (`Same`), carries on
a lease that had not expired (`CarriedOn`) or ends it with no token or one never
issued before (`Ended`). `AcceptedIsHeld` says that being accepted is holding an
unexpired lease with that token; a refused credential then stays refused because no
operation gives an old token back or un-expires a lease. Two conditions are part of
the statements and not of the proof. `NoResurrection` excepts the first session
observation of a controller: until the liveness observer has spoken, a session
counts as connected, and an observation of a live session after its grace ran out is
what the code means it to be. `LeaseDispossessedByRight` assumes positive durations:
they default to 30 s and 15 s (`broker/worker-coordination.ts:315-316`) and are
taken from the options without validation; with a duration of 0 a lease expires in
the step that renews it.

### Control over the leases (`LeaseConstants`)

`Next` of `WorkerLease` lets a caller present any token that was issued, for a worker
that has a record. A tool reads the token in one step and presents it in a later one,
or registers a worker in one step and takes it in the next. `ControlInv` says that this
is still such a token and such a worker: what custody holds was issued (`CustodyFits`),
and so was what a call carries, for workers that are known (`Fits`). It is kept because
tokens only grow in number and no lease record goes away (`Onward`), whichever service
moves meanwhile, and because a broker restart takes the calls with it. Every step is
then a step of the leases or a stutter (`ControlIsNext`), so the six lease theorems hold
of `ControlSpec` too. `PressedAsJudged` rests on the dialog of a call at its policy stage
being one the broker recognised; the rest is the second reading of the screen.

### Waits (`WaitsConstants`, a hypothesis of each theorem)

The invariant is `TypeOK`, a soundness condition on what the broker has observed of
each worker (`Tracked`: receipts belong to concluded turns, a told receipt was not
cut, an exited process is not active), `Remembered` and `Cached`: when a target of an open wait
has settled, the wait has cached that, or an announcement for it is scheduled, or an
observation that will announce it is due. Without the last part the invariant is not
inductive: the exit is observed before its announcement is scheduled. `Remembered`
ties the history of what was handed over to the receipts: a turn handed over by this
broker is told as long as its receipt is kept, one handed over by an earlier broker
reads as completed while the worker was not instructed since (`Recalls`), and each step
on a worker, the restart included, is shown to keep that.
`WaitsNeverHang` is the part of "no wait hangs" that is a safety property; that the
announcement is delivered is the event loop's.

### Budgets (`BudgetConstants`)

`Halted` connects the enforcer's refresh with the record: while the stop of the
current revision waits for its record the worker does not run and no resume is past
the gate. That needs the revision, because an adjustment may supersede the stop in
between. `Metered` is a potential for each kind of meter. For a provider's window:
the amount charged, plus what the stored window and the last frame still hold above
the provider's, is at most what was consumed. For the terminal counter: the baseline
of a generation was consumed before its counter started, and a reading that outlives
its generation was consumed before the next one. For the clock: the amount. The
transcript meter is excepted because there the statement is false (section 5).

### Journal (`JournalConstants`)

`Exclusive`: whoever is between two steps holds the lock, its transaction is neither
acknowledged nor failed, the file it opened is the one the path names, and a
checkpoint's copy is the file. `Durable`: every acknowledged transaction is `Kept` in
the synced prefix (its line is there and for every key it wrote a line at least as
late carries the key) or the prefix holds a malformed line; what a process is about
to acknowledge is kept in the file after the write and in the synced prefix after
the fsync. `Kept` is monotone in the file (`KeptStays`), which carries it over
appends, crashes and power loss, and preserved by compaction of a readable journal
(`CompactedKeeps`), which carries it over the rename. `CompactedReplays` proves for
every journal, of any length, that its compacted form replays to the same values, the
same listing order and the same transactions; it rests on the first and the last of a
set of line numbers (`FirstOfLines`, `LastOfLines`, from well-foundedness of the
naturals).

### Event stream (`StreamConstants`)

`NothingSkipped` needs two facts beside itself. `Numbered`: the broker's counter is
past every stored ordinal, and a sequence number is at most the ordinal, which bounds
the sequences too. `Behind`: the cursor is not ahead of the stored events. An event
that is submitted, superseded, evicted or resolved is numbered from the counter, so it
lands ahead of the cursor (`NumberedAnew`); a restart forgets the ordinals that were
burned, and `Behind` says that the rebuilt counter is ahead of the cursor all the same.
A page is closed downwards (`PageClosed`), so moving the cursor to the last event of a
page passes only events of that page. `GateAnswerable` is inductive: the answered
correlation was asked of the submitting worker, so no other worker waits for it.
`StreamOrdinalsUnique` adds `SequencesUnique`: at most one PROGRESS event is the
current one because sequence numbers of a worker differ, and at most one event is
evicted because ordinals differ (`AtMostOne`).

### Operator journals (`RootOfIsARoot`)

`JournalInv` says that the file is a sequence of lines of whatever kind and that a
root reported revoked is not allowed. It is preserved because a line changes the
answer about a root only when it is the last decision about it (`AppendedLineAllows`):
an append that is cut short changes no answer, one that is glued to a torn tail
leaves a malformed line and every reader refuses the file from then on, and one that
is whole but unacknowledged takes the operator's certainty away with it. The visit
and detach records share the file's shape and never decide about a root.

### Worktrees and prune (`AbsentIsNoNumber`: the value for "no branch" is not a count)

`PruneReads` relates what prune has read to what is there when it acts: the worktree
is still there until prune itself removes it, the branch goes only after its worktree,
and when prune found the remote level with the branch, the branch holds at least the
commits that were counted, because it only grows. So a verdict that is out of date
when the worktree goes can only have counted too little, and what it missed is on the
branch; the branch is deleted by git only when it is empty.

### Workflows (no assumption)

A send decides on what it has read and appends two waits later; `Composed` says that
the message it holds stands below a line that is in the file. Lines are never taken
away, so what the other requests append in between cannot break it, and a crash drops
the message with the request. The same argument fails for the run, which is written
back as it was read: that is the finding of `workflow_cancel`.

### Artifacts (no assumption)

A writer past its content found it there or put it there (`ArtifactsInv`), and content
is never taken away, so the metadata it stores next names content that is there, also
when the writer that stored the shared content was stopped.

### Bindings (`BindingsConstants`)

The invariant speaks of the calls in progress (`Pending`). A create with a mutation id
is the one call of its creator, is not for the primary key, and until its session is
activated the binding log does not know the id. What an operator's call holds, to
write it or to put it back when a start fails, is a binding without a mutation id
(`Plain`), and so is the primary one; so no failed start, toggle or reset brings a
peer's id back under a second key. Since `Replay` and `Decide` read the log and a
creator's calls are serialised, an id is bound once.

### The orchestrator's wait (`ToolsAssumption`: times are counts, and no call is the mark of "no call")

`Patient` says that every deadline the broker holds, in a ticket or in a request under
way, is a whole timeout after the orchestrator first asked: also the deadline a request
that was given up carries on beside its retry, and the new one a retry is given when
its ticket has gone with a restart. `Undisturbed` says that while no answer was lost the
orchestrator's call is the only one, so no other request takes its ticket away.
`Numbered` bounds the tickets, from which the next one is new.

### Notices (`NoticesAssumption`)

What is owed is in one of three places (`Somewhere`): the inbox has heard of it, the
producer holds the turn as a target, or an observed instruction that names it waits in
the chain. A target that was reached always has an update in the chain that will settle
it (`Reachable`). An instruction that names a turn reached already settles every
target reached, with the truth it reads then; once it has written one it stays at the
head of the chain as the update that settles the others (`SettlingKeepsAccount`).
`Ending` says the same of a worker's end. While the store is not loaded nothing is
claimed: failed writes abandon observations, and the sweep of the next start accounts for all
of them (`SweptIsAccounted`, which needs finitely many workers).

### The attention wait (`AttentionAssumption`: the statement is a sequence of workers, the limits are counts)

The property is not inductive: what an acknowledgement consumes is the coverage of the
receipt, and it has to be compared with the page that the orchestrator holds.
`Receipted` says that the retained receipt of every page that is being read or was
returned covers no more than what was shown before and what that page shows, so the
acknowledgement of an old page after newer ones, or after others fell out of the
retained receipts, consumes nothing unseen. It also says that a page's number was
already used in its epoch, so a new receipt is never taken for an old page's, and
`NextRecord` that the record an arm prepares has a later epoch and no receipts: pages
of earlier waits are refused after it. An arm hands on what its predecessor consumed
(`InheritedTyped`), which the preparing record holds across the commit. That a page has
no gap is `PageCovers`: it shows the foremost unread reports in the statement's order,
so with a report of a worker it shows every earlier unread one of that worker, and the
receipt's position, the last one shown, covers only reports that were shown.

### The client's snapshot (`FleetConstants`: the mark of "nothing" is no reply)

`FeedInv` types what the feed has in hand and says of a reply on its way that it is
fenced or no older than the snapshot it would replace (`ReplyIsNews`). An answer to a
gesture may bring a snapshot that is older than the feed's (a shell command returns the
one it was given), so the statement is about replies only: an answer fences the reply on
its way instead of receiving it, and that is what `AnsweredIsFresh` shows of each answer.

### Session lifecycle (`SessionAssumption`, a hypothesis of each theorem: finitely many sessions are up at the start, the executed ones within the ceiling)

Both properties follow from one invariant, `LifeInv`, whose parts are about where each
start stands. Until a start is adopted its thread is in no catalog, has no handle and no
resume, and no Scout supervision has begun (`Early`); until it is activated nothing of it
is stored (`Unwritten`), so a restart finds nothing to recover; until it has spawned no
process of its session exists (`Unspawned`), so the one it spawns is the only one. A
resume that prepares finds no process of its session that the executor has not seen exit,
and since an exit event follows the end of the process, none that runs (`SpawnsAlone`,
`ReapedAreDead`); a resume that has spawned holds a process of its own session and of a
later generation, so an adopted resume never counts as a first generation. `OneAlive` is
`OneProcess` without the cardinality. For the slots the invariant needs that the begun
starts are finite and counts the holders one at a time (`HolderEnters`, `HolderLeaves`);
adoption moves a worker from the holders to the active, which is why the sum is kept.
Stopping, deletion, exits and supervision move no start: each is shown to be quiet on
every variable (`RecordsQuiet` to `SupQuiet`), and `QuietKeeps` is proved once. The proof
also asked what a restart makes of a Scout whose start had not begun: its supervision is
as before, which the model had as finished.

### Dispatch (no assumption; the jobs need not be finite)

Neither property is inductive. Both rest on the order in which a run ends: the process
is told to stop before the lease is given back, and the lease is given back before the
report is made. `Life` says, phase by phase, where a job's process, answer and reports
are. `Queue` says that the lease manager's chain holds an acquire only for a job that
acquires, and for a job that gives its lease back exactly one release; without the
uniqueness a second release would report a second time. `Lease` says that a writer whose
process runs and whose lease is no longer held has missed its heartbeats, and that an
orphaned lease has no process. `Bounded` bounds the fencing tokens, from which the next
one is larger than every other (`NextFenceFacts`). A grant goes to a job only when no
other lease of the worktree is held or orphaned, so whoever still runs with an earlier
token has lapsed. Most steps move one job and no lease (`OneJobInv`); of those, the ways
in which a run ends are instances of one operator (`EndsRun`). The three operations of
the lease manager are proved for the jobs' half and the leases' half apart.

### Control plane (`ControlPlaneConstants`; the jobs need not be finite)

`AdmissionMatchesJobs` is not inductive. A method that ends a job changes the job
before its write and gives the slot back after it, so the invariant says that the job
of such a method has ended (`Endings`), and that the scheduler holds nothing of a job
nobody submitted (`Absences`). The loop of `pump` hands a job from the queue to the
adapter and then awaits a method of its own: `PumpAwaits` says that the job it
dispatches has its slot while it is still queued, that the loop awaits one method and
that only the loop is awaited by a mark. That the loop passes over no job it could
admit rests on `Distinct`: the queue holds every job once, so the foremost admissible
job is unique and what is removed in front of it is not queued. It also needs what
`Without` keeps of a queue of any length (`WithoutFacts`, from the least place at which
the filter could be wrong) and what an insertion keeps (`EnqueuedFacts`). One lemma
says what a turn of the loop does (`LoopFacts`). A method that returns then needs only
that the queue and the slots it leaves still serve the jobs (`WaitsIn`, `SlotsIn`).
The lineage and the budget do not enter: the agreement holds whatever the ledger
refuses.

### Container executions (`ContainersAssumption`: there is a slot, and the journal's order lists every session)

Neither property is inductive. `Recorded` says that whatever is done for a session, runs
for it or observes it has a record, and that a container that exists has one that is not
destroyed. `Slotted` says that a guest that runs has the slot of its session, unless the
runtime of an earlier try gave that back (`robbed`) or the guest was started late; that
a session with a start command which nothing overtook, or with one it is ready to send,
has its slot, or lost it to such a runtime; that a session which waits for a slot has
neither a guest nor a command in that account; and that a runtime left while a start is
prepared is one of an earlier try. A release marks the commands on their way
(`ReleaseKept`), so the guests they start are excepted and no others. `Visited` says
that until a pass of the reconciliation meets a container it cannot reach, every guest
that runs is still to be visited, or was started late; so no other runs when admission
opens. Most steps are about one session, and `OneSession` reduces the invariant to that
session; those that
end in a put of the record, with or without a stop, are instances of `PutAndGo`.

For `SlotsComeBack` the invariant also says that who waits for a slot waits once and
holds none (`WaitsOnce`), which the scheduler keeps whoever it serves (`DrainServes`,
`RemovedPlace`); that a session that retires holds none; and that one which holds a slot
and has just started, or has nothing in progress, has a runtime, or is recorded as not
cleaned up (`Accounted`). That is stronger than the property: a guest that runs need not
be counted.

### Only model-checked

Liveness under fairness (`OverrunIsStopped`, `BarrierEnds`) is out of the prover's
reach, and so is what recursive definitions compute for every input (`ReadsAsWhole`
of the replay digest, `AckKept` and `TurnOnce` of the transcripts, whose contents are
folds). The safety properties of the queue, the turn engine,
the transcripts, the reply watermarks and detaches of the operator, the provisioning of
worktrees, the Scout canary and the gestures of the client are checked by TLC on
the instances of section 3 and not proved.

## 5. Findings and observations

Two runs show a disagreement between the code and what the repository says of it.

* `bindings_live` (`LiveIsConnected`): when a start fails after its binding was
  durable, the liveness observer has been told to follow the failed session
  (`orchestration/orchestrator-manager.ts:259`), and `restoreBinding` puts the
  previous binding back without observing it. The previous orchestrator, alive or
  resumed later, stays disconnected for the lease substrate until the broker
  restarts. `orchestrator-manager.ts:186-187` says "the prior state is put back
  exactly as it was", `orchestrator-session-liveness.ts:13` that "quiet, blocked and
  errored live processes keep leases".
* `workflow_cancel` (`CancelledStaysCancelled`): `send` reads the run, awaits the
  message's write and writes the run back with the status it read
  (`orchestration/workflow-service.ts:119`); a cancel in between is overwritten.
  `README.md:375` says that cancellation prevents further messages or wakes.

The models contain more behaviour a maintainer may want to look at. None of it has a
run of its own; the models take these steps, and the properties name them as exceptions
where they matter.

* A worker that repeats an event unchanged is told `EVENT_ID_COLLISION` once the
  stored event has been merged with its predecessor: the retry is compared with what
  is stored, not with what was sent.
* After a torn append the next append continues the fragment's line; that line is
  complete and malformed, and the next start refuses the journal. `Durable` has this
  as its exception.
* After a resume the provider's transcript still shows the last frame of the previous
  generation, which is added to a baseline that contains it.
* Recovery of a launch brief asks only for a completed or cancelled first turn; a
  brief whose receipt is already submitted or acknowledged when the broker dies
  becomes `undelivered`.
* A start that is cancelled while its guest starts
  (`orchestration/worker-execution-service.ts:132-133`) is stopped and its slot released,
  but its `ContainerSessionRuntime` is not told. When the attached process ends, that
  runtime stops the execution once more and releases by execution id
  (`runtime/execution/orbstack-executor.ts:124`). If the session is being started again by
  then, under the same id, the slot given back is the new start's: its guest runs without
  one, beside the guest that is admitted in its place. The design document asks that
  "cancellation and failure release it exactly once"
  (`docs/design/2026-09-05-worker-infrastructure.md:66`). `GuestsFitTheSlots` excepts the
  session concerned (`robbed`), and the run reaches that case.
* `OrbStackExecutor.start` spawns `docker start --attach`
  (`runtime/execution/orbstack-executor.ts:116`) and returns once the process is there,
  except for a restricted session, where `activateWorkerNetwork` waits up to 15 s for the
  guest because "docker start --attach is asynchronous"
  (`runtime/execution/worker-network-boundary.ts:27`). A cancel or a failure in between
  stops the execution, the inspect finds `State.Running` false and confirms the stop
  (`runtime/execution/orbstack-client.ts:61-63`), and the slot is released
  (`runtime/execution/orbstack-executor.ts:136-138`); nobody kills the attached process,
  so the daemon may start the guest afterwards, without a slot. The same command survives
  a crash of the broker and the reconciliation that follows. `GuestsFitTheSlots` excepts
  the guests of such commands (`late`); without the exception the run violates it.
* The deliveries of a turn are kept in memory and its receipt is durable
  (`orchestration/session/worker-turn-state.ts:71`, `:154`), and an instruction hides the
  receipts before it that were not delivered
  (`orchestration/session/worker-turn-engine.ts:370`). A broker that restarts after it
  handed a result over has the receipt without the delivery: once the worker is resumed and
  instructed again, a wait for that turn reads `waiting` where it read `completed`.
  `DeliveredStays` speaks of one broker, and after a restart of the time until the next
  instruction.
* The digest of terminal output is said to be cut where no match straddles the cut
  (`runtime/replay-digest.ts:162-165`). Two outputs are cut there nevertheless.
  `consumableEnd` looks at the last OSC opener only (`:397`), so with an opener inside an
  open OSC the cut falls inside the outer one, whose beginning is then read as text; and it
  holds a carriage return only at the very end (`:401`), so `"\r"` and a control
  sequence in one chunk and `"\n"` in the next read as two line ends where the whole reads
  as one. `ReadsAsWhole` excepts these two cases (`OpenerInOpenOsc`, `LineEndParted`); the
  run fails without either exception.
* "Every claimant of a shared path is refused"
  (`persistence/thread-transcript-store.ts:734`; `BUGS.md:68` calls the attribution
  exact) holds for claims that are still on disk. A session whose SessionStart hook did
  not run has none: when another one resumes its conversation and its own hook names that
  file, the first reads nothing and the second is credited with the turns of the first
  (`tests/persistence/claude-transcript-rebind.test.ts:333` asks only about the first). A
  session that resumes another's conversation, works there and goes back to its own leaves
  the other as the only claimant, which is then credited with the visitor's turns. A Codex
  session without a marker that resumes a marked rollout leaves its turns there too.
  `NoForeignTurns` excepts these cases (`Untold`, in a conversation that was resumed).
* A cancel that arrives while the adapter's dispatch is awaited settles the job and
  frees its slot without asking the adapter; the run goes on beside the job admitted
  in its place, past the ceiling.

## 6. Not modelled

`ControlPlaneReconciler` is constructed nowhere in the program. The providers'
launch descriptions and parsers, PTYs, tmux and sandboxed processes, the command
line, the terminal and Neovim surfaces, the MCP transport, the RPC layer with its
schemas and the logs are text processing and I/O whose decisions are made in the
components above; `PROJECT.json` lists each with the reason, and for a component that
is only partly modelled what is left out.

## 7. Plan

1. Done: a model, an instance and checked properties for every component of section
   2; the theorems of section 4.
2. Next proofs: `WrittenOnce` of the queue; `AnswersItsInstruction` of the turn engine, which needs an
   invariant over capture identities that are drawn from a bounded pool and reused.
3. Then refinements: the journal as an atomic register of acknowledged transactions,
   and the queue as an abstract mailbox whose entries are written at most once.

## 8. Running

    tlc -workers 2 -config MCLeaseAuthority.cfg MCWorkerLease
    tlapm WorkerLeaseProofs.tla

and likewise for the other runs and theorems listed in `PROJECT.json`. A run takes two
to four minutes with two workers; the longest proof module about as long.
