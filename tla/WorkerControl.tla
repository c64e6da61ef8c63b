--------------------------- MODULE WorkerControl ---------------------------
(***************************************************************************)
(* What an orchestrator's tools do with worker leases:                     *)
(* WorkerControlService (src/orchestration/worker-control-service.ts), the *)
(* operator's WorkerHandoffService, and the custodian that keeps the lease *)
(* tokens in the broker's memory.  The lease operations themselves are     *)
(* those of WorkerLease, which this specification implements.              *)
(*                                                                         *)
(* A tool call is a sequence of steps, one per await: what was read in one *)
(* step (a token, a plan, a dialog) is used in a later one.  The control   *)
(* service runs one call at a time and so does the handoff service, but    *)
(* they do not exclude each other, the worker processes, or the clock.     *)
(***************************************************************************)
EXTENDS WorkerLease

CONSTANTS
    CreatorOf,       \* the controller bound to each worker's parent session
    Dialogs,         \* fingerprints of the dialogs a provider may render
    Answerable,      \* those whose kind the broker recognises
    Allowed,         \* those the modal answer policy lets an orchestrator answer
    NoDialog,
    ForceStopGrace,  \* forceStopGraceMs
    Setups,          \* which tools and faults a behaviour may meet
    MaxCalls,        \* bound: tool calls and handoffs
    MaxMoves         \* bound: moves of processes, dialogs and the broker

VARIABLES
    custody,     \* the credential custodian: a token per controller and worker
    process,     \* the session registry's view of each worker
    stopAt,      \* stopRequestedAt, Never when no stop is pending
    dialog,      \* what blocks each worker's screen
    updates,     \* session updates whose reconciliation is still queued
    call,        \* the control service's call in progress
    handing,     \* the handoff service's call in progress
    issued,      \* history: the credentials granted by this broker process
    presses,     \* history: the answers pressed
    kills,       \* history: the processes killed by force
    tools,       \* the tools and faults of this behaviour
    calls, moves \* bounds

custodyVars == <<custody, issued>>
registryVars == <<process, stopAt, dialog, updates>>
serviceVars == <<call, handing>>
historyVars == <<presses, kills>>
bounds == <<tools, calls, moves>>
controlVars == <<vars, custodyVars, registryVars, serviceVars, historyVars, bounds>>

Never == MaxNow + 1

\* "lost": a record without an exit code whose process this broker never owned,
\* which is how a cancelled session comes back from the store.
Processes == {"live", "exited", "lost"}

\* A call: its stage, its tool, its caller, the workers it still has to visit,
\* and what its earlier steps read.
Idle == [stage |-> "idle", verb |-> "none", by |-> NoController, worker |-> {},
         tokens |-> <<>>, plan |-> <<>>, shown |-> NoDialog, dead |-> FALSE, at |-> 0]

Calling(stage, verb, c, ws) ==
    [Idle EXCEPT !.stage = stage, !.verb = verb, !.by = c, !.worker = ws]

Call == /\ calls < MaxCalls
        /\ calls' = calls + 1
        /\ UNCHANGED <<tools, moves>>

Move == /\ moves < MaxMoves
        /\ moves' = moves + 1
        /\ UNCHANGED <<tools, calls>>

Uses(tool) == tool \in tools

-----------------------------------------------------------------------------
(* Building blocks of the control service *)

LifecycleOf(w) == IF process[w] = "exited" THEN "done" ELSE "working"

\* staleTerminal or observedExit
Stale(w) == w \in Known /\ (process[w] = "exited") # (subjects[w].lifecycle \in Terminal)

ReconcileSessionLifecycle(w) ==
    IF Stale(w) THEN ReconcileLifecycle(w, LifecycleOf(w)) ELSE UNCHANGED vars

\* captureTokens: the tokens of the outcomes that carry one.
CaptureTokens(c, ws) ==
    /\ custody' = [custody EXCEPT ![c] =
          [w \in Workers |-> IF w \in ws THEN minted'[w] ELSE @[w]]]
    /\ issued' = issued \cup (granted' \ granted)

Forget(c, w) ==
    /\ custody' = [custody EXCEPT ![c][w] = NoToken]
    /\ UNCHANGED issued

Credential1(w, token) == [tokens |-> [s \in {w} |-> token], version |-> AnyVersion]

\* leaseIsLive, against the clock read when the plan was begun
LeaseIsLive(w, at) == IsControlled(ExpiredCopy(subjects[w])) /\ at < ExpiredCopy(subjects[w]).expiresAt

Ends == call' = Idle

-----------------------------------------------------------------------------
(* lease: acquire and adopt one worker (takeSingle) *)

\* A worker without a lease subject is registered before it is taken, unless it
\* has exited: a dead unregistered worker is left out.
TakeSingle(verb, c, w) ==
    /\ call = Idle /\ Uses(verb) /\ verb \in {"acquire", "adopt"}
    /\ Call
    /\ w \in Known \/ process[w] = "live"
    /\ ReconcileSessionLifecycle(w)
    /\ call' = Calling(IF w \in Known THEN verb ELSE "register", verb, c, {w})
    /\ UNCHANGED <<custodyVars, registryVars, handing, historyVars>>

\* registerFromSession: only the worker's creator is granted the lease.
RegisterFromSession(w) ==
    /\ call.stage = "register" /\ call.worker = {w} /\ process[w] = "live"
    /\ LET owner == IF CreatorOf[w] = call.by THEN call.by ELSE NoController IN
       /\ RegisterSubject(Fresh, w, owner)
       /\ CaptureTokens(call.by, IF owner # NoController /\ w \notin Known THEN {w} ELSE {})
    /\ call' = [call EXCEPT !.stage = call.verb]
    /\ UNCHANGED <<registryVars, handing, historyVars, bounds>>

\* No such worker session any more.
RegisterRefused ==
    /\ call.stage = "register" /\ \A w \in call.worker : process[w] # "live"
    /\ Ends
    /\ UNCHANGED <<vars, custodyVars, registryVars, handing, historyVars, bounds>>

TakeAcquire(w) ==
    /\ call.stage = "acquire" /\ call.worker = {w}
    /\ LET out == [s \in {w} |-> AcquireOutcome(s, call.by)] IN
       /\ Acquire(Fresh, {w}, call.by)
       /\ CaptureTokens(call.by, Grants(out))
    /\ Ends
    /\ UNCHANGED <<registryVars, handing, historyVars, bounds>>

TakeAdopt(w) ==
    /\ call.stage = "adopt" /\ call.worker = {w}
    /\ LET out == [s \in {w} |-> AdoptOutcome(s, call.by)] IN
       /\ Adopt(Fresh, {w}, call.by)
       /\ CaptureTokens(call.by, Grants(out))
    /\ Ends
    /\ UNCHANGED <<registryVars, handing, historyVars, bounds>>

-----------------------------------------------------------------------------
(* lease: adopt a wave (take, planFor and adoptBatch) *)

BeginSurvey(c) ==
    /\ call = Idle /\ Uses("recover") /\ Known # {}
    /\ Call
    /\ call' = [Calling("survey", "recover", c, Known \cap Workers) EXCEPT !.at = now]
    /\ UNCHANGED <<vars, custodyVars, registryVars, handing, historyVars>>

\* One subject of the loop of planFor: it is reconciled, and planned unless it is
\* terminal or somebody holds a live lease.
Survey(w) ==
    /\ call.stage = "survey" /\ w \in call.worker
    /\ ReconcileSessionLifecycle(w)
    /\ LET eligible == /\ subjects'[w].lifecycle \notin Terminal
                       /\ ~LeaseIsLive(w, call.at)
           via == IF ExpiredCopy(subjects[w]).state = "released" THEN "acquire" ELSE "adopt"
       IN call' = [call EXCEPT
             !.worker = @ \ {w},
             !.plan = IF eligible THEN [x \in DOMAIN @ \cup {w} |-> IF x = w THEN via ELSE @[x]]
                                  ELSE @]
    /\ UNCHANGED <<custodyVars, registryVars, handing, historyVars, bounds>>

\* The plan is adopted whole or not at all.
AdoptPlan ==
    /\ call.stage = "survey" /\ call.worker = {}
    /\ IF call.plan = <<>> THEN UNCHANGED <<vars, custodyVars>>
       ELSE LET committed == \A s \in DOMAIN call.plan : BatchEligible(s, call.plan[s]) IN
            /\ AdoptBatch(Fresh, call.plan, call.by)
            /\ CaptureTokens(call.by, IF committed THEN DOMAIN call.plan ELSE {})
    /\ Ends
    /\ UNCHANGED <<registryVars, handing, historyVars, bounds>>

-----------------------------------------------------------------------------
(* lease: renew, release and transfer what the caller holds (authenticatedLease) *)

Held(c) == {w \in Known \cap Workers : subjects[w].controller = c /\ custody[c][w] # NoToken}

\* The tokens of every target are read before the first mutation.
BeginAuthenticated(verb, c) ==
    /\ call = Idle /\ Uses(verb) /\ verb \in {"renew", "release", "transfer"}
    /\ Held(c) # {}
    /\ Call
    /\ call' = [Calling(verb, verb, c, Held(c)) EXCEPT !.tokens = custody[c]]
    /\ UNCHANGED <<vars, custodyVars, registryVars, handing, historyVars>>

NextTarget(w) == IF call.worker = {w} THEN Idle ELSE [call EXCEPT !.worker = @ \ {w}]

RenewHeld(w) ==
    /\ call.stage = "renew" /\ w \in call.worker
    /\ Renew(Fresh, {w}, call.by, Credential1(w, call.tokens[w]))
    /\ call' = NextTarget(w)
    /\ UNCHANGED <<custodyVars, registryVars, handing, historyVars, bounds>>

\* The credential is dropped whatever the outcome was.
ReleaseHeld(w) ==
    /\ call.stage = "release" /\ w \in call.worker
    /\ Release(Fresh, {w}, call.by, Credential1(w, call.tokens[w]))
    /\ Forget(call.by, w)
    /\ call' = NextTarget(w)
    /\ UNCHANGED <<registryVars, handing, historyVars, bounds>>

\* credentials.delete, then captureTokens for the new controller.
TransferHeld(w, d) ==
    /\ call.stage = "transfer" /\ w \in call.worker
    /\ Transfer(Fresh, {w}, call.by, Credential1(w, call.tokens[w]), d)
    /\ LET moved == minted'[w] # minted[w] IN
       /\ custody' = [custody EXCEPT ![call.by][w] = NoToken,
                                     ![d][w] = IF moved THEN minted'[w]
                                               ELSE IF d = call.by THEN NoToken ELSE @]
       /\ issued' = issued \cup (granted' \ granted)
    /\ call' = NextTarget(w)
    /\ UNCHANGED <<registryVars, handing, historyVars, bounds>>

-----------------------------------------------------------------------------
(* control: stop, redirect, answer_modal and request_checkpoint *)

Commands == {"stop", "force", "redirect", "answer", "checkpoint"}

\* The subject is reconciled and the token is read; without one the call is over.
BeginControl(verb, c, w, asked) ==
    /\ call = Idle /\ Uses(verb) /\ verb \in Commands
    /\ w \in Known
    /\ asked # NoDialog <=> verb = "answer"
    /\ Call
    /\ ReconcileSessionLifecycle(w)
    /\ call' = IF custody[c][w] = NoToken THEN Idle
               ELSE [Calling("authorize", verb, c, {w}) EXCEPT
                        !.tokens = custody[c], !.shown = asked,
                        !.dead = subjects'[w].lifecycle \in Terminal]
    /\ UNCHANGED <<custodyVars, registryVars, handing, historyVars>>

Authorizes(w) ==
    AuthCode(ExpiredCopy(subjects[w]), call.by, call.tokens[w], AnyVersion) = "OK"

\* authorize: the renewal of every command.  A refused one drops the credential.
Authorize(w) ==
    /\ call.stage = "authorize" /\ call.worker = {w}
    /\ Renew(Fresh, {w}, call.by, Credential1(w, call.tokens[w]))
    /\ UNCHANGED <<handing, bounds>>

AuthorityLost(w) ==
    /\ Authorize(w) /\ ~Authorizes(w)
    /\ Forget(call.by, w)
    /\ Ends
    /\ UNCHANGED <<registryVars, historyVars>>

\* stopWorker in graceful mode; registry.stop of a worker whose stop is pending
\* does nothing.  A worker that has exited is only marked.
StopWorker(w) ==
    /\ call.verb = "stop" /\ Authorize(w) /\ Authorizes(w)
    /\ stopAt' = IF process[w] = "live" /\ stopAt[w] = Never
                 THEN [stopAt EXCEPT ![w] = now] ELSE stopAt
    /\ call' = IF process[w] = "exited" THEN [call EXCEPT !.stage = "mark"] ELSE Idle
    /\ UNCHANGED <<custodyVars, process, dialog, updates, historyVars>>

\* isStopRequested, and pending for forceStopGraceMs
MayForce(w) == process[w] = "live" /\ stopAt[w] # Never /\ now - stopAt[w] >= ForceStopGrace

\* stopWorker in force mode: the kill itself is observed later, as an exit.
ForceStop(w) ==
    /\ call.verb = "force" /\ Authorize(w) /\ Authorizes(w)
    /\ kills' = IF MayForce(w) THEN kills \cup {[asked |-> stopAt[w], at |-> now]} ELSE kills
    /\ call' = IF process[w] = "exited" THEN [call EXCEPT !.stage = "mark"] ELSE Idle
    /\ UNCHANGED <<custodyVars, registryVars, presses>>

\* markStopped: the token is the one that was just renewed.
MarkStopped(w) ==
    /\ call.stage = "mark" /\ call.worker = {w}
    /\ UpdateLifecycle(Fresh, w, call.by, Credential1(w, call.tokens[w]), "done")
    /\ Ends
    /\ UNCHANGED <<custodyVars, registryVars, handing, historyVars, bounds>>

\* redirectWorker and requestCheckpoint put an instruction in the worker's queue
\* (InstructionQueue) and a checkpoint in its stream (WorkerEventStream).
Instruct(w) ==
    /\ call.verb \in {"redirect", "checkpoint"} /\ Authorize(w) /\ Authorizes(w)
    /\ Ends
    /\ UNCHANGED <<custodyVars, registryVars, historyVars>>

\* answerModal up to the policy: the dialog must be known and the one asked about.
JudgeDialog(w) ==
    /\ call.verb = "answer" /\ Authorize(w) /\ Authorizes(w)
    /\ call' = IF /\ ~call.dead
                  /\ dialog[w] \in Answerable
                  /\ dialog[w] = call.shown
               THEN [call EXCEPT !.stage = "policy"] ELSE Idle
    /\ UNCHANGED <<custodyVars, registryVars, historyVars>>

PolicyDenies ==
    /\ call.stage = "policy" /\ call.shown \notin Allowed
    /\ Ends
    /\ UNCHANGED <<vars, custodyVars, registryVars, handing, historyVars, bounds>>

\* Mutant: the press trusts the dialog that was read before the policy.
PressesAnything(w) == process[w] = "live" /\ stopAt[w] = Never /\ dialog[w] \in Answerable

\* The engine derives the fingerprint of what is on the screen once more.
Presses(w) == process[w] = "live" /\ stopAt[w] = Never /\ dialog[w] = call.shown

\* registry.answerModal
Press(w) ==
    /\ call.stage = "policy" /\ call.worker = {w} /\ call.shown \in Allowed
    /\ IF Presses(w)
       THEN /\ presses' = presses \cup {[asked |-> call.shown, shown |-> dialog[w]]}
            /\ dialog' = [dialog EXCEPT ![w] = NoDialog]
       ELSE UNCHANGED <<presses, dialog>>
    /\ Ends
    /\ UNCHANGED <<vars, custodyVars, process, stopAt, updates, handing, kills, bounds>>

-----------------------------------------------------------------------------
(* The operator's handoff (WorkerHandoffService) *)

\* handoff: the recipient is live when the call starts.
BeginHandoff(d, members) ==
    /\ handing = Idle /\ Uses("handoff") /\ members # {}
    /\ liveness[d].state = "connected"
    /\ Call
    /\ handing' = Calling("members", "handoff", d, members)
    /\ UNCHANGED <<vars, custodyVars, registryVars, call, historyVars>>

Refused == {w \in handing.worker : process[w] = "exited"}

\* transfer: a member whose exit the registry has seen is reconciled and the
\* whole handoff is refused; otherwise the batch is built.
CheckMembers ==
    /\ handing.stage = "members"
    /\ handing' = IF Refused = {} THEN [handing EXCEPT !.stage = "batch"]
                  ELSE [handing EXCEPT !.stage = "refused", !.worker = Refused \cap Known]
    /\ UNCHANGED <<vars, custodyVars, registryVars, call, historyVars, bounds>>

\* reconcileLifecycle of a refused member, from the record read before the await.
RefuseMember(w) ==
    /\ handing.stage = "refused" /\ w \in handing.worker
    /\ IF subjects[w].lifecycle \in Terminal THEN UNCHANGED vars
       ELSE ReconcileLifecycle(w, "done")
    /\ handing' = [handing EXCEPT !.worker = @ \ {w}]
    /\ UNCHANGED <<custodyVars, registryVars, call, historyVars, bounds>>

HandoffRefused ==
    /\ handing.stage = "refused" /\ handing.worker = {}
    /\ handing' = Idle
    /\ UNCHANGED <<vars, custodyVars, registryVars, call, historyVars, bounds>>

\* handoffBatch asks the registry again inside the transaction (observeLifecycle);
\* the recipient's fenced tokens go into custody.
CommitHandoff ==
    /\ handing.stage = "batch"
    /\ HandoffBatch(Fresh, handing.worker, handing.by, Refused)
    /\ CaptureTokens(handing.by, IF handoffs' # handoffs THEN handing.worker ELSE {})
    /\ handing' = Idle
    /\ UNCHANGED <<registryVars, call, historyVars, bounds>>

\* events: the recipient acknowledges the handoffs of an earlier page.
AcknowledgeEvents(c) ==
    /\ AcknowledgeHandoffs(c, {h.id : h \in {x \in handoffs : x.recipient = c}})
    /\ UNCHANGED <<custodyVars, registryVars, serviceVars, historyVars, bounds>>

-----------------------------------------------------------------------------
(* Sessions, the clock and the broker *)

WorkerExits(w) ==
    /\ process[w] = "live"
    /\ Move
    /\ process' = [process EXCEPT ![w] = "exited"]
    /\ dialog' = [dialog EXCEPT ![w] = NoDialog]
    /\ updates' = updates \cup {w}
    /\ UNCHANGED <<vars, custodyVars, stopAt, serviceVars, historyVars>>

WorkerResumes(w) ==
    /\ process[w] # "live"
    /\ Move
    /\ process' = [process EXCEPT ![w] = "live"]
    /\ stopAt' = [stopAt EXCEPT ![w] = Never]
    /\ updates' = updates \cup {w}
    /\ UNCHANGED <<vars, custodyVars, dialog, serviceVars, historyVars>>

DialogChanges(w, d) ==
    /\ Uses("answer") /\ process[w] = "live" /\ dialog[w] # d
    /\ Move
    /\ dialog' = [dialog EXCEPT ![w] = d]
    /\ UNCHANGED <<vars, custodyVars, process, stopAt, updates, serviceVars, historyVars>>

\* onSessionUpdate queues behind the call in progress.
SessionUpdate(w) ==
    /\ call = Idle /\ w \in updates
    /\ ReconcileSessionLifecycle(w)
    /\ updates' = updates \ {w}
    /\ UNCHANGED <<custodyVars, process, stopAt, dialog, serviceVars, historyVars, bounds>>

\* OrchestratorSessionLiveness: the exit or the resumption of the session bound to
\* a controller is observed.
OrchestratorSeen(c, state) ==
    /\ Uses("liveness")
    /\ c \in Sessions
    /\ Move
    /\ liveness[c].state # state \/ ~liveness[c].session
    /\ ObserveControllerLiveness(Fresh, c, state)
    /\ UNCHANGED <<custodyVars, registryVars, serviceVars, historyVars>>

Time ==
    /\ Tick
    /\ UNCHANGED <<custodyVars, registryVars, serviceVars, historyVars, bounds>>

Sweep ==
    /\ \E s \in Known : LeaseHasExpired(subjects[s], ControllerLiveness(subjects[s]))
    /\ ExpireLeases(Fresh)
    /\ UNCHANGED <<custodyVars, registryVars, serviceVars, historyVars, bounds>>

\* Restart intentionally loses every token.
CustodyLost == [c \in Controllers |-> [w \in Workers |-> NoToken]]

\* The lease subjects come back from the journal; the worker processes are gone,
\* and a cancelled one has no exit code.
Restart ==
    /\ Uses("restart")
    /\ Move
    /\ custody' = CustodyLost
    /\ issued' = {}
    /\ process' = [w \in Workers |-> IF process[w] # "live" THEN process[w]
                                      ELSE IF stopAt[w] # Never THEN "lost" ELSE "exited"]
    /\ stopAt' = [w \in Workers |-> Never]
    /\ dialog' = [w \in Workers |-> NoDialog]
    /\ updates' = {}
    /\ call' = Idle /\ handing' = Idle
    /\ UNCHANGED <<vars, historyVars>>

-----------------------------------------------------------------------------
ControlInit ==
    /\ Init
    /\ custody = [c \in Controllers |-> [w \in Workers |-> NoToken]]
    /\ issued = {}
    /\ process = [w \in Workers |-> "live"]
    /\ stopAt = [w \in Workers |-> Never]
    /\ dialog = [w \in Workers |-> NoDialog]
    /\ updates = {}
    /\ call = Idle /\ handing = Idle
    /\ presses = {} /\ kills = {}
    /\ tools \in Setups
    /\ calls = 0 /\ moves = 0

LeaseTool ==
    \/ \E c \in Controllers, w \in Workers, verb \in {"acquire", "adopt"} : TakeSingle(verb, c, w)
    \/ \E w \in Workers : RegisterFromSession(w)
    \/ RegisterRefused
    \/ \E w \in Workers : TakeAcquire(w)
    \/ \E w \in Workers : TakeAdopt(w)
    \/ \E c \in Controllers : BeginSurvey(c)
    \/ \E w \in Workers : Survey(w)
    \/ AdoptPlan
    \/ \E c \in Controllers, verb \in {"renew", "release", "transfer"} : BeginAuthenticated(verb, c)
    \/ \E w \in Workers : RenewHeld(w)
    \/ \E w \in Workers : ReleaseHeld(w)
    \/ \E w \in Workers, d \in Controllers : TransferHeld(w, d)

ControlTool ==
    \/ \E c \in Controllers, w \in Workers, verb \in Commands, d \in Dialogs \cup {NoDialog} :
          BeginControl(verb, c, w, d)
    \/ \E w \in Workers : AuthorityLost(w)
    \/ \E w \in Workers : StopWorker(w)
    \/ \E w \in Workers : ForceStop(w)
    \/ \E w \in Workers : MarkStopped(w)
    \/ \E w \in Workers : Instruct(w)
    \/ \E w \in Workers : JudgeDialog(w)
    \/ PolicyDenies
    \/ \E w \in Workers : Press(w)

Operator ==
    \/ \E d \in Controllers, members \in SUBSET Workers : BeginHandoff(d, members)
    \/ CheckMembers
    \/ \E w \in Workers : RefuseMember(w)
    \/ HandoffRefused
    \/ CommitHandoff

Environment ==
    \/ \E w \in Workers : WorkerExits(w)
    \/ \E w \in Workers : WorkerResumes(w)
    \/ \E w \in Workers, d \in Dialogs : DialogChanges(w, d)
    \/ \E w \in Workers : SessionUpdate(w)
    \/ \E c \in Controllers, state \in {"connected", "disconnected"} : OrchestratorSeen(c, state)
    \/ Time
    \/ Sweep
    \/ Restart
    \/ \E c \in Controllers : AcknowledgeEvents(c)

ControlNext == LeaseTool \/ ControlTool \/ Operator \/ Environment

ControlSpec == ControlInit /\ [][ControlNext]_controlVars

-----------------------------------------------------------------------------
(* Properties *)

\* A press lands on the very dialog the orchestrator asked about and the policy
\* judged, however the screen changed while the policy was being evaluated.
PressedAsJudged ==
    \A p \in presses : p.shown = p.asked /\ p.shown \in Allowed \cap Answerable

=============================================================================
