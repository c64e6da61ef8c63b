---------------------------- MODULE WorkerLease ----------------------------
(***************************************************************************)
(* The lease half of the broker's WorkerCoordinationService                *)
(* (src/broker/worker-coordination.ts, src/broker/worker-lease-liveness.ts)*)
(*                                                                         *)
(* Every mutation of the service runs inside `exclusive`, appends one line *)
(* to the coordination journal and only then changes the maps, so each     *)
(* operation is one atomic action here.  A mutation whose id already has a *)
(* receipt answers from the receipt and changes nothing: the guard         *)
(* NotReplayed.  `Fresh` stands for an id no caller ever sends again.      *)
(*                                                                         *)
(* A token is the number of tokens issued for the subject when it was      *)
(* minted; comparing SHA-256 hashes is comparing tokens.                   *)
(***************************************************************************)
EXTENDS Integers, FiniteSets

CONSTANTS
    SubjectIds,      \* ids of workers and orchestrators
    Workers,         \* the subjects whose subjectKind is "worker"
    TaskOf,          \* origin.taskId of each subject (immutable)
    Controllers,     \* controller identities
    Sessions,        \* the controllers the broker runs as sessions of its own
    NoController,    \* lease.controller === undefined
    MutationIds,     \* mutation ids callers may retry
    Fresh,           \* a mutation id that is never sent again
    LeaseDuration,   \* leaseDurationMs
    GracePeriod,     \* gracePeriodMs
    MaxNow,          \* bound: the clock stops here
    MaxVersion,      \* bound: lease versions per subject
    MaxHandoffs      \* bound: handoff records

ASSUME LeaseConstants ==
    /\ Workers \subseteq SubjectIds
    /\ Sessions \subseteq Controllers
    /\ NoController \notin Controllers
    /\ Fresh \notin MutationIds
    /\ LeaseDuration \in Nat /\ GracePeriod \in Nat
    /\ MaxNow \in Nat /\ MaxVersion \in Nat /\ MaxHandoffs \in Nat

VARIABLES
    now,        \* the broker's clock
    subjects,   \* the subjects map, "absent" for an id that is not in it
    liveness,   \* the controller liveness map
    receipts,   \* the mutation ids that have a receipt
    handoffs,   \* the handoff records
    minted,     \* tokens issued so far for each subject
    granted     \* history: every credential a mutation ever returned

vars == <<now, subjects, liveness, receipts, handoffs, minted, granted>>

NoToken == 0
AnyVersion == 0                        \* leaseVersion === undefined
Terminal == {"done"}                   \* TERMINAL_WORKER_LIFECYCLES
Lifecycles == {"working"} \cup Terminal
LeaseStates == {"absent", "active", "contested", "released", "orphaned"}

Subject == [lifecycle  : Lifecycles,
            state      : LeaseStates,
            version    : Nat,
            controller : Controllers \cup {NoController},
            token      : Nat,
            expiresAt  : Nat]

\* observedAt is only read of a disconnected observation, and an absent one is
\* treated like a connected one that no session vouches for.
Observation == [state   : {"connected", "disconnected"},
                at      : Nat,
                session : BOOLEAN]

Credential == [subject    : SubjectIds,
               controller : Controllers,
               version    : Nat,
               token      : Nat,
               mutation   : MutationIds \cup {Fresh},
               handoff    : Nat]

Handoff == [id        : Nat,
            recipient : Controllers,
            manifest  : SUBSET SubjectIds,
            state     : {"pending", "acknowledged"}]

Absent == [lifecycle |-> "working", state |-> "absent", version |-> 0,
           controller |-> NoController, token |-> NoToken, expiresAt |-> 0]
Unvouched == [state |-> "connected", at |-> 0, session |-> FALSE]

Known == {s \in SubjectIds : subjects[s].state # "absent"}

-----------------------------------------------------------------------------
(* worker-lease-liveness.ts *)

IsControlled(sub) ==
    sub.state \in {"active", "contested"} /\ sub.controller # NoController

ControllerLiveness(sub) ==
    IF sub.controller = NoController THEN Unvouched ELSE liveness[sub.controller]

PastGrace(obs) == obs.state = "disconnected" /\ now >= obs.at + GracePeriod

LeaseHasExpired(sub, obs) ==
    /\ IsControlled(sub)
    /\ \/ PastGrace(obs)
       \/ ~obs.session /\ now >= sub.expiresAt

\* Only a broker session observation vouches for a quiet owner: it replaces the
\* stored deadline by a moving horizon, or by the end of grace once it is dead.
VouchedCopy(sub, obs) ==
    IF IsControlled(sub) /\ obs.session
    THEN [sub EXCEPT !.expiresAt = IF obs.state = "connected"
                                   THEN now + LeaseDuration
                                   ELSE obs.at + GracePeriod]
    ELSE sub

ObservedLeaseCopy(sub, obs) ==
    IF LeaseHasExpired(sub, obs)
    THEN [VouchedCopy(sub, obs) EXCEPT !.state = "orphaned", !.token = NoToken]
    ELSE VouchedCopy(sub, obs)

ExpiredCopy(sub) == ObservedLeaseCopy(sub, ControllerLiveness(sub))

\* A client call cannot override a broker-owned session's death or its deadline.
HeartbeatObservation(obs) ==
    IF obs.session THEN obs ELSE Unvouched

-----------------------------------------------------------------------------
(* Building blocks of the service *)

AuthCode(sub, c, token, version) ==
    IF LeaseHasExpired(sub, ControllerLiveness(sub)) \/ sub.state = "orphaned"
    THEN "LEASE_EXPIRED"
    ELSE IF \/ ~IsControlled(sub) \/ sub.controller # c
            \/ version # AnyVersion /\ sub.version # version
    THEN "OWNERSHIP_LOST"
    ELSE IF sub.token = NoToken \/ sub.token # token
    THEN "LEASE_TOKEN_INVALID"
    ELSE "OK"

Renewed(sub) == [sub EXCEPT !.state = "active", !.expiresAt = now + LeaseDuration]

Released(sub) == [sub EXCEPT !.state = "released", !.token = NoToken]

\* Mutant: a contest takes the holder's token away.
ContestedRevoking(sub) == [sub EXCEPT !.state = "contested", !.token = NoToken]

Contested(sub) == [sub EXCEPT !.state = "contested"]

\* Mutant: a controlled lease changes hands without a new token.
WithNewControllerSameToken(s, sub, c) ==
    [sub EXCEPT !.version = @ + 1, !.state = "active", !.controller = c,
                !.token = IF @ = NoToken THEN minted[s] + 1 ELSE @,
                !.expiresAt = now + LeaseDuration]

WithNewController(s, sub, c) ==
    [lifecycle |-> sub.lifecycle, state |-> "active", version |-> sub.version + 1,
     controller |-> c, token |-> minted[s] + 1, expiresAt |-> now + LeaseDuration]

\* A subject nobody holds: unownedSubject, and registration without a controller.
UnownedSubject ==
    [lifecycle |-> "working", state |-> "orphaned", version |-> 1,
     controller |-> NoController, token |-> NoToken, expiresAt |-> now]

Outcome(sub, code) == [subject |-> sub, code |-> code]

\* The outcomes that carry a leaseToken.
Grants(out) ==
    {s \in DOMAIN out : out[s].code \in {"ACQUIRED", "REACQUIRED", "TRANSFERRED"}}

\* Mutant: the receipt is not consulted.
NotReplayedIgnored(m) == TRUE

NotReplayed(m) == m \notin receipts

Receipt(m) == receipts' = receipts \cup ({m} \ {Fresh})

\* persistReceipt and commit: one transaction holds the changed subjects, the
\* heartbeat of `beat` (NoController: none) and the receipt.
Commit(m, out, beat, handoff) ==
    /\ \A s \in Grants(out) : out[s].subject.version <= MaxVersion
    /\ subjects' = [s \in SubjectIds |-> IF s \in DOMAIN out THEN out[s].subject
                                                           ELSE subjects[s]]
    /\ minted' = [s \in SubjectIds |-> IF s \in Grants(out) THEN minted[s] + 1
                                                          ELSE minted[s]]
    /\ granted' = granted \cup
          {[subject |-> s, controller |-> out[s].subject.controller,
            version |-> out[s].subject.version, token |-> out[s].subject.token,
            mutation |-> m, handoff |-> handoff] : s \in Grants(out)}
    /\ liveness' = IF beat = NoController THEN liveness
                   ELSE [liveness EXCEPT ![beat] = HeartbeatObservation(@)]
    /\ Receipt(m)
    /\ UNCHANGED now

\* select: one subject, the subjects of a task, or what an inactive controller left.
LeftBy(c) ==
    {s \in Known :
        /\ subjects[s].controller = c
        /\ \/ PastGrace(liveness[c])
           \/ subjects[s].state = "orphaned" /\ now >= subjects[s].expiresAt}

Selections ==
    {{s} : s \in Known}
      \cup {{s \in Known : TaskOf[s] = TaskOf[t]} : t \in SubjectIds}
      \cup {LeftBy(c) : c \in Controllers}

-----------------------------------------------------------------------------
Init ==
    /\ now = 0
    /\ subjects = [s \in SubjectIds |-> Absent]
    /\ liveness = [c \in Controllers |-> Unvouched]
    /\ receipts = {}
    /\ handoffs = {}
    /\ minted = [s \in SubjectIds |-> 0]
    /\ granted = {}

\* A subject that exists keeps its lease; a new one is active under its
\* controller or, without one, born orphaned.
Registered(s, c) ==
    IF s \in Known
    THEN Outcome(subjects[s], "NOT_ELIGIBLE")
    ELSE IF c = NoController
    THEN Outcome(UnownedSubject, "ORPHANED")
    ELSE Outcome([lifecycle |-> "working", state |-> "active", version |-> 1,
                  controller |-> c, token |-> minted[s] + 1,
                  expiresAt |-> now + LeaseDuration], "ACQUIRED")

RegisterSubject(m, s, c) ==
    /\ NotReplayed(m)
    /\ Commit(m, [x \in {s} |-> Registered(x, c)],
              IF s \in Known THEN NoController ELSE c, 0)
    /\ UNCHANGED handoffs

AcquireOutcome(s, c) ==
    LET sub == ExpiredCopy(subjects[s]) IN
    CASE sub.lifecycle \in Terminal -> Outcome(sub, "WORKER_TERMINAL")
      [] sub.lifecycle \notin Terminal /\ IsControlled(sub) /\ sub.controller = c
            -> Outcome(WithNewController(s, sub, c), "REACQUIRED")
      [] sub.lifecycle \notin Terminal /\ IsControlled(sub) /\ sub.controller # c
            -> Outcome(Contested(sub), "LEASE_CONFLICT")
      [] sub.lifecycle \notin Terminal /\ sub.state = "orphaned"
            -> Outcome(sub, "NOT_ELIGIBLE")
      [] OTHER -> Outcome(WithNewController(s, sub, c), "ACQUIRED")

AdoptOutcome(s, c) ==
    LET sub == ExpiredCopy(subjects[s]) IN
    CASE sub.lifecycle \in Terminal -> Outcome(sub, "WORKER_TERMINAL")
      [] sub.lifecycle \notin Terminal /\ IsControlled(sub)
            -> Outcome(Contested(sub), "LEASE_CONFLICT")
      [] sub.lifecycle \notin Terminal /\ ~IsControlled(sub) /\ sub.state # "orphaned"
            -> Outcome(sub, "NOT_ELIGIBLE")
      [] OTHER -> Outcome(WithNewController(s, sub, c), "ACQUIRED")

\* ownershipMutation: one success in the selection is a heartbeat of the caller.
OwnershipMutation(m, out, c) ==
    /\ NotReplayed(m)
    /\ Commit(m, out, IF Grants(out) = {} THEN NoController ELSE c, 0)
    /\ UNCHANGED handoffs

Acquire(m, sel, c) ==
    OwnershipMutation(m, [s \in sel |-> AcquireOutcome(s, c)], c)

Adopt(m, sel, c) ==
    OwnershipMutation(m, [s \in sel |-> AdoptOutcome(s, c)], c)

\* authenticatedOwnershipMutation: `cred` holds one token per subject and the
\* optional lease version; a refused subject is still persisted as it was seen.
AuthenticatedMutation(m, sel, c, cred, accepted) ==
    LET seen(s) == ExpiredCopy(subjects[s])
        code(s) == AuthCode(seen(s), c, cred.tokens[s], cred.version)
        out == [s \in sel |-> IF code(s) = "OK" THEN accepted[s]
                              ELSE Outcome(seen(s), code(s))]
    IN /\ NotReplayed(m)
       /\ Commit(m, out,
                 IF \E s \in sel : code(s) = "OK" THEN c ELSE NoController, 0)
       /\ UNCHANGED handoffs

Renew(m, sel, c, cred) ==
    AuthenticatedMutation(m, sel, c, cred,
        [s \in sel |-> Outcome(Renewed(ExpiredCopy(subjects[s])), "ALREADY_CONTROLLED")])

Release(m, sel, c, cred) ==
    AuthenticatedMutation(m, sel, c, cred,
        [s \in sel |-> Outcome(Released(ExpiredCopy(subjects[s])), "RELEASED")])

Transfer(m, sel, c, cred, d) ==
    AuthenticatedMutation(m, sel, c, cred,
        [s \in sel |-> Outcome(WithNewController(s, ExpiredCopy(subjects[s]), d),
                               "TRANSFERRED")])

UpdateLifecycle(m, s, c, cred, lifecycle) ==
    AuthenticatedMutation(m, {s}, c, cred,
        [x \in {s} |-> Outcome([ExpiredCopy(subjects[x]) EXCEPT !.lifecycle = lifecycle],
                               "ALREADY_CONTROLLED")])

\* modes[s] is "adopt" (what nobody holds) or "acquire" (what was released).
BatchEligible(s, mode) ==
    LET sub == ExpiredCopy(subjects[s]) IN
    /\ sub.lifecycle \notin Terminal
    /\ ~IsControlled(sub)
    /\ sub.state = (IF mode = "adopt" THEN "orphaned" ELSE "released")

AdoptBatch(m, modes, c) ==
    LET members == DOMAIN modes
        eligible == \A s \in members : BatchEligible(s, modes[s])
        out == [s \in IF eligible THEN members ELSE {} |->
                   Outcome(WithNewController(s, ExpiredCopy(subjects[s]), c), "ACQUIRED")]
    IN /\ members \subseteq Known
       /\ NotReplayed(m)
       /\ Commit(m, out, IF eligible /\ members # {} THEN c ELSE NoController, 0)
       /\ UNCHANGED handoffs

\* The operator's directed handoff: no token is asked for.  A member without a
\* lease record is registered unowned first; `ended` holds the members the
\* session registry already sees as terminal.
HandoffCandidate(s) ==
    IF s \in Known THEN ExpiredCopy(subjects[s])
    ELSE UnownedSubject

\* Mutant: ineligible members are skipped instead of aborting the batch.
HandoffBatchPartial(m, members, c, ended) ==
    LET moved == {s \in members : /\ s \in Workers \ ended
                                  /\ HandoffCandidate(s).lifecycle \notin Terminal}
        id == Cardinality(handoffs) + 1
        out == [s \in moved |->
                   Outcome(WithNewController(s, HandoffCandidate(s), c), "TRANSFERRED")]
    IN /\ NotReplayed(m)
       /\ id <= MaxHandoffs
       /\ Commit(m, out, c, id)
       /\ handoffs' = handoffs \cup {[id |-> id, recipient |-> c,
                                       manifest |-> members, state |-> "pending"]}

HandoffBatch(m, members, c, ended) ==
    LET eligible == \A s \in members : /\ s \in Workers
                                       /\ HandoffCandidate(s).lifecycle \notin Terminal
                                       /\ s \notin ended
        id == Cardinality(handoffs) + 1
        out == [s \in IF eligible THEN members ELSE {} |->
                   Outcome(WithNewController(s, HandoffCandidate(s), c), "TRANSFERRED")]
    IN /\ NotReplayed(m)
       /\ id <= MaxHandoffs
       /\ Commit(m, out, IF eligible THEN c ELSE NoController, id)
       /\ handoffs' = IF eligible
                      THEN handoffs \cup {[id |-> id, recipient |-> c,
                                           manifest |-> members, state |-> "pending"]}
                      ELSE handoffs

\* Unknown and foreign ids fail the whole call, which is then no step.
AcknowledgeHandoffs(c, ids) ==
    /\ \A i \in ids : \E h \in handoffs : h.id = i /\ h.recipient = c
    /\ \E h \in handoffs : h.id \in ids /\ h.state = "pending"
    /\ handoffs' = {IF h.id \in ids THEN [h EXCEPT !.state = "acknowledged"] ELSE h :
                      h \in handoffs}
    /\ UNCHANGED <<now, subjects, liveness, receipts, minted, granted>>

\* Mutant: the outgoing observation is dropped unseen.
OutgoingUnseen(sub, c) == sub

\* The outgoing observation is evaluated before it is replaced, except when the
\* first session observation replaces one that no session vouched for.
Outgoing(sub, c) ==
    IF ~liveness[c].session THEN sub ELSE ExpiredCopy(sub)

ObserveControllerLiveness(m, c, state) ==
    /\ NotReplayed(m)
    /\ subjects' = [s \in SubjectIds |->
          IF subjects[s].controller = c /\ Outgoing(subjects[s], c).state = "orphaned"
          THEN Outgoing(subjects[s], c) ELSE subjects[s]]
    /\ liveness' = [liveness EXCEPT ![c] =
          [state |-> state, at |-> IF state = "connected" THEN 0 ELSE now, session |-> TRUE]]
    /\ Receipt(m)
    /\ UNCHANGED <<now, handoffs, minted, granted>>

\* Mutant: the sweep stops at the intermediate state "expired".
ExpireLeasesHalfway(m) ==
    /\ NotReplayed(m)
    /\ subjects' = [s \in SubjectIds |->
          IF LeaseHasExpired(subjects[s], ControllerLiveness(subjects[s]))
          THEN [subjects[s] EXCEPT !.state = "expired", !.token = NoToken]
          ELSE subjects[s]]
    /\ Receipt(m)
    /\ UNCHANGED <<now, liveness, handoffs, minted, granted>>

ExpireLeases(m) ==
    /\ NotReplayed(m)
    /\ subjects' = [s \in SubjectIds |->
          IF LeaseHasExpired(subjects[s], ControllerLiveness(subjects[s]))
          THEN [subjects[s] EXCEPT !.state = "orphaned", !.token = NoToken]
          ELSE subjects[s]]
    /\ Receipt(m)
    /\ UNCHANGED <<now, liveness, handoffs, minted, granted>>

\* The broker's own bookkeeping; it has no receipt and needs no lease.
ReconcileLifecycle(s, lifecycle) ==
    /\ s \in Known
    /\ subjects[s].lifecycle # lifecycle
    /\ subjects' = [subjects EXCEPT ![s].lifecycle = lifecycle]
    /\ UNCHANGED <<now, liveness, receipts, handoffs, minted, granted>>

Tick ==
    /\ now < MaxNow
    /\ now' = now + 1
    /\ UNCHANGED <<subjects, liveness, receipts, handoffs, minted, granted>>

\* What a caller can present: any token ever issued for the subject, or none, and
\* no lease version or the first one (current or stale).
Credentials(sel) ==
    [tokens : {t \in [sel -> 0..MaxVersion] : \A s \in sel : t[s] <= minted[s]},
     version : {AnyVersion, 1}]

\* The calls that carry a mutation id.
Mutation(m) ==
    \/ \E s \in SubjectIds, c \in Controllers \cup {NoController} : RegisterSubject(m, s, c)
    \/ \E sel \in Selections, c \in Controllers :
          \/ Acquire(m, sel, c)
          \/ Adopt(m, sel, c)
          \/ \E cred \in Credentials(sel) :
                \/ Renew(m, sel, c, cred)
                \/ Release(m, sel, c, cred)
                \/ \E d \in Controllers : Transfer(m, sel, c, cred, d)
    \/ \E s \in Known, c \in Controllers, l \in Lifecycles :
          \E cred \in Credentials({s}) : UpdateLifecycle(m, s, c, cred, l)
    \/ \E members \in SUBSET Known, c \in Controllers :
          \E modes \in [members -> {"adopt", "acquire"}] : AdoptBatch(m, modes, c)
    \/ \E members \in (SUBSET SubjectIds) \ {{}}, c \in Controllers :
          \E ended \in SUBSET members : HandoffBatch(m, members, c, ended)
    \/ \E c \in Sessions, state \in {"connected", "disconnected"} :
          ObserveControllerLiveness(m, c, state)
    \/ ExpireLeases(m)

Next ==
    \/ \E m \in MutationIds \cup {Fresh} : Mutation(m)
    \/ \E c \in Controllers, ids \in SUBSET (1..MaxHandoffs) : AcknowledgeHandoffs(c, ids)
    \/ \E s \in SubjectIds, l \in Lifecycles : ReconcileLifecycle(s, l)
    \/ Tick

Spec == Init /\ [][Next]_vars

-----------------------------------------------------------------------------
(* Properties *)

\* Every variable has its type.
TypeOK ==
    /\ now \in Nat
    /\ subjects \in [SubjectIds -> Subject]
    /\ liveness \in [Controllers -> Observation]
    /\ receipts \subseteq MutationIds
    /\ handoffs \subseteq Handoff
    /\ minted \in [SubjectIds -> Nat]
    /\ granted \subseteq Credential

\* The credential would be accepted by authCode at this instant.
Authenticates(g) ==
    AuthCode(ExpiredCopy(subjects[g.subject]), g.controller, g.token, AnyVersion) = "OK"

\* At most one of all the credentials ever returned for a subject is accepted:
\* whatever sequence of acquire, transfer, adopt, handoff and expiry happened, a
\* superseded holder fails authCode (withNewController's version and token fence).
SingleAuthority ==
    \A g, h \in granted :
        g.subject = h.subject /\ Authenticates(g) /\ Authenticates(h) => g = h

\* A retried mutation id answers from its receipt: no mutation ever issues two
\* credentials for one subject, and no lease version is issued twice.
GrantedOnce ==
    \A g, h \in granted :
        /\ g.subject = h.subject
        /\ g.version = h.version \/ (g.mutation = h.mutation /\ g.mutation # Fresh)
        => g = h

\* A handoff record and the credentials issued under it agree: every worker of
\* the manifest, and no other, was moved to the recipient (handoffBatch is never
\* partial, and never moves a worker without a record).
HandoffsWhole ==
    /\ \A h \in handoffs :
          h.manifest = {g.subject : g \in {x \in granted :
                            x.handoff = h.id /\ x.controller = h.recipient}}
    /\ \A g \in granted : g.handoff # 0 => \E h \in handoffs : h.id = g.handoff

\* A credential that is refused is never accepted again, although an expired
\* lease may not have been written down yet (the outgoing observation is judged
\* before it is replaced, and a heartbeat never overrides a session).  The one
\* exemption is the first session observation of a controller, which the code
\* lets vouch for a lease whose stored deadline has passed.
NoResurrection ==
    [][\A g \in granted :
          /\ ~Authenticates(g)
          /\ liveness[g.controller].session \/ ~liveness'[g.controller].session
          => ~Authenticates(g)']_vars

\* A holder loses its lease only to time, to its own re-acquire, to a release or
\* transfer presenting the holder's own token, or to the operator's handoff; a
\* contender's acquire or adopt and a wrong token never dispossess it.
DispossessedByRight ==
    [][\A g \in granted :
          Authenticates(g) /\ ~Authenticates(g)' =>
             \/ now' # now
             \/ handoffs' # handoffs
             \/ /\ subjects'[g.subject].controller = g.controller
                /\ subjects'[g.subject].version > g.version
             \/ \E m \in IF receipts' = receipts THEN {Fresh} ELSE receipts' \ receipts,
                  sel \in {x \in Selections : g.subject \in x} :
                   \E cred \in {x \in Credentials(sel) : x.tokens[g.subject] = g.token} :
                      IF subjects'[g.subject].state = "released"
                      THEN Release(m, sel, g.controller, cred)
                      ELSE Transfer(m, sel, g.controller, cred, subjects'[g.subject].controller)
      ]_vars
=============================================================================
