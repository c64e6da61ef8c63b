------------------------- MODULE WorkerLeaseProofs -------------------------
(***************************************************************************)
(* The credentials of WorkerLease, for any subjects, controllers, retried  *)
(* mutations and lease times.                                              *)
(*                                                                         *)
(* First the types and the two fences.  SingleAuthority and GrantedOnce    *)
(* are not inductive.  What makes them so is the bookkeeping of the fence: *)
(* no credential is ahead of the subject it was issued for (its token of   *)
(* `minted`, its version of the lease), tokens and versions identify       *)
(* credentials, and a credential issued under a retriable mutation has     *)
(* that mutation's receipt beside it.                                      *)
(*                                                                         *)
(* Then what the steps do to the credentials already issued: a handoff is  *)
(* whole (HandoffsWhole), a refused credential stays refused               *)
(* (NoResurrection), and a holder loses its lease only by right            *)
(* (DispossessedByRight).                                                  *)
(*                                                                         *)
(* Last, the control service, the custodian and the operator's handoff: a  *)
(* step of WorkerControl is a step of WorkerLease, so all of this holds    *)
(* while they run, and a dialog is only answered as it was judged.         *)
(***************************************************************************)
EXTENDS WorkerControl, FiniteSetTheorems, TLAPS

GrantCodes == {"ACQUIRED", "REACQUIRED", "TRANSFERRED"}

Fence ==
    /\ \A g \in granted : /\ g.token \in 1..minted[g.subject]
                          /\ g.version <= subjects[g.subject].version
                          /\ g.mutation # Fresh => g.mutation \in receipts
    /\ \A g, h \in granted :
          /\ g.subject = h.subject
          /\ \/ g.token = h.token
             \/ g.version = h.version
             \/ g.mutation = h.mutation /\ g.mutation # Fresh
          => g = h

AbsentIsBlank ==
    \A s \in SubjectIds : subjects[s].state = "absent" => subjects[s].version = 0

Inv == TypeOK /\ IsFiniteSet(handoffs) /\ AbsentIsBlank /\ Fence

\* What every mutation must give Commit for one subject: a well-formed subject
\* whose version does not go back and, when a token is issued, moves on.
GoodOutcome(s, o) ==
    /\ o.subject \in Subject
    /\ o.subject.state # "absent"
    /\ o.subject.version >= subjects[s].version
    /\ o.code \in GrantCodes => /\ o.subject.version > subjects[s].version
                                /\ o.subject.token = minted[s] + 1
                                /\ o.subject.controller \in Controllers

GoodOutcomes(out) ==
    /\ DOMAIN out \subseteq SubjectIds
    /\ \A s \in DOMAIN out : GoodOutcome(s, out[s])

\* The commit of good outcomes, whoever beats and whatever is handed off.
GoodCommit(m) ==
    /\ NotReplayed(m)
    /\ \E out : \E beat \in Controllers \cup {NoController}, id \in Nat :
          GoodOutcomes(out) /\ Commit(m, out, beat, id)
PlainGood(m) == GoodCommit(m) /\ handoffs' = handoffs

-----------------------------------------------------------------------------
\* A lease read through the liveness projection is still a subject and keeps its
\* version, lifecycle and controller (observedLeaseCopy is a pure read).
LEMMA ExpiredCopyType ==
    ASSUME TypeOK, NEW sub \in Subject
    PROVE  /\ ExpiredCopy(sub) \in Subject
           /\ ExpiredCopy(sub).state \in {sub.state, "orphaned"}
           /\ ExpiredCopy(sub).version = sub.version
           /\ ExpiredCopy(sub).controller = sub.controller
           /\ ExpiredCopy(sub).token \in {sub.token, NoToken}
  <1>1. ControllerLiveness(sub) \in Observation
    BY LeaseConstants DEF TypeOK, ControllerLiveness, Unvouched, Observation, Subject
  <1> DEFINE obs == ControllerLiveness(sub)
  <1>2. /\ now + LeaseDuration \in Nat
        /\ obs.at + GracePeriod \in Nat
    BY <1>1, LeaseConstants DEF TypeOK, Observation
  <1>3. /\ VouchedCopy(sub, obs) \in Subject
        /\ VouchedCopy(sub, obs).state = sub.state
        /\ VouchedCopy(sub, obs).version = sub.version
        /\ VouchedCopy(sub, obs).controller = sub.controller
        /\ VouchedCopy(sub, obs).token = sub.token
    BY <1>2 DEF VouchedCopy, Subject
  <1> QED
    BY <1>3 DEF ExpiredCopy, ObservedLeaseCopy, Subject, LeaseStates, NoToken

\* withNewController moves the version on and binds the newest token.
LEMMA NewControllerGood ==
    ASSUME TypeOK, NEW s \in SubjectIds, NEW sub \in Subject, NEW c \in Controllers,
           NEW code, sub.version >= subjects[s].version
    PROVE  GoodOutcome(s, Outcome(WithNewController(s, sub, c), code))
  <1>1. /\ sub.version \in Nat /\ subjects[s].version \in Nat
        /\ minted[s] + 1 \in Nat
        /\ now + LeaseDuration \in Nat
    BY LeaseConstants DEF TypeOK, Subject
  <1>2. WithNewController(s, sub, c) \in Subject
    BY <1>1 DEF WithNewController, Subject, LeaseStates
  <1> QED
    BY <1>1, <1>2 DEF GoodOutcome, Outcome, WithNewController

\* A commit of good outcomes keeps the invariant, whoever beats and whatever the
\* handoff id, provided the mutation was not replayed.
LEMMA CommitKeepsTypesAndFence ==
    ASSUME Inv, NEW m \in MutationIds \cup {Fresh}, NEW out,
           NEW beat \in Controllers \cup {NoController}, NEW id \in Nat,
           GoodOutcomes(out), NotReplayed(m), Commit(m, out, beat, id),
           handoffs' \subseteq Handoff, IsFiniteSet(handoffs')
    PROVE  Inv'
  <1> DEFINE new == {[subject |-> s, controller |-> out[s].subject.controller,
                      version |-> out[s].subject.version, token |-> out[s].subject.token,
                      mutation |-> m, handoff |-> id] : s \in Grants(out)}
  <1>1. /\ Grants(out) \subseteq SubjectIds
        /\ \A s \in Grants(out) :
              /\ s \in DOMAIN out
              /\ out[s].subject \in Subject
              /\ out[s].subject.version > subjects[s].version
              /\ out[s].subject.token = minted[s] + 1
              /\ out[s].subject.controller \in Controllers
    BY DEF GoodOutcomes, GoodOutcome, Grants, GrantCodes
  <1>2. subjects' \in [SubjectIds -> Subject]
    BY DEF Inv, TypeOK, Commit, GoodOutcomes, GoodOutcome
  <1>3. /\ minted' \in [SubjectIds -> Nat]
        /\ \A s \in SubjectIds : minted'[s] >= minted[s]
        /\ \A s \in Grants(out) : minted'[s] = minted[s] + 1
    BY <1>1 DEF Inv, TypeOK, Commit
  <1>4. new \subseteq Credential
    BY <1>1 DEF Credential, Subject
  <1>5. granted' = granted \cup new
    BY DEF Commit
  <1>6. liveness' \in [Controllers -> Observation]
    BY DEF Inv, TypeOK, Commit, HeartbeatObservation, Unvouched, Observation
  <1>7. /\ receipts' \subseteq MutationIds
        /\ receipts \subseteq receipts'
        /\ m # Fresh => m \in receipts'
    BY DEF Inv, TypeOK, Commit, Receipt
  <1>8. TypeOK'
    BY <1>2, <1>3, <1>4, <1>5, <1>6, <1>7 DEF Inv, TypeOK, Commit
  <1>9. /\ \A s \in SubjectIds : /\ subjects'[s].version \in Nat
                                 /\ subjects[s].version \in Nat
                                 /\ subjects'[s].version >= subjects[s].version
        /\ \A s \in Grants(out) : /\ subjects'[s].version = out[s].subject.version
                                  /\ subjects'[s].version > subjects[s].version
    BY <1>1, <1>2 DEF Inv, TypeOK, Commit, GoodOutcomes, GoodOutcome, Subject
  <1>10. \A g \in granted : /\ g \in Credential
                            /\ g.subject \in SubjectIds
                            /\ g.token \in 1..minted[g.subject]
                            /\ g.version \in Nat
                            /\ g.version <= subjects[g.subject].version
                            /\ g.mutation # Fresh => g.mutation \in receipts
    BY DEF Inv, TypeOK, Fence, Credential
  <1>11. \A g \in new : /\ g.subject \in Grants(out)
                        /\ g.token = minted[g.subject] + 1
                        /\ g.version = subjects'[g.subject].version
                        /\ g.mutation = m
    BY <1>1, <1>9
  <1>12. \A g \in granted' : /\ g.token \in 1..minted'[g.subject]
                             /\ g.version <= subjects'[g.subject].version
                             /\ g.mutation # Fresh => g.mutation \in receipts'
    <2> SUFFICES ASSUME NEW g \in granted'
                 PROVE  /\ g.token \in 1..minted'[g.subject]
                        /\ g.version <= subjects'[g.subject].version
                        /\ g.mutation # Fresh => g.mutation \in receipts'
      OBVIOUS
    <2>1. CASE g \in granted
      <3>1. /\ g.subject \in SubjectIds
            /\ minted[g.subject] \in Nat /\ minted'[g.subject] \in Nat
        BY <1>3, <1>10, <2>1 DEF Inv, TypeOK
      <3> QED BY <1>3, <1>7, <1>9, <1>10, <2>1, <3>1
    <2>2. CASE g \in new
      <3>1. /\ g.subject \in SubjectIds
            /\ minted[g.subject] \in Nat
        BY <1>1, <1>11, <2>2 DEF Inv, TypeOK
      <3> QED BY <1>3, <1>7, <1>9, <1>11, <2>2, <3>1
    <2> QED BY <1>5, <2>1, <2>2
  <1>13. \A g \in granted, h \in new :
            g.subject = h.subject => /\ g.token # h.token
                                     /\ g.version # h.version
                                     /\ g.mutation = h.mutation => g.mutation = Fresh
    <2> SUFFICES ASSUME NEW g \in granted, NEW h \in new, g.subject = h.subject
                 PROVE  /\ g.token # h.token
                        /\ g.version # h.version
                        /\ g.mutation = h.mutation => g.mutation = Fresh
      OBVIOUS
    <2>1. minted[g.subject] \in Nat
      BY <1>10 DEF Inv, TypeOK
    <2>2. g.token # h.token
      BY <1>10, <1>11, <2>1
    <2>3. g.version # h.version
      BY <1>9, <1>10, <1>11
    <2>4. g.mutation = h.mutation => g.mutation = Fresh
      BY <1>10, <1>11 DEF NotReplayed
    <2> QED BY <2>2, <2>3, <2>4
  <1>14. \A g, h \in new : g.subject = h.subject => g = h
    OBVIOUS
  <1>15. \A g, h \in granted' :
            /\ g.subject = h.subject
            /\ \/ g.token = h.token
               \/ g.version = h.version
               \/ g.mutation = h.mutation /\ g.mutation # Fresh
            => g = h
    <2> HIDE DEF new
    <2> QED BY <1>5, <1>13, <1>14 DEF Inv, Fence
  <1>16. AbsentIsBlank'
    BY DEF Inv, AbsentIsBlank, Commit, GoodOutcomes, GoodOutcome
  <1> QED BY <1>8, <1>12, <1>15, <1>16 DEF Inv, Fence

-----------------------------------------------------------------------------
\* Each mutation gives Commit good outcomes for the subjects it selected.
LEMMA SelectionsKnown ==
    ASSUME NEW sel \in Selections
    PROVE  sel \subseteq Known
  BY DEF Selections, Known, LeftBy

\* registerSubject: what exists is kept, what is new is active or born orphaned.
LEMMA RegisteredGood ==
    ASSUME TypeOK, AbsentIsBlank, NEW s \in SubjectIds,
           NEW c \in Controllers \cup {NoController}
    PROVE  GoodOutcome(s, Registered(s, c))
  <1>1. /\ subjects[s] \in Subject
        /\ subjects[s].version \in Nat
        /\ now \in Nat /\ now + LeaseDuration \in Nat
        /\ minted[s] + 1 \in Nat
    BY LeaseConstants DEF TypeOK, Subject
  <1> QED
    BY <1>1, LeaseConstants
    DEF Registered, UnownedSubject, Outcome, GoodOutcome, AbsentIsBlank, GrantCodes, Known, Subject, LeaseStates,
        Lifecycles, Terminal, NoToken

\* acquire and adopt, on every branch of what they find.
LEMMA ClaimGood ==
    ASSUME TypeOK, NEW s \in Known, NEW c \in Controllers
    PROVE  /\ GoodOutcome(s, AcquireOutcome(s, c))
           /\ GoodOutcome(s, AdoptOutcome(s, c))
  <1> DEFINE sub == ExpiredCopy(subjects[s])
  <1>1. /\ s \in SubjectIds
        /\ subjects[s] \in Subject
        /\ sub \in Subject
        /\ sub.state # "absent"
        /\ sub.version = subjects[s].version
        /\ sub.version \in Nat
    BY ExpiredCopyType DEF TypeOK, Subject, Known
  <1>2. \A code : GoodOutcome(s, Outcome(WithNewController(s, sub, c), code))
    BY <1>1, NewControllerGood
  <1>3. \A code : code \notin GrantCodes => GoodOutcome(s, Outcome(sub, code))
    BY <1>1 DEF GoodOutcome, Outcome
  <1>4. GoodOutcome(s, Outcome(Contested(sub), "LEASE_CONFLICT"))
    BY <1>1 DEF GoodOutcome, Outcome, Contested, Subject, LeaseStates, GrantCodes
  <1> HIDE DEF sub
  <1>5. /\ "WORKER_TERMINAL" \notin GrantCodes
        /\ "NOT_ELIGIBLE" \notin GrantCodes
    BY DEF GrantCodes
  <1>6. GoodOutcome(s, AcquireOutcome(s, c))
    <2>1. AcquireOutcome(s, c) \in
             {Outcome(sub, "WORKER_TERMINAL"), Outcome(sub, "NOT_ELIGIBLE"),
              Outcome(Contested(sub), "LEASE_CONFLICT"),
              Outcome(WithNewController(s, sub, c), "REACQUIRED"),
              Outcome(WithNewController(s, sub, c), "ACQUIRED")}
      BY DEF AcquireOutcome, sub
    <2> QED BY <1>2, <1>3, <1>4, <1>5, <2>1
  <1>7. GoodOutcome(s, AdoptOutcome(s, c))
    <2>1. AdoptOutcome(s, c) \in
             {Outcome(sub, "WORKER_TERMINAL"), Outcome(sub, "NOT_ELIGIBLE"),
              Outcome(Contested(sub), "LEASE_CONFLICT"),
              Outcome(WithNewController(s, sub, c), "ACQUIRED")}
      BY DEF AdoptOutcome, sub
    <2> QED BY <1>2, <1>3, <1>4, <1>5, <2>1
  <1> QED BY <1>6, <1>7

\* What renew, release, transfer and updateLifecycle make of an accepted subject,
\* and what they persist of a refused one.
LEMMA AuthenticatedGood ==
    ASSUME TypeOK, NEW s \in Known, NEW c \in Controllers, NEW l \in Lifecycles,
           NEW code, code \notin GrantCodes
    PROVE  LET sub == ExpiredCopy(subjects[s]) IN
           /\ GoodOutcome(s, Outcome(sub, code))
           /\ GoodOutcome(s, Outcome(Renewed(sub), code))
           /\ GoodOutcome(s, Outcome(Released(sub), code))
           /\ GoodOutcome(s, Outcome([sub EXCEPT !.lifecycle = l], code))
           /\ GoodOutcome(s, Outcome(WithNewController(s, sub, c), "TRANSFERRED"))
           /\ GoodOutcome(s, Outcome(WithNewController(s, sub, c), "ACQUIRED"))
  <1> DEFINE sub == ExpiredCopy(subjects[s])
  <1>1. /\ s \in SubjectIds
        /\ subjects[s] \in Subject
        /\ sub \in Subject
        /\ sub.state # "absent"
        /\ sub.version = subjects[s].version
        /\ sub.version \in Nat
        /\ now + LeaseDuration \in Nat
    BY ExpiredCopyType, LeaseConstants DEF TypeOK, Subject, Known
  <1> HIDE DEF sub
  <1>2. GoodOutcome(s, Outcome(sub, code))
    BY <1>1 DEF GoodOutcome, Outcome
  <1>3. GoodOutcome(s, Outcome(Renewed(sub), code))
    <2>1. /\ Renewed(sub) \in Subject
          /\ Renewed(sub).state = "active"
          /\ Renewed(sub).version = sub.version
      BY <1>1 DEF Renewed, Subject, LeaseStates
    <2> QED BY <1>1, <2>1 DEF GoodOutcome, Outcome
  <1>4. GoodOutcome(s, Outcome(Released(sub), code))
    <2>1. /\ Released(sub) \in Subject
          /\ Released(sub).state = "released"
          /\ Released(sub).version = sub.version
      BY <1>1 DEF Released, Subject, LeaseStates, NoToken
    <2> QED BY <1>1, <2>1 DEF GoodOutcome, Outcome
  <1>5. GoodOutcome(s, Outcome([sub EXCEPT !.lifecycle = l], code))
    BY <1>1 DEF GoodOutcome, Outcome, Subject
  <1>6. \A k : GoodOutcome(s, Outcome(WithNewController(s, sub, c), k))
    BY <1>1, NewControllerGood
  <1> QED BY <1>2, <1>3, <1>4, <1>5, <1>6 DEF sub

\* handoffBatch, for a member with a lease record and for one registered on the way.
LEMMA HandoffGood ==
    ASSUME TypeOK, AbsentIsBlank, NEW s \in SubjectIds, NEW c \in Controllers
    PROVE  GoodOutcome(s, Outcome(WithNewController(s, HandoffCandidate(s), c),
                                  "TRANSFERRED"))
  <1>1. /\ subjects[s] \in Subject
        /\ subjects[s].version \in Nat
        /\ now \in Nat
    BY DEF TypeOK, Subject
  <1>2. /\ HandoffCandidate(s) \in Subject
        /\ HandoffCandidate(s).version >= subjects[s].version
    <2>1. CASE s \in Known
      BY <1>1, <2>1, ExpiredCopyType DEF HandoffCandidate
    <2>2. CASE s \notin Known
      BY <1>1, <2>2 DEF HandoffCandidate, AbsentIsBlank, Known, UnownedSubject, Subject, LeaseStates,
                        Lifecycles, Terminal, NoToken
    <2> QED BY <2>1, <2>2
  <1> QED BY <1>2, NewControllerGood

\* authenticatedOwnershipMutation, whatever the accepted subjects become.
LEMMA AuthenticatedCommits ==
    ASSUME Inv, NEW m \in MutationIds \cup {Fresh}, NEW sel \in SUBSET Known,
           NEW c \in Controllers, NEW cred, NEW accepted,
           \A s \in sel : GoodOutcome(s, accepted[s]),
           AuthenticatedMutation(m, sel, c, cred, accepted)
    PROVE  PlainGood(m)
  <1> DEFINE seen(s) == ExpiredCopy(subjects[s])
             code(s) == AuthCode(seen(s), c, cred.tokens[s], cred.version)
             out == [s \in sel |-> IF code(s) = "OK" THEN accepted[s]
                                   ELSE Outcome(seen(s), code(s))]
             beat == IF \E s \in sel : code(s) = "OK" THEN c ELSE NoController
  <1>1. \A s \in sel : code(s) \notin GrantCodes
    BY DEF AuthCode, GrantCodes
  <1>2. "working" \in Lifecycles
    BY DEF Lifecycles
  <1>3. \A s \in sel : GoodOutcome(s, Outcome(seen(s), code(s)))
    <2> HIDE DEF code
    <2> QED BY <1>1, <1>2, AuthenticatedGood DEF Inv
  <1>4. GoodOutcomes(out)
    <2> HIDE DEF code, seen
    <2>1. \A s \in sel : GoodOutcome(s, out[s])
      BY <1>3
    <2> QED BY <2>1 DEF GoodOutcomes, Known
  <1>5. NotReplayed(m) /\ Commit(m, out, beat, 0) /\ handoffs' = handoffs
    BY DEF AuthenticatedMutation
  <1>6. beat \in Controllers \cup {NoController}
    OBVIOUS
  <1> HIDE DEF out, beat
  <1> QED BY <1>4, <1>5, <1>6 DEF GoodCommit, PlainGood

-----------------------------------------------------------------------------
\* The initial maps are empty.
LEMMA InitInv == Init => Inv
  <1> SUFFICES ASSUME Init PROVE Inv
    OBVIOUS
  <1>1. TypeOK
    BY DEF Init, TypeOK, Absent, Unvouched, Subject, Observation, LeaseStates, Lifecycles,
           Terminal, NoToken
  <1>2. IsFiniteSet(handoffs)
    BY FS_EmptySet DEF Init
  <1> QED BY <1>1, <1>2 DEF Init, Inv, Fence, AbsentIsBlank, Absent

\* The steps that issue no credential and leave the fence's bookkeeping alone.
LEMMA QuietStepKeepsInv ==
    ASSUME Inv, TypeOK', IsFiniteSet(handoffs'), receipts \subseteq receipts',
           UNCHANGED <<minted, granted>>,
           \A s \in SubjectIds : /\ subjects'[s].version = subjects[s].version
                                 /\ subjects'[s].state = "absent" =>
                                       subjects[s].state = "absent"
    PROVE  Inv'
  <1>1. AbsentIsBlank'
    BY DEF Inv, AbsentIsBlank
  <1>2. \A g \in granted : g.subject \in SubjectIds
    BY DEF Inv, TypeOK, Credential
  <1>3. Fence'
    BY <1>2 DEF Inv, Fence
  <1> QED BY <1>1, <1>3 DEF Inv

\* What every mutation but the batches commits is good outcomes.
LEMMA MutationCommits ==
    ASSUME Inv, NEW m \in MutationIds \cup {Fresh}
    PROVE  /\ \A s \in SubjectIds, c \in Controllers \cup {NoController} :
                 RegisterSubject(m, s, c) => PlainGood(m)
           /\ \A sel \in Selections, c \in Controllers :
                 /\ Acquire(m, sel, c) => PlainGood(m)
                 /\ Adopt(m, sel, c) => PlainGood(m)
                 /\ \A cred \in Credentials(sel) :
                       /\ Renew(m, sel, c, cred) => PlainGood(m)
                       /\ Release(m, sel, c, cred) => PlainGood(m)
                       /\ \A d \in Controllers : Transfer(m, sel, c, cred, d) => PlainGood(m)
           /\ \A s \in Known, c \in Controllers, l \in Lifecycles :
                 \A cred \in Credentials({s}) : UpdateLifecycle(m, s, c, cred, l) => PlainGood(m)
  <1>0. TypeOK /\ AbsentIsBlank /\ Known \subseteq SubjectIds
    BY DEF Inv, Known
  <1>1. ASSUME NEW s \in SubjectIds, NEW c \in Controllers \cup {NoController},
               RegisterSubject(m, s, c)
        PROVE  PlainGood(m)
    <2> DEFINE out == [x \in {s} |-> Registered(x, c)]
    <2>1. GoodOutcomes(out)
      BY <1>0, RegisteredGood DEF GoodOutcomes
    <2>2. /\ NotReplayed(m)
          /\ Commit(m, out, IF s \in Known THEN NoController ELSE c, 0)
          /\ handoffs' = handoffs
      BY <1>1 DEF RegisterSubject
    <2> DEFINE beat == IF s \in Known THEN NoController ELSE c
    <2>3. beat \in Controllers \cup {NoController} /\ 0 \in Nat
      OBVIOUS
    <2> HIDE DEF out
    <2> QED BY <2>1, <2>2, <2>3 DEF GoodCommit, PlainGood
  <1>2. ASSUME NEW sel \in Selections, NEW c \in Controllers, NEW out, GoodOutcomes(out),
               OwnershipMutation(m, out, c)
        PROVE  PlainGood(m)
    <2>1. /\ NotReplayed(m)
          /\ Commit(m, out, IF Grants(out) = {} THEN NoController ELSE c, 0)
          /\ handoffs' = handoffs
      BY <1>2 DEF OwnershipMutation
    <2> QED BY <1>2, <2>1 DEF GoodCommit, PlainGood
  <1>3. ASSUME NEW sel \in Selections, NEW c \in Controllers, Acquire(m, sel, c)
        PROVE  PlainGood(m)
    <2> DEFINE out == [s \in sel |-> AcquireOutcome(s, c)]
    <2>1. GoodOutcomes(out)
      BY <1>0, SelectionsKnown, ClaimGood DEF GoodOutcomes
    <2>2. OwnershipMutation(m, out, c)
      BY <1>3 DEF Acquire
    <2> HIDE DEF out
    <2> QED BY <1>2, <2>1, <2>2
  <1>4. ASSUME NEW sel \in Selections, NEW c \in Controllers, Adopt(m, sel, c)
        PROVE  PlainGood(m)
    <2> DEFINE out == [s \in sel |-> AdoptOutcome(s, c)]
    <2>1. GoodOutcomes(out)
      BY <1>0, SelectionsKnown, ClaimGood DEF GoodOutcomes
    <2>2. OwnershipMutation(m, out, c)
      BY <1>4 DEF Adopt
    <2> HIDE DEF out
    <2> QED BY <1>2, <2>1, <2>2
  <1>5. "working" \in Lifecycles /\ "ALREADY_CONTROLLED" \notin GrantCodes
        /\ "RELEASED" \notin GrantCodes
    BY DEF Lifecycles, GrantCodes
  <1>6. ASSUME NEW sel \in Selections, NEW c \in Controllers, NEW cred \in Credentials(sel)
        PROVE  /\ Renew(m, sel, c, cred) => PlainGood(m)
               /\ Release(m, sel, c, cred) => PlainGood(m)
               /\ \A d \in Controllers : Transfer(m, sel, c, cred, d) => PlainGood(m)
    <2>1. sel \in SUBSET Known
      BY SelectionsKnown
    <2>2. Renew(m, sel, c, cred) => PlainGood(m)
      <3> DEFINE acc == [s \in sel |-> Outcome(Renewed(ExpiredCopy(subjects[s])),
                                               "ALREADY_CONTROLLED")]
      <3>1. \A s \in sel : GoodOutcome(s, acc[s])
        BY <1>0, <1>5, <2>1, AuthenticatedGood
      <3>2. Renew(m, sel, c, cred) => AuthenticatedMutation(m, sel, c, cred, acc)
        BY DEF Renew
      <3> HIDE DEF acc
      <3> QED BY <2>1, <3>1, <3>2, AuthenticatedCommits
    <2>3. Release(m, sel, c, cred) => PlainGood(m)
      <3> DEFINE acc == [s \in sel |-> Outcome(Released(ExpiredCopy(subjects[s])),
                                               "RELEASED")]
      <3>1. \A s \in sel : GoodOutcome(s, acc[s])
        BY <1>0, <1>5, <2>1, AuthenticatedGood
      <3>2. Release(m, sel, c, cred) => AuthenticatedMutation(m, sel, c, cred, acc)
        BY DEF Release
      <3> HIDE DEF acc
      <3> QED BY <2>1, <3>1, <3>2, AuthenticatedCommits
    <2>4. ASSUME NEW d \in Controllers PROVE Transfer(m, sel, c, cred, d) => PlainGood(m)
      <3> DEFINE acc == [s \in sel |-> Outcome(WithNewController(s,
                             ExpiredCopy(subjects[s]), d), "TRANSFERRED")]
      <3>1. \A s \in sel : GoodOutcome(s, acc[s])
        BY <1>0, <1>5, <2>1, AuthenticatedGood
      <3>2. Transfer(m, sel, c, cred, d) => AuthenticatedMutation(m, sel, c, cred, acc)
        BY DEF Transfer
      <3> HIDE DEF acc
      <3> QED BY <2>1, <3>1, <3>2, AuthenticatedCommits
    <2> QED BY <2>2, <2>3, <2>4
  <1>7. ASSUME NEW s \in Known, NEW c \in Controllers, NEW l \in Lifecycles,
               NEW cred \in Credentials({s}), UpdateLifecycle(m, s, c, cred, l)
        PROVE  PlainGood(m)
    <2> DEFINE acc == [x \in {s} |-> Outcome([ExpiredCopy(subjects[x]) EXCEPT
                                                !.lifecycle = l], "ALREADY_CONTROLLED")]
    <2>1. \A x \in {s} : GoodOutcome(x, acc[x])
      BY <1>0, <1>5, AuthenticatedGood
    <2>2. AuthenticatedMutation(m, {s}, c, cred, acc)
      BY <1>7 DEF UpdateLifecycle
    <2> HIDE DEF acc
    <2> QED BY <2>1, <2>2, AuthenticatedCommits
  <1> QED BY <1>1, <1>3, <1>4, <1>6, <1>7

\* So is what the batches commit.
LEMMA BatchCommits ==
    ASSUME Inv, NEW m \in MutationIds \cup {Fresh}, NEW c \in Controllers
    PROVE  /\ \A members \in SUBSET Known : \A modes \in [members -> {"adopt", "acquire"}] :
                 AdoptBatch(m, modes, c) => PlainGood(m)
           /\ \A members \in SUBSET SubjectIds : \A ended :
                 HandoffBatch(m, members, c, ended) =>
                    /\ GoodCommit(m)
                    /\ handoffs' \subseteq Handoff /\ IsFiniteSet(handoffs')
  <1>0. TypeOK /\ AbsentIsBlank /\ IsFiniteSet(handoffs)
    BY DEF Inv
  <1>1. ASSUME NEW members \in SUBSET Known,
               NEW modes \in [members -> {"adopt", "acquire"}],
               AdoptBatch(m, modes, c)
        PROVE  PlainGood(m)
    <2> DEFINE eligible == \A s \in DOMAIN modes : BatchEligible(s, modes[s])
               out == [s \in IF eligible THEN DOMAIN modes ELSE {} |->
                         Outcome(WithNewController(s, ExpiredCopy(subjects[s]), c), "ACQUIRED")]
               beat == IF eligible /\ DOMAIN modes # {} THEN c ELSE NoController
    <2>1. DOMAIN out \subseteq Known
      OBVIOUS
    <2>2. \A s \in DOMAIN out : GoodOutcome(s, out[s])
      <3>1. "working" \in Lifecycles /\ "RELEASED" \notin GrantCodes
        BY DEF Lifecycles, GrantCodes
      <3>2. \A s \in Known : GoodOutcome(s,
                Outcome(WithNewController(s, ExpiredCopy(subjects[s]), c), "ACQUIRED"))
        BY <1>0, <3>1, AuthenticatedGood
      <3> QED BY <2>1, <3>2
    <2>3. NotReplayed(m) /\ Commit(m, out, beat, 0) /\ handoffs' = handoffs
      BY <1>1 DEF AdoptBatch
    <2>4. beat \in Controllers \cup {NoController}
      OBVIOUS
    <2>5. GoodOutcomes(out)
      BY <2>1, <2>2 DEF GoodOutcomes, Known
    <2> HIDE DEF out, beat
    <2> QED BY <2>3, <2>4, <2>5 DEF GoodCommit, PlainGood
  <1>2. ASSUME NEW members \in SUBSET SubjectIds, NEW ended, HandoffBatch(m, members, c, ended)
        PROVE  GoodCommit(m) /\ handoffs' \subseteq Handoff /\ IsFiniteSet(handoffs')
    <2> DEFINE eligible == \A s \in members : /\ s \in Workers
                                              /\ HandoffCandidate(s).lifecycle \notin Terminal
                                              /\ s \notin ended
               id == Cardinality(handoffs) + 1
               out == [s \in IF eligible THEN members ELSE {} |->
                         Outcome(WithNewController(s, HandoffCandidate(s), c), "TRANSFERRED")]
               beat == IF eligible THEN c ELSE NoController
               record == [id |-> id, recipient |-> c, manifest |-> members,
                          state |-> "pending"]
    <2>1. \A s \in DOMAIN out : GoodOutcome(s, out[s])
      BY <1>0, HandoffGood
    <2>2. GoodOutcomes(out)
      BY <2>1 DEF GoodOutcomes
    <2>3. id \in Nat
      BY <1>0, FS_CardinalityType
    <2>4. /\ NotReplayed(m) /\ Commit(m, out, beat, id)
          /\ handoffs' \in {handoffs, handoffs \cup {record}}
      BY <1>2 DEF HandoffBatch
    <2>5. beat \in Controllers \cup {NoController}
      OBVIOUS
    <2>6. record \in Handoff
      BY <2>3 DEF Handoff
    <2> HIDE DEF out, beat, record, id
    <2>7. handoffs' \subseteq Handoff /\ IsFiniteSet(handoffs')
      BY <1>0, <2>4, <2>6, FS_AddElement DEF TypeOK
    <2> QED BY <2>2, <2>3, <2>4, <2>5, <2>7 DEF GoodCommit
  <1> QED BY <1>1, <1>2

\* A commit of good outcomes keeps the invariant.
LEMMA GoodCommitKeepsInv ==
    ASSUME Inv, NEW m \in MutationIds \cup {Fresh}, GoodCommit(m),
           handoffs' \subseteq Handoff, IsFiniteSet(handoffs')
    PROVE  Inv'
  BY CommitKeepsTypesAndFence DEF GoodCommit

LEMMA PlainGoodKeepsInv ==
    ASSUME Inv, NEW m \in MutationIds \cup {Fresh}, PlainGood(m)
    PROVE  Inv'
  BY GoodCommitKeepsInv DEF PlainGood, Inv, TypeOK

\* What every mutation with an id is.
LEMMA MutationIs ==
    ASSUME Inv, NEW m \in MutationIds \cup {Fresh}, Mutation(m)
    PROVE  \/ PlainGood(m)
           \/ /\ GoodCommit(m) /\ handoffs' \subseteq Handoff /\ IsFiniteSet(handoffs')
              /\ \E members \in SUBSET SubjectIds, c \in Controllers :
                    \E ended \in SUBSET members : HandoffBatch(m, members, c, ended)
           \/ \E c \in Controllers, state \in {"connected", "disconnected"} :
                 ObserveControllerLiveness(m, c, state)
           \/ ExpireLeases(m)
  BY MutationCommits, BatchCommits, LeaseConstants DEF Mutation

\* The batches, the broker's own observations and the passing of time keep it too.
LEMMA NextKeepsInv == Inv /\ [Next]_vars => Inv'
  <1> SUFFICES ASSUME Inv, [Next]_vars PROVE Inv'
    OBVIOUS
  <1>0. TypeOK /\ AbsentIsBlank /\ IsFiniteSet(handoffs)
    BY DEF Inv
  <1>3. ASSUME NEW c \in Controllers, NEW ids, AcknowledgeHandoffs(c, ids)
        PROVE  Inv'
    <2> DEFINE acked(h) == IF h.id \in ids THEN [h EXCEPT !.state = "acknowledged"] ELSE h
    <2>1. /\ handoffs' = {acked(h) : h \in handoffs}
          /\ UNCHANGED <<now, subjects, liveness, receipts, minted, granted>>
      BY <1>3 DEF AcknowledgeHandoffs
    <2>2. \A h \in handoffs : acked(h) \in Handoff
      BY <1>0 DEF TypeOK, Handoff
    <2> HIDE DEF acked
    <2>3. IsFiniteSet(handoffs')
      <3> DEFINE f == [h \in handoffs |-> acked(h)]
      <3>1. f \in Surjection(handoffs, handoffs')
        BY <2>1 DEF Surjection
      <3> QED BY <1>0, <3>1, FS_Surjection
    <2>4. TypeOK'
      BY <1>0, <2>1, <2>2 DEF TypeOK
    <2> QED BY <2>1, <2>3, <2>4, QuietStepKeepsInv
  <1>4. ASSUME NEW m, NEW c \in Controllers, NEW state \in {"connected", "disconnected"},
               ObserveControllerLiveness(m, c, state), m \in MutationIds \cup {Fresh}
        PROVE  Inv'
    <2>1. \A s \in SubjectIds :
             /\ Outgoing(subjects[s], c) \in Subject
             /\ Outgoing(subjects[s], c).version = subjects[s].version
      BY <1>0, ExpiredCopyType DEF Outgoing, TypeOK
    <2>2. /\ subjects' \in [SubjectIds -> Subject]
          /\ \A s \in SubjectIds : /\ subjects'[s].version = subjects[s].version
                                   /\ subjects'[s].state = "absent" =>
                                         subjects[s].state = "absent"
      BY <1>0, <1>4, <2>1 DEF ObserveControllerLiveness, TypeOK
    <2>3. liveness' \in [Controllers -> Observation]
      BY <1>0, <1>4 DEF ObserveControllerLiveness, TypeOK, Observation
    <2>4. receipts \subseteq receipts' /\ receipts' \subseteq MutationIds
      BY <1>0, <1>4 DEF ObserveControllerLiveness, TypeOK, Receipt
    <2>5. TypeOK' /\ IsFiniteSet(handoffs') /\ UNCHANGED <<minted, granted>>
      BY <1>0, <1>4, <2>2, <2>3, <2>4 DEF ObserveControllerLiveness, TypeOK
    <2> QED BY <2>2, <2>4, <2>5, QuietStepKeepsInv
  <1>5. ASSUME NEW m \in MutationIds \cup {Fresh}, ExpireLeases(m)
        PROVE  Inv'
    <2>1. \A s \in SubjectIds :
             /\ [subjects[s] EXCEPT !.state = "orphaned", !.token = NoToken] \in Subject
             /\ [subjects[s] EXCEPT !.state = "orphaned", !.token = NoToken].version
                   = subjects[s].version
             /\ [subjects[s] EXCEPT !.state = "orphaned", !.token = NoToken].state
                   = "orphaned"
      BY <1>0 DEF TypeOK, Subject, LeaseStates, NoToken
    <2>2. /\ subjects' \in [SubjectIds -> Subject]
          /\ \A s \in SubjectIds : /\ subjects'[s].version = subjects[s].version
                                   /\ subjects'[s].state = "absent" =>
                                         subjects[s].state = "absent"
      BY <1>0, <1>5, <2>1 DEF ExpireLeases, TypeOK
    <2>3. receipts \subseteq receipts' /\ receipts' \subseteq MutationIds
      BY <1>0, <1>5 DEF ExpireLeases, TypeOK, Receipt
    <2>4. TypeOK' /\ IsFiniteSet(handoffs') /\ UNCHANGED <<minted, granted>>
      BY <1>0, <1>5, <2>2, <2>3 DEF ExpireLeases, TypeOK
    <2> QED BY <2>2, <2>3, <2>4, QuietStepKeepsInv
  <1>6. ASSUME NEW s \in SubjectIds, NEW l \in Lifecycles, ReconcileLifecycle(s, l)
        PROVE  Inv'
    <2>1. /\ [subjects[s] EXCEPT !.lifecycle = l] \in Subject
          /\ [subjects[s] EXCEPT !.lifecycle = l].version = subjects[s].version
          /\ [subjects[s] EXCEPT !.lifecycle = l].state = subjects[s].state
      BY <1>0 DEF TypeOK, Subject
    <2>2. subjects' = [subjects EXCEPT ![s] = [subjects[s] EXCEPT !.lifecycle = l]]
      BY <1>6 DEF ReconcileLifecycle
    <2>3. /\ subjects' \in [SubjectIds -> Subject]
          /\ \A x \in SubjectIds : /\ subjects'[x].version = subjects[x].version
                                   /\ subjects'[x].state = "absent" =>
                                         subjects[x].state = "absent"
      BY <1>0, <2>1, <2>2 DEF TypeOK
    <2>4. TypeOK' /\ IsFiniteSet(handoffs') /\ UNCHANGED <<receipts, minted, granted>>
      BY <1>0, <1>6, <2>3 DEF ReconcileLifecycle, TypeOK
    <2> QED BY <2>3, <2>4, QuietStepKeepsInv
  <1>7. ASSUME Tick \/ UNCHANGED vars
        PROVE  Inv'
    <2>1. TypeOK' /\ UNCHANGED <<subjects, receipts, handoffs, minted, granted>>
      BY <1>0, <1>7 DEF Tick, vars, TypeOK
    <2> QED BY <1>0, <2>1, QuietStepKeepsInv
  <1>8. ASSUME NEW m \in MutationIds \cup {Fresh}, Mutation(m)
        PROVE  Inv'
    BY <1>4, <1>5, <1>8, MutationIs, PlainGoodKeepsInv, GoodCommitKeepsInv
  <1> QED
    BY <1>3, <1>6, <1>7, <1>8 DEF Next

-----------------------------------------------------------------------------
\* The bookkeeping of the fence implies both fences.
LEMMA InvImpliesFences == Inv => SingleAuthority /\ GrantedOnce
  <1> SUFFICES ASSUME Inv PROVE SingleAuthority /\ GrantedOnce
    OBVIOUS
  <1>1. ASSUME NEW g \in granted, Authenticates(g)
        PROVE  g.token = subjects[g.subject].token
    <2>1. subjects[g.subject] \in Subject
      BY DEF Inv, TypeOK, Credential
    <2>2. ExpiredCopy(subjects[g.subject]).token \in {subjects[g.subject].token, NoToken}
      BY <2>1, ExpiredCopyType DEF Inv
    <2>3. /\ ExpiredCopy(subjects[g.subject]).token = g.token
          /\ ExpiredCopy(subjects[g.subject]).token # NoToken
      BY <1>1 DEF Authenticates, AuthCode
    <2> QED BY <2>2, <2>3
  <1>2. SingleAuthority
    BY <1>1 DEF SingleAuthority, Inv, Fence
  <1>3. GrantedOnce
    BY DEF GrantedOnce, Inv, Fence
  <1> QED BY <1>2, <1>3

\* The inductive invariant holds of every behaviour of the lease service.
LEMMA SpecInv == Spec => []Inv
  BY InitInv, NextKeepsInv, PTL DEF Spec

\* Every reachable state of the lease service is well formed.
THEOREM LeaseTypeCorrect == Spec => []TypeOK
  <1>1. Inv => TypeOK
    BY DEF Inv
  <1> QED BY <1>1, SpecInv, PTL

\* At most one credential ever issued for a subject is accepted at any time.
THEOREM LeaseSingleAuthority == Spec => []SingleAuthority
  <1>1. Inv => SingleAuthority
    BY InvImpliesFences
  <1> QED BY <1>1, SpecInv, PTL

\* A lease version is issued once, and a retried mutation issues nothing new.
THEOREM LeaseGrantedOnce == Spec => []GrantedOnce
  <1>1. Inv => GrantedOnce
    BY InvImpliesFences
  <1> QED BY <1>1, SpecInv, PTL

(***************************************************************************)
(* The steps and the credentials already issued                            *)
(*                                                                         *)
(* Beside the fence these rest on two facts: handoff                       *)
(* records are numbered up to their count, and an observation that no      *)
(* session vouches for is the blank one, so that a heartbeat, which resets *)
(* only such observations, never changes what a controller's leases are    *)
(* judged by.                                                              *)
(*                                                                         *)
(* A credential is judged by the subject it was issued for and by what is  *)
(* observed of its controller.  So each operation is looked at for one     *)
(* subject: it leaves the lease as it is, carries on a lease that had not  *)
(* expired, or ends it, with no token or with one never issued before.     *)
(***************************************************************************)

Numbered ==
    /\ \A h \in handoffs : h.id \in 1 .. Cardinality(handoffs)
    /\ \A h, k \in handoffs : h.id = k.id => h = k

Vouched == \A c \in Controllers : liveness[c].session \/ liveness[c] = Unvouched

StepInv == Inv /\ Numbered /\ HandoffsWhole /\ Vouched

\* The commit of a mutation that hands nothing off, and of nothing at all.
PlainCommit(m) ==
    /\ handoffs' = handoffs
    /\ NotReplayed(m)
    /\ \E out : \E beat \in Controllers \cup {NoController} : Commit(m, out, beat, 0)

Quiet == UNCHANGED <<handoffs, granted>>

-----------------------------------------------------------------------------
\* The manifests are what was issued under them, and a plain commit issues
\* nothing under a handoff.
LEMMA PlainKeepsHandoffs ==
    ASSUME StepInv, NEW m, PlainCommit(m)
    PROVE  Numbered' /\ HandoffsWhole'
  <1>0. PICK out : \E beat \in Controllers \cup {NoController} : Commit(m, out, beat, 0)
    BY DEF PlainCommit
  <1>1. PICK beat \in Controllers \cup {NoController} : Commit(m, out, beat, 0)
    BY <1>0
  <1> DEFINE new == {[subject |-> s, controller |-> out[s].subject.controller,
                      version |-> out[s].subject.version, token |-> out[s].subject.token,
                      mutation |-> m, handoff |-> 0] : s \in Grants(out)}
  <1>2. granted' = granted \cup new /\ \A g \in new : g.handoff = 0
    BY <1>1 DEF Commit
  <1> HIDE DEF new
  <1>3. handoffs' = handoffs
    BY DEF PlainCommit
  <1>4. \A h \in handoffs : h.id # 0
    BY FS_CardinalityType DEF StepInv, Inv, Numbered
  <1>5. ASSUME NEW h \in handoffs
        PROVE  {x \in granted' : x.handoff = h.id /\ x.controller = h.recipient}
                 = {x \in granted : x.handoff = h.id /\ x.controller = h.recipient}
    BY <1>2, <1>4
  <1>6. HandoffsWhole'
    BY <1>2, <1>3, <1>5 DEF StepInv, HandoffsWhole
  <1> QED BY <1>3, <1>6 DEF StepInv, Numbered

LEMMA QuietKeepsHandoffs ==
    ASSUME StepInv, Quiet
    PROVE  Numbered' /\ HandoffsWhole'
  BY DEF Quiet, StepInv, Numbered, HandoffsWhole

\* A directed handoff moves its whole manifest under a number of its own.
LEMMA HandoffKeepsHandoffs ==
    ASSUME StepInv, NEW m \in MutationIds \cup {Fresh}, NEW members \in SUBSET SubjectIds,
           NEW c \in Controllers, NEW ended, HandoffBatch(m, members, c, ended)
    PROVE  Numbered' /\ HandoffsWhole'
  <1> DEFINE eligible == \A s \in members : /\ s \in Workers
                                            /\ HandoffCandidate(s).lifecycle \notin Terminal
                                            /\ s \notin ended
             id == Cardinality(handoffs) + 1
             out == [s \in IF eligible THEN members ELSE {} |->
                       Outcome(WithNewController(s, HandoffCandidate(s), c), "TRANSFERRED")]
             record == [id |-> id, recipient |-> c, manifest |-> members, state |-> "pending"]
             grant(s) == [subject |-> s, controller |-> out[s].subject.controller,
                          version |-> out[s].subject.version, token |-> out[s].subject.token,
                          mutation |-> m, handoff |-> id]
             new == {grant(s) : s \in Grants(out)}
  <1>1. /\ granted' = granted \cup new
        /\ handoffs' = IF eligible THEN handoffs \cup {record} ELSE handoffs
    BY DEF HandoffBatch, Commit
  <1>2. Cardinality(handoffs) \in Nat /\ IsFiniteSet(handoffs)
    BY FS_CardinalityType DEF StepInv, Inv
  <1>3. CASE ~eligible
    <2>1. Grants(out) = {}
      BY <1>3 DEF Grants
    <2>2. granted' = granted /\ handoffs' = handoffs
      BY <1>1, <1>3, <2>1
    <2> QED BY <2>2, QuietKeepsHandoffs DEF Quiet
  <1>4. CASE eligible
    <2>1. \A s \in members : out[s].code = "TRANSFERRED" /\ out[s].subject.controller = c
      BY <1>4 DEF Outcome, WithNewController
    <2>2. Grants(out) = members
      BY <1>4, <2>1 DEF Grants
    <2>3. /\ \A g \in new : g.handoff = id /\ g.controller = c
          /\ {g.subject : g \in new} = members
      <3>1. \A s \in members : /\ grant(s).subject = s /\ grant(s).handoff = id
                               /\ grant(s).controller = c
        BY <2>1
      <3>2. new = {grant(s) : s \in members}
        BY <2>2
      <3> HIDE DEF grant, new
      <3> QED BY <3>1, <3>2
    <2> HIDE DEF out, new
    <2>4. \A h \in handoffs : h.id \in Nat \ {0} /\ h.id < id
      BY <1>2 DEF StepInv, Numbered
    <2>5. \A g \in granted : g.handoff # id
      <3> SUFFICES ASSUME NEW g \in granted, g.handoff = id PROVE FALSE
        OBVIOUS
      <3>1. \E h \in handoffs : h.id = g.handoff
        BY <1>2 DEF StepInv, HandoffsWhole
      <3> QED BY <2>4, <3>1
    <2>6. record \notin handoffs /\ record.id = id /\ record.recipient = c /\ record.manifest = members
      BY <1>2, <2>4
    <2> HIDE DEF record, eligible
    <2>7. Cardinality(handoffs') = id /\ handoffs' = handoffs \cup {record}
      BY <1>1, <1>2, <1>4, <2>6, FS_AddElement
    <2>13. id \in Nat \ {0}
      BY <1>2
    <2> HIDE DEF id
    <2>8. Numbered'
      <3>1. \A h \in handoffs' : h.id \in 1 .. id
        BY <2>4, <2>6, <2>7, <2>13
      <3>2. \A h, k \in handoffs' : h.id = k.id => h = k
        BY <2>4, <2>6, <2>7 DEF StepInv, Numbered
      <3> QED BY <2>7, <3>1, <3>2 DEF Numbered
    <2>9. ASSUME NEW h \in handoffs
          PROVE  {x \in granted' : x.handoff = h.id /\ x.controller = h.recipient}
                   = {x \in granted : x.handoff = h.id /\ x.controller = h.recipient}
      BY <1>1, <2>3, <2>4
    <2>10. {x \in granted' : x.handoff = id /\ x.controller = c} = new
      BY <1>1, <2>3, <2>5
    <2>11. \A h \in handoffs' : h.manifest = {g.subject : g \in {x \in granted' :
                                    x.handoff = h.id /\ x.controller = h.recipient}}
      BY <2>3, <2>6, <2>7, <2>9, <2>10 DEF StepInv, HandoffsWhole
    <2>12. \A g \in granted' : g.handoff # 0 => \E h \in handoffs' : h.id = g.handoff
      BY <1>1, <2>3, <2>6, <2>7 DEF StepInv, HandoffsWhole
    <2> QED BY <2>8, <2>11, <2>12 DEF HandoffsWhole
  <1> QED BY <1>3, <1>4

\* An acknowledgement changes no number and no manifest.
LEMMA AcknowledgeKeepsHandoffs ==
    ASSUME StepInv, NEW c \in Controllers, NEW ids, AcknowledgeHandoffs(c, ids)
    PROVE  Numbered' /\ HandoffsWhole'
  <1> DEFINE acked(h) == IF h.id \in ids THEN [h EXCEPT !.state = "acknowledged"] ELSE h
  <1>1. handoffs' = {acked(h) : h \in handoffs} /\ granted' = granted
    BY DEF AcknowledgeHandoffs
  <1>2. \A h \in handoffs : /\ acked(h).id = h.id /\ acked(h).recipient = h.recipient
                            /\ acked(h).manifest = h.manifest
    BY DEF StepInv, Inv, TypeOK, Handoff
  <1> HIDE DEF acked
  <1>3. IsFiniteSet(handoffs) /\ \A h, k \in handoffs : h.id = k.id => h = k
    BY DEF StepInv, Inv, Numbered
  <1>4. Cardinality(handoffs') = Cardinality(handoffs)
    <2> DEFINE f == [h \in handoffs |-> acked(h)]
    <2>1. f \in Bijection(handoffs, handoffs')
      <3>1. f \in [handoffs -> handoffs']
        BY <1>1
      <3>2. \A h, k \in handoffs : f[h] = f[k] => h = k
        BY <1>2, <1>3
      <3>3. \A t \in handoffs' : \E h \in handoffs : f[h] = t
        BY <1>1
      <3> HIDE DEF f
      <3>4. f \in Injection(handoffs, handoffs')
        BY <3>1, <3>2 DEF Injection, IsInjective
      <3>5. f \in Surjection(handoffs, handoffs')
        BY <3>1, <3>3 DEF Surjection
      <3> QED BY <3>4, <3>5 DEF Bijection
    <2> HIDE DEF f
    <2>2. ExistsBijection(handoffs, handoffs')
      BY <2>1 DEF ExistsBijection
    <2> QED BY <1>3, <2>2, FS_Bijection
  <1>5. Numbered'
    <2>1. \A h \in handoffs' : h.id \in 1 .. Cardinality(handoffs')
      BY <1>1, <1>2, <1>4 DEF StepInv, Numbered
    <2>2. \A h, k \in handoffs : acked(h).id = acked(k).id => acked(h) = acked(k)
      BY <1>2, <1>3
    <2>3. \A h, k \in handoffs' : h.id = k.id => h = k
      BY <1>1, <2>2
    <2> QED BY <2>1, <2>3 DEF Numbered
  <1>6. \A h \in handoffs' : h.manifest = {g.subject : g \in {x \in granted' :
                                x.handoff = h.id /\ x.controller = h.recipient}}
    BY <1>1, <1>2 DEF StepInv, HandoffsWhole
  <1>7. \A g \in granted' : g.handoff # 0 => \E h \in handoffs' : h.id = g.handoff
    BY <1>1, <1>2 DEF StepInv, HandoffsWhole
  <1> QED BY <1>5, <1>6, <1>7 DEF HandoffsWhole

\* A heartbeat changes nothing: what no session vouches for is blank already.
LEMMA HeartbeatChangesNothing ==
    ASSUME StepInv, NEW m, NEW out, NEW beat \in Controllers \cup {NoController}, NEW id,
           Commit(m, out, beat, id)
    PROVE  liveness' = liveness /\ now' = now
  <1>1. now' = now
    BY DEF Commit
  <1>2. CASE beat = NoController
    BY <1>1, <1>2 DEF Commit
  <1>3. CASE beat # NoController
    <2>1. beat \in Controllers /\ liveness \in [Controllers -> Observation]
      BY <1>3 DEF StepInv, Inv, TypeOK
    <2>2. HeartbeatObservation(liveness[beat]) = liveness[beat]
      BY <2>1 DEF HeartbeatObservation, StepInv, Vouched
    <2>3. liveness' = [liveness EXCEPT ![beat] = HeartbeatObservation(liveness[beat])]
      BY <1>3 DEF Commit
    <2> QED BY <1>1, <2>1, <2>2, <2>3
  <1> QED BY <1>2, <1>3

LEMMA HandoffCommits ==
    ASSUME StepInv, NEW m, NEW members, NEW c \in Controllers, NEW ended,
           HandoffBatch(m, members, c, ended)
    PROVE  liveness' = liveness /\ now' = now
  <1> DEFINE eligible == \A s \in members : /\ s \in Workers
                                            /\ HandoffCandidate(s).lifecycle \notin Terminal
                                            /\ s \notin ended
             out == [s \in IF eligible THEN members ELSE {} |->
                       Outcome(WithNewController(s, HandoffCandidate(s), c), "TRANSFERRED")]
             beat == IF eligible THEN c ELSE NoController
  <1>1. Commit(m, out, beat, Cardinality(handoffs) + 1)
    BY DEF HandoffBatch
  <1>2. beat \in Controllers \cup {NoController}
    OBVIOUS
  <1> HIDE DEF out, beat
  <1> QED BY <1>1, <1>2, HeartbeatChangesNothing

LEMMA AuthenticatedIsPlain ==
    ASSUME NEW m, NEW sel, NEW c \in Controllers, NEW cred, NEW accepted,
           AuthenticatedMutation(m, sel, c, cred, accepted)
    PROVE  PlainCommit(m)
  <1> DEFINE code(s) == AuthCode(ExpiredCopy(subjects[s]), c, cred.tokens[s], cred.version)
             out == [s \in sel |-> IF code(s) = "OK" THEN accepted[s]
                                  ELSE Outcome(ExpiredCopy(subjects[s]), code(s))]
             beat == IF \E s \in sel : code(s) = "OK" THEN c ELSE NoController
  <1>1. NotReplayed(m) /\ Commit(m, out, beat, 0) /\ handoffs' = handoffs
    BY DEF AuthenticatedMutation
  <1>2. beat \in Controllers \cup {NoController}
    OBVIOUS
  <1> HIDE DEF out, beat
  <1> QED BY <1>1, <1>2 DEF PlainCommit

\* Every mutation that carries an id is a plain commit, a directed handoff, an
\* observation or the expiry sweep.
LEMMA MutationKinds ==
    ASSUME NEW m \in MutationIds \cup {Fresh}, Mutation(m)
    PROVE  \/ PlainCommit(m)
           \/ \E members \in SUBSET SubjectIds, c \in Controllers :
                 \E ended \in SUBSET members : HandoffBatch(m, members, c, ended)
           \/ \E c \in Controllers, state \in {"connected", "disconnected"} :
                 ObserveControllerLiveness(m, c, state)
           \/ ExpireLeases(m)
  <1>1. ASSUME NEW s \in SubjectIds, NEW c \in Controllers \cup {NoController},
               RegisterSubject(m, s, c)
        PROVE  PlainCommit(m)
    <2> DEFINE out == [x \in {s} |-> Registered(x, c)]
               beat == IF s \in Known THEN NoController ELSE c
    <2>1. NotReplayed(m) /\ Commit(m, out, beat, 0) /\ handoffs' = handoffs
      BY <1>1 DEF RegisterSubject
    <2>2. beat \in Controllers \cup {NoController}
      OBVIOUS
    <2> HIDE DEF out, beat
    <2> QED BY <2>1, <2>2 DEF PlainCommit
  <1>2. ASSUME NEW out, NEW c \in Controllers, OwnershipMutation(m, out, c)
        PROVE  PlainCommit(m)
    <2> DEFINE beat == IF Grants(out) = {} THEN NoController ELSE c
    <2>1. NotReplayed(m) /\ Commit(m, out, beat, 0) /\ handoffs' = handoffs
      BY <1>2 DEF OwnershipMutation
    <2>2. beat \in Controllers \cup {NoController}
      OBVIOUS
    <2> HIDE DEF beat
    <2> QED BY <2>1, <2>2 DEF PlainCommit
  <1>3. ASSUME NEW sel \in Selections, NEW c \in Controllers, Acquire(m, sel, c) \/ Adopt(m, sel, c)
        PROVE  PlainCommit(m)
    <2> DEFINE acquired == [s \in sel |-> AcquireOutcome(s, c)]
               adopted == [s \in sel |-> AdoptOutcome(s, c)]
    <2>1. OwnershipMutation(m, acquired, c) \/ OwnershipMutation(m, adopted, c)
      BY <1>3 DEF Acquire, Adopt
    <2> HIDE DEF acquired, adopted
    <2> QED BY <1>2, <2>1
  <1>4. ASSUME NEW sel, NEW c \in Controllers, NEW cred, NEW d,
               Renew(m, sel, c, cred) \/ Release(m, sel, c, cred) \/ Transfer(m, sel, c, cred, d)
        PROVE  PlainCommit(m)
    <2> DEFINE renewed == [s \in sel |-> Outcome(Renewed(ExpiredCopy(subjects[s])),
                                                "ALREADY_CONTROLLED")]
               released == [s \in sel |-> Outcome(Released(ExpiredCopy(subjects[s])), "RELEASED")]
               moved == [s \in sel |-> Outcome(WithNewController(s, ExpiredCopy(subjects[s]), d),
                                              "TRANSFERRED")]
    <2>1. \/ AuthenticatedMutation(m, sel, c, cred, renewed)
          \/ AuthenticatedMutation(m, sel, c, cred, released)
          \/ AuthenticatedMutation(m, sel, c, cred, moved)
      BY <1>4 DEF Renew, Release, Transfer
    <2> HIDE DEF renewed, released, moved
    <2> QED BY <2>1, AuthenticatedIsPlain
  <1>5. ASSUME NEW s, NEW c \in Controllers, NEW cred, NEW l, UpdateLifecycle(m, s, c, cred, l)
        PROVE  PlainCommit(m)
    <2> DEFINE updated == [x \in {s} |-> Outcome([ExpiredCopy(subjects[x]) EXCEPT !.lifecycle = l],
                                                "ALREADY_CONTROLLED")]
    <2>1. AuthenticatedMutation(m, {s}, c, cred, updated)
      BY <1>5 DEF UpdateLifecycle
    <2> HIDE DEF updated
    <2> QED BY <2>1, AuthenticatedIsPlain
  <1>6. ASSUME NEW modes, NEW c \in Controllers, AdoptBatch(m, modes, c)
        PROVE  PlainCommit(m)
    <2> DEFINE eligible == \A s \in DOMAIN modes : BatchEligible(s, modes[s])
               out == [s \in IF eligible THEN DOMAIN modes ELSE {} |->
                         Outcome(WithNewController(s, ExpiredCopy(subjects[s]), c), "ACQUIRED")]
               beat == IF eligible /\ DOMAIN modes # {} THEN c ELSE NoController
    <2>1. NotReplayed(m) /\ Commit(m, out, beat, 0) /\ handoffs' = handoffs
      BY <1>6 DEF AdoptBatch
    <2>2. beat \in Controllers \cup {NoController}
      OBVIOUS
    <2> HIDE DEF out, beat
    <2> QED BY <2>1, <2>2 DEF PlainCommit
  <1> QED BY <1>1, <1>3, <1>4, <1>5, <1>6, LeaseConstants DEF Mutation

-----------------------------------------------------------------------------
LEMMA InitStepInv == Init => StepInv
  <1> SUFFICES ASSUME Init PROVE StepInv
    OBVIOUS
  <1>1. Inv
    BY InitInv
  <1>2. Vouched
    BY DEF Init, Vouched
  <1>3. Numbered /\ HandoffsWhole
    BY DEF Init, Numbered, HandoffsWhole
  <1> QED BY <1>1, <1>2, <1>3 DEF StepInv

LEMMA NextKeepsStepInv == StepInv /\ [Next]_vars => StepInv'
  <1> SUFFICES ASSUME StepInv, [Next]_vars PROVE StepInv'
    OBVIOUS
  <1>0. Inv'
    BY NextKeepsInv DEF StepInv
  <1>1. ASSUME NEW m, PlainCommit(m) PROVE Numbered' /\ HandoffsWhole' /\ Vouched'
    <2>1. PICK out : \E beat \in Controllers \cup {NoController} : Commit(m, out, beat, 0)
      BY <1>1 DEF PlainCommit
    <2>2. liveness' = liveness
      BY <2>1, HeartbeatChangesNothing
    <2> QED BY <1>1, <2>2, PlainKeepsHandoffs DEF StepInv, Vouched
  <1>2. ASSUME NEW m \in MutationIds \cup {Fresh}, NEW members \in SUBSET SubjectIds,
               NEW c \in Controllers, NEW ended, HandoffBatch(m, members, c, ended)
        PROVE  Numbered' /\ HandoffsWhole' /\ Vouched'
    <2>1. liveness' = liveness
      BY <1>2, HandoffCommits
    <2> QED BY <1>2, <2>1, HandoffKeepsHandoffs DEF StepInv, Vouched
  <1>3. ASSUME NEW m, NEW c \in Controllers, NEW state, ObserveControllerLiveness(m, c, state)
        PROVE  Numbered' /\ HandoffsWhole' /\ Vouched'
    <2>1. Quiet
      BY <1>3 DEF ObserveControllerLiveness, Quiet
    <2>2. Vouched'
      <3>1. liveness \in [Controllers -> Observation] /\ Vouched
        BY DEF StepInv, Inv, TypeOK
      <3>2. \A d \in Controllers : d # c => liveness'[d] = liveness[d]
        BY <1>3, <3>1 DEF ObserveControllerLiveness
      <3>3. liveness'[c].session
        BY <1>3, <3>1 DEF ObserveControllerLiveness
      <3> QED BY <3>1, <3>2, <3>3 DEF Vouched
    <2> QED BY <2>1, <2>2, QuietKeepsHandoffs
  <1>4. ASSUME Quiet, UNCHANGED liveness
        PROVE  Numbered' /\ HandoffsWhole' /\ Vouched'
    BY <1>4, QuietKeepsHandoffs DEF StepInv, Vouched
  <1>5. ASSUME NEW m \in MutationIds \cup {Fresh}, Mutation(m)
        PROVE  Numbered' /\ HandoffsWhole' /\ Vouched'
    <2>1. ExpireLeases(m) => Quiet /\ UNCHANGED liveness
      BY DEF ExpireLeases, Quiet
    <2> QED BY <1>1, <1>2, <1>3, <1>4, <1>5, <2>1, MutationKinds
  <1>6. ASSUME NEW c \in Controllers, NEW ids, AcknowledgeHandoffs(c, ids)
        PROVE  Numbered' /\ HandoffsWhole' /\ Vouched'
    BY <1>6, AcknowledgeKeepsHandoffs DEF AcknowledgeHandoffs, StepInv, Vouched
  <1>7. ASSUME Tick \/ UNCHANGED vars \/ \E s \in SubjectIds, l \in Lifecycles : ReconcileLifecycle(s, l)
        PROVE  Numbered' /\ HandoffsWhole' /\ Vouched'
    <2>1. Quiet /\ UNCHANGED liveness
      BY <1>7 DEF Tick, vars, ReconcileLifecycle, Quiet
    <2> QED BY <1>4, <2>1
  <1> QED BY <1>0, <1>5, <1>6, <1>7 DEF Next, StepInv

LEMMA SpecStepInv == Spec => []StepInv
  BY InitStepInv, NextKeepsStepInv, PTL DEF Spec

\* A handoff record and the credentials issued under it agree: handoffBatch moves
\* its whole manifest or nothing.
THEOREM LeaseHandoffsWhole == Spec => []HandoffsWhole
  <1>1. StepInv => HandoffsWhole
    BY DEF StepInv
  <1> QED BY <1>1, SpecStepInv, PTL

-----------------------------------------------------------------------------
(* A credential is held.                                                   *)

Expired(sub) == LeaseHasExpired(sub, ControllerLiveness(sub))

Holds(g) ==
    /\ IsControlled(subjects[g.subject])
    /\ subjects[g.subject].controller = g.controller
    /\ subjects[g.subject].token = g.token
    /\ g.token # NoToken
    /\ ~Expired(subjects[g.subject])

\* What an operation makes of subject s, q being what it leaves.
Same(s, q) ==
    /\ q.controller = subjects[s].controller /\ q.token = subjects[s].token
    /\ q.state = subjects[s].state /\ q.expiresAt = subjects[s].expiresAt

CarriedOn(s, q) ==
    /\ q.controller = subjects[s].controller /\ q.token = subjects[s].token
    /\ IsControlled(q) <=> IsControlled(subjects[s])
    /\ ~Expired(subjects[s])
    /\ LeaseDuration > 0 => ~Expired(q)

Ended(s, q) == q.token \in {NoToken, minted[s] + 1}

Settled(s, q) == Same(s, q) \/ CarriedOn(s, q) \/ Ended(s, q)

\* Subject s is held, whatever credential its holder has.
Live(s) == IsControlled(subjects[s]) /\ ~Expired(subjects[s])

-----------------------------------------------------------------------------
\* Reading a lease ends it when it has expired and carries it on otherwise.
LEMMA SeenCarries ==
    ASSUME StepInv, NEW s \in SubjectIds
    PROVE  LET sub == ExpiredCopy(subjects[s]) IN
           /\ sub.lifecycle = subjects[s].lifecycle
           /\ sub.version = subjects[s].version
           /\ sub.controller = subjects[s].controller
           /\ Expired(subjects[s]) => sub.state = "orphaned" /\ sub.token = NoToken
           /\ ~Expired(subjects[s]) => /\ sub.state = subjects[s].state
                                       /\ sub.token = subjects[s].token
                                       /\ ~Expired(sub)
  <1> DEFINE r == subjects[s]
             obs == ControllerLiveness(r)
             copy == VouchedCopy(r, obs)
             sub == ExpiredCopy(r)
  <1>1. r \in Subject /\ obs \in Observation /\ now \in Nat
    BY DEF StepInv, Inv, TypeOK, ControllerLiveness, Unvouched, Observation, Subject
  <1>2. /\ copy \in Subject
        /\ copy.lifecycle = r.lifecycle /\ copy.version = r.version
        /\ copy.controller = r.controller /\ copy.state = r.state /\ copy.token = r.token
        /\ obs.session \/ copy = r
    <2> HIDE DEF r, obs
    <2> QED BY <1>1, LeaseConstants DEF VouchedCopy, Subject, Observation
  <1>3. sub = IF Expired(r) THEN [copy EXCEPT !.state = "orphaned", !.token = NoToken] ELSE copy
    BY DEF ExpiredCopy, ObservedLeaseCopy, Expired
  <1>4. LeaseHasExpired(copy, obs) => LeaseHasExpired(r, obs)
    <2> HIDE DEF r, obs, copy
    <2> QED BY <1>2 DEF LeaseHasExpired, IsControlled
  <1>5. Expired(copy) => Expired(r)
    <2>1. ControllerLiveness(copy) = obs
      BY <1>2 DEF ControllerLiveness
    <2> HIDE DEF copy
    <2> QED BY <1>4, <2>1 DEF Expired
  <1> SUFFICES /\ sub.lifecycle = r.lifecycle /\ sub.version = r.version
               /\ sub.controller = r.controller
               /\ Expired(r) => sub.state = "orphaned" /\ sub.token = NoToken
               /\ ~Expired(r) => sub.state = r.state /\ sub.token = r.token /\ ~Expired(sub)
    OBVIOUS
  <1> HIDE DEF copy, sub, obs, r
  <1>6. CASE Expired(r)
    BY <1>2, <1>3, <1>6 DEF Subject
  <1>7. CASE ~Expired(r)
    BY <1>2, <1>3, <1>5, <1>7
  <1> QED BY <1>6, <1>7

\* The credential is accepted exactly while its lease is held.
LEMMA AcceptedIsHeld ==
    ASSUME StepInv, NEW g \in granted
    PROVE  Authenticates(g) <=> Holds(g)
  <1> DEFINE r == subjects[g.subject]
             sub == ExpiredCopy(r)
  <1>1. g.subject \in SubjectIds
    BY DEF StepInv, Inv, TypeOK, Credential
  <1>2. /\ sub.controller = r.controller
        /\ Expired(r) => sub.state = "orphaned" /\ sub.token = NoToken
        /\ ~Expired(r) => sub.state = r.state /\ sub.token = r.token /\ ~Expired(sub)
    BY <1>1, SeenCarries
  <1>3. Authenticates(g) <=> /\ ~Expired(sub) /\ sub.state # "orphaned"
                             /\ IsControlled(sub) /\ sub.controller = g.controller
                             /\ sub.token # NoToken /\ sub.token = g.token
    BY DEF Authenticates, AuthCode, AnyVersion, Expired
  <1>4. Holds(g) <=> /\ IsControlled(r) /\ r.controller = g.controller /\ r.token = g.token
                     /\ g.token # NoToken /\ ~Expired(r)
    BY DEF Holds
  <1> HIDE DEF r, sub
  <1>5. IsControlled(r) <=> r.state \in {"active", "contested"} /\ r.controller # NoController
    BY DEF IsControlled
  <1>6. IsControlled(sub) <=> sub.state \in {"active", "contested"} /\ sub.controller # NoController
    BY DEF IsControlled
  <1> QED BY <1>2, <1>3, <1>4, <1>5, <1>6

-----------------------------------------------------------------------------
\* A lease as it was seen, contested, renewed or with another lifecycle: it is
\* ended when it had expired and carried on otherwise.
LEMMA SeenSettles ==
    ASSUME StepInv, NEW s \in SubjectIds, NEW q,
           q.controller = ExpiredCopy(subjects[s]).controller,
           q.token = ExpiredCopy(subjects[s]).token,
           IsControlled(q) <=> IsControlled(ExpiredCopy(subjects[s])),
           q.expiresAt \in {ExpiredCopy(subjects[s]).expiresAt, now + LeaseDuration}
    PROVE  /\ Settled(s, q)
           /\ ~Expired(subjects[s]) => CarriedOn(s, q)
  <1> DEFINE r == subjects[s]
             sub == ExpiredCopy(r)
             obs == ControllerLiveness(r)
  <1>1. /\ sub.controller = r.controller
        /\ Expired(r) => sub.token = NoToken
        /\ ~Expired(r) => sub.state = r.state /\ sub.token = r.token /\ ~Expired(sub)
    BY SeenCarries
  <1>2. CASE Expired(r)
    BY <1>1, <1>2 DEF Settled, Ended
  <1>3. CASE ~Expired(r)
    <2>1. IsControlled(q) <=> IsControlled(r)
      BY <1>1, <1>3 DEF IsControlled
    <2>2. ControllerLiveness(q) = obs /\ ControllerLiveness(sub) = obs
      BY <1>1 DEF ControllerLiveness
    <2>3. ~LeaseHasExpired(sub, obs)
      BY <1>1, <1>3, <2>2 DEF Expired
    <2>4. q.expiresAt = sub.expiresAt \/ q.expiresAt = now + LeaseDuration
      OBVIOUS
    <2>5. IsControlled(q) <=> IsControlled(sub)
      OBVIOUS
    <2>6. now \in Nat
      BY DEF StepInv, Inv, TypeOK
    <2>7. LeaseDuration > 0 => ~LeaseHasExpired(q, obs)
      <3> HIDE DEF sub, obs, r
      <3> QED BY <2>3, <2>4, <2>5, <2>6, LeaseConstants DEF LeaseHasExpired
    <2>8. LeaseDuration > 0 => ~Expired(q)
      BY <2>2, <2>7 DEF Expired
    <2>9. CarriedOn(s, q)
      BY <1>1, <1>3, <2>1, <2>8 DEF CarriedOn
    <2> QED BY <2>9 DEF Settled
  <1> QED BY <1>2, <1>3

LEMMA VariantsSettle ==
    ASSUME StepInv, NEW s \in SubjectIds, NEW l
    PROVE  LET sub == ExpiredCopy(subjects[s])
               Good(q) == /\ Settled(s, q)
                          /\ ~Expired(subjects[s]) => CarriedOn(s, q)
           IN /\ Good(sub)
              /\ Good([sub EXCEPT !.lifecycle = l])
              /\ IsControlled(sub) => Good(Contested(sub)) /\ Good(Renewed(sub))
  <1> DEFINE sub == ExpiredCopy(subjects[s])
             relived == [sub EXCEPT !.lifecycle = l]
             contested == Contested(sub)
             renewed == Renewed(sub)
  <1>1. sub \in Subject
    BY ExpiredCopyType DEF StepInv, Inv, TypeOK
  <1> HIDE DEF sub
  <1>2. /\ relived.controller = sub.controller /\ relived.token = sub.token
        /\ relived.expiresAt = sub.expiresAt /\ relived.state = sub.state
    BY <1>1 DEF Subject
  <1>3. /\ contested.controller = sub.controller /\ contested.token = sub.token
        /\ contested.expiresAt = sub.expiresAt /\ contested.state = "contested"
    BY <1>1 DEF Subject, Contested
  <1>4. /\ renewed.controller = sub.controller /\ renewed.token = sub.token
        /\ renewed.expiresAt = now + LeaseDuration /\ renewed.state = "active"
    BY <1>1 DEF Subject, Renewed
  <1>5. IsControlled(relived) <=> IsControlled(sub)
    BY <1>2 DEF IsControlled
  <1>6. IsControlled(sub) => IsControlled(contested) /\ IsControlled(renewed)
    BY <1>3, <1>4 DEF IsControlled
  <1> HIDE DEF relived, contested, renewed
  <1>7. Settled(s, sub) /\ (~Expired(subjects[s]) => CarriedOn(s, sub))
    BY SeenSettles DEF sub
  <1>8. Settled(s, relived) /\ (~Expired(subjects[s]) => CarriedOn(s, relived))
    BY <1>2, <1>5, SeenSettles DEF sub
  <1>9. IsControlled(sub) => /\ Settled(s, contested) /\ Settled(s, renewed)
                             /\ ~Expired(subjects[s]) => /\ CarriedOn(s, contested)
                                                         /\ CarriedOn(s, renewed)
    <2>1. ASSUME IsControlled(sub)
          PROVE  Settled(s, contested) /\ (~Expired(subjects[s]) => CarriedOn(s, contested))
      BY <1>3, <1>6, <2>1, SeenSettles DEF sub
    <2>2. ASSUME IsControlled(sub)
          PROVE  Settled(s, renewed) /\ (~Expired(subjects[s]) => CarriedOn(s, renewed))
      BY <1>4, <1>6, <2>2, SeenSettles DEF sub
    <2> QED BY <2>1, <2>2
  <1> QED BY <1>7, <1>8, <1>9 DEF sub, relived, contested, renewed

\* A new token ends the lease that was there.
LEMMA NewTokenSettles ==
    ASSUME NEW s, NEW sub, NEW c
    PROVE  Settled(s, WithNewController(s, sub, c))
  BY DEF WithNewController, Settled, Ended

LEMMA ReleasedSettles ==
    ASSUME StepInv, NEW s \in SubjectIds
    PROVE  Settled(s, Released(ExpiredCopy(subjects[s])))
  <1>1. ExpiredCopy(subjects[s]) \in Subject
    BY ExpiredCopyType DEF StepInv, Inv, TypeOK
  <1> QED BY <1>1 DEF Released, Settled, Ended, Subject

LEMMA LiveIsSeenControlled ==
    ASSUME StepInv, NEW s \in SubjectIds, Live(s)
    PROVE  /\ IsControlled(ExpiredCopy(subjects[s]))
           /\ ExpiredCopy(subjects[s]).state # "orphaned"
           /\ s \in Known
  BY SeenCarries DEF Live, IsControlled, Known

\* A contender's claim never ends a live lease; the holder's own is a new version.
LEMMA ClaimSettles ==
    ASSUME StepInv, NEW s \in SubjectIds, NEW c \in Controllers
    PROVE  LET acquired == AcquireOutcome(s, c).subject
               adopted == AdoptOutcome(s, c).subject
           IN /\ Settled(s, acquired)
              /\ Settled(s, adopted)
              /\ Live(s) => \/ CarriedOn(s, acquired)
                            \/ /\ subjects[s].controller = c /\ acquired.controller = c
                               /\ acquired.version = subjects[s].version + 1
              /\ Live(s) => CarriedOn(s, adopted)
  <1> DEFINE sub == ExpiredCopy(subjects[s])
             fresh == WithNewController(s, sub, c)
             acquired == AcquireOutcome(s, c).subject
             adopted == AdoptOutcome(s, c).subject
  <1>1. /\ acquired \in {sub, Contested(sub), fresh}
        /\ acquired = Contested(sub) => IsControlled(sub) \/ acquired \in {sub, fresh}
        /\ IsControlled(sub) => \/ acquired \in {sub, Contested(sub)}
                                \/ acquired = fresh /\ sub.controller = c
    BY DEF AcquireOutcome, Outcome
  <1>2. /\ adopted \in {sub, Contested(sub), fresh}
        /\ adopted = Contested(sub) => IsControlled(sub) \/ adopted \in {sub, fresh}
        /\ IsControlled(sub) => adopted \in {sub, Contested(sub)}
    BY DEF AdoptOutcome, Outcome
  <1>3. /\ Settled(s, sub) /\ Settled(s, fresh)
        /\ ~Expired(subjects[s]) => CarriedOn(s, sub)
        /\ IsControlled(sub) => /\ Settled(s, Contested(sub))
                                /\ ~Expired(subjects[s]) => CarriedOn(s, Contested(sub))
    BY VariantsSettle, NewTokenSettles
  <1>4. fresh.controller = c /\ fresh.version = subjects[s].version + 1
    BY SeenCarries DEF WithNewController
  <1>5. sub.controller = subjects[s].controller
    BY SeenCarries
  <1>6. Live(s) => IsControlled(sub) /\ ~Expired(subjects[s])
    BY LiveIsSeenControlled DEF Live
  <1> HIDE DEF sub, fresh, acquired, adopted
  <1>7. Settled(s, acquired) /\ Settled(s, adopted)
    BY <1>1, <1>2, <1>3
  <1>8. Live(s) => \/ CarriedOn(s, acquired)
                   \/ /\ subjects[s].controller = c /\ acquired.controller = c
                      /\ acquired.version = subjects[s].version + 1
    BY <1>1, <1>3, <1>4, <1>5, <1>6
  <1>9. Live(s) => CarriedOn(s, adopted)
    BY <1>2, <1>3, <1>6
  <1> QED BY <1>7, <1>8, <1>9 DEF acquired, adopted

\* Registration makes a subject that was absent and leaves any other alone.
LEMMA RegisteredSettles ==
    ASSUME StepInv, NEW s \in SubjectIds, NEW c \in Controllers \cup {NoController}
    PROVE  /\ Settled(s, Registered(s, c).subject)
           /\ Live(s) => Same(s, Registered(s, c).subject)
  <1>1. CASE s \in Known
    BY <1>1 DEF Registered, Outcome, Settled, Same
  <1>2. CASE s \notin Known
    <2>1. Registered(s, c).subject.token \in {NoToken, minted[s] + 1}
      BY <1>2 DEF Registered, Outcome, UnownedSubject
    <2>2. ~Live(s)
      BY <1>2, LiveIsSeenControlled
    <2> QED BY <2>1, <2>2 DEF Settled, Ended
  <1> QED BY <1>1, <1>2

-----------------------------------------------------------------------------
\* What a commit does to every subject follows from its outcomes.
LEMMA CommitSettles ==
    ASSUME StepInv, NEW m, NEW out, NEW beat \in Controllers \cup {NoController}, NEW id,
           Commit(m, out, beat, id),
           \A s \in DOMAIN out : Settled(s, out[s].subject)
    PROVE  /\ now' = now /\ liveness' = liveness /\ granted \subseteq granted'
           /\ \A s \in SubjectIds :
                 /\ Settled(s, subjects'[s])
                 /\ s \in DOMAIN out => subjects'[s] = out[s].subject
                 /\ s \notin DOMAIN out => Same(s, subjects'[s])
  <1>1. now' = now /\ liveness' = liveness
    BY HeartbeatChangesNothing
  <1>2. granted \subseteq granted'
    BY DEF Commit
  <1>3. \A s \in SubjectIds : subjects'[s] = IF s \in DOMAIN out THEN out[s].subject
                                             ELSE subjects[s]
    BY DEF Commit
  <1>4. \A s \in SubjectIds : Same(s, subjects[s])
    BY DEF Same
  <1> QED BY <1>1, <1>2, <1>3, <1>4 DEF Settled

\* No token that was issued is among the ends of a lease.
LEMMA IssuedIsNotNew ==
    ASSUME StepInv, NEW g \in granted
    PROVE  /\ g.subject \in SubjectIds /\ g.controller \in Controllers
           /\ g.token # minted[g.subject] + 1
           /\ g.version <= subjects[g.subject].version
           /\ subjects[g.subject].version \in Nat /\ g.version \in Nat
  BY DEF StepInv, Inv, Fence, TypeOK, Credential, Subject

LEMMA NotRevived ==
    ASSUME StepInv, now' = now, liveness' = liveness, NEW g \in granted,
           Settled(g.subject, subjects'[g.subject]), Holds(g)'
    PROVE  Holds(g)
  <1> DEFINE s == g.subject
             q == subjects'[s]
  <1>1. /\ IsControlled(q) /\ q.controller = g.controller /\ q.token = g.token
        /\ g.token # NoToken /\ ~Expired(q)
    BY DEF Holds, Expired, LeaseHasExpired, PastGrace, ControllerLiveness, IsControlled
  <1>2. ~Ended(s, q)
    BY <1>1, IssuedIsNotNew DEF Ended
  <1>3. CASE CarriedOn(s, q)
    BY <1>1, <1>3 DEF CarriedOn, Holds
  <1>4. CASE Same(s, q)
    <2>1. ControllerLiveness(q) = ControllerLiveness(subjects[s])
      BY <1>4 DEF Same, ControllerLiveness
    <2>2. ~Expired(subjects[s])
      BY <1>1, <1>4, <2>1 DEF Same, Expired, LeaseHasExpired, IsControlled
    <2> QED BY <1>1, <1>4, <2>2 DEF Same, Holds, IsControlled
  <1> QED BY <1>2, <1>3, <1>4 DEF Settled

LEMMA KeptHolds ==
    ASSUME StepInv, now' = now, liveness' = liveness, LeaseDuration > 0, NEW g \in granted,
           Same(g.subject, subjects'[g.subject]) \/ CarriedOn(g.subject, subjects'[g.subject]),
           Holds(g)
    PROVE  Holds(g)'
  <1> DEFINE s == g.subject
             q == subjects'[s]
  <1>1. CASE CarriedOn(s, q)
    <2>1. /\ IsControlled(q) /\ q.controller = g.controller /\ q.token = g.token
          /\ g.token # NoToken /\ ~Expired(q)
      BY <1>1 DEF CarriedOn, Holds
    <2> QED
      BY <2>1 DEF Holds, Expired, LeaseHasExpired, PastGrace, ControllerLiveness, IsControlled
  <1>2. CASE Same(s, q)
    <2>1. ControllerLiveness(q) = ControllerLiveness(subjects[s])
      BY <1>2 DEF Same, ControllerLiveness
    <2>2. /\ IsControlled(q) /\ q.controller = g.controller /\ q.token = g.token
          /\ g.token # NoToken /\ ~Expired(q)
      BY <1>2, <2>1 DEF Same, Holds, Expired, LeaseHasExpired, IsControlled
    <2> QED
      BY <2>2 DEF Holds, Expired, LeaseHasExpired, PastGrace, ControllerLiveness, IsControlled
  <1> QED BY <1>1, <1>2

-----------------------------------------------------------------------------
\* What DispossessedByRight grants: the reasons a holder may lose its lease for.
ByRight(g) ==
    \/ now' # now
    \/ handoffs' # handoffs
    \/ /\ subjects'[g.subject].controller = g.controller
       /\ subjects'[g.subject].version > g.version
    \/ \E m \in IF receipts' = receipts THEN {Fresh} ELSE receipts' \ receipts,
         sel \in {x \in Selections : g.subject \in x} :
          \E cred \in {x \in Credentials(sel) : x.tokens[g.subject] = g.token} :
             IF subjects'[g.subject].state = "released"
             THEN Release(m, sel, g.controller, cred)
             ELSE Transfer(m, sel, g.controller, cred, subjects'[g.subject].controller)

Kept(g) == Same(g.subject, subjects'[g.subject]) \/ CarriedOn(g.subject, subjects'[g.subject])

\* A step that moves neither the clock nor an observation, seen from the leases.
Judged ==
    /\ now' = now /\ liveness' = liveness /\ granted \subseteq granted'
    /\ \A s \in SubjectIds : Settled(s, subjects'[s])
    /\ \A g \in granted : Holds(g) => Kept(g) \/ ByRight(g)

LEMMA RegisterJudged ==
    ASSUME StepInv, NEW m, NEW s \in SubjectIds, NEW c \in Controllers \cup {NoController},
           RegisterSubject(m, s, c)
    PROVE  Judged
  <1> DEFINE out == [x \in {s} |-> Registered(x, c)]
             beat == IF s \in Known THEN NoController ELSE c
  <1>1. Commit(m, out, beat, 0)
    BY DEF RegisterSubject
  <1>2. beat \in Controllers \cup {NoController}
    OBVIOUS
  <1>3. /\ DOMAIN out = {s}
        /\ Settled(s, out[s].subject)
        /\ Live(s) => Same(s, out[s].subject)
    BY RegisteredSettles
  <1> HIDE DEF out, beat
  <1>4. /\ now' = now /\ liveness' = liveness /\ granted \subseteq granted'
        /\ \A t \in SubjectIds : /\ Settled(t, subjects'[t])
                                 /\ t \in DOMAIN out => subjects'[t] = out[t].subject
                                 /\ t \notin DOMAIN out => Same(t, subjects'[t])
    BY <1>1, <1>2, <1>3, CommitSettles
  <1>5. \A g \in granted : Holds(g) => Kept(g)
    BY <1>3, <1>4, IssuedIsNotNew DEF Holds, Live, Kept
  <1> QED BY <1>4, <1>5 DEF Judged

LEMMA ClaimJudged ==
    ASSUME StepInv, NEW m, NEW sel \in SUBSET SubjectIds, NEW c \in Controllers,
           Acquire(m, sel, c) \/ Adopt(m, sel, c)
    PROVE  Judged
  <1> DEFINE acquired == [s \in sel |-> AcquireOutcome(s, c)]
             adopted == [s \in sel |-> AdoptOutcome(s, c)]
  <1>1. PICK out \in {acquired, adopted} : OwnershipMutation(m, out, c)
    BY DEF Acquire, Adopt
  <1>2. DOMAIN out = sel
    OBVIOUS
  <1>3. \A s \in sel :
           /\ Settled(s, out[s].subject)
           /\ Live(s) => \/ CarriedOn(s, out[s].subject)
                         \/ /\ subjects[s].controller = c /\ out[s].subject.controller = c
                            /\ out[s].subject.version = subjects[s].version + 1
    BY ClaimSettles
  <1> DEFINE beat == IF Grants(out) = {} THEN NoController ELSE c
  <1>4. Commit(m, out, beat, 0) /\ beat \in Controllers \cup {NoController}
    BY <1>1 DEF OwnershipMutation
  <1> HIDE DEF acquired, adopted, beat
  <1>5. /\ now' = now /\ liveness' = liveness /\ granted \subseteq granted'
        /\ \A t \in SubjectIds : /\ Settled(t, subjects'[t])
                                 /\ t \in DOMAIN out => subjects'[t] = out[t].subject
                                 /\ t \notin DOMAIN out => Same(t, subjects'[t])
    BY <1>2, <1>3, <1>4, CommitSettles
  <1>6. ASSUME NEW g \in granted, Holds(g) PROVE Kept(g) \/ ByRight(g)
    <2> DEFINE s == g.subject
    <2>1. Live(s) /\ subjects[s].controller = g.controller
      BY <1>6 DEF Holds, Live
    <2>2. CASE s \notin sel
      BY <1>2, <1>5, <2>2, IssuedIsNotNew DEF Kept
    <2>3. CASE s \in sel /\ CarriedOn(s, out[s].subject)
      BY <1>2, <1>5, <2>3, IssuedIsNotNew DEF Kept
    <2>4. CASE /\ s \in sel /\ subjects[s].controller = c /\ out[s].subject.controller = c
               /\ out[s].subject.version = subjects[s].version + 1
      <3>1. subjects'[s] = out[s].subject
        BY <1>2, <1>5, <2>4, IssuedIsNotNew
      <3>2. subjects'[s].controller = g.controller /\ subjects'[s].version > g.version
        BY <2>1, <2>4, <3>1, IssuedIsNotNew
      <3> QED BY <3>2 DEF ByRight
    <2> QED BY <1>3, <2>1, <2>2, <2>3, <2>4
  <1> QED BY <1>5, <1>6 DEF Judged

\* An authenticated mutation settles what it accepts and carries on the rest.
Acceptable(sel, accepted) ==
    \A s \in sel : IsControlled(ExpiredCopy(subjects[s])) => Settled(s, accepted[s].subject)

Authentic(sel, c, cred, accepted) ==
    /\ now' = now /\ liveness' = liveness /\ granted \subseteq granted'
    /\ \A s \in SubjectIds : Settled(s, subjects'[s])
    /\ \A g \in granted : Holds(g) =>
          \/ Kept(g)
          \/ /\ g.subject \in sel /\ c = g.controller
             /\ cred.tokens[g.subject] = g.token
             /\ subjects'[g.subject] = accepted[g.subject].subject

LEMMA AuthenticatedSettles ==
    ASSUME StepInv, NEW m, NEW sel \in SUBSET SubjectIds, NEW c \in Controllers, NEW cred,
           NEW accepted, AuthenticatedMutation(m, sel, c, cred, accepted),
           Acceptable(sel, accepted)
    PROVE  Authentic(sel, c, cred, accepted)
  <1> DEFINE seen(s) == ExpiredCopy(subjects[s])
             code(s) == AuthCode(seen(s), c, cred.tokens[s], cred.version)
             out == [s \in sel |-> IF code(s) = "OK" THEN accepted[s]
                                  ELSE Outcome(seen(s), code(s))]
             beat == IF \E s \in sel : code(s) = "OK" THEN c ELSE NoController
  <1>1. Commit(m, out, beat, 0)
    BY DEF AuthenticatedMutation
  <1>2. beat \in Controllers \cup {NoController}
    OBVIOUS
  <1>3. \A s \in sel : code(s) = "OK" => /\ IsControlled(seen(s)) /\ seen(s).controller = c
                                         /\ seen(s).token = cred.tokens[s]
    BY DEF AuthCode
  <1>4. DOMAIN out = sel
    OBVIOUS
  <1>5. \A s \in sel : out[s].subject = IF code(s) = "OK" THEN accepted[s].subject ELSE seen(s)
    BY DEF Outcome
  <1>6. \A s \in sel : Settled(s, seen(s)) /\ (~Expired(subjects[s]) => CarriedOn(s, seen(s)))
    BY VariantsSettle
  <1> HIDE DEF out, beat, code
  <1>7. \A s \in sel : Settled(s, out[s].subject)
    BY <1>3, <1>5, <1>6 DEF Acceptable
  <1> HIDE DEF seen
  <1>8. /\ now' = now /\ liveness' = liveness /\ granted \subseteq granted'
        /\ \A t \in SubjectIds : /\ Settled(t, subjects'[t])
                                 /\ t \in DOMAIN out => subjects'[t] = out[t].subject
                                 /\ t \notin DOMAIN out => Same(t, subjects'[t])
    BY <1>1, <1>2, <1>4, <1>7, CommitSettles
  <1>9. ASSUME NEW g \in granted, Holds(g)
        PROVE  \/ Kept(g)
               \/ /\ g.subject \in sel /\ c = g.controller
                  /\ cred.tokens[g.subject] = g.token
                  /\ subjects'[g.subject] = accepted[g.subject].subject
    <2> DEFINE s == g.subject
    <2>1. /\ ~Expired(subjects[s]) /\ subjects[s].controller = g.controller
          /\ subjects[s].token = g.token /\ s \in SubjectIds
      BY <1>9, IssuedIsNotNew DEF Holds
    <2>2. CASE s \notin sel
      BY <1>4, <1>8, <2>1, <2>2 DEF Kept
    <2>3. CASE s \in sel /\ code(s) # "OK"
      BY <1>4, <1>5, <1>6, <1>8, <2>1, <2>3 DEF Kept
    <2>4. CASE s \in sel /\ code(s) = "OK"
      <3>1. seen(s).controller = subjects[s].controller /\ seen(s).token = subjects[s].token
        BY <2>1, SeenCarries DEF seen
      <3> QED BY <1>3, <1>4, <1>5, <1>8, <2>1, <2>4, <3>1
    <2> QED BY <2>2, <2>3, <2>4
  <1> QED BY <1>8, <1>9 DEF Authentic

\* Renewing and updating the lifecycle carry on what they accept.
LEMMA HolderJudged ==
    ASSUME StepInv, NEW m, NEW sel \in SUBSET SubjectIds, NEW c \in Controllers, NEW cred,
           \/ Renew(m, sel, c, cred)
           \/ \E s \in sel, l \in Lifecycles : sel = {s} /\ UpdateLifecycle(m, s, c, cred, l)
    PROVE  Judged
  <1>1. ASSUME NEW accepted, AuthenticatedMutation(m, sel, c, cred, accepted),
               \A s \in sel : IsControlled(ExpiredCopy(subjects[s])) =>
                     /\ Settled(s, accepted[s].subject)
                     /\ ~Expired(subjects[s]) => CarriedOn(s, accepted[s].subject)
        PROVE  Judged
    <2>0. Acceptable(sel, accepted)
      BY <1>1 DEF Acceptable
    <2>1. Authentic(sel, c, cred, accepted)
      BY <1>1, <2>0, AuthenticatedSettles
    <2>2. \A g \in granted : Holds(g) => Live(g.subject)
      BY DEF Holds, Live
    <2>3. \A g \in granted : Holds(g) => Kept(g)
      BY <1>1, <2>1, <2>2, LiveIsSeenControlled DEF Kept, Live, Authentic
    <2> QED BY <2>1, <2>3 DEF Judged, Authentic
  <1>2. CASE Renew(m, sel, c, cred)
    <2> DEFINE renewed == [s \in sel |-> Outcome(Renewed(ExpiredCopy(subjects[s])),
                                                "ALREADY_CONTROLLED")]
    <2>1. AuthenticatedMutation(m, sel, c, cred, renewed)
      BY <1>2 DEF Renew
    <2>2. \A s \in sel : renewed[s].subject = Renewed(ExpiredCopy(subjects[s]))
      BY DEF Outcome
    <2> HIDE DEF renewed
    <2> QED BY <1>1, <2>1, <2>2, VariantsSettle
  <1>3. ASSUME NEW s \in sel, NEW l \in Lifecycles, sel = {s}, UpdateLifecycle(m, s, c, cred, l)
        PROVE  Judged
    <2> DEFINE updated == [x \in {s} |-> Outcome([ExpiredCopy(subjects[x]) EXCEPT !.lifecycle = l],
                                                "ALREADY_CONTROLLED")]
    <2>1. AuthenticatedMutation(m, sel, c, cred, updated)
      BY <1>3 DEF UpdateLifecycle
    <2>2. updated[s].subject = [ExpiredCopy(subjects[s]) EXCEPT !.lifecycle = l]
      BY DEF Outcome
    <2> HIDE DEF updated
    <2>3. Settled(s, updated[s].subject) /\ (~Expired(subjects[s]) => CarriedOn(s, updated[s].subject))
      BY <2>2, VariantsSettle
    <2> QED BY <1>1, <1>3, <2>1, <2>3
  <1> QED BY <1>2, <1>3

\* Releasing and transferring end a lease only for the holder's own token.
LEMMA GivenUpJudged ==
    ASSUME StepInv, NEW m \in MutationIds \cup {Fresh}, NEW sel \in Selections,
           NEW c \in Controllers, NEW cred \in Credentials(sel), NEW d \in Controllers,
           Release(m, sel, c, cred) \/ Transfer(m, sel, c, cred, d)
    PROVE  Judged
  <1>0. sel \in SUBSET SubjectIds
    BY SelectionsKnown DEF Known
  <1> DEFINE released == [s \in sel |-> Outcome(Released(ExpiredCopy(subjects[s])), "RELEASED")]
             moved == [s \in sel |-> Outcome(WithNewController(s, ExpiredCopy(subjects[s]), d),
                                            "TRANSFERRED")]
  <1>1. /\ Release(m, sel, c, cred) => AuthenticatedMutation(m, sel, c, cred, released)
        /\ Transfer(m, sel, c, cred, d) => AuthenticatedMutation(m, sel, c, cred, moved)
    BY DEF Release, Transfer
  <1>2. /\ \A s \in sel : Settled(s, released[s].subject)
        /\ \A s \in sel : Settled(s, moved[s].subject)
    BY <1>0, ReleasedSettles, NewTokenSettles DEF Outcome
  <1>3. /\ \A s \in sel : released[s].subject.state = "released"
        /\ \A s \in sel : moved[s].subject.state = "active" /\ moved[s].subject.controller = d
    <2>1. \A s \in sel : ExpiredCopy(subjects[s]) \in Subject
      BY <1>0, ExpiredCopyType DEF StepInv, Inv, TypeOK
    <2> QED BY <2>1 DEF Outcome, Released, WithNewController, Subject
  <1> HIDE DEF released, moved
  <1>4. m \in IF receipts' = receipts THEN {Fresh} ELSE receipts' \ receipts
    <2>1. NotReplayed(m) /\ Receipt(m)
      BY <1>1 DEF AuthenticatedMutation, Commit
    <2> QED BY <2>1, LeaseConstants DEF NotReplayed, Receipt
  <1>5. ASSUME NEW g \in granted, g.subject \in sel, c = g.controller,
               cred.tokens[g.subject] = g.token,
               \/ /\ Release(m, sel, c, cred)
                  /\ subjects'[g.subject] = released[g.subject].subject
               \/ /\ Transfer(m, sel, c, cred, d)
                  /\ subjects'[g.subject] = moved[g.subject].subject
        PROVE  ByRight(g)
    <2>1. \/ Release(m, sel, g.controller, cred) /\ subjects'[g.subject].state = "released"
          \/ /\ Transfer(m, sel, g.controller, cred, subjects'[g.subject].controller)
             /\ subjects'[g.subject].state # "released"
      BY <1>3, <1>5
    <2>2. /\ sel \in {x \in Selections : g.subject \in x}
          /\ cred \in {x \in Credentials(sel) : x.tokens[g.subject] = g.token}
      BY <1>5
    <2> QED BY <1>4, <2>1, <2>2 DEF ByRight
  <1>6. CASE Release(m, sel, c, cred)
    <2>1. Authentic(sel, c, cred, released)
      BY <1>0, <1>1, <1>2, <1>6, AuthenticatedSettles DEF Acceptable
    <2> QED BY <1>5, <1>6, <2>1 DEF Judged, Authentic
  <1>7. CASE Transfer(m, sel, c, cred, d)
    <2>1. Authentic(sel, c, cred, moved)
      BY <1>0, <1>1, <1>2, <1>7, AuthenticatedSettles DEF Acceptable
    <2> QED BY <1>5, <1>7, <2>1 DEF Judged, Authentic
  <1> QED BY <1>6, <1>7

\* A batch adopts and acquires only what nobody holds.
LEMMA BatchJudged ==
    ASSUME StepInv, NEW m, NEW modes, DOMAIN modes \subseteq SubjectIds, NEW c \in Controllers,
           AdoptBatch(m, modes, c)
    PROVE  Judged
  <1> DEFINE eligible == \A s \in DOMAIN modes : BatchEligible(s, modes[s])
             out == [s \in IF eligible THEN DOMAIN modes ELSE {} |->
                       Outcome(WithNewController(s, ExpiredCopy(subjects[s]), c), "ACQUIRED")]
             beat == IF eligible /\ DOMAIN modes # {} THEN c ELSE NoController
  <1>1. Commit(m, out, beat, 0)
    BY DEF AdoptBatch
  <1>2. beat \in Controllers \cup {NoController}
    OBVIOUS
  <1>3. \A s \in DOMAIN out : s \in SubjectIds /\ Settled(s, out[s].subject)
    BY NewTokenSettles DEF Outcome
  <1>4. \A s \in DOMAIN out : ~IsControlled(ExpiredCopy(subjects[s]))
    BY DEF BatchEligible
  <1> HIDE DEF out, beat
  <1>5. /\ now' = now /\ liveness' = liveness /\ granted \subseteq granted'
        /\ \A t \in SubjectIds : /\ Settled(t, subjects'[t])
                                 /\ t \in DOMAIN out => subjects'[t] = out[t].subject
                                 /\ t \notin DOMAIN out => Same(t, subjects'[t])
    BY <1>1, <1>2, <1>3, CommitSettles
  <1>6. \A g \in granted : Holds(g) => g.subject \notin DOMAIN out
    BY <1>3, <1>4, LiveIsSeenControlled DEF Holds, Live
  <1>7. \A g \in granted : Holds(g) => Kept(g)
    BY <1>5, <1>6, IssuedIsNotNew DEF Kept
  <1> QED BY <1>5, <1>7 DEF Judged

\* A directed handoff that moves anything is on record.
LEMMA HandoffJudged ==
    ASSUME StepInv, NEW m, NEW members \in SUBSET SubjectIds, NEW c \in Controllers, NEW ended,
           HandoffBatch(m, members, c, ended)
    PROVE  Judged
  <1> DEFINE eligible == \A s \in members : /\ s \in Workers
                                            /\ HandoffCandidate(s).lifecycle \notin Terminal
                                            /\ s \notin ended
             id == Cardinality(handoffs) + 1
             out == [s \in IF eligible THEN members ELSE {} |->
                       Outcome(WithNewController(s, HandoffCandidate(s), c), "TRANSFERRED")]
             beat == IF eligible THEN c ELSE NoController
             record == [id |-> id, recipient |-> c, manifest |-> members, state |-> "pending"]
  <1>1. /\ Commit(m, out, beat, id)
        /\ eligible => handoffs' = handoffs \cup {record}
    BY DEF HandoffBatch
  <1>2. beat \in Controllers \cup {NoController}
    OBVIOUS
  <1>3. \A s \in DOMAIN out : s \in SubjectIds /\ Settled(s, out[s].subject)
    BY NewTokenSettles DEF Outcome
  <1>4. ~eligible => DOMAIN out = {}
    OBVIOUS
  <1>5. record \notin handoffs
    <2>1. Cardinality(handoffs) \in Nat
      BY FS_CardinalityType DEF StepInv, Inv
    <2>2. \A h \in handoffs : h.id \in 1 .. Cardinality(handoffs)
      BY DEF StepInv, Numbered
    <2>3. record.id = Cardinality(handoffs) + 1
      OBVIOUS
    <2> HIDE DEF record
    <2> QED BY <2>1, <2>2, <2>3
  <1> HIDE DEF out, beat, record, id, eligible
  <1>6. /\ now' = now /\ liveness' = liveness /\ granted \subseteq granted'
        /\ \A t \in SubjectIds : /\ Settled(t, subjects'[t])
                                 /\ t \in DOMAIN out => subjects'[t] = out[t].subject
                                 /\ t \notin DOMAIN out => Same(t, subjects'[t])
    BY <1>1, <1>2, <1>3, CommitSettles
  <1>7. eligible => handoffs' # handoffs
    BY <1>1, <1>5
  <1>8. \A g \in granted : Holds(g) => Kept(g) \/ ByRight(g)
    BY <1>4, <1>6, <1>7, IssuedIsNotNew DEF Kept, ByRight
  <1> QED BY <1>6, <1>8 DEF Judged

LEMMA ExpireJudged ==
    ASSUME StepInv, NEW m, ExpireLeases(m)
    PROVE  Judged
  <1>1. /\ now' = now /\ liveness' = liveness /\ granted' = granted
        /\ \A s \in SubjectIds : subjects'[s] =
              IF Expired(subjects[s])
              THEN [subjects[s] EXCEPT !.state = "orphaned", !.token = NoToken] ELSE subjects[s]
    BY DEF ExpireLeases, Expired
  <1>2. \A s \in SubjectIds : subjects[s] \in Subject
    BY DEF StepInv, Inv, TypeOK
  <1>3. ASSUME NEW s \in SubjectIds
        PROVE  /\ Expired(subjects[s]) => subjects'[s].token = NoToken
               /\ ~Expired(subjects[s]) => Same(s, subjects'[s])
    BY <1>1, <1>2 DEF Subject, Same
  <1>4. \A s \in SubjectIds : Settled(s, subjects'[s])
    BY <1>3 DEF Settled, Ended
  <1>5. \A g \in granted : Holds(g) => Kept(g)
    BY <1>3, IssuedIsNotNew DEF Holds, Kept
  <1> QED BY <1>1, <1>4, <1>5 DEF Judged

LEMMA UntouchedJudged ==
    ASSUME StepInv, UNCHANGED <<now, liveness, granted>>,
           \A s \in SubjectIds : Same(s, subjects'[s])
    PROVE  Judged
  BY IssuedIsNotNew DEF Judged, Settled, Kept

LEMMA MutationJudged ==
    ASSUME StepInv, NEW m \in MutationIds \cup {Fresh}, Mutation(m)
    PROVE  \/ Judged
           \/ \E c \in Controllers, state \in {"connected", "disconnected"} :
                 ObserveControllerLiveness(m, c, state)
  <1>0. Known \subseteq SubjectIds /\ \A sel \in Selections : sel \in SUBSET SubjectIds
    BY SelectionsKnown DEF Known
  <1>1. CASE \E s \in SubjectIds, c \in Controllers \cup {NoController} : RegisterSubject(m, s, c)
    BY <1>1, RegisterJudged
  <1>2. CASE \E sel \in Selections, c \in Controllers : Acquire(m, sel, c) \/ Adopt(m, sel, c)
    BY <1>0, <1>2, ClaimJudged
  <1>3. ASSUME NEW sel \in Selections, NEW c \in Controllers, NEW cred \in Credentials(sel),
               \/ Renew(m, sel, c, cred)
               \/ Release(m, sel, c, cred)
               \/ \E d \in Controllers : Transfer(m, sel, c, cred, d)
        PROVE  Judged
    <2>1. CASE Renew(m, sel, c, cred)
      BY <1>0, <2>1, HolderJudged
    <2>2. CASE Release(m, sel, c, cred)
      BY <2>2, GivenUpJudged
    <2>3. CASE \E d \in Controllers : Transfer(m, sel, c, cred, d)
      BY <2>3, GivenUpJudged
    <2> QED BY <1>3, <2>1, <2>2, <2>3
  <1>4. ASSUME NEW s \in Known, NEW c \in Controllers, NEW l \in Lifecycles,
               NEW cred \in Credentials({s}), UpdateLifecycle(m, s, c, cred, l)
        PROVE  Judged
    <2>1. {s} \in SUBSET SubjectIds
      BY <1>0
    <2>2. \E x \in {s}, k \in Lifecycles : {s} = {x} /\ UpdateLifecycle(m, x, c, cred, k)
      BY <1>4
    <2> QED BY <2>1, <2>2, HolderJudged
  <1>5. CASE \E members \in SUBSET Known, c \in Controllers :
                \E modes \in [members -> {"adopt", "acquire"}] : AdoptBatch(m, modes, c)
    BY <1>0, <1>5, BatchJudged
  <1>6. CASE \E members \in (SUBSET SubjectIds) \ {{}}, c \in Controllers :
                \E ended \in SUBSET members : HandoffBatch(m, members, c, ended)
    BY <1>6, HandoffJudged
  <1>7. CASE ExpireLeases(m)
    BY <1>7, ExpireJudged
  <1>8. CASE \E c \in Sessions, state \in {"connected", "disconnected"} :
                ObserveControllerLiveness(m, c, state)
    BY <1>8, LeaseConstants
  <1> QED BY <1>1, <1>2, <1>3, <1>4, <1>5, <1>6, <1>7, <1>8 DEF Mutation

-----------------------------------------------------------------------------
\* An observation is replaced only after what it means for a lease was written down.
LEMMA ObservationJudged ==
    ASSUME StepInv, NEW m, NEW c \in Controllers, NEW state \in {"connected", "disconnected"},
           ObserveControllerLiveness(m, c, state), NEW g \in granted
    PROVE  /\ Holds(g)' /\ (liveness[g.controller].session \/ ~liveness'[g.controller].session)
                => Holds(g)
           /\ GracePeriod > 0 /\ Holds(g) => Holds(g)'
  <1> DEFINE s == g.subject
             r == subjects[s]
             q == subjects'[s]
  <1>1. /\ s \in SubjectIds /\ g.controller \in Controllers /\ r \in Subject
        /\ liveness \in [Controllers -> Observation] /\ now \in Nat
    BY IssuedIsNotNew DEF StepInv, Inv, TypeOK
  <1>2. /\ now' = now
        /\ q = IF r.controller = c /\ Outgoing(r, c).state = "orphaned" THEN Outgoing(r, c) ELSE r
        /\ \A d \in Controllers : d # c => liveness'[d] = liveness[d]
        /\ liveness'[c].session
        /\ liveness'[c].state = "disconnected" => liveness'[c].at = now
    BY <1>1 DEF ObserveControllerLiveness
  <1>3. /\ ExpiredCopy(r).controller = r.controller
        /\ Expired(r) => ExpiredCopy(r).state = "orphaned"
        /\ ~Expired(r) => ExpiredCopy(r).state = r.state
    BY <1>1, SeenCarries
  <1>4. Holds(g)' <=> /\ IsControlled(q) /\ q.controller = g.controller /\ q.token = g.token
                      /\ g.token # NoToken
                      /\ liveness'[g.controller].state = "disconnected" =>
                            ~(now >= liveness'[g.controller].at + GracePeriod)
                      /\ liveness'[g.controller].session \/ ~(now >= q.expiresAt)
    BY <1>1, <1>2, LeaseConstants
       DEF Holds, Expired, LeaseHasExpired, PastGrace, ControllerLiveness, IsControlled
  <1>5. Holds(g) <=> /\ IsControlled(r) /\ r.controller = g.controller /\ r.token = g.token
                     /\ g.token # NoToken /\ ~Expired(r)
    BY DEF Holds
  <1>6. r.controller = g.controller => 
          (IsControlled(r) => (Expired(r) <=>
              \/ /\ liveness[g.controller].state = "disconnected"
                 /\ now >= liveness[g.controller].at + GracePeriod
              \/ ~liveness[g.controller].session /\ now >= r.expiresAt))
    BY <1>1, LeaseConstants
       DEF Expired, LeaseHasExpired, PastGrace, ControllerLiveness, IsControlled
  <1>7. IsControlled(r) => r.state # "orphaned"
    BY DEF IsControlled
  <1>8. IsControlled(q) => q.state # "orphaned"
    BY DEF IsControlled
  <1>9. Outgoing(r, c) = IF liveness[c].session THEN ExpiredCopy(r) ELSE r
    BY DEF Outgoing
  <1> HIDE DEF q, r
  <1>10. CASE r.controller # c
    BY <1>1, <1>2, <1>4, <1>5, <1>6, <1>10
  <1>11. CASE r.controller = c
    <2>1. q = r \/ q.state = "orphaned"
      BY <1>2, <1>11
    <2>2. Holds(g) => q = r
      BY <1>2, <1>3, <1>5, <1>7, <1>9, <1>11
    <2>3. GracePeriod > 0 /\ Holds(g) => Holds(g)'
      BY <1>1, <1>2, <1>4, <1>5, <1>11, <2>2, LeaseConstants
    <2>4. ASSUME Holds(g)', liveness[g.controller].session
          PROVE  Holds(g)
      <3>1. q = r /\ g.controller = c
        BY <1>4, <1>8, <1>11, <2>1, <2>4
      <3>2. Outgoing(r, c).state # "orphaned"
        BY <1>2, <1>4, <1>8, <1>11, <2>4, <3>1
      <3>3. ~Expired(r)
        BY <1>3, <1>9, <2>4, <3>1, <3>2
      <3> QED BY <1>4, <1>5, <2>4, <3>1, <3>3
    <2>5. Holds(g)' => g.controller = c
      BY <1>4, <1>8, <1>11, <2>1
    <2> QED BY <1>2, <2>3, <2>4, <2>5
  <1> QED BY <1>10, <1>11

\* Time only expires leases.
LEMMA TickRevivesNothing ==
    ASSUME StepInv, Tick, NEW g \in granted, Holds(g)'
    PROVE  Holds(g)
  <1> DEFINE r == subjects[g.subject]
             obs == ControllerLiveness(r)
  <1>1. r \in Subject /\ obs \in Observation /\ now \in Nat
    BY IssuedIsNotNew DEF StepInv, Inv, TypeOK, ControllerLiveness, Unvouched, Observation, Subject
  <1>2. now' = now + 1 /\ subjects' = subjects /\ liveness' = liveness
    BY DEF Tick
  <1>3. r' = r /\ obs' = obs
    BY <1>2 DEF ControllerLiveness
  <1>4. ~LeaseHasExpired(r, obs)
    <2>1. ~LeaseHasExpired(r, obs)'
      BY DEF Holds, Expired
    <2> HIDE DEF r, obs
    <2> QED
      BY <1>1, <1>2, <1>3, <2>1, LeaseConstants
         DEF LeaseHasExpired, PastGrace, IsControlled, Subject, Observation
  <1> QED BY <1>2, <1>4 DEF Holds, Expired, IsControlled

LEMMA StepsJudged ==
    ASSUME StepInv, [Next]_vars
    PROVE  \/ Judged
           \/ \E m \in MutationIds \cup {Fresh}, c \in Controllers, state \in {"connected", "disconnected"} :
                 ObserveControllerLiveness(m, c, state)
           \/ Tick
  <1>1. ASSUME NEW s \in SubjectIds, NEW l \in Lifecycles, ReconcileLifecycle(s, l)
        PROVE  Judged
    <2>1. \A x \in SubjectIds : subjects[x] \in Subject
      BY DEF StepInv, Inv, TypeOK
    <2>2. subjects' = [subjects EXCEPT ![s] = [subjects[s] EXCEPT !.lifecycle = l]]
      BY <1>1 DEF ReconcileLifecycle
    <2>3. subjects \in [SubjectIds -> Subject]
      BY DEF StepInv, Inv, TypeOK
    <2>4. \A x \in SubjectIds : Same(x, subjects'[x])
      BY <2>1, <2>2, <2>3 DEF Same, Subject
    <2> QED BY <1>1, <2>4, UntouchedJudged DEF ReconcileLifecycle
  <1>2. ASSUME UNCHANGED <<now, subjects, liveness, granted>>
        PROVE  Judged
    BY <1>2, UntouchedJudged DEF Same
  <1>3. ASSUME NEW c \in Controllers, NEW ids, AcknowledgeHandoffs(c, ids)
        PROVE  Judged
    BY <1>2, <1>3 DEF AcknowledgeHandoffs
  <1>4. CASE UNCHANGED vars
    BY <1>2, <1>4 DEF vars
  <1>5. ASSUME NEW m \in MutationIds \cup {Fresh}, Mutation(m)
        PROVE  \/ Judged
               \/ \E k \in MutationIds \cup {Fresh}, c \in Controllers, state \in {"connected", "disconnected"} :
                     ObserveControllerLiveness(k, c, state)
    BY <1>5, MutationJudged
  <1> QED BY <1>1, <1>3, <1>4, <1>5 DEF Next

\* What was ever handed out stays known: no step of the log forgets a grant.
LEMMA GrantedOnlyGrows ==
    ASSUME StepInv, [Next]_vars
    PROVE  granted \subseteq granted'
  <1>1. CASE Judged
    BY <1>1 DEF Judged
  <1>2. ASSUME NEW m \in MutationIds \cup {Fresh}, NEW c \in Controllers,
               NEW state \in {"connected", "disconnected"},
               ObserveControllerLiveness(m, c, state)
        PROVE  granted' = granted
    BY <1>2 DEF ObserveControllerLiveness
  <1>3. CASE Tick
    BY <1>3 DEF Tick
  <1> QED BY <1>1, <1>2, <1>3, StepsJudged

LEMMA AcceptedIsHeldAlways == StepInv => \A g \in granted : Authenticates(g) <=> Holds(g)
  BY AcceptedIsHeld

LEMMA AcceptedIsHeldNext == (StepInv => \A g \in granted : Authenticates(g) <=> Holds(g))'
  BY AcceptedIsHeldAlways, PTL

\* A refused credential is never accepted again, but for the first session
\* observation of its controller.
THEOREM LeaseNoResurrection == Spec => NoResurrection
  <1>1. ASSUME StepInv, StepInv', [Next]_vars
        PROVE  \A g \in granted :
                  /\ ~Authenticates(g)
                  /\ liveness[g.controller].session \/ ~liveness'[g.controller].session
                  => ~Authenticates(g)'
    <2> SUFFICES ASSUME NEW g \in granted, ~Authenticates(g), Authenticates(g)',
                        liveness[g.controller].session \/ ~liveness'[g.controller].session
                 PROVE  FALSE
      OBVIOUS
    <2>1. ~Holds(g)
      BY <1>1, AcceptedIsHeld
    <2>2. granted \subseteq granted'
      BY <1>1, GrantedOnlyGrows
    <2>3. (\A h \in granted : Authenticates(h) <=> Holds(h))'
      BY <1>1, AcceptedIsHeldNext
    <2>4. Holds(g)'
      BY <1>1, <2>2, <2>3
    <2>5. CASE Judged
      BY <1>1, <2>1, <2>4, <2>5, NotRevived, IssuedIsNotNew DEF Judged
    <2>6. CASE \E m \in MutationIds \cup {Fresh}, c \in Controllers, state \in {"connected", "disconnected"} :
                  ObserveControllerLiveness(m, c, state)
      BY <1>1, <2>1, <2>4, <2>6, ObservationJudged
    <2>7. CASE Tick
      BY <1>1, <2>1, <2>4, <2>7, TickRevivesNothing
    <2> QED BY <1>1, <2>5, <2>6, <2>7, StepsJudged
  <1> QED BY <1>1, SpecStepInv, PTL DEF Spec, NoResurrection

\* A holder loses its lease only by right, given that leases and the grace of a
\* dead controller last at all: the durations are configured and not validated.
THEOREM LeaseDispossessedByRight ==
    LeaseDuration > 0 /\ GracePeriod > 0 /\ Spec => DispossessedByRight
  <1>1. ASSUME LeaseDuration > 0, GracePeriod > 0, StepInv, StepInv', [Next]_vars
        PROVE  \A g \in granted : Authenticates(g) /\ ~Authenticates(g)' => ByRight(g)
    <2> SUFFICES ASSUME NEW g \in granted, Authenticates(g), ~Authenticates(g)'
                 PROVE  ByRight(g)
      OBVIOUS
    <2>1. Holds(g)
      BY <1>1, AcceptedIsHeld
    <2>2. granted \subseteq granted'
      BY <1>1, GrantedOnlyGrows
    <2>3. (\A h \in granted : Authenticates(h) <=> Holds(h))'
      BY <1>1, AcceptedIsHeldNext
    <2>4. ~Holds(g)'
      BY <1>1, <2>2, <2>3
    <2>5. CASE Judged
      BY <1>1, <2>1, <2>4, <2>5, KeptHolds DEF Judged, Kept
    <2>6. CASE \E m \in MutationIds \cup {Fresh}, c \in Controllers, state \in {"connected", "disconnected"} :
                  ObserveControllerLiveness(m, c, state)
      BY <1>1, <2>1, <2>4, <2>6, ObservationJudged
    <2>7. CASE Tick
      <3>1. now' # now
        BY <1>1, <2>7 DEF Tick, StepInv, Inv, TypeOK
      <3> QED BY <3>1 DEF ByRight
    <2> QED BY <1>1, <2>5, <2>6, <2>7, StepsJudged
  <1>2. ASSUME LeaseDuration > 0, GracePeriod > 0
        PROVE  Spec => DispossessedByRight
    BY <1>1, <1>2, SpecStepInv, PTL DEF Spec, DispossessedByRight, ByRight
  <1> QED BY <1>2

-----------------------------------------------------------------------------
(***************************************************************************)
(* The control service over the leases.                                    *)
(*                                                                         *)
(* Every step of WorkerControl is a step of WorkerLease or changes none of *)
(* its variables, so all of the above holds of the leases while the tools  *)
(* and the operator work on them.  A tool call is several steps: what an   *)
(* earlier one read must still be something a caller of WorkerLease could  *)
(* present in a later one.  That is what ControlInv says: the worker a     *)
(* call is about has a subject, the tokens it carries were issued, and the *)
(* dialog the policy is asked about is one the broker recognises.          *)
(***************************************************************************)

\* No token without a version, and no more of them than the bound.
LeaseBounds ==
    /\ \A s \in SubjectIds : minted[s] <= subjects[s].version /\ minted[s] <= MaxVersion
    /\ Cardinality(handoffs) <= MaxHandoffs

Stages == {"idle", "register", "acquire", "adopt", "survey", "renew", "release", "transfer",
           "authorize", "mark", "policy", "members", "batch", "refused"}
Ways == {"adopt", "acquire"}
Plans == {<<>>} \cup UNION {[ws -> Ways] : ws \in SUBSET Workers}
Verbs == {"none", "recover", "renew", "release", "transfer", "handoff"} \cup Ways \cup Commands
CallRecords == [stage : Stages, verb : Verbs, by : Controllers \cup {NoController},
                worker : SUBSET Workers, tokens : {<<>>} \cup [Workers -> Nat],
                plan : Plans, shown : Dialogs \cup {NoDialog}, dead : BOOLEAN, at : Nat]

\* Tokens that were issued.
Issued(tokens) == tokens \in [Workers -> Nat] /\ \A w \in Workers : tokens[w] <= minted[w]

Fits(k) ==
    /\ k \in CallRecords
    /\ k.stage # "idle" => k.by \in Controllers
    /\ k.stage = "register" => k.verb \in Ways
    /\ k.stage \notin {"idle", "register"} => k.worker \subseteq Known
    /\ k.stage \in {"renew", "release", "transfer", "authorize", "mark"} => Issued(k.tokens)
    /\ k.stage = "policy" => k.shown \in Answerable

CallFits == Fits(call)

HandingFits ==
    /\ handing \in CallRecords
    /\ handing.stage # "idle" => handing.by \in Controllers
    /\ handing.stage \in {"members", "batch"} => handing.worker # {}

CustodyFits ==
    /\ custody \in [Controllers -> [Workers -> Nat]]
    /\ \A c \in Controllers : Issued(custody[c])

ControlInv == StepInv /\ LeaseBounds /\ CallFits /\ HandingFits /\ CustodyFits /\ PressedAsJudged

-----------------------------------------------------------------------------
\* What a step of the leases leaves to those who read them before.
Onward == /\ Known \subseteq Known' /\ \A s \in SubjectIds : minted[s] <= minted'[s]

\* A commit of good outcomes raises versions at least as far as tokens.
LEMMA CommitOnward ==
    ASSUME Inv, LeaseBounds, NEW m \in MutationIds \cup {Fresh}, GoodCommit(m),
           Cardinality(handoffs') <= MaxHandoffs
    PROVE  LeaseBounds' /\ Onward
  <1>1. PICK out : \E beat \in Controllers \cup {NoController}, id \in Nat :
                      GoodOutcomes(out) /\ Commit(m, out, beat, id)
    BY DEF GoodCommit
  <1>2. /\ GoodOutcomes(out)
        /\ \A s \in Grants(out) : out[s].subject.version <= MaxVersion
        /\ subjects' = [s \in SubjectIds |-> IF s \in DOMAIN out THEN out[s].subject ELSE subjects[s]]
        /\ minted' = [s \in SubjectIds |-> IF s \in Grants(out) THEN minted[s] + 1 ELSE minted[s]]
    BY <1>1 DEF Commit
  <1>3. ASSUME NEW s \in SubjectIds
        PROVE  /\ minted[s] <= minted'[s]
               /\ minted'[s] <= subjects'[s].version /\ minted'[s] <= MaxVersion
               /\ s \in Known => s \in Known'
    <2>1. /\ minted[s] \in Nat /\ subjects[s].version \in Nat /\ MaxVersion \in Nat
          /\ minted[s] <= subjects[s].version /\ minted[s] <= MaxVersion
      BY LeaseConstants DEF Inv, TypeOK, Subject, LeaseBounds
    <2>2. CASE s \notin DOMAIN out
      <3>1. s \notin Grants(out)
        BY <2>2 DEF Grants
      <3> QED
        BY <1>2, <2>1, <2>2, <3>1 DEF Known
    <2>3. CASE s \in DOMAIN out
      <3>1. /\ out[s].subject.version \in Nat /\ out[s].subject.version >= subjects[s].version
            /\ out[s].subject.state # "absent"
            /\ s \in Grants(out) => out[s].subject.version > subjects[s].version
        BY <1>2, <2>3 DEF GoodOutcomes, GoodOutcome, Grants, GrantCodes, Subject
      <3> QED
        BY <1>2, <2>1, <2>3, <3>1 DEF Known
    <2> QED
      BY <2>2, <2>3
  <1> QED
    BY <1>3 DEF LeaseBounds, Onward, Known

\* Any other step changes no version and no token.
Unversioned ==
    /\ minted' = minted /\ Cardinality(handoffs') <= MaxHandoffs
    /\ \A s \in SubjectIds : /\ subjects'[s].version = subjects[s].version
                             /\ subjects'[s].state = "absent" => subjects[s].state = "absent"

LEMMA QuietOnward ==
    ASSUME Inv, LeaseBounds, Unversioned
    PROVE  LeaseBounds' /\ Onward
  <1>1. ASSUME NEW s \in SubjectIds
        PROVE  /\ minted[s] <= minted'[s]
               /\ minted'[s] <= subjects'[s].version /\ minted'[s] <= MaxVersion
               /\ s \in Known => s \in Known'
    <2>1. minted[s] \in Nat /\ minted[s] <= subjects[s].version /\ minted[s] <= MaxVersion
      BY DEF Inv, TypeOK, LeaseBounds
    <2>2. /\ minted' = minted /\ subjects'[s].version = subjects[s].version
          /\ subjects'[s].state = "absent" => subjects[s].state = "absent"
      BY DEF Unversioned
    <2> QED
      BY <2>1, <2>2 DEF Known
  <1>2. Known \subseteq Known'
    BY <1>1 DEF Known
  <1>3. Cardinality(handoffs') <= MaxHandoffs
    BY DEF Unversioned
  <1> QED
    BY <1>1, <1>2, <1>3 DEF LeaseBounds, Onward

LEMMA NextOnward ==
    ASSUME Inv, LeaseBounds, [Next]_vars
    PROVE  LeaseBounds' /\ Onward
  <1>0. TypeOK /\ IsFiniteSet(handoffs) /\ Cardinality(handoffs) <= MaxHandoffs
    BY DEF Inv, LeaseBounds
  <1>1. ASSUME NEW m \in MutationIds \cup {Fresh}, Mutation(m)
        PROVE  LeaseBounds' /\ Onward
    <2>1. CASE PlainGood(m)
      BY <1>0, <2>1, CommitOnward DEF PlainGood
    <2>2. ASSUME NEW members \in SUBSET SubjectIds, NEW c \in Controllers, NEW ended \in SUBSET members,
                 GoodCommit(m), HandoffBatch(m, members, c, ended)
          PROVE  LeaseBounds' /\ Onward
      <3>1. Cardinality(handoffs) + 1 <= MaxHandoffs /\ \E record : handoffs' \in {handoffs, handoffs \cup {record}}
        BY <2>2 DEF HandoffBatch
      <3>2. PICK record : handoffs' \in {handoffs, handoffs \cup {record}}
        BY <3>1
      <3>3. Cardinality(handoffs \cup {record}) \in {Cardinality(handoffs), Cardinality(handoffs) + 1}
        BY <1>0, FS_AddElement
      <3>4. Cardinality(handoffs') <= MaxHandoffs
        BY <1>0, <3>1, <3>2, <3>3
      <3> QED
        BY <2>2, <3>4, CommitOnward
    <2>3. ASSUME NEW c \in Controllers, NEW state \in {"connected", "disconnected"},
                 ObserveControllerLiveness(m, c, state)
          PROVE  LeaseBounds' /\ Onward
      <3>1. \A s \in SubjectIds : /\ Outgoing(subjects[s], c).version = subjects[s].version
                                  /\ Outgoing(subjects[s], c).state \in {subjects[s].state, "orphaned"}
        BY <1>0, ExpiredCopyType DEF Outgoing, TypeOK
      <3>2. \A s \in SubjectIds : /\ subjects'[s].version = subjects[s].version
                                  /\ subjects'[s].state = "absent" => subjects[s].state = "absent"
        BY <2>3, <3>1 DEF ObserveControllerLiveness
      <3>3. UNCHANGED <<minted, handoffs>>
        BY <2>3 DEF ObserveControllerLiveness
      <3>4. Cardinality(handoffs') <= MaxHandoffs
        BY <1>0, <3>3
      <3> QED
        BY <3>2, <3>3, <3>4, QuietOnward DEF Unversioned
    <2>4. CASE ExpireLeases(m)
      <3>1. \A s \in SubjectIds : /\ subjects'[s].version = subjects[s].version
                                  /\ subjects'[s].state = "absent" => subjects[s].state = "absent"
        BY <1>0, <2>4 DEF ExpireLeases, TypeOK, Subject
      <3>2. UNCHANGED <<minted, handoffs>>
        BY <2>4 DEF ExpireLeases
      <3>3. Cardinality(handoffs') <= MaxHandoffs
        BY <1>0, <3>2
      <3> QED
        BY <3>1, <3>2, <3>3, QuietOnward DEF Unversioned
    <2> QED
      BY <1>1, <2>1, <2>2, <2>3, <2>4, MutationIs
  <1>2. ASSUME NEW c \in Controllers, NEW ids, AcknowledgeHandoffs(c, ids)
        PROVE  LeaseBounds' /\ Onward
    <2> DEFINE acked(h) == IF h.id \in ids THEN [h EXCEPT !.state = "acknowledged"] ELSE h
               f == [h \in handoffs |-> acked(h)]
    <2>1. handoffs' = {acked(h) : h \in handoffs} /\ UNCHANGED <<subjects, minted>>
      BY <1>2 DEF AcknowledgeHandoffs
    <2> HIDE DEF acked
    <2>2. f \in Surjection(handoffs, handoffs')
      BY <2>1 DEF Surjection
    <2> HIDE DEF f
    <2>3. IsFiniteSet(handoffs') /\ Cardinality(handoffs') <= Cardinality(handoffs)
      BY <1>0, <2>2, FS_Surjection
    <2>4. Cardinality(handoffs') <= MaxHandoffs
      BY <1>0, <2>3, FS_CardinalityType, LeaseConstants
    <2> QED
      BY <2>1, <2>4, QuietOnward DEF Unversioned
  <1>3. ASSUME NEW s \in SubjectIds, NEW l \in Lifecycles, ReconcileLifecycle(s, l)
        PROVE  LeaseBounds' /\ Onward
    <2>1. \A x \in SubjectIds : /\ subjects'[x].version = subjects[x].version
                                /\ subjects'[x].state = "absent" => subjects[x].state = "absent"
      BY <1>0, <1>3 DEF ReconcileLifecycle, TypeOK, Subject
    <2> QED
      BY <1>0, <1>3, <2>1, QuietOnward DEF Unversioned, ReconcileLifecycle
  <1>4. CASE Tick \/ UNCHANGED vars
    <2>1. UNCHANGED <<subjects, minted, handoffs>>
      BY <1>4 DEF Tick, vars
    <2> QED
      BY <1>0, <2>1, QuietOnward DEF Unversioned
  <1> QED
    BY <1>1, <1>2, <1>3, <1>4 DEF Next

-----------------------------------------------------------------------------
\* What a tool passes on is what a caller of the leases could present.
LEMMA OneKnownSelected ==
    ASSUME NEW w \in Known
    PROVE  {w} \in Selections
  BY DEF Selections

LEMMA TokenPresentable ==
    ASSUME Inv, LeaseBounds, NEW w \in Workers, NEW tokens, Issued(tokens)
    PROVE  Credential1(w, tokens[w]) \in Credentials({w})
  <1>1. /\ tokens[w] \in Nat /\ tokens[w] <= minted[w] /\ minted[w] <= MaxVersion
        /\ minted[w] \in Nat /\ MaxVersion \in Nat
    BY LeaseConstants DEF Issued, LeaseBounds, Inv, TypeOK
  <1>2. tokens[w] \in 0 .. MaxVersion
    BY <1>1
  <1> QED
    BY <1>1, <1>2 DEF Credential1, Credentials

LEMMA MutationIsNext == \A m \in MutationIds \cup {Fresh} : Mutation(m) => Next
  BY DEF Next

LEMMA ReconcileIsNext ==
    ASSUME NEW w \in Workers, ReconcileSessionLifecycle(w)
    PROVE  [Next]_vars
  <1>1. w \in SubjectIds /\ LifecycleOf(w) \in Lifecycles
    BY LeaseConstants DEF LifecycleOf, Lifecycles, Terminal
  <1> QED
    BY <1>1 DEF ReconcileSessionLifecycle, Next

\* renew, release, transfer and updateLifecycle with a token that was issued.
LEMMA AuthenticatedIsNext ==
    ASSUME Inv, LeaseBounds, NEW w \in Workers, w \in Known, NEW c \in Controllers,
           NEW tokens, Issued(tokens),
           \/ Renew(Fresh, {w}, c, Credential1(w, tokens[w]))
           \/ Release(Fresh, {w}, c, Credential1(w, tokens[w]))
           \/ \E d \in Controllers : Transfer(Fresh, {w}, c, Credential1(w, tokens[w]), d)
           \/ UpdateLifecycle(Fresh, w, c, Credential1(w, tokens[w]), "done")
    PROVE  Next
  <1>1. Credential1(w, tokens[w]) \in Credentials({w}) /\ {w} \in Selections /\ "done" \in Lifecycles
    BY TokenPresentable, OneKnownSelected DEF Lifecycles, Terminal
  <1> DEFINE cred == Credential1(w, tokens[w])
  <1> HIDE DEF cred
  <1>2. Mutation(Fresh)
    BY <1>1 DEF Mutation, cred
  <1> QED
    BY <1>2, MutationIsNext

\* lease: the tools that take, renew, release and transfer.
LEMMA LeaseToolIsNext ==
    ASSUME ControlInv, LeaseTool
    PROVE  [Next]_vars
  <1>0. Inv /\ LeaseBounds /\ CallFits /\ Workers \subseteq SubjectIds
    BY LeaseConstants DEF ControlInv, StepInv
  <1>1. ASSUME NEW c \in Controllers, NEW w \in Workers, NEW verb, TakeSingle(verb, c, w)
        PROVE  [Next]_vars
    BY <1>1, ReconcileIsNext DEF TakeSingle
  <1>2. ASSUME NEW w \in Workers, RegisterFromSession(w)
        PROVE  [Next]_vars
    <2>1. \E owner \in Controllers \cup {NoController} : RegisterSubject(Fresh, w, owner)
      BY <1>0, <1>2 DEF RegisterFromSession, CallFits, Fits
    <2> QED
      BY <1>0, <2>1, MutationIsNext DEF Mutation
  <1>3. ASSUME NEW w \in Workers, TakeAcquire(w) \/ TakeAdopt(w)
        PROVE  [Next]_vars
    <2>1. /\ call.by \in Controllers /\ w \in Known
          /\ Acquire(Fresh, {w}, call.by) \/ Adopt(Fresh, {w}, call.by)
      BY <1>0, <1>3 DEF TakeAcquire, TakeAdopt, CallFits, Fits
    <2>2. {w} \in Selections
      BY <2>1, OneKnownSelected
    <2> QED
      BY <2>1, <2>2, MutationIsNext DEF Mutation
  <1>4. ASSUME NEW w \in Workers, Survey(w)
        PROVE  [Next]_vars
    BY <1>4, ReconcileIsNext DEF Survey
  <1>5. CASE AdoptPlan
    <2>1. CASE call.plan = <<>>
      BY <1>5, <2>1 DEF AdoptPlan
    <2>2. CASE call.plan # <<>>
      <3>1. PICK ws \in SUBSET Workers : call.plan \in [ws -> Ways]
        BY <1>0, <2>2 DEF CallFits, Fits, CallRecords, Plans
      <3>2. AdoptBatch(Fresh, call.plan, call.by) /\ call.by \in Controllers
        BY <1>0, <1>5, <2>2 DEF AdoptPlan, CallFits, Fits
      <3>3. ws \subseteq Known
        BY <3>1, <3>2 DEF AdoptBatch
      <3> QED
        BY <3>1, <3>2, <3>3, MutationIsNext DEF Mutation, Ways
    <2> QED
      BY <2>1, <2>2
  <1>6. ASSUME NEW w \in Workers, RenewHeld(w) \/ ReleaseHeld(w) \/ \E d \in Controllers : TransferHeld(w, d)
        PROVE  [Next]_vars
    <2>1. /\ call.by \in Controllers /\ w \in Known /\ Issued(call.tokens)
          /\ \/ Renew(Fresh, {w}, call.by, Credential1(w, call.tokens[w]))
             \/ Release(Fresh, {w}, call.by, Credential1(w, call.tokens[w]))
             \/ \E d \in Controllers : Transfer(Fresh, {w}, call.by, Credential1(w, call.tokens[w]), d)
      BY <1>0, <1>6 DEF RenewHeld, ReleaseHeld, TransferHeld, CallFits, Fits
    <2> QED
      BY <1>0, <2>1, AuthenticatedIsNext
  <1>7. CASE \/ RegisterRefused
             \/ \E c \in Controllers : BeginSurvey(c)
             \/ \E c \in Controllers, verb \in {"renew", "release", "transfer"} : BeginAuthenticated(verb, c)
    BY <1>7 DEF RegisterRefused, BeginSurvey, BeginAuthenticated
  <1> QED
    BY <1>1, <1>2, <1>3, <1>4, <1>5, <1>6, <1>7 DEF LeaseTool

\* control: every command renews first.
LEMMA ControlToolIsNext ==
    ASSUME ControlInv, ControlTool
    PROVE  [Next]_vars
  <1>0. Inv /\ LeaseBounds /\ CallFits /\ Workers \subseteq SubjectIds
    BY LeaseConstants DEF ControlInv, StepInv
  <1>1. ASSUME NEW c, NEW w \in Workers, NEW verb, NEW d, BeginControl(verb, c, w, d)
        PROVE  [Next]_vars
    BY <1>1, ReconcileIsNext DEF BeginControl
  <1>2. ASSUME NEW w \in Workers, Authorize(w) \/ MarkStopped(w)
        PROVE  [Next]_vars
    <2>1. /\ call.by \in Controllers /\ w \in Known /\ Issued(call.tokens)
          /\ \/ Renew(Fresh, {w}, call.by, Credential1(w, call.tokens[w]))
             \/ UpdateLifecycle(Fresh, w, call.by, Credential1(w, call.tokens[w]), "done")
      BY <1>0, <1>2 DEF Authorize, MarkStopped, CallFits, Fits
    <2> QED
      BY <1>0, <2>1, AuthenticatedIsNext
  <1>3. ASSUME NEW w \in Workers, AuthorityLost(w) \/ StopWorker(w) \/ ForceStop(w) \/ Instruct(w) \/ JudgeDialog(w)
        PROVE  [Next]_vars
    <2>1. Authorize(w)
      BY <1>3 DEF AuthorityLost, StopWorker, ForceStop, Instruct, JudgeDialog
    <2> QED
      BY <1>2, <2>1
  <1>4. CASE PolicyDenies \/ \E w \in Workers : Press(w)
    BY <1>4 DEF PolicyDenies, Press
  <1> QED
    BY <1>1, <1>2, <1>3, <1>4 DEF ControlTool

LEMMA HandoffIsNext ==
    ASSUME NEW members \in SUBSET SubjectIds, members # {}, NEW c \in Controllers,
           NEW ended \in SUBSET members, HandoffBatch(Fresh, members, c, ended)
    PROVE  Next
  <1>1. members \in (SUBSET SubjectIds) \ {{}}
    OBVIOUS
  <1>2. Mutation(Fresh)
    BY <1>1 DEF Mutation
  <1> QED
    BY <1>2, MutationIsNext

\* The operator's handoff.
LEMMA OperatorIsNext ==
    ASSUME ControlInv, Operator
    PROVE  [Next]_vars
  <1>0. HandingFits /\ Workers \subseteq SubjectIds
    BY LeaseConstants DEF ControlInv
  <1>1. CASE CommitHandoff
    <2>1. /\ HandoffBatch(Fresh, handing.worker, handing.by, Refused)
          /\ handing.worker \in (SUBSET SubjectIds) \ {{}} /\ handing.by \in Controllers
          /\ Refused \subseteq handing.worker
      BY <1>0, <1>1 DEF CommitHandoff, HandingFits, CallRecords, Refused
    <2> DEFINE members == handing.worker
               c == handing.by
               ended == Refused
    <2>2. members \in SUBSET SubjectIds /\ members # {} /\ c \in Controllers /\ ended \in SUBSET members
          /\ HandoffBatch(Fresh, members, c, ended)
      BY <2>1
    <2> HIDE DEF members, c, ended
    <2> QED
      BY <2>2, HandoffIsNext
  <1>2. ASSUME NEW w \in Workers, RefuseMember(w)
        PROVE  [Next]_vars
    <2>1. "done" \in Lifecycles /\ w \in SubjectIds
      BY <1>0 DEF Lifecycles, Terminal
    <2> QED
      BY <1>2, <2>1 DEF RefuseMember, Next
  <1>3. CASE \/ \E d \in Controllers, members \in SUBSET Workers : BeginHandoff(d, members)
             \/ CheckMembers \/ HandoffRefused
    BY <1>3 DEF BeginHandoff, CheckMembers, HandoffRefused
  <1> QED
    BY <1>1, <1>2, <1>3 DEF Operator

\* Sessions, the clock and the broker.
LEMMA EnvironmentIsNext ==
    ASSUME ControlInv, Environment
    PROVE  [Next]_vars
  <1>0. StepInv /\ Workers \subseteq SubjectIds /\ Sessions \subseteq Controllers
    BY LeaseConstants DEF ControlInv
  <1>1. ASSUME NEW w \in Workers, SessionUpdate(w)
        PROVE  [Next]_vars
    BY <1>1, ReconcileIsNext DEF SessionUpdate
  <1>2. ASSUME NEW c \in Controllers, NEW state \in {"connected", "disconnected"}, OrchestratorSeen(c, state)
        PROVE  [Next]_vars
    BY <1>2, MutationIsNext DEF OrchestratorSeen, Mutation
  <1>3. CASE Time \/ Sweep
    BY <1>3, MutationIsNext DEF Time, Sweep, Next, Mutation
  <1>4. ASSUME NEW c \in Controllers, AcknowledgeEvents(c)
        PROVE  [Next]_vars
    <2> DEFINE ids == {h.id : h \in {x \in handoffs : x.recipient = c}}
    <2>1. IsFiniteSet(handoffs) /\ Cardinality(handoffs) <= MaxHandoffs /\ MaxHandoffs \in Nat
      BY LeaseConstants DEF ControlInv, StepInv, Inv, LeaseBounds
    <2>2. Cardinality(handoffs) \in Nat
      BY <2>1, FS_CardinalityType
    <2>3. \A h \in handoffs : h.id \in 1 .. MaxHandoffs
      BY <1>0, <2>1, <2>2 DEF StepInv, Numbered
    <2>4. ids \in SUBSET (1 .. MaxHandoffs) /\ AcknowledgeHandoffs(c, ids)
      BY <1>4, <2>3 DEF AcknowledgeEvents
    <2> HIDE DEF ids
    <2> QED
      BY <2>4 DEF Next
  <1>5. CASE \/ \E w \in Workers : WorkerExits(w) \/ WorkerResumes(w)
             \/ \E w \in Workers, d \in Dialogs : DialogChanges(w, d)
             \/ Restart
    BY <1>5 DEF WorkerExits, WorkerResumes, DialogChanges, Restart
  <1> QED
    BY <1>1, <1>2, <1>3, <1>4, <1>5 DEF Environment

LEMMA ControlIsNext == ControlInv /\ [ControlNext]_controlVars => [Next]_vars
  <1>1. UNCHANGED controlVars => UNCHANGED vars
    BY DEF controlVars
  <1> QED
    BY <1>1, LeaseToolIsNext, ControlToolIsNext, OperatorIsNext, EnvironmentIsNext DEF ControlNext

\* What a step keeps of the calls and of custody.
LEMMA IdleFits == Fits(Idle) /\ Idle \in CallRecords /\ Idle.stage = "idle"
  BY DEF Fits, Idle, CallRecords, Stages, Verbs, Plans

LEMMA CallingFits ==
    ASSUME NEW stage \in Stages, NEW verb \in Verbs, NEW c \in Controllers, NEW ws \in SUBSET Workers
    PROVE  /\ Calling(stage, verb, c, ws) \in CallRecords
           /\ Calling(stage, verb, c, ws).stage = stage
           /\ Calling(stage, verb, c, ws).verb = verb
           /\ Calling(stage, verb, c, ws).by = c
           /\ Calling(stage, verb, c, ws).worker = ws
  BY DEF Calling, Idle, CallRecords, Plans

\* What is issued stays issued and what is known stays known.
LEMMA FitsOnward ==
    ASSUME Inv, Inv', Onward, NEW CONSTANT k, Fits(k)
    PROVE  Fits(k)'
  <1>1. /\ \A s \in SubjectIds : minted[s] \in Nat /\ minted'[s] \in Nat /\ minted[s] <= minted'[s]
        /\ Known \subseteq Known' /\ Workers \subseteq SubjectIds
    BY LeaseConstants DEF Inv, TypeOK, Onward
  <1>2. Issued(k.tokens) => Issued(k.tokens)'
    BY <1>1 DEF Issued
  <1> QED
    BY <1>1, <1>2 DEF Fits

\* A call whose record fits the leases as they were still fits them now.
LEMMA CallOnward ==
    ASSUME Inv, Inv', Onward, Fits(call')
    PROVE  CallFits'
  <1>1. PICK k : k = call'
    OBVIOUS
  <1>2. Fits(k)'
    BY <1>1, FitsOnward
  <1>3. Fits(call)'
    BY <1>1, <1>2 DEF Fits
  <1> QED
    BY <1>3 DEF CallFits

\* A token in custody is kept, forgotten, or the newest one.
LEMMA CustodyOnward ==
    ASSUME Inv, Inv', Onward, CustodyFits, custody' \in [Controllers -> [Workers -> Nat]],
           \A c \in Controllers : \A w \in Workers : custody'[c][w] \in {custody[c][w], minted'[w], NoToken}
    PROVE  CustodyFits'
  <1>1. ASSUME NEW c \in Controllers, NEW w \in Workers
        PROVE  custody'[c][w] <= minted'[w]
    <2>1. /\ minted[w] \in Nat /\ minted'[w] \in Nat /\ minted[w] <= minted'[w]
          /\ custody[c][w] \in Nat /\ custody[c][w] <= minted[w]
      BY LeaseConstants DEF Inv, TypeOK, Onward, CustodyFits, Issued
    <2> QED
      BY <2>1 DEF NoToken
  <1> QED
    BY <1>1 DEF CustodyFits, Issued

LEMMA CustodyKept ==
    ASSUME Inv, Inv', Onward, CustodyFits, UNCHANGED custodyVars
    PROVE  CustodyFits'
  BY CustodyOnward DEF CustodyFits, custodyVars

LEMMA CustodyCaptures ==
    ASSUME Inv, Inv', Onward, CustodyFits, NEW c \in Controllers, NEW ws, CaptureTokens(c, ws)
    PROVE  CustodyFits'
  <1>1. /\ custody \in [Controllers -> [Workers -> Nat]] /\ \A w \in Workers : minted'[w] \in Nat
        /\ custody' = [custody EXCEPT ![c] = [w \in Workers |-> IF w \in ws THEN minted'[w] ELSE custody[c][w]]]
    BY LeaseConstants DEF CustodyFits, CaptureTokens, Inv, TypeOK
  <1> QED
    BY <1>1, CustodyOnward

LEMMA CustodyForgets ==
    ASSUME Inv, Inv', Onward, CustodyFits, NEW c \in Controllers, NEW w \in Workers, Forget(c, w)
    PROVE  CustodyFits'
  <1>1. /\ custody \in [Controllers -> [Workers -> Nat]] /\ NoToken \in Nat
        /\ custody' = [custody EXCEPT ![c][w] = NoToken]
    BY DEF CustodyFits, Forget, NoToken
  <1> QED
    BY <1>1, CustodyOnward

LEMMA HandingKept == HandingFits /\ UNCHANGED handing => HandingFits'
  BY DEF HandingFits

LEMMA JudgedKept == PressedAsJudged /\ UNCHANGED historyVars => PressedAsJudged'
  BY DEF PressedAsJudged, historyVars

\* The rest of a call: it has nothing to do with what a step of it changed.
LEMMA NextTargetFits ==
    ASSUME CallFits, call.stage \in {"renew", "release", "transfer"}, NEW w
    PROVE  Fits(NextTarget(w))
  <1>1. CASE call.worker = {w}
    BY <1>1, IdleFits DEF NextTarget
  <1>2. CASE call.worker # {w}
    BY <1>2 DEF NextTarget, CallFits, Fits, CallRecords
  <1> QED
    BY <1>1, <1>2

\* One more worker in the plan.
LEMMA PlanGrows ==
    ASSUME NEW plan \in Plans, NEW w \in Workers, NEW via \in Ways
    PROVE  [x \in DOMAIN plan \cup {w} |-> IF x = w THEN via ELSE plan[x]] \in Plans
  <1>1. PICK ws \in SUBSET Workers : plan \in [ws -> Ways]
    <2>1. CASE plan = <<>>
      <3>1. <<>> \in [{} -> Ways]
        OBVIOUS
      <3> QED
        BY <2>1, <3>1
    <2>2. CASE plan # <<>>
      BY <2>2 DEF Plans
    <2> QED
      BY <2>1, <2>2
  <1>2. DOMAIN plan = ws /\ \A x \in ws : plan[x] \in Ways
    BY <1>1
  <1>3. [x \in ws \cup {w} |-> IF x = w THEN via ELSE plan[x]] \in [ws \cup {w} -> Ways]
    BY <1>2
  <1>4. ws \cup {w} \in SUBSET Workers
    OBVIOUS
  <1>5. [x \in ws \cup {w} |-> IF x = w THEN via ELSE plan[x]] \in Plans
    BY <1>3, <1>4 DEF Plans
  <1> QED
    BY <1>2, <1>5

LEMMA LeaseToolKeeps ==
    ASSUME ControlInv, Inv', Onward, LeaseTool
    PROVE  CallFits' /\ HandingFits' /\ CustodyFits' /\ PressedAsJudged'
  <1>0. /\ Inv /\ LeaseBounds /\ CallFits /\ HandingFits /\ CustodyFits /\ PressedAsJudged
        /\ Workers \subseteq SubjectIds /\ now \in Nat
    BY LeaseConstants DEF ControlInv, StepInv, Inv, TypeOK
  <1>h. UNCHANGED <<handing, historyVars>> => HandingFits' /\ PressedAsJudged'
    BY <1>0, HandingKept, JudgedKept
  <1>c. UNCHANGED custodyVars => CustodyFits'
    BY <1>0, CustodyKept
  <1>1. ASSUME NEW c \in Controllers, NEW w \in Workers, NEW verb \in Ways, TakeSingle(verb, c, w)
        PROVE  CallFits' /\ HandingFits' /\ CustodyFits' /\ PressedAsJudged'
    <2> DEFINE stage == IF w \in Known THEN verb ELSE "register"
               k == Calling(stage, verb, c, {w})
    <2>1. call' = k /\ UNCHANGED <<custodyVars, handing, historyVars>>
      BY <1>1 DEF TakeSingle
    <2>2. /\ stage \in Stages /\ verb \in Verbs /\ {w} \in SUBSET Workers
          /\ stage \in Ways \cup {"register"}
          /\ stage # "register" => w \in Known
      BY DEF Stages, Verbs, Ways
    <2> HIDE DEF stage
    <2>3. /\ k \in CallRecords /\ k.stage = stage /\ k.verb = verb /\ k.by = c /\ k.worker = {w}
      BY <2>2, CallingFits
    <2> HIDE DEF k
    <2>4. Fits(k)
      BY <2>2, <2>3 DEF Fits, Ways
    <2> QED
      BY <1>0, <1>h, <1>c, <2>1, <2>4, CallOnward
  <1>2. ASSUME NEW w \in Workers, RegisterFromSession(w)
        PROVE  CallFits' /\ HandingFits' /\ CustodyFits' /\ PressedAsJudged'
    <2>1. /\ call.stage = "register" /\ call.worker = {w} /\ call.by \in Controllers
          /\ call.verb \in Ways /\ call \in CallRecords
          /\ call' = [call EXCEPT !.stage = call.verb]
          /\ UNCHANGED <<handing, historyVars>>
      BY <1>0, <1>2 DEF RegisterFromSession, CallFits, Fits
    <2>2. PICK owner \in Controllers \cup {NoController} :
             /\ RegisterSubject(Fresh, w, owner)
             /\ \E ws : CaptureTokens(call.by, ws)
      BY <1>2, <2>1 DEF RegisterFromSession
    <2>3. CustodyFits'
      BY <1>0, <2>1, <2>2, CustodyCaptures
    <2>4. w \in Known'
      <3>1. GoodOutcome(w, Registered(w, owner))
        BY <1>0, RegisteredGood DEF Inv
      <3>2. subjects'[w] = Registered(w, owner).subject
        BY <1>0, <2>2 DEF RegisterSubject, Commit
      <3> QED
        BY <1>0, <3>1, <3>2 DEF GoodOutcome, Known
    <2>5. call'.stage \in Ways /\ call'.worker = {w} /\ call' \in CallRecords /\ call'.by \in Controllers
      BY <2>1 DEF CallRecords, Stages, Ways
    <2>6. CallFits'
      BY <2>4, <2>5 DEF CallFits, Fits, Ways
    <2> QED
      BY <1>h, <2>1, <2>3, <2>6
  <1>3. CASE RegisterRefused
    <2>1. call' = Idle /\ UNCHANGED <<custodyVars, handing, historyVars>>
      BY <1>3 DEF RegisterRefused, Ends
    <2> QED
      BY <1>0, <1>h, <1>c, <2>1, IdleFits, CallOnward
  <1>4. ASSUME NEW w \in Workers, TakeAcquire(w) \/ TakeAdopt(w)
        PROVE  CallFits' /\ HandingFits' /\ CustodyFits' /\ PressedAsJudged'
    <2>1. /\ call' = Idle /\ UNCHANGED <<handing, historyVars>> /\ call.by \in Controllers
          /\ \E ws : CaptureTokens(call.by, ws)
      BY <1>0, <1>4 DEF TakeAcquire, TakeAdopt, Ends, CallFits, Fits
    <2> QED
      BY <1>0, <1>h, <2>1, IdleFits, CallOnward, CustodyCaptures
  <1>5. ASSUME NEW c \in Controllers, BeginSurvey(c)
        PROVE  CallFits' /\ HandingFits' /\ CustodyFits' /\ PressedAsJudged'
    <2> DEFINE k == Calling("survey", "recover", c, Known \cap Workers)
    <2>1. call' = [k EXCEPT !.at = now] /\ UNCHANGED <<custodyVars, handing, historyVars>>
      BY <1>5 DEF BeginSurvey
    <2>2. /\ "survey" \in Stages /\ "recover" \in Verbs
          /\ Known \cap Workers \in SUBSET Workers
      BY DEF Stages, Verbs
    <2>3. /\ k \in CallRecords /\ k.stage = "survey" /\ k.by = c /\ k.worker = Known \cap Workers
      BY <2>2, CallingFits
    <2> HIDE DEF k
    <2>4. Fits([k EXCEPT !.at = now])
      BY <1>0, <2>3 DEF Fits, CallRecords
    <2> QED
      BY <1>0, <1>h, <1>c, <2>1, <2>4, CallOnward
  <1>6. ASSUME NEW w \in Workers, Survey(w)
        PROVE  CallFits' /\ HandingFits' /\ CustodyFits' /\ PressedAsJudged'
    <2>1. /\ call.stage = "survey" /\ UNCHANGED <<custodyVars, handing, historyVars>>
          /\ \E via \in Ways :
               call' \in {[call EXCEPT !.worker = @ \ {w}, !.plan = p] :
                           p \in {call.plan, [x \in DOMAIN call.plan \cup {w} |-> IF x = w THEN via ELSE call.plan[x]]}}
      BY <1>6 DEF Survey, Ways
    <2>2. PICK p : p \in Plans /\ call' = [call EXCEPT !.worker = @ \ {w}, !.plan = p]
      <3>1. PICK via \in Ways :
               call' \in {[call EXCEPT !.worker = @ \ {w}, !.plan = p] :
                           p \in {call.plan, [x \in DOMAIN call.plan \cup {w} |-> IF x = w THEN via ELSE call.plan[x]]}}
        BY <2>1
      <3>2. call.plan \in Plans
        BY <1>0 DEF CallFits, Fits, CallRecords
      <3>3. [x \in DOMAIN call.plan \cup {w} |-> IF x = w THEN via ELSE call.plan[x]] \in Plans
        BY <3>2, PlanGrows
      <3> QED
        BY <3>1, <3>2, <3>3
    <2>3. Fits(call')
      BY <1>0, <2>1, <2>2 DEF CallFits, Fits, CallRecords
    <2> QED
      BY <1>0, <1>h, <1>c, <2>1, <2>3, CallOnward
  <1>7. CASE AdoptPlan
    <2>1. /\ call' = Idle /\ UNCHANGED <<handing, historyVars>> /\ call.by \in Controllers
          /\ UNCHANGED custodyVars \/ \E ws : CaptureTokens(call.by, ws)
      BY <1>0, <1>7 DEF AdoptPlan, Ends, CallFits, Fits
    <2> QED
      BY <1>0, <1>h, <1>c, <2>1, IdleFits, CallOnward, CustodyCaptures
  <1>8. ASSUME NEW c \in Controllers, NEW verb \in {"renew", "release", "transfer"}, BeginAuthenticated(verb, c)
        PROVE  CallFits' /\ HandingFits' /\ CustodyFits' /\ PressedAsJudged'
    <2> DEFINE k == Calling(verb, verb, c, Held(c))
    <2>1. call' = [k EXCEPT !.tokens = custody[c]] /\ UNCHANGED <<custodyVars, handing, historyVars>>
      BY <1>8 DEF BeginAuthenticated
    <2>2. /\ verb \in Stages /\ verb \in Verbs /\ Held(c) \in SUBSET Workers /\ Held(c) \subseteq Known
          /\ Issued(custody[c]) /\ custody[c] \in [Workers -> Nat]
      BY <1>0 DEF Stages, Verbs, Held, CustodyFits
    <2>3. /\ k \in CallRecords /\ k.stage = verb /\ k.by = c /\ k.worker = Held(c)
      BY <2>2, CallingFits
    <2> HIDE DEF k
    <2>4. Fits([k EXCEPT !.tokens = custody[c]])
      BY <2>2, <2>3 DEF Fits, CallRecords
    <2> QED
      BY <1>0, <1>h, <1>c, <2>1, <2>4, CallOnward
  <1>9. ASSUME NEW w \in Workers, RenewHeld(w) \/ ReleaseHeld(w) \/ \E d \in Controllers : TransferHeld(w, d)
        PROVE  CallFits' /\ HandingFits' /\ CustodyFits' /\ PressedAsJudged'
    <2>1. /\ call.stage \in {"renew", "release", "transfer"} /\ call.by \in Controllers
          /\ call' = NextTarget(w) /\ UNCHANGED <<handing, historyVars>>
      BY <1>0, <1>9 DEF RenewHeld, ReleaseHeld, TransferHeld, CallFits, Fits
    <2>2. CallFits'
      BY <1>0, <2>1, NextTargetFits, CallOnward
    <2>3. CustodyFits'
      <3>1. CASE RenewHeld(w)
        BY <1>c, <3>1 DEF RenewHeld
      <3>2. CASE ReleaseHeld(w)
        BY <1>0, <2>1, <3>2, CustodyForgets DEF ReleaseHeld
      <3>3. ASSUME NEW d \in Controllers, TransferHeld(w, d) PROVE CustodyFits'
        <4>1. /\ custody \in [Controllers -> [Workers -> Nat]] /\ minted'[w] \in Nat /\ NoToken \in Nat
          BY <1>0 DEF CustodyFits, Inv, TypeOK, NoToken
        <4> DEFINE t == IF minted'[w] # minted[w] THEN minted'[w]
                        ELSE IF d = call.by THEN NoToken ELSE custody[d][w]
        <4>2. custody' = [[custody EXCEPT ![call.by][w] = NoToken] EXCEPT
                             ![d][w] = IF minted'[w] # minted[w] THEN minted'[w]
                                       ELSE IF d = call.by THEN NoToken ELSE @]
          BY <3>3 DEF TransferHeld
        <4>3. custody' = [[custody EXCEPT ![call.by][w] = NoToken] EXCEPT ![d][w] = t]
          BY <2>1, <4>1, <4>2
        <4>4. t \in {minted'[w], NoToken, custody[d][w]}
          OBVIOUS
        <4> HIDE DEF t
        <4>5. t \in Nat
          BY <4>1, <4>4
        <4> QED
          BY <1>0, <2>1, <4>1, <4>3, <4>4, <4>5, CustodyOnward
      <3> QED
        BY <1>9, <3>1, <3>2, <3>3
    <2> QED
      BY <1>h, <2>1, <2>2, <2>3
  <1> QED
    BY <1>1, <1>2, <1>3, <1>4, <1>5, <1>6, <1>7, <1>8, <1>9 DEF LeaseTool, Ways

LEMMA ControlToolKeeps ==
    ASSUME ControlInv, Inv', Onward, ControlTool
    PROVE  CallFits' /\ HandingFits' /\ CustodyFits' /\ PressedAsJudged'
  <1>0. /\ Inv /\ LeaseBounds /\ CallFits /\ HandingFits /\ CustodyFits /\ PressedAsJudged
    BY DEF ControlInv, StepInv
  <1>h. UNCHANGED <<handing, historyVars>> => HandingFits' /\ PressedAsJudged'
    BY <1>0, HandingKept, JudgedKept
  <1>c. UNCHANGED custodyVars => CustodyFits'
    BY <1>0, CustodyKept
  <1>1. ASSUME NEW c \in Controllers, NEW w \in Workers, NEW verb \in Commands,
               NEW asked \in Dialogs \cup {NoDialog}, BeginControl(verb, c, w, asked)
        PROVE  CallFits' /\ HandingFits' /\ CustodyFits' /\ PressedAsJudged'
    <2> DEFINE k == Calling("authorize", verb, c, {w})
               dead == subjects'[w].lifecycle \in Terminal
    <2>1. /\ w \in Known /\ UNCHANGED <<custodyVars, handing, historyVars>>
          /\ call' \in {Idle, [k EXCEPT !.tokens = custody[c], !.shown = asked, !.dead = dead]}
      BY <1>1 DEF BeginControl
    <2>d. dead \in BOOLEAN
      OBVIOUS
    <2>2. /\ "authorize" \in Stages /\ verb \in Verbs /\ {w} \in SUBSET Workers
          /\ Issued(custody[c]) /\ custody[c] \in [Workers -> Nat]
      BY <1>0 DEF Stages, Verbs, CustodyFits
    <2>3. k \in CallRecords /\ k.stage = "authorize" /\ k.by = c /\ k.worker = {w}
      BY <2>2, CallingFits
    <2> HIDE DEF k, dead
    <2>4. Fits([k EXCEPT !.tokens = custody[c], !.shown = asked, !.dead = dead])
      BY <2>1, <2>2, <2>3, <2>d DEF Fits, CallRecords
    <2> QED
      BY <1>0, <1>h, <1>c, <2>1, <2>4, IdleFits, CallOnward
  <1>2. ASSUME NEW w \in Workers, AuthorityLost(w)
        PROVE  CallFits' /\ HandingFits' /\ CustodyFits' /\ PressedAsJudged'
    <2>1. /\ call' = Idle /\ UNCHANGED <<handing, historyVars>> /\ call.by \in Controllers
          /\ Forget(call.by, w)
      BY <1>0, <1>2 DEF AuthorityLost, Authorize, Ends, CallFits, Fits
    <2> QED
      BY <1>0, <1>h, <2>1, IdleFits, CallOnward, CustodyForgets
  <1>3. ASSUME NEW w \in Workers, StopWorker(w) \/ ForceStop(w)
        PROVE  CallFits' /\ HandingFits' /\ CustodyFits' /\ PressedAsJudged'
    <2>1. /\ call.stage = "authorize" /\ call' \in {Idle, [call EXCEPT !.stage = "mark"]}
          /\ UNCHANGED <<custodyVars, handing, presses>>
      BY <1>3 DEF StopWorker, ForceStop, Authorize, registryVars, historyVars
    <2>2. Fits([call EXCEPT !.stage = "mark"])
      BY <1>0, <2>1 DEF CallFits, Fits, CallRecords, Stages
    <2>3. CallFits'
      BY <1>0, <2>1, <2>2, IdleFits, CallOnward
    <2>4. HandingFits' /\ PressedAsJudged'
      BY <1>0, <2>1, HandingKept DEF PressedAsJudged
    <2> QED
      BY <1>c, <2>1, <2>3, <2>4
  <1>4. ASSUME NEW w \in Workers, MarkStopped(w) \/ Instruct(w)
        PROVE  CallFits' /\ HandingFits' /\ CustodyFits' /\ PressedAsJudged'
    <2>1. call' = Idle /\ UNCHANGED <<custodyVars, handing, historyVars>>
      BY <1>4 DEF MarkStopped, Instruct, Authorize, Ends
    <2> QED
      BY <1>0, <1>h, <1>c, <2>1, IdleFits, CallOnward
  <1>5. ASSUME NEW w \in Workers, JudgeDialog(w)
        PROVE  CallFits' /\ HandingFits' /\ CustodyFits' /\ PressedAsJudged'
    <2>1. /\ call.stage = "authorize" /\ UNCHANGED <<custodyVars, handing, historyVars>>
          /\ \/ call' = Idle
             \/ call.shown \in Answerable /\ call' = [call EXCEPT !.stage = "policy"]
      BY <1>5 DEF JudgeDialog, Authorize
    <2>2. call.shown \in Answerable => Fits([call EXCEPT !.stage = "policy"])
      BY <1>0, <2>1 DEF CallFits, Fits, CallRecords, Stages
    <2> QED
      BY <1>0, <1>h, <1>c, <2>1, <2>2, IdleFits, CallOnward
  <1>6. CASE PolicyDenies
    <2>1. call' = Idle /\ UNCHANGED <<custodyVars, handing, historyVars>>
      BY <1>6 DEF PolicyDenies, Ends
    <2> QED
      BY <1>0, <1>h, <1>c, <2>1, IdleFits, CallOnward
  <1>7. ASSUME NEW w \in Workers, Press(w)
        PROVE  CallFits' /\ HandingFits' /\ CustodyFits' /\ PressedAsJudged'
    <2>1. call' = Idle /\ UNCHANGED <<custodyVars, handing>>
      BY <1>7 DEF Press, Ends
    <2>2. /\ call.shown \in Answerable \cap Allowed
          /\ presses' \in {presses, presses \cup {[asked |-> call.shown, shown |-> call.shown]}}
      BY <1>0, <1>7 DEF Press, Presses, CallFits, Fits
    <2>3. PressedAsJudged'
      BY <1>0, <2>2 DEF PressedAsJudged
    <2> QED
      BY <1>0, <1>c, <2>1, <2>3, IdleFits, CallOnward, HandingKept
  <1> QED
    BY <1>1, <1>2, <1>3, <1>4, <1>5, <1>6, <1>7 DEF ControlTool

LEMMA OperatorKeeps ==
    ASSUME ControlInv, Inv', Onward, Operator
    PROVE  CallFits' /\ HandingFits' /\ CustodyFits' /\ PressedAsJudged'
  <1>0. /\ Inv /\ LeaseBounds /\ CallFits /\ HandingFits /\ CustodyFits /\ PressedAsJudged
    BY DEF ControlInv, StepInv
  <1>1. UNCHANGED <<call, historyVars>>
    BY DEF Operator, BeginHandoff, CheckMembers, RefuseMember, HandoffRefused, CommitHandoff
  <1>2. CallFits' /\ PressedAsJudged'
    BY <1>0, <1>1, CallOnward, JudgedKept DEF CallFits
  <1>3. CustodyFits'
    <2>1. CASE CommitHandoff
      <3>1. handing.by \in Controllers /\ \E ws : CaptureTokens(handing.by, ws)
        BY <1>0, <2>1 DEF CommitHandoff, HandingFits
      <3> QED
        BY <1>0, <3>1, CustodyCaptures
    <2>2. CASE ~CommitHandoff
      <3>1. UNCHANGED custodyVars
        BY <2>2 DEF Operator, BeginHandoff, CheckMembers, RefuseMember, HandoffRefused
      <3> QED
        BY <1>0, <3>1, CustodyKept
    <2> QED
      BY <2>1, <2>2
  <1>4. HandingFits'
    <2>1. ASSUME NEW d \in Controllers, NEW members \in SUBSET Workers, BeginHandoff(d, members)
          PROVE  HandingFits'
      <3> DEFINE k == Calling("members", "handoff", d, members)
      <3>1. handing' = k /\ members # {}
        BY <2>1 DEF BeginHandoff
      <3>2. k \in CallRecords /\ k.stage = "members" /\ k.by = d /\ k.worker = members
        BY CallingFits DEF Stages, Verbs
      <3> HIDE DEF k
      <3> QED
        BY <3>1, <3>2 DEF HandingFits
    <2>2. CASE CheckMembers
      <3>1. Refused \subseteq Workers
        BY <1>0 DEF Refused, HandingFits, CallRecords
      <3>2. /\ handing.stage = "members"
            /\ handing' \in {[handing EXCEPT !.stage = "batch"],
                             [handing EXCEPT !.stage = "refused", !.worker = Refused \cap Known]}
        BY <2>2 DEF CheckMembers
      <3> QED
        BY <1>0, <3>1, <3>2 DEF HandingFits, CallRecords, Stages
    <2>3. ASSUME NEW w \in Workers, RefuseMember(w)
          PROVE  HandingFits'
      <3>1. handing.stage = "refused" /\ handing' = [handing EXCEPT !.worker = @ \ {w}]
        BY <2>3 DEF RefuseMember
      <3> QED
        BY <1>0, <3>1 DEF HandingFits, CallRecords
    <2>4. CASE HandoffRefused \/ CommitHandoff
      <3>1. handing' = Idle
        BY <2>4 DEF HandoffRefused, CommitHandoff
      <3> QED
        BY <3>1, IdleFits DEF HandingFits
    <2> QED
      BY <2>1, <2>2, <2>3, <2>4 DEF Operator
  <1> QED
    BY <1>2, <1>3, <1>4

LEMMA EnvironmentKeeps ==
    ASSUME ControlInv, Inv', Onward, Environment
    PROVE  CallFits' /\ HandingFits' /\ CustodyFits' /\ PressedAsJudged'
  <1>0. /\ Inv /\ LeaseBounds /\ CallFits /\ HandingFits /\ CustodyFits /\ PressedAsJudged
    BY DEF ControlInv, StepInv
  <1>1. CASE Restart
    <2>1. /\ call' = Idle /\ handing' = Idle /\ UNCHANGED historyVars
          /\ custody' = [c \in Controllers |-> [w \in Workers |-> NoToken]]
      BY <1>1 DEF Restart, CustodyLost
    <2>2. CallFits' /\ HandingFits' /\ PressedAsJudged'
      BY <1>0, <2>1, IdleFits, CallOnward, JudgedKept DEF HandingFits
    <2>3. CustodyFits'
      BY <1>0, <2>1, CustodyOnward DEF NoToken
    <2> QED
      BY <2>2, <2>3
  <1>2. CASE ~Restart
    <2>1. UNCHANGED <<serviceVars, custodyVars, historyVars>>
      BY <1>2 DEF Environment, WorkerExits, WorkerResumes, DialogChanges, SessionUpdate, OrchestratorSeen,
                  Time, Sweep, AcknowledgeEvents
    <2> QED
      BY <1>0, <2>1, CallOnward, HandingKept, CustodyKept, JudgedKept DEF serviceVars, CallFits
  <1> QED
    BY <1>1, <1>2

LEMMA ControlInitInv == ControlInit => ControlInv
  <1> SUFFICES ASSUME ControlInit PROVE ControlInv
    OBVIOUS
  <1>1. Init /\ StepInv
    BY InitStepInv DEF ControlInit
  <1>2. LeaseBounds
    <2>1. Cardinality(handoffs) = 0
      BY <1>1, FS_EmptySet DEF Init
    <2> QED
      BY <1>1, <2>1, LeaseConstants DEF Init, LeaseBounds, Absent
  <1>3. CallFits /\ HandingFits
    BY IdleFits DEF ControlInit, CallFits, HandingFits
  <1>4. CustodyFits
    <2>1. custody = [c \in Controllers |-> [w \in Workers |-> 0]] /\ \A w \in Workers : minted[w] = 0
      BY <1>1, LeaseConstants DEF ControlInit, Init, NoToken
    <2> QED
      BY <2>1 DEF CustodyFits, Issued
  <1>5. PressedAsJudged
    BY DEF ControlInit, PressedAsJudged
  <1> QED
    BY <1>1, <1>2, <1>3, <1>4, <1>5 DEF ControlInv

LEMMA ControlNextKeepsInv == ControlInv /\ [ControlNext]_controlVars => ControlInv'
  <1> SUFFICES ASSUME ControlInv, [ControlNext]_controlVars PROVE ControlInv'
    OBVIOUS
  <1>1. StepInv /\ [Next]_vars /\ Inv /\ LeaseBounds
    BY ControlIsNext DEF ControlInv, StepInv
  <1>2. StepInv' /\ LeaseBounds' /\ Onward
    BY <1>1, NextKeepsStepInv, NextOnward
  <1>3. Inv'
    BY <1>2 DEF StepInv
  <1>4. CASE ControlNext
    BY <1>2, <1>3, <1>4, LeaseToolKeeps, ControlToolKeeps, OperatorKeeps, EnvironmentKeeps DEF ControlNext, ControlInv
  <1>5. CASE UNCHANGED controlVars
    <2>1. UNCHANGED <<serviceVars, custodyVars, historyVars>>
      BY <1>5 DEF controlVars
    <2>2. CallFits' /\ HandingFits' /\ CustodyFits' /\ PressedAsJudged'
      BY <1>1, <1>2, <1>3, <2>1, CallOnward, HandingKept, CustodyKept, JudgedKept
      DEF serviceVars, CallFits, ControlInv
    <2> QED
      BY <1>2, <2>2 DEF ControlInv
  <1> QED
    BY <1>4, <1>5

LEMMA ControlSpecInv == ControlSpec => []ControlInv
  BY ControlInitInv, ControlNextKeepsInv, PTL DEF ControlSpec

\* The tools, the operator's handoff, the sweeper and the session observer only
\* ever do to a lease what WorkerLease allows: whatever an earlier await of theirs
\* read, they present tokens that were issued, of workers that have a record.
THEOREM ControlImplementsLease == ControlSpec => Spec
  <1>1. ControlInit => Init
    BY DEF ControlInit
  <1> QED
    BY <1>1, ControlIsNext, ControlSpecInv, PTL DEF ControlSpec, Spec

\* answer_modal presses only the dialog that was asked about, that the broker
\* recognises and that the policy allows, however often the screen changes while
\* the policy is being evaluated.
THEOREM ControlPressedAsJudged == ControlSpec => []PressedAsJudged
  <1>1. ControlInv => PressedAsJudged
    BY DEF ControlInv
  <1> QED
    BY <1>1, ControlSpecInv, PTL
=============================================================================
