---- MODULE OrchestratorBindingsProofs ----
(* What is proved of the sessions an orchestrator works with. Bindings: one  *)
(* mutation id of one creator is one bound peer. The orchestrator's wait: a  *)
(* timeout is told only after the whole of it. The session registry: one     *)
(* live process of a worker, and slots that agree with the starts.           *)
EXTENDS OrchestratorBindings, AgentTools, SessionLifecycle, FiniteSetTheorems, NaturalsInduction,
        WellFoundedInduction, TLAPS

-----------------------------------------------------------------------------
(* The inductive invariant *)

Selections == Selectable \cup {AnySelection}
Creators == SessionIds \cup {NoSession}
Mutations == Intents \cup {NoIntent}

Bound == [session : SessionIds, selection : Selections, by : Creators, intent : Mutations,
          grant : SUBSET {"create"}]
Bindings == {Unbound} \cup Bound

Changes == [step : {"resume", "launch", "start", "toggle", "reset", "delete"},
            key : Keys \cup {NoSession}, selection : Selections, by : Creators, intent : Mutations,
            grant : SUBSET {"create"}, held : Bindings, session : Creators]
Stops == [step : {"audit", "stop"}, target : SessionIds, generation : Nat,
          mode : {"graceful", "force"}]
Requested == {NoRequest} \cup Changes \cup Stops

Typed ==
    /\ bindings \in [Keys -> Bindings]
    /\ requests \in [Callers -> Requested]
    /\ generation \in [SessionIds -> Nat]

\* What an operator binds or puts back belongs to no create of a peer.
Plain(b) == b # Unbound => b.intent = NoIntent

\* The binding b answers the creator's mutation.
Answers(b, by, intent) == b # Unbound /\ b.by = by /\ b.intent = intent

\* A create with a mutation id is the one call of its creator, and until its
\* session is activated the binding log does not know the id.
Pending(i, c, B) ==
    /\ c.step \in {"resume", "launch", "start", "toggle", "reset", "delete"} => Plain(c.held)
    /\ c.step = "resume" => c.intent = NoIntent
    /\ (c.step \in {"launch", "start"} /\ c.intent # NoIntent) =>
          /\ c.by = i /\ c.key # Primary
          /\ c.step = "launch" => \A k \in Keys : ~Answers(B[k], i, c.intent)

Distinct(B) ==
    \A j, k \in Keys :
       (/\ B[j] # Unbound /\ B[k] # Unbound /\ B[j].intent # NoIntent
        /\ B[j].by = B[k].by /\ B[j].intent = B[k].intent) => j = k

Inv ==
    /\ Typed
    /\ Plain(bindings[Primary])
    /\ \A i \in Callers : Pending(i, requests[i], bindings)
    /\ Distinct(bindings)

-----------------------------------------------------------------------------
(* One call at a time *)

LEMMA InitInv == BindingsInit => Inv
  <1> SUFFICES ASSUME BindingsInit PROVE Inv
    OBVIOUS
  <1>1. PICK selection \in Selectable :
           bindings = [k \in Keys |-> IF k = Primary
                         THEN [session |-> First, selection |-> selection, by |-> NoSession,
                               intent |-> NoIntent, grant |-> {"create"}]
                         ELSE Unbound]
    BY DEF BindingsInit
  <1>2. \A k \in Keys : bindings[k] \in Bindings /\ Plain(bindings[k])
    BY <1>1, BindingsConstants
       DEF Bindings, Bound, Selections, Creators, Mutations, Plain
  <1>3. bindings \in [Keys -> Bindings]
    BY <1>1, <1>2
  <1>4. requests = [i \in Callers |-> NoRequest] /\ generation \in [SessionIds -> Nat]
    BY DEF BindingsInit
  <1>5. Typed
    BY <1>3, <1>4 DEF Typed, Requested
  <1>6. \A i \in Callers : Pending(i, requests[i], bindings)
    BY <1>4 DEF Pending, NoRequest
  <1>7. Primary \in Keys
    BY DEF Keys
  <1> QED BY <1>2, <1>5, <1>6, <1>7 DEF Inv, Distinct, Plain

\* A call begins, goes on or ends and leaves the bindings alone.
LEMMA CallMoves ==
    ASSUME Inv, NEW i \in Callers, NEW c \in Requested, requests' = [requests EXCEPT ![i] = c],
           Pending(i, c, bindings), bindings' = bindings, generation' \in [SessionIds -> Nat]
    PROVE  Inv'
  <1>1. requests' \in [Callers -> Requested]
    BY DEF Inv, Typed
  <1>2. \A j \in Callers : Pending(j, requests'[j], bindings')
    BY DEF Inv, Typed
  <1> QED BY <1>1, <1>2 DEF Inv, Typed

\* A call ends by putting a plain binding, or none, in the place of another.
LEMMA BindingPut ==
    ASSUME Inv, NEW i \in Callers, requests' = [requests EXCEPT ![i] = NoRequest],
           NEW k, NEW b \in Bindings, Plain(b), bindings' = [bindings EXCEPT ![k] = b],
           generation' = generation
    PROVE  Inv'
  <1>1. bindings \in [Keys -> Bindings] /\ Primary \in Keys
    BY DEF Inv, Typed, Keys
  <1>2. bindings' \in [Keys -> Bindings] /\ \A q \in Keys : bindings'[q] \in {b, bindings[q]}
    BY <1>1
  <1>3. \A q \in Keys : bindings'[q] = bindings[q] \/ Plain(bindings'[q])
    BY <1>2
  <1>4. Typed'
    BY <1>2 DEF Inv, Typed, Requested
  <1>5. Plain(bindings'[Primary])
    BY <1>1, <1>3 DEF Inv
  <1>6. ASSUME NEW j \in Callers PROVE Pending(j, requests'[j], bindings')
    <2>1. CASE requests'[j] = NoRequest
      BY <2>1 DEF Pending, NoRequest
    <2>2. CASE requests'[j] # NoRequest
      <3>1. requests'[j] = requests[j] /\ Pending(j, requests[j], bindings)
        BY <2>2 DEF Inv, Typed
      <3>2. ASSUME NEW q \in Keys, NEW m, m # NoIntent, ~Answers(bindings[q], j, m)
            PROVE  ~Answers(bindings'[q], j, m)
        BY <1>3, <3>2 DEF Answers, Plain
      <3> QED BY <3>1, <3>2 DEF Pending
    <2> QED BY <2>1, <2>2
  <1>7. Distinct(bindings')
    BY <1>3 DEF Inv, Distinct, Plain
  <1> QED BY <1>4, <1>5, <1>6, <1>7 DEF Inv

\* Sessions come and go; neither the bindings nor the calls change.
LEMMA Elsewhere ==
    ASSUME Inv, UNCHANGED <<bindings, requests>>, generation' \in [SessionIds -> Nat]
    PROVE  Inv'
  BY DEF Inv, Typed

LEMMA HeldByCaller ==
    ASSUME Inv, NEW i \in Callers
    PROVE  /\ requests[i].step \in {"resume", "launch", "start", "toggle", "reset", "delete"} =>
                requests[i] \in Changes /\ requests[i].held \in Bindings /\ Plain(requests[i].held)
           /\ requests[i].step \in {"audit", "stop"} => requests[i] \in Stops
  <1>1. requests[i] \in Requested /\ Pending(i, requests[i], bindings)
    BY DEF Inv, Typed
  <1>2. requests[i].step \in {"resume", "launch", "start", "toggle", "reset", "delete"} => requests[i] \in Changes
    BY <1>1 DEF Requested, NoRequest, Changes, Stops
  <1>3. requests[i].step \in {"audit", "stop"} => requests[i] \in Stops
    BY <1>1 DEF Requested, NoRequest, Changes, Stops
  <1> QED BY <1>1, <1>2, <1>3 DEF Pending, Changes

\* A request of an operator or a create without a mutation id.
LEMMA PlainCall ==
    ASSUME Inv, NEW i \in Callers, NEW c \in Changes, c.intent = NoIntent, Plain(c.held)
    PROVE  c \in Requested /\ Pending(i, c, bindings)
  BY DEF Requested, Pending

-----------------------------------------------------------------------------
(* Requests *)

LEMMA PrimaryBinding ==
    ASSUME Inv
    PROVE  /\ Primary \in Keys /\ bindings[Primary] \in Bindings /\ Plain(bindings[Primary])
           /\ bindings[Primary] # Unbound => bindings[Primary] \in Bound
  BY DEF Inv, Typed, Keys, Bindings

LEMMA RequestsKeep ==
    ASSUME Inv, Requests
    PROVE  Inv'
  <1> USE DEF registry
  <1>1. generation' = generation /\ bindings' = bindings
    BY DEF Requests, EnsureRead, Create, ToggleRead, ResetRead, DeleteRead, Decide, Replay,
           StopPreflight, store
  <1>2. generation' \in [SessionIds -> Nat]
    BY <1>1 DEF Inv, Typed
  <1>3. ASSUME NEW i \in Operators, NEW s \in Selections, EnsureRead(i, s) PROVE Inv'
    <2>1. PICK step \in {"launch", "resume"} :
             requests' = [requests EXCEPT ![i] = Request(step, Primary, s, NoSession, NoIntent, bindings[Primary])]
      BY <1>3 DEF EnsureRead, Begins
    <2> DEFINE c == Request(step, Primary, s, NoSession, NoIntent, bindings[Primary])
    <2>2. c \in Changes /\ c.intent = NoIntent /\ Plain(c.held)
      BY PrimaryBinding DEF Request, Changes, Creators, Mutations
    <2> HIDE DEF c
    <2>3. i \in Callers /\ c \in Requested /\ Pending(i, c, bindings)
      BY <2>2, PlainCall DEF Callers
    <2> QED BY <1>1, <1>2, <2>1, <2>3, CallMoves DEF c
  <1>4. ASSUME NEW i \in Operators, NEW s \in Selectable, Create(i, s) PROVE Inv'
    <2> DEFINE c == Request("launch", NoSession, s, NoSession, NoIntent, Unbound)
    <2>1. c \in Changes /\ c.intent = NoIntent /\ Plain(c.held)
      BY DEF Request, Changes, Creators, Mutations, Selections, Bindings, Plain
    <2>2. requests' = [requests EXCEPT ![i] = c]
      BY <1>4 DEF Create, Begins
    <2> HIDE DEF c
    <2>3. i \in Callers /\ c \in Requested /\ Pending(i, c, bindings)
      BY <2>1, PlainCall DEF Callers
    <2> QED BY <1>1, <1>2, <2>2, <2>3, CallMoves
  <1>5. ASSUME NEW i \in Operators, ToggleRead(i, "create") PROVE Inv'
    <2> DEFINE b == bindings[Primary]
               flipped == IF "create" \in b.grant THEN b.grant \ {"create"} ELSE b.grant \cup {"create"}
               held == [b EXCEPT !.grant = flipped]
               c == Request("toggle", Primary, AnySelection, NoSession, NoIntent, held)
    <2>1. b \in Bound /\ Plain(b)
      BY <1>5, PrimaryBinding DEF ToggleRead
    <2>2. held \in Bound /\ held.intent = b.intent
      BY <2>1 DEF Bound
    <2>3. b # Unbound
      BY <1>5 DEF ToggleRead
    <2>4. requests' = [requests EXCEPT ![i] = c]
      BY <1>5 DEF ToggleRead, Begins
    <2> HIDE DEF held, b
    <2>5. c \in Changes /\ c.intent = NoIntent /\ Plain(c.held)
      BY <2>1, <2>2, <2>3 DEF Request, Changes, Creators, Mutations, Selections, Bindings, Plain, Keys
    <2> HIDE DEF c
    <2>6. i \in Callers /\ c \in Requested /\ Pending(i, c, bindings)
      BY <2>5, PlainCall DEF Callers
    <2> QED BY <1>1, <1>2, <2>4, <2>6, CallMoves
  <1>6. ASSUME NEW i \in Operators, ResetRead(i) PROVE Inv'
    <2> DEFINE c == Request("reset", Primary, AnySelection, NoSession, NoIntent, bindings[Primary])
    <2>1. c \in Changes /\ c.intent = NoIntent /\ Plain(c.held)
      BY PrimaryBinding DEF Request, Changes, Creators, Mutations, Selections
    <2>2. requests' = [requests EXCEPT ![i] = c]
      BY <1>6 DEF ResetRead, Begins
    <2> HIDE DEF c
    <2>3. i \in Callers /\ c \in Requested /\ Pending(i, c, bindings)
      BY <2>1, PlainCall DEF Callers
    <2> QED BY <1>1, <1>2, <2>2, <2>3, CallMoves
  <1>7. ASSUME NEW i \in Operators, NEW s \in SessionIds, DeleteRead(i, s) PROVE Inv'
    <2>1. PICK k \in Keys \cup {NoSession} :
             requests' = [requests EXCEPT ![i] =
                [Request("delete", k, AnySelection, NoSession, NoIntent, Unbound) EXCEPT !.session = s]]
      BY <1>7 DEF DeleteRead, Begins, KeysOf
    <2> DEFINE c == [Request("delete", k, AnySelection, NoSession, NoIntent, Unbound) EXCEPT !.session = s]
    <2>2. c \in Changes /\ c.intent = NoIntent /\ Plain(c.held)
      BY DEF Request, Changes, Creators, Mutations, Selections, Bindings, Plain
    <2> HIDE DEF c
    <2>3. i \in Callers /\ c \in Requested /\ Pending(i, c, bindings)
      BY <2>2, PlainCall DEF Callers
    <2> QED BY <1>1, <1>2, <2>1, <2>3, CallMoves DEF c
  \* The creator has no other call and the log does not know the mutation id.
  <1>8. ASSUME NEW a \in SessionIds, NEW m \in Intents, NEW s \in Selectable, Decide(a, m, s) PROVE Inv'
    <2>1. KeysOf(a) # {} /\ ~Logged(a, m)
      BY <1>8 DEF Decide, Admitted, ActiveOrchestrator, DescribeActor
    <2>2. BindingOf(a) \in Bound
      <3>1. (CHOOSE k \in KeysOf(a) : TRUE) \in KeysOf(a)
        BY <2>1
      <3> QED BY <3>1 DEF BindingOf, KeysOf, Inv, Typed, Bindings
    <2> DEFINE grant == BindingOf(a).grant
               c == [Request("launch", NoSession, s, a, m, Unbound) EXCEPT !.grant = grant]
    <2>3. grant \in SUBSET {"create"}
      BY <2>2 DEF Bound
    <2>4. requests' = [requests EXCEPT ![a] = c]
      BY <1>8 DEF Decide, Begins
    <2> HIDE DEF grant
    <2>5. /\ c \in Changes /\ Plain(c.held) /\ c.step = "launch" /\ c.intent = m /\ c.by = a
          /\ c.key = NoSession
      BY <2>3 DEF Request, Changes, Creators, Mutations, Selections, Bindings, Plain
    <2> HIDE DEF c
    <2>6. a \in Callers /\ c \in Requested
      BY <2>5 DEF Callers, Requested
    <2>7. \A k \in Keys : ~Answers(bindings[k], a, m)
      BY <2>1 DEF Logged, Answers
    <2>8. Pending(a, c, bindings)
      BY <2>5, <2>7, BindingsConstants DEF Pending
    <2> QED BY <1>1, <1>2, <2>4, <2>6, <2>8, CallMoves
  <1>9. ASSUME NEW a \in SessionIds, NEW m \in Intents, Replay(a, m) PROVE Inv'
    BY <1>1, <1>2, <1>9, Elsewhere DEF Replay
  <1>10. ASSUME NEW a \in SessionIds, NEW t \in SessionIds, NEW mode \in {"graceful", "force"},
                StopPreflight(a, t, mode)
         PROVE  Inv'
    <2> DEFINE c == [step |-> "audit", target |-> t, generation |-> generation[t], mode |-> mode]
    <2>1. c \in Stops /\ requests' = [requests EXCEPT ![a] = c]
      BY <1>10 DEF StopPreflight, Begins, Stops, Inv, Typed
    <2>2. a \in Callers /\ c \in Requested /\ Pending(a, c, bindings)
      BY <2>1 DEF Callers, Requested, Pending
    <2> HIDE DEF c
    <2> QED BY <1>1, <1>2, <2>1, <2>2, CallMoves
  <1> QED BY <1>3, <1>4, <1>5, <1>6, <1>7, <1>8, <1>9, <1>10 DEF Requests, Selections

-----------------------------------------------------------------------------
(* The steps of a call *)

\* The call of i ends and the bindings stay.
LEMMA CallEnds ==
    ASSUME Inv, NEW i \in Callers, requests' = [requests EXCEPT ![i] = NoRequest],
           bindings' = bindings, generation' \in [SessionIds -> Nat]
    PROVE  Inv'
  <1>1. NoRequest \in Requested /\ Pending(i, NoRequest, bindings)
    BY DEF Requested, Pending, NoRequest
  <1> QED BY <1>1, CallMoves

\* The session of the launch is bound: a peer under its own key, which the log
\* did not answer the mutation id with before.
LEMMA ActivationKeeps ==
    ASSUME Inv, NEW i \in Callers, NEW s \in SessionIds, Activation(i, s)
    PROVE  Inv'
  <1> DEFINE c == requests[i]
             k == IF c.key = Primary THEN Primary ELSE s
             b == [session |-> s, selection |-> c.selection, by |-> c.by, intent |-> c.intent,
                   grant |-> IF c.by = NoSession THEN {"create"} ELSE c.grant]
             d == [c EXCEPT !.step = "start", !.key = k, !.session = s]
  <1>1. /\ bindings' = [bindings EXCEPT ![k] = b] /\ requests' = [requests EXCEPT ![i] = d]
        /\ generation' = [generation EXCEPT ![s] = 1] /\ c.step = "launch"
    BY DEF Activation, Steps
  <1>2. c \in Changes /\ Plain(c.held) /\ Pending(i, c, bindings)
    BY <1>1, HeldByCaller DEF Inv
  <1>3. k \in Keys /\ (k = Primary <=> c.key = Primary)
    BY BindingsConstants DEF Keys
  <1>4. b \in Bound /\ b # Unbound /\ b.by = c.by /\ b.intent = c.intent
    <2>1. b \in Bound
      BY <1>2 DEF Bound, Changes
    <2>2. b.session # NoSession
      BY BindingsConstants
    <2> QED BY <2>1, <2>2 DEF Unbound
  <1>5. /\ d \in Changes /\ d.step = "start" /\ d.by = c.by /\ d.intent = c.intent
        /\ d.held = c.held /\ d.key = k
    BY <1>2, <1>3 DEF Changes, Creators
  <1> HIDE DEF b, d
  <1>6. bindings \in [Keys -> Bindings] /\ Primary \in Keys
    BY DEF Inv, Typed, Keys
  <1> HIDE DEF k
  <1>7. /\ bindings' \in [Keys -> Bindings] /\ bindings'[k] = b
        /\ \A q \in Keys \ {k} : bindings'[q] = bindings[q]
    BY <1>1, <1>3, <1>4, <1>6 DEF Bindings
  <1>8. Typed'
    <2>1. requests' \in [Callers -> Requested]
      BY <1>1, <1>5 DEF Inv, Typed, Requested
    <2>2. generation' \in [SessionIds -> Nat]
      BY <1>1 DEF Inv, Typed
    <2> QED BY <1>7, <2>1, <2>2 DEF Typed
  <1>9. c.intent # NoIntent => c.by = i /\ c.key # Primary /\ \A q \in Keys : ~Answers(bindings[q], i, c.intent)
    BY <1>1, <1>2 DEF Pending
  <1>10. Plain(bindings'[Primary])
    <2>1. CASE k = Primary
      BY <1>3, <1>4, <1>7, <1>9, <2>1 DEF Plain
    <2>2. CASE k # Primary
      BY <1>6, <1>7, <2>2 DEF Inv
    <2> QED BY <2>1, <2>2
  <1>11. ASSUME NEW j \in Callers PROVE Pending(j, requests'[j], bindings')
    <2>1. CASE j = i
      <3>1. requests'[j] = d
        BY <1>1, <2>1 DEF Inv, Typed
      <3> QED BY <1>2, <1>3, <1>5, <1>9, <2>1, <3>1 DEF Pending
    <2>2. CASE j # i
      <3>1. requests'[j] = requests[j] /\ Pending(j, requests[j], bindings)
        BY <1>1, <2>2 DEF Inv, Typed
      <3>2. ASSUME NEW q \in Keys, NEW m, m # NoIntent, ~Answers(bindings[q], j, m)
            PROVE  ~Answers(bindings'[q], j, m)
        BY <1>4, <1>7, <1>9, <2>2, <3>2 DEF Answers
      <3> QED BY <3>1, <3>2 DEF Pending
    <2> QED BY <2>1, <2>2
  <1>12. Distinct(bindings')
    <2> SUFFICES ASSUME NEW p \in Keys, NEW q \in Keys,
                        bindings'[p] # Unbound, bindings'[q] # Unbound, bindings'[p].intent # NoIntent,
                        bindings'[p].by = bindings'[q].by, bindings'[p].intent = bindings'[q].intent
                 PROVE  p = q
      BY DEF Distinct
    <2>1. CASE p # k /\ q # k
      BY <1>7, <2>1 DEF Inv, Distinct
    <2>2. CASE p = k /\ q # k
      BY <1>4, <1>7, <1>9, <2>2 DEF Answers
    <2>3. CASE p # k /\ q = k
      BY <1>4, <1>7, <1>9, <2>3 DEF Answers
    <2> QED BY <2>1, <2>2, <2>3
  <1> QED BY <1>8, <1>10, <1>11, <1>12 DEF Inv

LEMMA ResumedCounts ==
    ASSUME generation \in [SessionIds -> Nat], NEW s, Resumed(s)
    PROVE  generation' \in [SessionIds -> Nat]
  <1>1. generation' = [generation EXCEPT ![s] = generation[s] + 1]
    BY DEF Resumed
  <1>2. \A q \in SessionIds : generation'[q] = IF q = s THEN generation[q] + 1 ELSE generation[q]
    BY <1>1
  <1>3. \A q \in SessionIds : generation[q] \in Nat
    OBVIOUS
  <1>4. \A q \in SessionIds : generation'[q] \in Nat
    BY <1>2, <1>3
  <1>5. generation' = [q \in SessionIds |-> generation'[q]]
    BY <1>1
  <1> QED BY <1>4, <1>5

LEMMA ProgressKeeps ==
    ASSUME Inv, Progress
    PROVE  Inv'
  <1>1. PICK i \in Callers :
           \/ ResumeExisting(i) \/ ResumeUnavailable(i) \/ ResumeThrows(i)
           \/ \E s \in SessionIds : Activation(i, s)
           \/ LaunchRefused(i) \/ Started(i) \/ StartFails(i)
           \/ ToggleWrite(i) \/ ResetWrite(i) \/ DeleteWrite(i)
           \/ StopReread(i) \/ StopTarget(i)
    BY DEF Progress
  <1>2. generation \in [SessionIds -> Nat]
    BY DEF Inv, Typed
  <1>3. Unbound \in Bindings /\ Plain(Unbound)
    BY DEF Bindings, Plain
  <1>4. CASE ResumeExisting(i)
    <2>1. generation' \in [SessionIds -> Nat]
      BY <1>2, <1>4, ResumedCounts DEF ResumeExisting
    <2>2. bindings' = bindings /\ requests' = [requests EXCEPT ![i] = NoRequest]
      BY <1>4 DEF ResumeExisting, RequestEnds, Steps
    <2> QED BY <2>1, <2>2, CallEnds
  <1>5. CASE ResumeUnavailable(i)
    <2> DEFINE c == [requests[i] EXCEPT !.step = "launch"]
    <2>1. /\ requests[i].step = "resume" /\ bindings' = bindings /\ generation' = generation
          /\ requests' \in {[requests EXCEPT ![i] = NoRequest], [requests EXCEPT ![i] = c]}
      BY <1>5 DEF ResumeUnavailable, RequestEnds, Steps, store, registry
    <2>2. requests[i] \in Changes /\ Plain(requests[i].held) /\ requests[i].intent = NoIntent
      BY <2>1, HeldByCaller DEF Inv, Pending
    <2>3. c \in Changes /\ c.intent = NoIntent /\ Plain(c.held)
      BY <2>2 DEF Changes
    <2> HIDE DEF c
    <2>4. c \in Requested /\ Pending(i, c, bindings)
      BY <2>3, PlainCall
    <2> QED BY <1>2, <2>1, <2>4, CallEnds, CallMoves
  <1>6. CASE ResumeThrows(i) \/ LaunchRefused(i)
    <2>1. /\ requests' = [requests EXCEPT ![i] = NoRequest]
          /\ bindings' = bindings /\ generation' = generation
      BY <1>6 DEF ResumeThrows, LaunchRefused, RequestEnds, Steps, store, registry
    <2> QED BY <1>2, <2>1, CallEnds
  <1>7. CASE Started(i)
    <2>1. /\ requests' = [requests EXCEPT ![i] = NoRequest]
          /\ bindings' = bindings /\ generation' = generation
      BY <1>7 DEF Started, RequestEnds, Steps
    <2> QED BY <1>2, <2>1, CallEnds
  <1>8. CASE \E s \in SessionIds : Activation(i, s)
    BY <1>8, ActivationKeeps
  <1>9. CASE StartFails(i)
    <2> DEFINE b == IF requests[i].key = Primary THEN requests[i].held ELSE Unbound
    <2>1. /\ requests[i].step = "start" /\ generation' = generation
          /\ bindings' = [bindings EXCEPT ![requests[i].key] = b]
          /\ requests' = [requests EXCEPT ![i] = NoRequest]
      BY <1>9 DEF StartFails, Restored, RequestEnds, Steps
    <2>2. b \in Bindings /\ Plain(b)
      BY <1>3, <2>1, HeldByCaller
    <2> HIDE DEF b
    <2> QED BY <2>1, <2>2, BindingPut
  <1>10. CASE ToggleWrite(i)
    <2>1. /\ requests[i].step = "toggle" /\ generation' = generation
          /\ bindings' = [bindings EXCEPT ![Primary] = requests[i].held]
          /\ requests' = [requests EXCEPT ![i] = NoRequest]
      BY <1>10 DEF ToggleWrite, RequestEnds, Steps, registry
    <2>2. requests[i].held \in Bindings /\ Plain(requests[i].held)
      BY <2>1, HeldByCaller
    <2> QED BY <2>1, <2>2, BindingPut
  <1>11. CASE ResetWrite(i)
    <2>1. /\ generation' = generation
          /\ bindings' = [bindings EXCEPT ![Primary] = Unbound]
          /\ requests' = [requests EXCEPT ![i] = NoRequest]
      BY <1>11 DEF ResetWrite, RequestEnds, Steps, registry
    <2> QED BY <1>3, <2>1, BindingPut
  <1>12. CASE DeleteWrite(i)
    <2>1. /\ generation' = generation /\ requests' = [requests EXCEPT ![i] = NoRequest]
          /\ bindings' = bindings \/ bindings' = [bindings EXCEPT ![requests[i].key] = Unbound]
      BY <1>12 DEF DeleteWrite, RequestEnds, Steps
    <2> QED BY <1>2, <1>3, <2>1, BindingPut, CallEnds
  <1>13. CASE StopReread(i)
    <2> DEFINE c == [requests[i] EXCEPT !.step = "stop"]
    <2>1. /\ requests[i].step = "audit" /\ bindings' = bindings /\ generation' = generation
          /\ requests' \in {[requests EXCEPT ![i] = NoRequest], [requests EXCEPT ![i] = c]}
      BY <1>13 DEF StopReread, RequestEnds, Steps, store, registry
    <2>2. c \in Stops
      BY <2>1, HeldByCaller DEF Stops
    <2>3. c \in Requested /\ Pending(i, c, bindings)
      BY <2>2 DEF Requested, Stops, Pending
    <2> HIDE DEF c
    <2> QED BY <1>2, <2>1, <2>3, CallEnds, CallMoves
  <1>14. CASE StopTarget(i)
    <2>1. /\ requests' = [requests EXCEPT ![i] = NoRequest]
          /\ bindings' = bindings /\ generation' = generation
      BY <1>14 DEF StopTarget, store, registry
    <2> QED BY <1>2, <2>1, CallEnds
  <1> QED BY <1>1, <1>4, <1>5, <1>6, <1>7, <1>8, <1>9, <1>10, <1>11, <1>12, <1>13, <1>14

-----------------------------------------------------------------------------
(* Processes and the broker *)

LEMMA MovesKeep ==
    ASSUME Inv, NEW s \in SessionIds, Ails(s) \/ Exits(s) \/ SessionResume(s)
    PROVE  Inv'
  <1>1. UNCHANGED <<bindings, requests>>
    BY DEF Ails, Exits, SessionResume, store
  <1>2. generation' \in [SessionIds -> Nat]
    BY ResumedCounts DEF Ails, Exits, SessionResume, Inv, Typed
  <1> QED BY <1>1, <1>2, Elsewhere

\* The calls are forgotten; the bindings, and with them the mutation ids, are not.
LEMMA RestartKeeps ==
    ASSUME Inv, BrokerRestart
    PROVE  Inv'
  <1>1. requests' = [i \in Callers |-> NoRequest] /\ bindings' = bindings /\ generation' = generation
    BY DEF BrokerRestart
  <1>2. \A i \in Callers : Pending(i, requests'[i], bindings')
    BY <1>1 DEF Pending, NoRequest
  <1> QED BY <1>1, <1>2 DEF Inv, Typed, Requested

-----------------------------------------------------------------------------
(* The theorem *)

LEMMA NextKeepsInv == Inv /\ [BindingsNext]_bindingsVars => Inv'
  <1> SUFFICES ASSUME Inv, [BindingsNext]_bindingsVars PROVE Inv'
    OBVIOUS
  <1>1. CASE Requests
    BY <1>1, RequestsKeep
  <1>2. CASE Progress
    BY <1>2, ProgressKeeps
  <1>3. CASE \E s \in SessionIds : Ails(s) \/ Exits(s) \/ SessionResume(s)
    BY <1>3, MovesKeep
  <1>4. CASE BrokerRestart
    BY <1>4, RestartKeeps
  <1>5. CASE UNCHANGED bindingsVars
    BY <1>5 DEF bindingsVars, store, registry, Inv, Typed
  <1> QED BY <1>1, <1>2, <1>3, <1>4, <1>5 DEF BindingsNext

\* OrchestratorPeerService.replay: "the same intent can never launch twice",
\* for any interleaving of creates, retries, failed starts, deletions, resets,
\* stops and restarts.
THEOREM BindingsOnePerIntent == BindingsSpec => []OneBindingPerIntent
  <1>1. BindingsInit => Inv
    BY InitInv
  <1>2. Inv /\ [BindingsNext]_bindingsVars => Inv'
    BY NextKeepsInv
  <1>3. Inv => OneBindingPerIntent
    BY DEF Inv, Distinct, OneBindingPerIntent
  <1> QED BY <1>1, <1>2, <1>3, PTL DEF BindingsSpec

-----------------------------------------------------------------------------
(***************************************************************************)
(* The waits of AgentTools.                                                *)
(*                                                                         *)
(* What an orchestrator was told of a wait is judged against the moment it *)
(* first asked.  Every deadline the broker holds for the wait, in a ticket *)
(* or in a request under way, is a whole timeout after that moment, also   *)
(* the one a request that was given up goes on with beside its retry.      *)
(***************************************************************************)

\* The least of a set of numbers, and the greatest of a bounded one.
LEMMA NatMinimum ==
    ASSUME NEW S, S \subseteq Nat, S # {}
    PROVE  \E x \in S : \A y \in S : x <= y
  <1> DEFINE R == OpToRel(<, Nat)
  <1>1. \A x, y \in Nat : <<y, x>> \in R <=> y < x
    BY DEF OpToRel
  <1>2. IsWellFoundedOn(R, Nat)
    BY NatLessThanWellFounded
  <1> HIDE DEF R
  <1>3. \E x \in S : \A y \in S : ~(<<y, x>> \in R)
    BY <1>2, WFMin
  <1>4. PICK x \in S : \A y \in S : ~(<<y, x>> \in R)
    BY <1>3
  <1>5. ASSUME NEW y \in S PROVE x <= y
    <2>1. x \in Nat /\ y \in Nat
      OBVIOUS
    <2>2. ~(y < x)
      BY <1>1, <1>4, <2>1
    <2> QED BY <2>1, <2>2
  <1> QED BY <1>5

LEMMA MaxOfBounded ==
    ASSUME NEW n \in Nat, NEW S, S \subseteq 0..n, S # {}
    PROVE  Max(S) \in S /\ Max(S) \in Nat /\ \A x \in S : Max(S) >= x
  <1> DEFINE T == {n - x : x \in S}
  <1>1. T \subseteq Nat /\ T # {}
    OBVIOUS
  <1>2. PICK t \in T : \A y \in T : t <= y
    BY <1>1, NatMinimum
  <1>3. PICK m \in S : t = n - m
    OBVIOUS
  <1>4. ASSUME NEW x \in S PROVE m >= x
    <2>1. n - x \in T
      OBVIOUS
    <2>2. n - m <= n - x
      BY <1>2, <1>3, <2>1
    <2>3. m \in 0..n /\ x \in 0..n
      OBVIOUS
    <2> QED BY <2>2, <2>3
  <1>5. \E k \in S : \A x \in S : k >= x
    BY <1>4
  <1>6. Max(S) \in S /\ \A x \in S : Max(S) >= x
    BY <1>5 DEF Max
  <1>7. S \subseteq Nat
    OBVIOUS
  <1> HIDE DEF Max
  <1> QED BY <1>6, <1>7

-----------------------------------------------------------------------------
Outcomes == {"none", "settled", "intervention", "timedOut", "intervention-required", "timed-out", "incomplete"}
Waits == [state : {"idle", "asked", "sleeping", "finishing", "answered"},
          ticket : Nat, deadline : Nat, wake : Nat, outcome : Outcomes]
Waiters == [call : Calls \cup {"none"}, ticket : Nat, deadline : Nat, since : Nat,
            heard : Outcomes, restarted : BOOLEAN]

WaitsTyped ==
    /\ clock \in Nat /\ lost \in Nat
    /\ waits \in [Calls -> Waits] /\ waiter \in Waiters
    /\ DOMAIN tickets \subseteq Nat /\ tickets \in [DOMAIN tickets -> Nat]

\* There is a greatest ticket, so that there is a next one.
Numbered ==
    \E n \in Nat : /\ DOMAIN tickets \subseteq 0 .. n /\ waiter.ticket <= n
                    /\ \A c \in Calls : waits[c].ticket <= n

\* No deadline is short of a whole timeout after the wait was first asked for.
Patient ==
    /\ waiter.since <= clock
    /\ \A t \in DOMAIN tickets : waiter.since + Timeout <= tickets[t]
    /\ \A c \in Calls : waits[c].state \in {"sleeping", "finishing"} => waiter.since + Timeout <= waits[c].deadline
    /\ \A c \in Calls : waits[c].state = "answered" /\ waits[c].outcome = "timed-out" => waiter.since + Timeout <= clock
    /\ waiter.heard = "timed-out" => waiter.since + Timeout <= clock

\* While no answer was lost, the orchestrator's call is the only one, and a wait
\* it was told goes on has its ticket.
Undisturbed ==
    lost = 0 =>
      /\ \A c \in Calls : c # waiter.call => waits[c].state = "idle"
      /\ waiter.call = "none" /\ waiter.heard = "none" => DOMAIN tickets = {}
      /\ waiter.call = "none" /\ waiter.heard = "incomplete" => waiter.ticket \in DOMAIN tickets
      /\ \A c \in Calls : waits[c].state = "answered" =>
            /\ waits[c].outcome # "none"
            /\ waits[c].outcome = "incomplete" => waits[c].ticket \in DOMAIN tickets

ToolsInv == WaitsTyped /\ Numbered /\ Patient /\ Undisturbed

LEMMA ToolsInitInv == ToolsInit => ToolsInv
  <1> SUFFICES ASSUME ToolsInit PROVE ToolsInv
    OBVIOUS
  <1>1. /\ clock = 0 /\ lost = 0 /\ tickets = [i \in {} |-> 0]
        /\ waits = [c \in Calls |-> NoWait]
        /\ waiter = [call |-> "none", ticket |-> 0, deadline |-> 0, since |-> 0, heard |-> "none", restarted |-> FALSE]
    BY DEF ToolsInit, None
  <1>2. DOMAIN tickets = {} /\ tickets \in [DOMAIN tickets -> Nat]
    BY <1>1
  <1>3. NoWait \in Waits /\ NoWait.state = "idle" /\ NoWait.ticket = 0
    BY DEF NoWait, None, Waits, Outcomes
  <1>4. WaitsTyped
    BY <1>1, <1>2, <1>3 DEF WaitsTyped, Waiters, Outcomes
  <1>5. Numbered
    BY <1>1, <1>2, <1>3 DEF Numbered
  <1>6. Patient /\ Undisturbed
    BY <1>1, <1>2, <1>3 DEF Patient, Undisturbed
  <1> QED
    BY <1>4, <1>5, <1>6 DEF ToolsInv

LEMMA LosingCounts == WaitsTyped /\ Lose => lost' \in Nat /\ lost' # 0
  BY DEF WaitsTyped, Lose

\* Reads, starts and interventions are not about a wait.
LEMMA OthersKeepWaits ==
    ASSUME ToolsInv, UNCHANGED <<clock, tickets, waits, waiter>>, lost' = lost \/ Lose
    PROVE  ToolsInv'
  <1>1. lost' \in Nat /\ (lost' = 0 => lost = 0)
    BY LosingCounts DEF ToolsInv, WaitsTyped
  <1> QED
    BY <1>1 DEF ToolsInv, WaitsTyped, Numbered, Patient, Undisturbed

\* A step of one request that keeps its ticket.
LEMMA RequestMoves ==
    ASSUME ToolsInv, NEW c \in Calls, NEW r \in Waits, waits' = [waits EXCEPT ![c] = r],
           UNCHANGED <<clock, tickets, waiter>>, lost' = lost \/ Lose,
           r.ticket \in {waits[c].ticket, waiter.ticket, 0},
           r.state \in {"sleeping", "finishing"} => waiter.since + Timeout <= r.deadline,
           r.state = "answered" => r.outcome \notin {"none", "timed-out", "incomplete"},
           r.state = "idle" \/ waits[c].state # "idle"
    PROVE  ToolsInv'
  <1>1. lost' \in Nat /\ (lost' = 0 => lost = 0)
    BY LosingCounts DEF ToolsInv, WaitsTyped
  <1>2. /\ waits \in [Calls -> Waits] /\ waits' \in [Calls -> Waits] /\ waits'[c] = r
        /\ \A d \in Calls : d # c => waits'[d] = waits[d]
    BY DEF ToolsInv, WaitsTyped
  <1>3. WaitsTyped'
    BY <1>1, <1>2 DEF ToolsInv, WaitsTyped
  <1>4. Numbered'
    <2>1. PICK n \in Nat : /\ DOMAIN tickets \subseteq 0 .. n /\ waiter.ticket <= n
                           /\ \A d \in Calls : waits[d].ticket <= n
      BY DEF ToolsInv, Numbered
    <2>2. \A d \in Calls : waits'[d].ticket <= n
      BY <1>2, <2>1
    <2> QED
      BY <2>1, <2>2 DEF Numbered
  <1>5. Patient'
    BY <1>2 DEF ToolsInv, Patient
  <1>6. Undisturbed'
    BY <1>1, <1>2 DEF ToolsInv, Undisturbed
  <1> QED
    BY <1>3, <1>4, <1>5, <1>6 DEF ToolsInv

LEMMA IdleWait == NoWait \in Waits /\ NoWait.state = "idle" /\ NoWait.ticket = 0
  BY DEF NoWait, None, Waits, Outcomes

\* Nothing else runs when the orchestrator asks for the first time.
LEMMA AskWaitKeeps ==
    ASSUME ToolsInv, NEW c \in Calls, AskWait(c)
    PROVE  ToolsInv'
  <1>0. WaitsTyped /\ Numbered /\ Patient /\ Undisturbed
    BY DEF ToolsInv
  <1>1. PICK t \in Nat : /\ t = IF waiter.heard = "none" /\ waiter.ticket = None /\ lost = 0 THEN clock ELSE waiter.since
                        /\ waiter' = [waiter EXCEPT !.call = c, !.since = t]
    BY <1>0 DEF AskWait, WaitsTyped, Waiters
  <1>2. PICK r \in Waits : /\ r.state = "asked" /\ r.ticket = waiter.ticket
                          /\ waits' = [waits EXCEPT ![c] = r]
    <2>1. [NoWait EXCEPT !.state = "asked", !.ticket = waiter.ticket] \in Waits
      BY <1>0, IdleWait DEF Waits, WaitsTyped, Waiters
    <2> QED
      BY <2>1, IdleWait DEF AskWait, Waits
  <1>3. /\ waiter.call = "none" /\ waits[c].state = "idle" /\ UNCHANGED <<clock, tickets, lost>>
    BY DEF AskWait
  <1>4. /\ waiter' \in Waiters /\ waiter'.call = c /\ waiter'.since = t /\ waiter'.heard = waiter.heard
        /\ waiter'.ticket = waiter.ticket
    BY <1>0, <1>1 DEF WaitsTyped, Waiters
  <1>5. /\ waits' \in [Calls -> Waits] /\ waits'[c] = r
        /\ \A d \in Calls : d # c => waits'[d] = waits[d]
    BY <1>0, <1>2 DEF WaitsTyped
  <1>6. WaitsTyped'
    BY <1>0, <1>3, <1>4, <1>5 DEF WaitsTyped
  <1>7. Numbered'
    BY <1>0, <1>2, <1>3, <1>4, <1>5 DEF Numbered
  <1>8. Undisturbed'
    BY <1>0, <1>2, <1>3, <1>4, <1>5, ToolsAssumption DEF Undisturbed
  <1>9. Patient'
    <2>1. CASE waiter.heard = "none" /\ lost = 0
      <3>1. DOMAIN tickets = {} /\ \A d \in Calls : waits[d].state = "idle"
        BY <1>0, <1>3, <2>1, ToolsAssumption DEF Undisturbed
      <3>2. t <= clock
        BY <1>0, <1>1 DEF Patient, WaitsTyped
      <3> QED
        BY <1>2, <1>3, <1>4, <1>5, <2>1, <3>1, <3>2 DEF Patient
    <2>2. CASE ~(waiter.heard = "none" /\ lost = 0)
      <3>1. t = waiter.since
        BY <1>1, <2>2
      <3> QED
        BY <1>0, <1>2, <1>3, <1>4, <1>5, <3>1 DEF Patient
    <2> QED
      BY <2>1, <2>2
  <1> QED
    BY <1>6, <1>7, <1>8, <1>9 DEF ToolsInv

\* Who resumes a wait resumes its deadline.
LEMMA WaitForWorkersKeeps ==
    ASSUME ToolsInv, NEW c \in Calls, WaitForWorkers(c)
    PROVE  ToolsInv'
  <1>0. WaitsTyped /\ Numbered /\ Patient /\ Undisturbed
    BY DEF ToolsInv
  <1> DEFINE live == [t \in {t \in DOMAIN tickets : tickets[t] + Grace >= clock} |-> tickets[t]]
             asked == waits[c].ticket
             id == IF asked \in DOMAIN live THEN asked ELSE NextTicket
             deadline == DeadlineOf(live, asked)
             remaining == IF deadline > clock THEN deadline - clock ELSE 0
             looking == scene.intervene /\ remaining > 0 /\ asking # {}
             r == [state |-> IF done = Targets \/ looking THEN "finishing" ELSE "sleeping",
                   ticket |-> id, deadline |-> deadline, wake |-> clock + SegmentOf(remaining),
                   outcome |-> CASE done = Targets -> "settled"
                                 [] done # Targets /\ looking -> "intervention"
                                 [] OTHER -> "none"]
  <1>1. /\ waits[c].state = "asked" /\ tickets' = live /\ waits' = [waits EXCEPT ![c] = r]
        /\ UNCHANGED <<clock, waiter, lost>>
    BY DEF WaitForWorkers
  <1>2. /\ DOMAIN live \subseteq DOMAIN tickets /\ DOMAIN live \subseteq Nat /\ live \in [DOMAIN live -> Nat]
        /\ \A t \in DOMAIN live : live[t] = tickets[t]
    BY <1>0 DEF WaitsTyped
  <1> HIDE DEF live
  <1>3. deadline \in Nat /\ waiter.since + Timeout <= deadline
    <2>1. clock + Timeout \in Nat /\ waiter.since + Timeout <= clock + Timeout
      BY <1>0, ToolsAssumption DEF WaitsTyped, Patient, Waiters
    <2> QED
      BY <1>0, <1>2, <2>1 DEF DeadlineOf, Patient
  <1>4. remaining \in Nat /\ SegmentOf(remaining) \in Nat
    <2>1. remaining \in Nat
      BY <1>0, <1>3 DEF WaitsTyped
    <2> HIDE DEF remaining
    <2>2. {remaining, Segment} \subseteq Nat
      BY <2>1, ToolsAssumption
    <2>3. PICK m \in {remaining, Segment} : \A x \in {remaining, Segment} : m <= x
      BY <2>1, <2>2
    <2>4. Min({remaining, Segment}) \in {remaining, Segment}
      BY <2>3 DEF Min
    <2> QED
      BY <2>1, <2>2, <2>4 DEF SegmentOf
  <1>5. PICK n \in Nat : /\ DOMAIN tickets \subseteq 0 .. n /\ waiter.ticket <= n
                        /\ \A d \in Calls : waits[d].ticket <= n
    BY <1>0 DEF Numbered
  <1>6. id \in Nat /\ id <= n + 1
    <2> DEFINE S == {0} \cup DOMAIN tickets \cup {waits[d].ticket : d \in Calls} \cup {waiter.ticket}
    <2>1. S \subseteq 0 .. n /\ S # {}
      BY <1>0, <1>5 DEF WaitsTyped, Waits, Waiters
    <2> HIDE DEF S
    <2>2. Max(S) \in S
      BY <2>1, MaxOfBounded
    <2>3. NextTicket = 1 + Max(S)
      BY DEF NextTicket, S
    <2>4. asked \in Nat /\ asked <= n
      BY <1>0, <1>5 DEF WaitsTyped, Waits
    <2>5. NextTicket \in Nat /\ NextTicket <= n + 1
      <3>1. PICK m \in 0 .. n : m = Max(S)
        BY <2>1, <2>2
      <3> QED
        BY <2>3, <3>1
    <2> HIDE DEF asked
    <2>6. asked <= n + 1
      BY <2>4
    <2> QED
      BY <2>4, <2>5, <2>6
  <1> HIDE DEF deadline, id, remaining
  <1>7. /\ r \in Waits /\ r.ticket = id /\ r.deadline = deadline /\ r.state \in {"finishing", "sleeping"}
    <2>1. clock + SegmentOf(remaining) \in Nat
      BY <1>0, <1>4 DEF WaitsTyped
    <2> HIDE DEF looking
    <2> QED
      BY <1>3, <1>6, <2>1 DEF Waits, Outcomes
  <1> HIDE DEF r
  <1>8. /\ waits' \in [Calls -> Waits] /\ waits'[c] = r
        /\ \A d \in Calls : d # c => waits'[d] = waits[d]
    BY <1>0, <1>1, <1>7 DEF WaitsTyped
  <1>9. WaitsTyped'
    BY <1>0, <1>1, <1>2, <1>8 DEF WaitsTyped
  <1>10. Numbered'
    <2>1. n + 1 \in Nat /\ DOMAIN tickets' \subseteq 0 .. n + 1 /\ waiter'.ticket <= n + 1
      BY <1>0, <1>1, <1>2, <1>5 DEF WaitsTyped, Waiters
    <2>2. \A d \in Calls : waits'[d].ticket <= n + 1
      BY <1>0, <1>5, <1>6, <1>7, <1>8 DEF WaitsTyped, Waits
    <2> QED
      BY <2>1, <2>2 DEF Numbered
  <1>11. Patient'
    BY <1>0, <1>1, <1>2, <1>3, <1>7, <1>8 DEF Patient
  <1>12. Undisturbed'
    <2>1. CASE lost = 0
      <3>1. c = waiter.call /\ waiter.call # "none"
        BY <1>0, <1>1, <2>1, ToolsAssumption DEF Undisturbed
      <3> QED
        BY <1>0, <1>1, <1>7, <1>8, <2>1, <3>1 DEF Undisturbed
    <2>2. CASE lost # 0
      BY <1>1, <2>2 DEF Undisturbed
    <2> QED
      BY <2>1, <2>2
  <1> QED
    BY <1>9, <1>10, <1>11, <1>12 DEF ToolsInv

\* What settles wakes the requests that sleep.
LEMMA SettleKeeps ==
    ASSUME ToolsInv, NEW w, Settle(w)
    PROVE  ToolsInv'
  <1>0. WaitsTyped /\ Numbered /\ Patient /\ Undisturbed
    BY DEF ToolsInv
  <1>1. UNCHANGED <<clock, tickets, waiter, lost>> /\ waits' = Woken(done')
    BY DEF Settle
  <1>2. ASSUME NEW c \in Calls
        PROVE  /\ waits'[c] \in Waits /\ waits'[c].ticket = waits[c].ticket
               /\ \/ waits'[c] = waits[c]
                  \/ /\ waits[c].state = "sleeping" /\ waits'[c].state = "finishing"
                     /\ waits'[c].deadline = waits[c].deadline
    <2>1. waits[c] \in Waits
      BY <1>0 DEF WaitsTyped
    <2>2. PICK r : r = [waits[c] EXCEPT !.state = "finishing", !.outcome = "settled"]
      OBVIOUS
    <2>3. r \in Waits /\ r.ticket = waits[c].ticket /\ r.deadline = waits[c].deadline /\ r.state = "finishing"
      BY <2>1, <2>2 DEF Waits, Outcomes
    <2>4. waits'[c] = waits[c] \/ (waits[c].state = "sleeping" /\ waits'[c] = r)
      BY <1>1, <2>2 DEF Woken
    <2> QED
      BY <2>1, <2>3, <2>4
  <1>3. waits' = [c \in Calls |-> waits'[c]]
    BY <1>1 DEF Woken
  <1>4. WaitsTyped'
    BY <1>0, <1>1, <1>2, <1>3 DEF WaitsTyped
  <1>5. Numbered'
    BY <1>0, <1>1, <1>2 DEF Numbered
  <1>6. Patient'
    BY <1>0, <1>1, <1>2 DEF Patient
  <1>7. Undisturbed'
    BY <1>0, <1>1, <1>2 DEF Undisturbed
  <1> QED
    BY <1>4, <1>5, <1>6, <1>7 DEF ToolsInv

\* A request that sleeps goes on with its own deadline.
LEMMA FinishingKeeps ==
    ASSUME ToolsInv, NEW c \in Calls, Poll(c) \/ SegmentEnds(c)
    PROVE  ToolsInv'
  <1>0. WaitsTyped /\ Patient
    BY DEF ToolsInv
  <1>1. waits[c] \in Waits /\ waits[c].state = "sleeping" /\ UNCHANGED <<clock, tickets, waiter, lost>>
    BY <1>0 DEF WaitsTyped, Poll, SegmentEnds
  <1>2. PICK o \in {"intervention", "timedOut"} :
            waits' = [waits EXCEPT ![c].state = "finishing", ![c].outcome = o]
    BY DEF Poll, SegmentEnds
  <1>3. PICK r : r = [waits[c] EXCEPT !.state = "finishing", !.outcome = o]
    OBVIOUS
  <1>4. r \in Waits /\ r.state = "finishing" /\ r.ticket = waits[c].ticket /\ r.deadline = waits[c].deadline
    BY <1>1, <1>3 DEF Waits, Outcomes
  <1>5. waits' = [waits EXCEPT ![c] = r]
    BY <1>0, <1>1, <1>2, <1>3 DEF WaitsTyped
  <1>6. waiter.since + Timeout <= r.deadline
    BY <1>0, <1>1, <1>4 DEF Patient
  <1> QED
    BY <1>1, <1>4, <1>5, <1>6, RequestMoves

\* A wait that goes on keeps its ticket, with the deadline of the request.
LEMMA ConcludeKeeps ==
    ASSUME ToolsInv, NEW c \in Calls, Conclude(c)
    PROVE  ToolsInv'
  <1>0. WaitsTyped /\ Numbered /\ Patient /\ Undisturbed
    BY DEF ToolsInv
  <1>1. PICK state : /\ state \in Outcomes /\ state # "none"
                     /\ state = "timed-out" => clock >= waits[c].deadline
                     /\ tickets' = TicketsAfter(c, state)
                     /\ waits' = IF waiter.call = c
                                 THEN [waits EXCEPT ![c].state = "answered", ![c].outcome = state]
                                 ELSE [waits EXCEPT ![c] = NoWait]
    BY DEF Conclude, Outcomes
  <1>2. /\ waits[c] \in Waits /\ waits[c].state = "finishing" /\ UNCHANGED <<clock, waiter, lost>>
        /\ waiter.since + Timeout <= waits[c].deadline
    BY <1>0 DEF WaitsTyped, Conclude, Patient
  <1>3. PICK r \in Waits :
           /\ waits' = [waits EXCEPT ![c] = r] /\ r.ticket \in {waits[c].ticket, 0}
           /\ \/ waiter.call # c /\ r.state = "idle"
              \/ waiter.call = c /\ r.state = "answered" /\ r.outcome = state /\ r.ticket = waits[c].ticket
    <2>1. CASE waiter.call = c
      <3>1. PICK r : r = [waits[c] EXCEPT !.state = "answered", !.outcome = state]
        OBVIOUS
      <3>2. r \in Waits /\ r.state = "answered" /\ r.outcome = state /\ r.ticket = waits[c].ticket
        BY <1>1, <1>2, <3>1 DEF Waits
      <3>3. waits' = [waits EXCEPT ![c] = r]
        BY <1>0, <1>1, <2>1, <3>1 DEF WaitsTyped
      <3> QED
        BY <2>1, <3>2, <3>3
    <2>2. CASE waiter.call # c
      BY <1>1, <2>2, IdleWait
    <2> QED
      BY <2>1, <2>2
  <1>4. /\ waits' \in [Calls -> Waits] /\ waits'[c] = r
        /\ \A d \in Calls : d # c => waits'[d] = waits[d]
    BY <1>0, <1>3 DEF WaitsTyped
  <1>5. PICK i \in Nat, e \in Nat : i = waits[c].ticket /\ e = waits[c].deadline
    BY <1>2 DEF Waits
  <1>6. /\ DOMAIN tickets' \subseteq DOMAIN tickets \cup {i}
        /\ \A t \in DOMAIN tickets' : tickets'[t] = e \/ (t \in DOMAIN tickets /\ tickets'[t] = tickets[t])
        /\ tickets' = [t \in DOMAIN tickets' |-> tickets'[t]]
        /\ state = "incomplete" => i \in DOMAIN tickets'
    BY <1>1, <1>5 DEF TicketsAfter
  <1>7. DOMAIN tickets' \subseteq Nat /\ tickets' \in [DOMAIN tickets' -> Nat]
    <2>1. \A t \in DOMAIN tickets' : tickets'[t] \in Nat
      BY <1>0, <1>5, <1>6 DEF WaitsTyped
    <2> QED
      BY <1>0, <1>5, <1>6, <2>1 DEF WaitsTyped
  <1>8. WaitsTyped'
    BY <1>0, <1>2, <1>4, <1>7 DEF WaitsTyped
  <1>9. Numbered'
    <2>1. PICK n \in Nat : /\ DOMAIN tickets \subseteq 0 .. n /\ waiter.ticket <= n
                           /\ \A d \in Calls : waits[d].ticket <= n
      BY <1>0 DEF Numbered
    <2>2. DOMAIN tickets' \subseteq 0 .. n
      BY <1>5, <1>6, <2>1
    <2>3. \A d \in Calls : waits'[d].ticket <= n
      BY <1>3, <1>4, <2>1
    <2> QED
      BY <1>2, <2>1, <2>2, <2>3 DEF Numbered
  <1>10. Patient'
    <2>1. \A t \in DOMAIN tickets' : waiter.since + Timeout <= tickets'[t]
      BY <1>0, <1>2, <1>5, <1>6 DEF Patient
    <2>2. state = "timed-out" => waiter.since + Timeout <= clock
      BY <1>0, <1>1, <1>2, ToolsAssumption DEF WaitsTyped, Waits, Waiters
    <2> QED
      BY <1>0, <1>2, <1>3, <1>4, <2>1, <2>2 DEF Patient
  <1>11. Undisturbed'
    <2>1. CASE lost = 0
      <3>1. c = waiter.call /\ waiter.call # "none"
        BY <1>0, <1>2, <2>1, ToolsAssumption DEF Undisturbed
      <3> QED
        BY <1>0, <1>1, <1>2, <1>3, <1>4, <1>5, <1>6, <2>1, <3>1 DEF Undisturbed
    <2>2. CASE lost # 0
      BY <1>2, <2>2 DEF Undisturbed
    <2> QED
      BY <2>1, <2>2
  <1> QED
    BY <1>8, <1>9, <1>10, <1>11 DEF ToolsInv

\* What the orchestrator hears is what the request was answered.
LEMMA HearWaitKeeps ==
    ASSUME ToolsInv, NEW c \in Calls, HearWait(c)
    PROVE  ToolsInv'
  <1>0. WaitsTyped /\ Numbered /\ Patient /\ Undisturbed
    BY DEF ToolsInv
  <1>1. /\ waiter.call = c /\ waits[c].state = "answered" /\ waits[c] \in Waits /\ waiter \in Waiters
        /\ UNCHANGED <<clock, tickets, lost>> /\ waits' = [waits EXCEPT ![c] = NoWait]
    BY <1>0 DEF HearWait, WaitsTyped
  <1>2. PICK i \in Nat : i = IF waits[c].outcome = "incomplete" THEN waits[c].ticket ELSE waiter.ticket
    BY <1>1 DEF Waits, Waiters
  <1>3. waiter' = [waiter EXCEPT !.call = "none", !.heard = waits[c].outcome, !.ticket = i, !.deadline = waits[c].deadline]
    BY <1>1, <1>2 DEF HearWait, Waiters
  <1>4. /\ waiter' \in Waiters /\ waiter'.call = "none" /\ waiter'.heard = waits[c].outcome
        /\ waiter'.ticket = i /\ waiter'.since = waiter.since
    BY <1>1, <1>2, <1>3 DEF Waiters, Waits
  <1>5. /\ waits' \in [Calls -> Waits] /\ waits'[c] = NoWait
        /\ \A d \in Calls : d # c => waits'[d] = waits[d]
    BY <1>0, <1>1, IdleWait DEF WaitsTyped
  <1>6. WaitsTyped'
    BY <1>0, <1>1, <1>4, <1>5 DEF WaitsTyped
  <1>7. Numbered'
    <2>1. PICK n \in Nat : /\ DOMAIN tickets \subseteq 0 .. n /\ waiter.ticket <= n
                           /\ \A d \in Calls : waits[d].ticket <= n
      BY <1>0 DEF Numbered
    <2>2. waiter'.ticket <= n /\ \A d \in Calls : waits'[d].ticket <= n
      BY <1>2, <1>4, <1>5, <2>1, IdleWait
    <2> QED
      BY <1>1, <2>1, <2>2 DEF Numbered
  <1>8. Patient'
    BY <1>0, <1>1, <1>4, <1>5, IdleWait DEF Patient
  <1>9. Undisturbed'
    BY <1>0, <1>1, <1>2, <1>4, <1>5, IdleWait DEF Undisturbed
  <1> QED
    BY <1>6, <1>7, <1>8, <1>9 DEF ToolsInv

\* A call that was given up leaves its request behind.
LEMMA LoseWaitKeeps ==
    ASSUME ToolsInv, LoseWait
    PROVE  ToolsInv'
  <1>0. WaitsTyped /\ Numbered /\ Patient
    BY DEF ToolsInv
  <1>1. /\ UNCHANGED <<clock, tickets>> /\ lost' \in Nat /\ lost' # 0
        /\ waiter.call # "none" /\ waiter \in Waiters
        /\ waits' = IF waits[waiter.call].state = "answered" THEN [waits EXCEPT ![waiter.call] = NoWait] ELSE waits
        /\ waiter' = [waiter EXCEPT !.call = "none"]
    BY <1>0, LosingCounts DEF LoseWait, WaitsTyped
  <1>2. /\ waiter' \in Waiters /\ waiter'.call = "none" /\ waiter'.heard = waiter.heard
        /\ waiter'.ticket = waiter.ticket /\ waiter'.since = waiter.since
    BY <1>1 DEF Waiters
  <1>3. /\ waits' \in [Calls -> Waits]
        /\ \A d \in Calls : waits'[d] = waits[d] \/ waits'[d] = NoWait
    BY <1>0, <1>1, IdleWait DEF WaitsTyped
  <1>4. WaitsTyped'
    BY <1>0, <1>1, <1>2, <1>3 DEF WaitsTyped
  <1>5. Numbered'
    <2>1. PICK n \in Nat : /\ DOMAIN tickets \subseteq 0 .. n /\ waiter.ticket <= n
                           /\ \A d \in Calls : waits[d].ticket <= n
      BY <1>0 DEF Numbered
    <2>2. \A d \in Calls : waits'[d].ticket <= n
      BY <1>3, <2>1, IdleWait
    <2> QED
      BY <1>1, <1>2, <2>1, <2>2 DEF Numbered
  <1>6. Patient'
    BY <1>0, <1>1, <1>2, <1>3, IdleWait DEF Patient
  <1>7. Undisturbed'
    BY <1>1 DEF Undisturbed
  <1> QED
    BY <1>4, <1>5, <1>6, <1>7 DEF ToolsInv

\* Time only passes.
LEMMA TickKeeps ==
    ASSUME ToolsInv, ToolsTick
    PROVE  ToolsInv'
  <1>0. WaitsTyped /\ Numbered /\ Patient /\ Undisturbed
    BY DEF ToolsInv
  <1>1. /\ clock' = clock + 1 /\ UNCHANGED <<tickets, waits, waiter, lost>>
        /\ clock \in Nat /\ waiter.since \in Nat
    BY <1>0 DEF ToolsTick, WaitsTyped, Waiters
  <1>2. PICK e \in Nat : e = waiter.since + Timeout
    BY <1>1, ToolsAssumption
  <1>3. Patient'
    <2>1. /\ waiter.since <= clock'
          /\ \A t \in DOMAIN tickets' : e <= tickets'[t]
          /\ \A c \in Calls : waits'[c].state \in {"sleeping", "finishing"} => e <= waits'[c].deadline
      BY <1>0, <1>1, <1>2 DEF Patient
    <2>2. e <= clock => e <= clock'
      BY <1>1
    <2>3. \A c \in Calls : waits'[c].state = "answered" /\ waits'[c].outcome = "timed-out" => e <= clock'
      BY <1>0, <1>1, <1>2, <2>2 DEF Patient
    <2>4. waiter'.heard = "timed-out" => e <= clock'
      BY <1>0, <1>1, <1>2, <2>2 DEF Patient
    <2> QED
      BY <1>1, <1>2, <2>1, <2>3, <2>4 DEF Patient
  <1>4. WaitsTyped'
    BY <1>0, <1>1 DEF WaitsTyped
  <1>5. Numbered' /\ Undisturbed'
    BY <1>0, <1>1 DEF Numbered, Undisturbed
  <1> QED
    BY <1>3, <1>4, <1>5 DEF ToolsInv

\* A broker that starts again knows no ticket and no request.
LEMMA ToolsRestartKeeps ==
    ASSUME ToolsInv, ToolsRestart
    PROVE  ToolsInv'
  <1>0. WaitsTyped /\ Numbered /\ Patient
    BY DEF ToolsInv
  <1>1. /\ clock' = clock /\ lost' \in Nat /\ lost' # 0 /\ waiter \in Waiters
        /\ tickets' = [i \in {} |-> 0] /\ waits' = [c \in Calls |-> NoWait]
        /\ waiter' = [waiter EXCEPT !.call = "none", !.restarted = TRUE]
    BY <1>0, LosingCounts DEF ToolsRestart, WaitsTyped
  <1>2. /\ waiter' \in Waiters /\ waiter'.heard = waiter.heard
        /\ waiter'.ticket = waiter.ticket /\ waiter'.since = waiter.since
    BY <1>1 DEF Waiters
  <1>3. DOMAIN tickets' = {} /\ tickets' \in [DOMAIN tickets' -> Nat]
    BY <1>1
  <1>4. WaitsTyped'
    BY <1>0, <1>1, <1>2, <1>3, IdleWait DEF WaitsTyped
  <1>5. Numbered'
    BY <1>0, <1>1, <1>2, <1>3, IdleWait DEF Numbered
  <1>6. Patient'
    BY <1>0, <1>1, <1>2, <1>3, IdleWait DEF Patient
  <1>7. Undisturbed'
    BY <1>1 DEF Undisturbed
  <1> QED
    BY <1>4, <1>5, <1>6, <1>7 DEF ToolsInv

\* Every step of the tools.
LEMMA ToolsNextKeeps == ToolsInv /\ [ToolsNext]_toolsVars => ToolsInv'
  <1> SUFFICES ASSUME ToolsInv, [ToolsNext]_toolsVars PROVE ToolsInv'
    OBVIOUS
  <1>1. CASE Write \/ Rotate \/ LoseRead
    BY <1>1, OthersKeepWaits DEF Write, Rotate, LoseRead, waiting
  <1>2. ASSUME NEW c \in Calls, AskRead(c) \/ ReadThread(c) \/ ReadPage(c) \/ HearRead(c) PROVE ToolsInv'
    BY <1>2, OthersKeepWaits DEF AskRead, ReadThread, ReadPage, HearRead, waiting
  <1>3. ASSUME NEW w \in Targets, Settle(w) PROVE ToolsInv'
    BY <1>3, SettleKeeps
  <1>4. ASSUME NEW w \in Targets, Intervene(w) PROVE ToolsInv'
    BY <1>4, OthersKeepWaits DEF Intervene
  <1>5. ASSUME NEW c \in Calls, AskWait(c) PROVE ToolsInv'
    BY <1>5, AskWaitKeeps
  <1>6. ASSUME NEW c \in Calls, WaitForWorkers(c) PROVE ToolsInv'
    BY <1>6, WaitForWorkersKeeps
  <1>7. ASSUME NEW c \in Calls, Poll(c) \/ SegmentEnds(c) PROVE ToolsInv'
    BY <1>7, FinishingKeeps
  <1>8. ASSUME NEW c \in Calls, Conclude(c) PROVE ToolsInv'
    BY <1>8, ConcludeKeeps
  <1>9. ASSUME NEW c \in Calls, HearWait(c) PROVE ToolsInv'
    BY <1>9, HearWaitKeeps
  <1>10. CASE LoseWait
    BY <1>10, LoseWaitKeeps
  <1>11. CASE ToolsTick
    BY <1>11, TickKeeps
  <1>12. CASE ToolsRestart
    BY <1>12, ToolsRestartKeeps
  <1>13. ASSUME NEW w \in Targets,
                StartWorker(w) \/ StartScout(w) \/ Register(w) \/ Launch(w) \/ MarkLaunchFailed(w)
         PROVE  ToolsInv'
    <2>1. UNCHANGED <<clock, tickets, waits, waiter>>
      BY <1>13 DEF StartWorker, StartScout, Register, Launch, MarkLaunchFailed, waiting
    <2>2. lost' = lost \/ Lose
      BY <1>13 DEF StartWorker, StartScout, Register, Launch, MarkLaunchFailed
    <2> QED
      BY <2>1, <2>2, OthersKeepWaits
  <1>14. CASE Rest \/ UNCHANGED toolsVars
    BY <1>14, OthersKeepWaits DEF Rest, toolsVars, waiting
  <1> QED
    BY <1>1, <1>2, <1>3, <1>4, <1>5, <1>6, <1>7, <1>8, <1>9, <1>10, <1>11, <1>12, <1>13, <1>14 DEF ToolsNext

\* A wait is answered with what happened or after the whole of its time, over
\* however many calls, answers lost and restarts of the broker (openWait,
\* concludeWait), for any tools, targets, timeout and segment.
THEOREM ToolsWaitHonoured == ToolsSpec => []WaitHonoured
  <1>1. ToolsInit => ToolsInv
    BY ToolsInitInv
  <1>2. ToolsInv /\ [ToolsNext]_toolsVars => ToolsInv'
    BY ToolsNextKeeps
  <1>3. ToolsInv => WaitHonoured
    BY ToolsAssumption DEF ToolsInv, WaitsTyped, Waiters, Patient, Undisturbed, WaitHonoured
  <1> QED
    BY <1>1, <1>2, <1>3, PTL DEF ToolsSpec

-----------------------------------------------------------------------------
(* The session registry: where a start, a resume, a stop and a restart leave *)
(* the processes of one session, and the slots of the workers.               *)

\* The fields a step reads or changes.
RecordFields == {"in", "st", "exit", "gen", "attn", "up", "kids", "limit", "term", "card", "h",
                 "stop", "fin", "res", "keep"}
RecordLike(r) == RecordFields \subseteq DOMAIN r /\ r.gen \in Nat \ {0}
SnapshotLike(d) ==
    {"in", "st", "exit", "gen", "attn", "up", "kids", "limit", "term", "card"} \subseteq DOMAIN d /\ d.gen \in Nat \ {0}
ProcessLike(x) ==
    /\ {"of", "gen", "alive", "sig", "heard", "told", "rang"} \subseteq DOMAIN x
    /\ x.gen \in Nat /\ (x.told => ~x.alive)

\* Where a start stands that has not shown its thread yet, written nothing yet, spawned nothing yet.
EarlySteps == {"idle", "reserved", "provisioned", "activated", "preparing", "spawned"}
Holding == EarlySteps \ {"idle"}
Early(i) == launch[i].pc \in EarlySteps
Unwritten(i) == launch[i].pc \in {"idle", "reserved", "provisioned"}
Unspawned(i) == launch[i].pc \in EarlySteps \ {"spawned"}

Holders == {i \in Executed : launch[i].pc \in Holding}
Begun == {i \in Ids : launch[i].pc # "idle"}
\* A thread that counts as active with its first process.
FirstRun(r) == r.in /\ r.st = "active" /\ r.gen = 1
Firsts == {i \in Executed : FirstRun(rec[i])}

LaunchTyped == DOMAIN launch = Ids /\ \A i \in Ids : {"pc", "p"} \subseteq DOMAIN launch[i]

RecordsShown ==
    /\ DOMAIN rec = Ids
    /\ \A i \in Ids : RecordLike(rec[i]) /\ (Early(i) => ~rec[i].in /\ rec[i].h = NoProc)

RecordsWritten ==
    /\ DOMAIN disk = Ids
    /\ \A i \in Ids : SnapshotLike(disk[i]) /\ (Unwritten(i) => ~disk[i].in)

ProcessesTyped == DOMAIN proc = Procs /\ \A p \in Procs : ProcessLike(proc[p])

ResumesTyped ==
    /\ DOMAIN resume = Ids
    /\ \A i \in Ids : /\ {"pc", "prev", "p"} \subseteq DOMAIN resume[i]
                      /\ Early(i) => resume[i].pc = "idle"
                      /\ resume[i].pc = "spawned" => /\ resume[i].p \in Procs /\ proc[resume[i].p].of = i
                                                     /\ proc[resume[i].p].gen >= 2

SupervisorRests(u) == u.cap = "idle" /\ u.cut = "no" /\ ~u.armed /\ u.final \in {"no", "done"}
ScoutsSupervised ==
    /\ DOMAIN sup = ScoutIds
    /\ \A s \in ScoutIds : /\ {"cap", "final", "code", "clean", "armed", "cut", "answered", "said", "dirty"}
                                 \subseteq DOMAIN sup[s]
                           /\ Early(s) => SupervisorRests(sup[s])

\* A start finds no process of its session, a resume none that the executor still looks for.
SpawnsAlone ==
    /\ \A i \in Ids : Unspawned(i) => \A p \in Procs : proc[p].of # i
    /\ \A i \in Executed : resume[i].pc = "preparing" => Unreaped(i) = {}
OneAlive == \A i \in Executed : \A p, q \in Live(i) : p = q

SlotsCounted ==
    /\ IsFiniteSet(Begun)
    /\ reserved = Cardinality(Holders)
    /\ reserved + Cardinality(Firsts) <= MaxWorkers

LifeTyped == /\ LaunchTyped /\ RecordsShown /\ RecordsWritten /\ ProcessesTyped
             /\ ResumesTyped /\ ScoutsSupervised

LifeInv == LifeTyped /\ SpawnsAlone /\ OneAlive /\ SlotsCounted

-----------------------------------------------------------------------------
(* Steps that move no start: what each may do to the records, the store, the *)
(* processes, the resumes and the Scouts' supervision.                       *)

RecordsQuiet ==
    /\ DOMAIN rec' = Ids
    /\ \A i \in Ids : \/ rec'[i] = rec[i]
                      \/ /\ RecordLike(rec'[i]) /\ (FirstRun(rec'[i]) => FirstRun(rec[i]))
                         /\ Early(i) => ~rec'[i].in /\ rec'[i].h = NoProc
DiskQuiet ==
    /\ DOMAIN disk' = Ids
    /\ \A i \in Ids : \/ disk'[i] = disk[i]
                      \/ SnapshotLike(disk'[i]) /\ (Unwritten(i) => ~disk'[i].in)
ProcessesQuiet ==
    /\ DOMAIN proc' = Procs
    /\ \A p \in Procs : /\ ProcessLike(proc'[p])
                        /\ proc'[p].of = proc[p].of /\ proc'[p].gen = proc[p].gen
                        /\ proc'[p].alive => proc[p].alive
                        /\ proc[p].told => proc'[p].told
ResumesQuiet ==
    /\ DOMAIN resume' = Ids
    /\ \A i \in Ids : \/ resume'[i] = resume[i]
                      \/ /\ {"pc", "prev", "p"} \subseteq DOMAIN resume'[i] /\ ~Early(i)
                         /\ resume'[i].pc \notin {"preparing", "spawned"}
SupQuiet ==
    /\ DOMAIN sup' = ScoutIds
    /\ \A s \in ScoutIds : \/ sup'[s] = sup[s]
                           \/ /\ {"cap", "final", "code", "clean", "armed", "cut", "answered", "said", "dirty"}
                                    \subseteq DOMAIN sup'[s]
                              /\ ~Early(s)

LEMMA UnchangedQuiet ==
    ASSUME LifeTyped
    PROVE  /\ UNCHANGED rec => RecordsQuiet
           /\ UNCHANGED disk => DiskQuiet
           /\ UNCHANGED proc => ProcessesQuiet
           /\ UNCHANGED resume => ResumesQuiet
           /\ UNCHANGED sup => SupQuiet
  BY DEF LifeTyped, RecordsShown, RecordsWritten, ProcessesTyped, ResumesTyped, ScoutsSupervised,
         RecordsQuiet, DiskQuiet, ProcessesQuiet, ResumesQuiet, SupQuiet

LEMMA ExecutedAreIds == Executed \subseteq Ids /\ ScoutIds \subseteq Ids
  BY DEF Executed, Ids

\* The alive and the unheard processes of a session only become fewer.
LEMMA ProcessesShrink ==
    ASSUME ProcessesQuiet, NEW i
    PROVE  Live(i)' \subseteq Live(i) /\ Unreaped(i)' \subseteq Unreaped(i)
  BY DEF ProcessesQuiet, Live, Unreaped

LEMMA CountsKeep ==
    ASSUME SessionAssumption, SlotsCounted, Holders' = Holders, IsFiniteSet(Begun)', reserved' = reserved,
           Firsts' \subseteq Firsts, Firsts \subseteq Begun
    PROVE  SlotsCounted'
  <1>1. IsFiniteSet(Firsts)
    BY FS_Subset DEF SlotsCounted
  <1>2. /\ Cardinality(Firsts') <= Cardinality(Firsts)
        /\ Cardinality(Firsts') \in Nat /\ Cardinality(Firsts) \in Nat
    BY <1>1, FS_Subset, FS_CardinalityType
  <1>3. IsFiniteSet(Holders) /\ Cardinality(Holders) \in Nat
    <2>1. Holders \subseteq Begun
      BY ExecutedAreIds DEF Holders, Begun, Holding
    <2> QED
      BY <2>1, FS_Subset, FS_CardinalityType DEF SlotsCounted
  <1> QED
    BY <1>2, <1>3 DEF SlotsCounted, SessionAssumption

LEMMA FirstsBegun ==
    ASSUME LifeTyped
    PROVE  Firsts \subseteq Begun
  BY ExecutedAreIds DEF LifeTyped, RecordsShown, Firsts, FirstRun, Begun, Early, EarlySteps

LEMMA QuietKeeps ==
    ASSUME SessionAssumption, LifeInv, UNCHANGED <<launch, reserved>>,
           RecordsQuiet, DiskQuiet, ProcessesQuiet, ResumesQuiet, SupQuiet
    PROVE  LifeInv'
  <1>0. LifeTyped /\ SpawnsAlone /\ OneAlive /\ SlotsCounted
    BY DEF LifeInv
  <1>1. \A i : Early(i)' = Early(i) /\ Unwritten(i)' = Unwritten(i) /\ Unspawned(i)' = Unspawned(i)
    BY DEF Early, Unwritten, Unspawned
  <1>2. LaunchTyped'
    BY <1>0 DEF LifeTyped, LaunchTyped
  <1>3. RecordsShown'
    BY <1>0, <1>1 DEF LifeTyped, RecordsShown, RecordsQuiet
  <1>4. RecordsWritten'
    BY <1>0, <1>1 DEF LifeTyped, RecordsWritten, DiskQuiet
  <1>5. ProcessesTyped'
    BY DEF ProcessesTyped, ProcessesQuiet
  <1>6. ResumesTyped'
    BY <1>0, <1>1 DEF LifeTyped, ResumesTyped, ResumesQuiet, ProcessesQuiet
  <1>7. ScoutsSupervised'
    BY <1>0, <1>1 DEF LifeTyped, ScoutsSupervised, SupQuiet
  <1>8. SpawnsAlone'
    <2>1. ASSUME NEW i \in Executed, resume'[i].pc = "preparing" PROVE Unreaped(i)' = {}
      <3>1. resume[i].pc = "preparing"
        BY <2>1, ExecutedAreIds DEF ResumesQuiet
      <3> QED
        BY <1>0, <3>1, ProcessesShrink DEF SpawnsAlone
    <2>2. ASSUME NEW i \in Ids, Unspawned(i)', NEW p \in Procs PROVE proc'[p].of # i
      BY <1>0, <1>1, <2>2 DEF SpawnsAlone, ProcessesQuiet
    <2> QED
      BY <2>1, <2>2 DEF SpawnsAlone
  <1>9. OneAlive'
    <2>1. ASSUME NEW i \in Executed, NEW p \in Live(i)', NEW q \in Live(i)' PROVE p = q
      BY <1>0, ProcessesShrink DEF OneAlive
    <2> QED
      BY <2>1 DEF OneAlive
  <1>10. SlotsCounted'
    <2>1. Holders' = Holders /\ Begun' = Begun
      BY DEF Holders, Begun
    <2>2. Firsts' \subseteq Firsts
      BY ExecutedAreIds DEF Firsts, RecordsQuiet
    <2>3. IsFiniteSet(Begun)'
      BY <1>0, <2>1 DEF SlotsCounted
    <2> QED
      BY <1>0, <2>1, <2>2, <2>3, CountsKeep, FirstsBegun
  <1> QED
    BY <1>2, <1>3, <1>4, <1>5, <1>6, <1>7, <1>8, <1>9, <1>10 DEF LifeInv, LifeTyped

-----------------------------------------------------------------------------
(* Updates of one entry.                                                     *)

LEMMA OneRecord ==
    ASSUME LifeTyped, NEW i, NEW r, rec' = [rec EXCEPT ![i] = r],
           i \in Ids => RecordLike(r) /\ ~Early(i) /\ (FirstRun(r) => FirstRun(rec[i]))
    PROVE  RecordsQuiet
  BY DEF LifeTyped, RecordsShown, RecordsQuiet

LEMMA OneSnapshot ==
    ASSUME LifeTyped, NEW i, NEW r, disk' = [disk EXCEPT ![i] = Stored(r)],
           i \in Ids => RecordLike(r) /\ ~Unwritten(i)
    PROVE  DiskQuiet
  <1>1. i \in Ids => SnapshotLike(Stored(r))
    BY DEF RecordLike, SnapshotLike, Stored
  <1> QED
    BY <1>1 DEF LifeTyped, RecordsWritten, DiskQuiet

LEMMA Signals ==
    ASSUME LifeTyped, NEW x, proc' = Killed(x) \/ proc' = Terminated(x) \/ proc' = proc
    PROVE  ProcessesQuiet
  BY DEF Killed, Terminated, LifeTyped, ProcessesTyped, ProcessLike, ProcessesQuiet

LEMMA OneSupervisor ==
    ASSUME LifeTyped, NEW s, NEW u, sup' = [sup EXCEPT ![s] = u],
           s \in ScoutIds => /\ {"cap", "final", "code", "clean", "armed", "cut", "answered", "said", "dirty"} \subseteq DOMAIN u
                             /\ ~Early(s)
    PROVE  SupQuiet
  BY DEF LifeTyped, ScoutsSupervised, SupQuiet

LEMMA OneResume ==
    ASSUME LifeTyped, NEW i, NEW x, resume' = [resume EXCEPT ![i] = x],
           i \in Ids => /\ {"pc", "prev", "p"} \subseteq DOMAIN x /\ ~Early(i)
                        /\ x.pc \notin {"preparing", "spawned"}
    PROVE  ResumesQuiet
  BY DEF LifeTyped, ResumesTyped, ResumesQuiet

LEMMA ShownIsLate ==
    ASSUME LifeTyped, NEW i \in Ids
    PROVE  /\ rec[i].in => ~Early(i)
           /\ rec[i].h # NoProc => ~Early(i)
           /\ resume[i].pc # "idle" => ~Early(i)
           /\ i \in ScoutIds => (~SupervisorRests(sup[i]) => ~Early(i))
           /\ ~Early(i) => ~Unwritten(i)
           /\ RecordLike(rec[i])
  BY DEF LifeTyped, RecordsShown, ResumesTyped, ScoutsSupervised, Early, EarlySteps, Unwritten

-----------------------------------------------------------------------------
(* Stopping, deleting, exits and supervision move no start.                  *)

LEMMA StopSessionKeeps ==
    ASSUME LifeTyped, NEW i, StopSession(i)
    PROVE  RecordsQuiet /\ DiskQuiet /\ ProcessesQuiet
  <1>1. PICK a, b : /\ a = [rec[i] EXCEPT !.attn = "stopped"]
                    /\ b = [rec[i] EXCEPT !.stop = TRUE, !.st = "cancelled", !.keep = closing /\ rec[i].attn = "done",
                                          !.attn = IF closing /\ rec[i].attn = "done" THEN @ ELSE "stopping"]
    OBVIOUS
  <1>2. i \in Ids => RecordLike(a) /\ RecordLike(b) /\ (FirstRun(a) => FirstRun(rec[i])) /\ ~FirstRun(b)
    BY <1>1, ShownIsLate DEF RecordLike, RecordFields, FirstRun
  <1>3. \/ rec' = rec /\ disk' = disk
        \/ /\ rec[i].in /\ rec' = [rec EXCEPT ![i] = a] /\ disk' = [disk EXCEPT ![i] = Stored(rec'[i])]
        \/ /\ rec[i].in /\ rec' = [rec EXCEPT ![i] = b]
           /\ disk' = disk \/ disk' = [disk EXCEPT ![i] = Stored(b)]
    BY <1>1 DEF StopSession
  <1>4. proc' = proc \/ proc' = Terminated(rec[i].h)
    BY DEF StopSession
  <1>5. ProcessesQuiet
    BY <1>4, Signals
  <1>6. CASE rec' = rec /\ disk' = disk
    BY <1>5, <1>6, UnchangedQuiet
  <1>7. CASE rec[i].in /\ rec' = [rec EXCEPT ![i] = a] /\ disk' = [disk EXCEPT ![i] = Stored(rec'[i])]
    <2>1. i \in Ids => ~Early(i) /\ ~Unwritten(i)
      BY <1>7, ShownIsLate
    <2>2. RecordsQuiet
      BY <1>2, <1>7, <2>1, OneRecord
    <2>3. i \in Ids => rec'[i] = a
      BY <1>7 DEF LifeTyped, RecordsShown
    <2>4. i \in Ids => RecordLike(rec'[i])
      BY <1>2, <2>3
    <2>5. DiskQuiet
      BY <1>7, <2>1, <2>4, OneSnapshot
    <2> QED
      BY <1>5, <2>2, <2>5
  <1>8. CASE /\ rec[i].in /\ rec' = [rec EXCEPT ![i] = b]
             /\ disk' = disk \/ disk' = [disk EXCEPT ![i] = Stored(b)]
    <2>1. i \in Ids => ~Early(i) /\ ~Unwritten(i)
      BY <1>8, ShownIsLate
    <2>2. RecordsQuiet
      BY <1>2, <1>8, <2>1, OneRecord
    <2>3. DiskQuiet
      BY <1>2, <1>8, <2>1, OneSnapshot, UnchangedQuiet
    <2> QED
      BY <1>5, <2>2, <2>3
  <1> QED
    BY <1>3, <1>6, <1>7, <1>8

LEMMA StoppingKeeps ==
    ASSUME SessionAssumption, LifeInv, Stopping
    PROVE  LifeInv'
  <1>0. LifeTyped
    BY DEF LifeInv
  <1>1. UNCHANGED <<launch, reserved, resume, sup>>
    BY DEF Stopping, StopThread, StopKills, ForceStop, StopTree, Shutdown, StopAll, StopNext, services, processes
  <1>2. CASE \E i \in Ids : StopThread(i) \/ StopTree(i)
    BY <1>0, <1>1, <1>2, StopSessionKeeps, UnchangedQuiet, QuietKeeps DEF StopThread, StopTree
  <1>3. CASE \E job \in todo : StopNext(job)
    <2>1. PICK job \in todo : StopNext(job)
      BY <1>3
    <2>2. UNCHANGED <<rec, disk, proc>> \/ StopSession(job.of)
      BY <2>1 DEF StopNext
    <2> QED
      BY <1>0, <1>1, <2>2, StopSessionKeeps, UnchangedQuiet, QuietKeeps
  <1>4. CASE \E i \in Ids : StopKills(i) \/ ForceStop(i)
    <2>1. PICK i \in Ids : StopKills(i) \/ ForceStop(i)
      BY <1>4
    <2>2. UNCHANGED <<rec, disk>> /\ (proc' = proc \/ proc' = Killed(rec[i].h) \/ proc' = Terminated(rec[i].h))
      BY <2>1 DEF StopKills, ForceStop
    <2> QED
      BY <1>0, <1>1, <2>2, Signals, UnchangedQuiet, QuietKeeps
  <1>5. CASE Shutdown \/ StopAll
    <2>1. UNCHANGED <<rec, disk, proc>>
      BY <1>5 DEF Shutdown, StopAll, processes
    <2> QED
      BY <1>0, <1>1, <2>1, UnchangedQuiet, QuietKeeps
  <1> QED
    BY <1>2, <1>3, <1>4, <1>5 DEF Stopping

LEMMA OrphanedQuiet ==
    ASSUME LifeTyped, NEW i \in Ids, rec[i].in, rec' = Orphaned(i)
    PROVE  RecordsQuiet /\ \A j \in Ids : RecordLike(rec'[j]) /\ (rec'[j] # rec[j] => ~Unwritten(j))
  <1>1. ASSUME NEW j \in Ids
        PROVE  \/ rec'[j] = rec[j]
               \/ /\ rec[j].in /\ RecordLike(rec'[j]) /\ (FirstRun(rec'[j]) => FirstRun(rec[j]))
    <2>1. RecordLike(rec[j])
      BY ShownIsLate
    <2>2. PICK a, b : a = [rec[j] EXCEPT !.up = NoOne] /\ b = [rec[j] EXCEPT !.kids = @ \ {i}]
      OBVIOUS
    <2>3. rec'[j] = rec[j] \/ (rec[j].in /\ rec'[j] \in {a, b})
      BY <2>2 DEF Orphaned
    <2>4. RecordLike(a) /\ RecordLike(b) /\ (FirstRun(a) => FirstRun(rec[j])) /\ (FirstRun(b) => FirstRun(rec[j]))
      BY <2>1, <2>2 DEF RecordLike, RecordFields, FirstRun
    <2> QED
      BY <2>3, <2>4
  <1>2. DOMAIN rec' = Ids
    BY DEF Orphaned
  <1>3. RecordsQuiet
    BY <1>1, <1>2, ShownIsLate DEF RecordsQuiet
  <1> QED
    BY <1>1, <1>3, ShownIsLate

LEMMA DeletionKeeps ==
    ASSUME SessionAssumption, LifeInv, Deletion
    PROVE  LifeInv'
  <1>0. LifeTyped
    BY DEF LifeInv
  <1>1. UNCHANGED <<launch, reserved, resume, sup, proc>>
    BY DEF Deletion, Delete, SweepRetention, DeleteDrop, processes
  <1>2. CASE \E i \in Ids : Delete(i)
    <2>1. PICK i \in Ids : Delete(i)
      BY <1>2
    <2>2. rec[i].in /\ rec' = Orphaned(i)
      BY <2>1 DEF Delete, MayDelete
    <2>3. disk' = [j \in Ids |-> IF rec'[j] # rec[j] THEN Stored(rec'[j]) ELSE disk[j]]
      BY <2>1 DEF Delete
    <2>4. RecordsQuiet /\ \A j \in Ids : RecordLike(rec'[j]) /\ (rec'[j] # rec[j] => ~Unwritten(j))
      BY <1>0, <2>2, OrphanedQuiet
    <2>5. \A j \in Ids : SnapshotLike(Stored(rec'[j]))
      BY <2>4 DEF RecordLike, RecordFields, SnapshotLike, Stored
    <2>6. DiskQuiet
      BY <2>3, <2>4, <2>5 DEF DiskQuiet
    <2> QED
      BY <1>0, <1>1, <2>4, <2>6, UnchangedQuiet, QuietKeeps
  <1>3. CASE \E i \in Ids : DeleteDrop(i)
    <2>1. PICK i \in Ids : DeleteDrop(i)
      BY <1>3
    <2>2. disk' = [disk EXCEPT ![i].in = FALSE] /\ rec' = [rec EXCEPT ![i].in = FALSE]
      BY <2>1 DEF DeleteDrop
    <2>3. RecordsQuiet
      <3>1. PICK r : r = [rec[i] EXCEPT !.in = FALSE]
        OBVIOUS
      <3>2. RecordLike(rec[i]) /\ (Early(i) => rec[i].h = NoProc)
        BY <1>0 DEF LifeTyped, RecordsShown
      <3>3. RecordLike(r) /\ ~FirstRun(r) /\ ~r.in /\ r.h = rec[i].h
        BY <3>1, <3>2 DEF RecordLike, RecordFields, FirstRun
      <3>4. rec' = [rec EXCEPT ![i] = r]
        BY <2>2, <3>1
      <3> QED
        BY <1>0, <3>2, <3>3, <3>4 DEF LifeTyped, RecordsShown, RecordsQuiet
    <2>4. DiskQuiet
      BY <1>0, <2>2 DEF LifeTyped, RecordsWritten, SnapshotLike, DiskQuiet
    <2> QED
      BY <1>0, <1>1, <2>3, <2>4, UnchangedQuiet, QuietKeeps
  <1> QED
    BY <1>2, <1>3 DEF Deletion, SweepRetention

LEMMA PublishQuiet ==
    ASSUME LifeTyped, NEW i, NEW r, NEW code, PublishRecord(i, r, code),
           i \in Ids => RecordLike(r) /\ ~Early(i)
    PROVE  RecordsQuiet /\ DiskQuiet
  <1>1. ExitStatus(r, code) # "active"
    BY DEF ExitStatus
  <1>2. PICK x : x = [r EXCEPT !.st = ExitStatus(r, code), !.attn = Attention(r, code), !.exit = code, !.fin = FALSE]
    OBVIOUS
  <1>3. i \in Ids => RecordLike(x) /\ ~FirstRun(x) /\ ~Early(i) /\ ~Unwritten(i)
    BY <1>1, <1>2, ShownIsLate DEF RecordLike, RecordFields, FirstRun
  <1>4. rec' = [rec EXCEPT ![i] = x] /\ disk' = [disk EXCEPT ![i] = Stored(rec'[i])]
    BY <1>2 DEF PublishRecord
  <1>5. i \in Ids => rec'[i] = x
    BY <1>4 DEF LifeTyped, RecordsShown
  <1> QED
    BY <1>3, <1>4, <1>5, OneRecord, OneSnapshot

LEMMA HandleExitQuiet ==
    ASSUME LifeTyped, NEW i, NEW p, NEW r, NEW code, HandleExit(i, p, r, code),
           i \in Ids => RecordLike(r) /\ ~Early(i) /\ (FirstRun(r) => FirstRun(rec[i]))
    PROVE  RecordsQuiet /\ DiskQuiet
  <1>1. CASE PublishRecord(i, r, code)
    BY <1>1, PublishQuiet
  <1>2. CASE rec' = [rec EXCEPT ![i] = r] /\ disk' = disk
    BY <1>2, OneRecord, UnchangedQuiet
  <1>3. CASE rec' = [rec EXCEPT ![i] = [r EXCEPT !.fin = TRUE]] /\ disk' = disk
    <2>1. PICK x : x = [r EXCEPT !.fin = TRUE]
      OBVIOUS
    <2>2. i \in Ids => RecordLike(x) /\ (FirstRun(x) => FirstRun(r))
      BY <2>1 DEF RecordLike, RecordFields, FirstRun
    <2> QED
      BY <1>3, <2>1, <2>2, OneRecord, UnchangedQuiet
  <1> QED
    BY <1>1, <1>2, <1>3 DEF HandleExit

LEMMA RingsQuiet ==
    ASSUME LifeTyped, NEW p \in Procs, NEW code, Rings(p, code)
    PROVE  RecordsQuiet /\ DiskQuiet /\ SupQuiet
  <1>1. PICK i : i = proc[p].of
    OBVIOUS
  <1>2. CASE ~SpeaksFor(i, p)
    BY <1>1, <1>2, UnchangedQuiet DEF Rings
  <1>3. CASE SpeaksFor(i, p) /\ i \in ScoutIds
    <2>1. UNCHANGED <<rec, disk>>
      BY <1>1, <1>3 DEF Rings
    <2>2. PICK u : u = Captures(i, [sup[i] EXCEPT !.final = "capture", !.armed = FALSE, !.code = code], rec[i])
      OBVIOUS
    <2>3. sup' = sup \/ sup' = [sup EXCEPT ![i] = u]
      BY <1>1, <1>3, <2>2 DEF Rings
    <2>4. DOMAIN u = DOMAIN sup[i]
      BY <2>2 DEF Captures
    <2>5. ~Early(i)
      <3>1. rec[i].h # NoProc /\ i \in Ids
        BY <1>3, ExecutedAreIds DEF SpeaksFor, Procs, NoProc
      <3> QED
        BY <3>1, ShownIsLate
    <2>6. SupQuiet
      BY <1>3, <2>3, <2>4, <2>5, OneSupervisor, UnchangedQuiet DEF LifeTyped, ScoutsSupervised
    <2> QED
      BY <2>1, <2>6, UnchangedQuiet
  <1>4. CASE SpeaksFor(i, p) /\ i \notin ScoutIds
    <2>1. HandleExit(i, rec[i].h, rec[i], code) /\ UNCHANGED sup
      BY <1>1, <1>4 DEF Rings
    <2>2. i \in Ids => RecordLike(rec[i]) /\ ~Early(i)
      BY <1>4, ShownIsLate DEF SpeaksFor, Procs, NoProc
    <2> QED
      BY <2>1, <2>2, HandleExitQuiet, UnchangedQuiet
  <1> QED
    BY <1>2, <1>3, <1>4

LEMMA ExitsKeep ==
    ASSUME SessionAssumption, LifeInv, ProcessExits
    PROVE  LifeInv'
  <1>0. LifeTyped
    BY DEF LifeInv
  <1>1. UNCHANGED <<launch, reserved, resume>>
    BY DEF ProcessExits, Die, Reap, ExecutionSettles, PublishExit, FatalOutput, TurnDone
  <1>2. CASE \E p \in Procs : (\E code \in {"zero", "bad"} : Die(p, code)) \/ Reap(p)
    <2>1. PICK p \in Procs, code \in {"zero", "bad"} : Die(p, code) \/ Reap(p)
      BY <1>2
    <2>2. ProcessesQuiet
      BY <1>0, <2>1 DEF Die, Reap, LifeTyped, ProcessesTyped, ProcessLike, ProcessesQuiet
    <2>3. UNCHANGED <<rec, disk, sup>> \/ Rings(p, code) \/ Rings(p, "bad")
      BY <2>1 DEF Die, Reap
    <2>4. RecordsQuiet /\ DiskQuiet /\ SupQuiet
      BY <1>0, <2>3, RingsQuiet, UnchangedQuiet
    <2> QED
      BY <1>0, <1>1, <2>2, <2>4, UnchangedQuiet, QuietKeeps
  <1>3. CASE \E p \in Procs : ExecutionSettles(p)
    <2>1. UNCHANGED <<rec, disk, sup, proc>>
      BY <1>3 DEF ExecutionSettles
    <2> QED
      BY <1>0, <1>1, <2>1, UnchangedQuiet, QuietKeeps
  <1>4. CASE \E i \in Ids : (\E code \in {"zero", "bad"} : PublishExit(i, code))
    <2>1. PICK i \in Ids, code \in {"zero", "bad"} : PublishExit(i, code)
      BY <1>4
    <2>2. rec[i].h # NoProc /\ PublishRecord(i, rec[i], code) /\ UNCHANGED <<sup, proc>>
      BY <2>1 DEF PublishExit, processes
    <2>3. RecordsQuiet /\ DiskQuiet
      BY <1>0, <2>2, ShownIsLate, PublishQuiet
    <2> QED
      BY <1>0, <1>1, <2>2, <2>3, UnchangedQuiet, QuietKeeps
  <1>5. CASE \E i \in Ids : FatalOutput(i) \/ TurnDone(i)
    <2>1. PICK i \in Ids : FatalOutput(i) \/ TurnDone(i)
      BY <1>5
    <2>2. PICK a, b : /\ a = [rec[i] EXCEPT !.st = "errored", !.limit = TRUE,
                                            !.attn = IF rec[i].st = "errored" THEN @ ELSE "failed"]
                      /\ b = [rec[i] EXCEPT !.attn = "done"]
      OBVIOUS
    <2>3. PICK x \in {a, b} : rec' = [rec EXCEPT ![i] = x]
      BY <2>1, <2>2 DEF FatalOutput, TurnDone
    <2>4. disk' = [disk EXCEPT ![i] = Stored(rec'[i])] /\ rec[i].h # NoProc /\ UNCHANGED <<sup, proc>>
      BY <2>1 DEF FatalOutput, TurnDone, processes
    <2>5. RecordLike(rec[i]) /\ ~Early(i) /\ ~Unwritten(i)
      BY <1>0, <2>4, ShownIsLate
    <2>6. RecordLike(x) /\ (FirstRun(x) => FirstRun(rec[i]))
      BY <2>2, <2>5 DEF RecordLike, RecordFields, FirstRun
    <2>7. rec'[i] = x
      BY <1>0, <2>3 DEF LifeTyped, RecordsShown
    <2>8. RecordsQuiet /\ DiskQuiet
      BY <1>0, <2>3, <2>4, <2>5, <2>6, <2>7, OneRecord, OneSnapshot
    <2> QED
      BY <1>0, <1>1, <2>4, <2>8, UnchangedQuiet, QuietKeeps
  <1> QED
    BY <1>2, <1>3, <1>4, <1>5 DEF ProcessExits

LEMMA SupervisionKeeps ==
    ASSUME SessionAssumption, LifeInv, Supervision
    PROVE  LifeInv'
  <1>0. LifeTyped
    BY DEF LifeInv
  <1>1. UNCHANGED <<launch, reserved, resume>>
    BY DEF Supervision, ScoutOutput, ApplyCapture, ExhaustBudget, CutOffScout, CutOffKills, VerifyScout, SettleScout,
           unsupervised
  <1>2. PICK s \in ScoutIds : \/ ScoutOutput(s) \/ ApplyCapture(s) \/ ExhaustBudget(s) \/ CutOffScout(s)
                              \/ CutOffKills(s) \/ VerifyScout(s) \/ SettleScout(s)
    BY DEF Supervision
  <1>3. s \in Ids /\ ~Early(s) /\ ~Unwritten(s) /\ RecordLike(rec[s])
    <2>1. s \in Ids
      BY ExecutedAreIds
    <2>2. rec[s].h # NoProc \/ ~SupervisorRests(sup[s])
      BY <1>2 DEF ScoutOutput, ApplyCapture, ExhaustBudget, CutOffScout, CutOffKills, VerifyScout, SettleScout,
                  SupervisorRests
    <2> QED
      BY <1>0, <2>1, <2>2, ShownIsLate
  <1>4. ProcessesQuiet
    <2>1. proc' = proc \/ proc' = Terminated(rec[s].h)
      BY <1>2 DEF ScoutOutput, ApplyCapture, ExhaustBudget, CutOffScout, CutOffKills, VerifyScout, SettleScout, Asked
    <2> QED
      BY <1>0, <2>1, Signals
  <1>5. SupQuiet
    <2>1. ASSUME NEW u, sup' = [sup EXCEPT ![s] = u], DOMAIN u = DOMAIN sup[s] PROVE SupQuiet
      BY <1>0, <1>3, <2>1, OneSupervisor DEF LifeTyped, ScoutsSupervised
    <2>2. CASE ScoutOutput(s)
      <3>1. PICK u, v : /\ u = Captures(s, [sup[s] EXCEPT !.said = TRUE], rec[s])
                        /\ v = [sup[s] EXCEPT !.dirty = TRUE]
        OBVIOUS
      <3>2. DOMAIN u = DOMAIN sup[s] /\ DOMAIN v = DOMAIN sup[s]
        BY <3>1 DEF Captures
      <3>3. sup' = [sup EXCEPT ![s] = u] \/ sup' = [sup EXCEPT ![s] = v]
        BY <2>2, <3>1 DEF ScoutOutput
      <3> QED
        BY <2>1, <3>2, <3>3
    <2>3. CASE ApplyCapture(s)
      <3>1. \E c : sup' = [sup EXCEPT ![s].cap = "idle", ![s].answered = @ \/ c]
        BY <2>3 DEF ApplyCapture
      <3>2. PICK c, u : /\ sup' = [sup EXCEPT ![s].cap = "idle", ![s].answered = @ \/ c]
                        /\ u = [sup[s] EXCEPT !.cap = "idle", !.answered = @ \/ c]
        BY <3>1
      <3>3. sup' = [sup EXCEPT ![s] = u] /\ DOMAIN u = DOMAIN sup[s]
        BY <3>2
      <3> QED
        BY <2>1, <3>3
    <2>4. CASE ExhaustBudget(s) \/ CutOffScout(s) \/ CutOffKills(s)
      <3>1. PICK a, b, c, d : /\ a = [sup[s] EXCEPT !.armed = FALSE, !.cut = "wait"]
                              /\ b = [sup[s] EXCEPT !.cut = "over", !.answered = TRUE]
                              /\ c = [sup[s] EXCEPT !.cut = "kill"] /\ d = [sup[s] EXCEPT !.cut = "over"]
        OBVIOUS
      <3>2. PICK u \in {a, b, c, d} : sup' = [sup EXCEPT ![s] = u]
        BY <2>4, <3>1 DEF ExhaustBudget, CutOffScout, CutOffKills
      <3>3. DOMAIN u = DOMAIN sup[s]
        BY <3>1, <3>2
      <3> QED
        BY <2>1, <3>2, <3>3
    <2>5. CASE VerifyScout(s) \/ SettleScout(s)
      <3>1. PICK a, b : /\ a = [sup[s] EXCEPT !.final = "done"] /\ b = [sup[s] EXCEPT !.final = "verified"]
        OBVIOUS
      <3>2. PICK u \in {a, b} : sup' = [sup EXCEPT ![s] = u]
        BY <2>5, <3>1 DEF VerifyScout, SettleScout, Settles
      <3>3. DOMAIN u = DOMAIN sup[s]
        BY <3>1, <3>2
      <3> QED
        BY <2>1, <3>2, <3>3
    <2> QED
      BY <1>2, <2>2, <2>3, <2>4, <2>5
  <1>6. RecordsQuiet /\ DiskQuiet
    <2>1. CASE ScoutOutput(s) \/ ExhaustBudget(s) \/ CutOffKills(s)
      <3>1. UNCHANGED <<rec, disk>>
        BY <2>1 DEF ScoutOutput, ExhaustBudget, CutOffKills
      <3> QED
        BY <1>0, <3>1, UnchangedQuiet
    <2>2. CASE ApplyCapture(s) \/ CutOffScout(s)
      <3>1. PICK a, b : /\ a = [rec[s] EXCEPT !.card = @ \/ sup[s].cap = "card"]
                        /\ b = [rec[s] EXCEPT !.term = "cut", !.st = "cancelled", !.attn = "stopped"]
        OBVIOUS
      <3>2. \/ UNCHANGED <<rec, disk>>
            \/ \E x \in {a, b} : rec' = [rec EXCEPT ![s] = x] /\ disk' = [disk EXCEPT ![s] = Stored(rec'[s])]
        BY <2>2, <3>1 DEF ApplyCapture, CutOffScout
      <3>3. ASSUME NEW x \in {a, b}, rec' = [rec EXCEPT ![s] = x], disk' = [disk EXCEPT ![s] = Stored(rec'[s])]
            PROVE  RecordsQuiet /\ DiskQuiet
        <4>1. RecordLike(x) /\ (FirstRun(x) => FirstRun(rec[s]))
          BY <1>3, <3>1 DEF RecordLike, RecordFields, FirstRun
        <4>2. rec'[s] = x
          BY <1>0, <1>3, <3>3 DEF LifeTyped, RecordsShown
        <4> QED
          BY <1>0, <1>3, <3>3, <4>1, <4>2, OneRecord, OneSnapshot
      <3> QED
        BY <1>0, <3>2, <3>3, UnchangedQuiet
    <2>3. CASE VerifyScout(s) \/ SettleScout(s)
      <3>1. UNCHANGED <<rec, disk>> \/ \E r \in {rec[s], FinalFailure(rec[s]), SettledScout(s)} : Settles(s, r)
        BY <2>3 DEF VerifyScout, SettleScout
      <3>2. ASSUME NEW r \in {rec[s], FinalFailure(rec[s]), SettledScout(s)}, Settles(s, r)
            PROVE  RecordsQuiet /\ DiskQuiet
        <4>1. /\ RecordLike(FinalFailure(rec[s])) /\ (FirstRun(FinalFailure(rec[s])) => FirstRun(rec[s]))
              /\ RecordLike(SettledScout(s)) /\ (FirstRun(SettledScout(s)) => FirstRun(rec[s]))
          BY <1>3 DEF FinalFailure, SettledScout, RecordLike, RecordFields, FirstRun
        <4>2. RecordLike(r) /\ (FirstRun(r) => FirstRun(rec[s]))
          BY <1>3, <4>1
        <4>3. HandleExit(s, r.h, r, sup[s].code)
          BY <3>2 DEF Settles
        <4> QED
          BY <1>0, <1>3, <4>2, <4>3, HandleExitQuiet
      <3> QED
        BY <1>0, <3>1, <3>2, UnchangedQuiet
    <2> QED
      BY <1>2, <2>1, <2>2, <2>3
  <1> QED
    BY <1>0, <1>1, <1>4, <1>5, <1>6, UnchangedQuiet, QuietKeeps

-----------------------------------------------------------------------------
(* Resuming.                                                                 *)

LEMMA SpawnFacts ==
    ASSUME SessionAssumption, LifeTyped, SparePids # {}, NEW i \in Ids, NEW g \in Nat,
           proc' = [proc EXCEPT ![NextProc] = Spawned(i, g)]
    PROVE  /\ NextProc \in Procs /\ proc[NextProc].of = NoOne
           /\ ProcessesTyped' /\ proc'[NextProc].of = i /\ proc'[NextProc].gen = g
           /\ \A p \in Procs : p # NextProc => proc'[p] = proc[p]
           /\ \A j \in Ids : j # i => Live(j)' = Live(j) /\ Unreaped(j)' = Unreaped(j)
           /\ Live(i)' \subseteq Live(i) \union {NextProc}
  <1>1. NextProc \in SparePids
    <2>1. SparePids \subseteq Nat
      BY DEF SparePids, Procs
    <2>2. \E p \in SparePids : \A q \in SparePids : p <= q
      BY <2>1, NatMinimum
    <2> QED
      BY <2>2 DEF NextProc
  <1>2. PICK n \in Procs : n = NextProc /\ proc[n].of = NoOne
    BY <1>1 DEF SparePids
  <1>3. proc' = [proc EXCEPT ![n] = Spawned(i, g)]
    BY <1>2
  <1>4. PICK x : x = Spawned(i, g)
    OBVIOUS
  <1>5. ProcessLike(x) /\ x.of = i /\ x.gen = g
    BY <1>4 DEF Spawned, ProcessLike
  <1>6. DOMAIN proc' = Procs /\ proc'[n] = x /\ \A p \in Procs : p # n => proc'[p] = proc[p]
    BY <1>3, <1>4 DEF LifeTyped, ProcessesTyped
  <1>7. ProcessesTyped'
    BY <1>5, <1>6 DEF LifeTyped, ProcessesTyped
  <1>8. \A j \in Ids : j # i => Live(j)' = Live(j) /\ Unreaped(j)' = Unreaped(j)
    BY <1>2, <1>5, <1>6 DEF Live, Unreaped, SessionAssumption
  <1>9. Live(i)' \subseteq Live(i) \union {n}
    BY <1>6 DEF Live
  <1> QED
    BY <1>2, <1>5, <1>6, <1>7, <1>8, <1>9

LEMMA ReapedAreDead ==
    ASSUME LifeTyped, NEW i, Unreaped(i) = {}
    PROVE  Live(i) = {}
  BY DEF LifeTyped, ProcessesTyped, ProcessLike, Live, Unreaped

LEMMA ResumePrepareKeeps ==
    ASSUME SessionAssumption, LifeInv, NEW i \in Ids, resume[i].pc = "prepare",
           i \in Executed => Unreaped(i) = {}, resume' = [resume EXCEPT ![i].pc = "preparing"],
           UNCHANGED <<rec, disk, proc, launch, reserved, sup>>
    PROVE  LifeInv'
  <1>0. LifeTyped /\ SpawnsAlone /\ OneAlive /\ SlotsCounted
    BY DEF LifeInv
  <1>1. \A j \in Ids : j # i => resume'[j] = resume[j]
    BY <1>0 DEF LifeTyped, ResumesTyped
  <1>2. /\ DOMAIN resume' = Ids /\ {"pc", "prev", "p"} \subseteq DOMAIN resume'[i]
        /\ resume'[i].pc = "preparing" /\ ~Early(i)
    BY <1>0, ShownIsLate DEF LifeTyped, ResumesTyped
  <1>3. ResumesTyped'
    BY <1>0, <1>1, <1>2 DEF LifeTyped, ResumesTyped, Early
  <1>4. /\ LaunchTyped' /\ RecordsShown' /\ RecordsWritten' /\ ProcessesTyped' /\ ScoutsSupervised'
    BY <1>0 DEF LifeTyped, LaunchTyped, RecordsShown, RecordsWritten, ProcessesTyped, ScoutsSupervised,
                Early, Unwritten
  <1>5. SpawnsAlone'
    BY <1>0, <1>1, ExecutedAreIds DEF SpawnsAlone, Unspawned, Unreaped
  <1>6. OneAlive' /\ SlotsCounted'
    BY <1>0 DEF OneAlive, Live, SlotsCounted, Begun, Holders, Firsts
  <1> QED
    BY <1>3, <1>4, <1>5, <1>6 DEF LifeInv, LifeTyped

LEMMA ResumeSpawnKeeps ==
    ASSUME SessionAssumption, LifeInv, NEW i \in Ids, resume[i].pc = "preparing", SparePids # {},
           proc' = [proc EXCEPT ![NextProc] = Spawned(i, rec[i].gen + 1)],
           resume' = [resume EXCEPT ![i].pc = "spawned", ![i].p = NextProc],
           UNCHANGED <<rec, disk, launch, reserved, sup>>
    PROVE  LifeInv'
  <1>0. LifeTyped /\ SpawnsAlone /\ OneAlive /\ SlotsCounted
    BY DEF LifeInv
  <1>1. PICK g \in Nat : g = rec[i].gen + 1 /\ g >= 2
    BY <1>0, ShownIsLate DEF RecordLike
  <1>2. PICK n : n = NextProc
    OBVIOUS
  <1>3. /\ n \in Procs /\ proc[n].of = NoOne
        /\ ProcessesTyped' /\ proc'[n].of = i /\ proc'[n].gen = g
        /\ \A p \in Procs : p # n => proc'[p] = proc[p]
        /\ \A j \in Ids : j # i => Live(j)' = Live(j) /\ Unreaped(j)' = Unreaped(j)
        /\ Live(i)' \subseteq Live(i) \union {n}
    BY <1>0, <1>1, <1>2, SpawnFacts
  <1>4. /\ DOMAIN resume' = Ids /\ {"pc", "prev", "p"} \subseteq DOMAIN resume'[i]
        /\ resume'[i].pc = "spawned" /\ resume'[i].p = n /\ ~Early(i)
        /\ \A j \in Ids : j # i => resume'[j] = resume[j]
    BY <1>0, <1>2, ShownIsLate DEF LifeTyped, ResumesTyped
  <1>5. \A j : Early(j)' = Early(j) /\ Unwritten(j)' = Unwritten(j) /\ Unspawned(j)' = Unspawned(j)
    BY DEF Early, Unwritten, Unspawned
  <1>6. ResumesTyped'
    <2>1. ASSUME NEW j \in Ids, resume'[j].pc = "spawned"
          PROVE  resume'[j].p \in Procs /\ proc'[resume'[j].p].of = j /\ proc'[resume'[j].p].gen >= 2
      <3>1. CASE j = i
        BY <1>1, <1>3, <1>4, <3>1
      <3>2. CASE j # i
        <4>1. PICK q \in Procs : q = resume[j].p /\ proc[q].of = j /\ proc[q].gen >= 2
          BY <1>0, <1>4, <2>1, <3>2 DEF LifeTyped, ResumesTyped
        <4>2. q # n
          BY <1>3, <4>1 DEF SessionAssumption
        <4>3. proc'[q] = proc[q]
          BY <1>3, <4>2
        <4> QED
          BY <1>4, <3>2, <4>1, <4>3
      <3> QED
        BY <3>1, <3>2
    <2> QED
      BY <1>0, <1>4, <1>5, <2>1 DEF LifeTyped, ResumesTyped
  <1>7. LaunchTyped' /\ RecordsShown' /\ RecordsWritten' /\ ScoutsSupervised'
    BY <1>0 DEF LifeTyped, LaunchTyped, RecordsShown, RecordsWritten, ScoutsSupervised, Early, Unwritten
  <1>8. SpawnsAlone'
    <2>1. ASSUME NEW j \in Ids, Unspawned(j)', NEW p \in Procs PROVE proc'[p].of # j
      <3>1. j # i /\ Unspawned(j)
        BY <1>4, <1>5, <2>1 DEF Early, Unspawned
      <3> QED
        BY <1>0, <1>3, <3>1 DEF SpawnsAlone
    <2>2. ASSUME NEW j \in Executed, resume'[j].pc = "preparing" PROVE Unreaped(j)' = {}
      BY <1>0, <1>3, <1>4, <2>2, ExecutedAreIds DEF SpawnsAlone
    <2> QED
      BY <2>1, <2>2 DEF SpawnsAlone
  <1>9. OneAlive'
    <2>1. ASSUME NEW j \in Executed, NEW p \in Live(j)', NEW q \in Live(j)' PROVE p = q
      <3>1. CASE j # i
        BY <1>0, <1>3, <3>1, ExecutedAreIds DEF OneAlive
      <3>2. CASE j = i
        <4>1. Live(i) = {}
          BY <1>0, <3>2, ReapedAreDead DEF SpawnsAlone
        <4> QED
          BY <1>3, <3>2, <4>1
      <3> QED
        BY <3>1, <3>2
    <2> QED
      BY <2>1 DEF OneAlive
  <1>10. SlotsCounted'
    BY <1>0 DEF SlotsCounted, Begun, Holders, Firsts
  <1> QED
    BY <1>3, <1>6, <1>7, <1>8, <1>9, <1>10 DEF LifeInv, LifeTyped

LEMMA RestoredQuiet ==
    ASSUME LifeTyped, NEW i \in Ids, resume[i].pc # "idle", rec' = HandleRestored(i)
    PROVE  RecordsQuiet
  <1>1. PICK r : r = [rec[i] EXCEPT !.res = FALSE, !.h = IF @ = NoProc THEN resume[i].prev ELSE @]
    OBVIOUS
  <1>2. rec' = [rec EXCEPT ![i] = r]
    BY <1>1 DEF HandleRestored
  <1>3. RecordLike(rec[i]) /\ ~Early(i)
    BY ShownIsLate
  <1>4. RecordLike(r) /\ (FirstRun(r) => FirstRun(rec[i]))
    BY <1>1, <1>3 DEF RecordLike, RecordFields, FirstRun
  <1> QED
    BY <1>2, <1>3, <1>4, OneRecord

LEMMA ResumeAdoptKeeps ==
    ASSUME SessionAssumption, LifeInv, NEW i \in Ids, ResumeAdopt(i)
    PROVE  LifeInv'
  <1>0. LifeTyped
    BY DEF LifeInv
  <1>1. UNCHANGED <<launch, reserved, sup>> /\ resume[i].pc = "spawned"
    BY DEF ResumeAdopt
  <1>2. PICK p \in Procs : p = resume[i].p /\ proc[p].gen \in Nat /\ proc[p].gen >= 2
    BY <1>0, <1>1 DEF LifeTyped, ResumesTyped, ProcessesTyped, ProcessLike
  <1>3. RecordLike(rec[i]) /\ ~Early(i) /\ ~Unwritten(i)
    BY <1>0, <1>1, ShownIsLate
  <1>4. {"pc", "prev", "p"} \subseteq DOMAIN resume[i]
    BY <1>0 DEF LifeTyped, ResumesTyped
  <1>5. CASE i \in abort
    <2>1. UNCHANGED <<rec, disk>> /\ proc' = Killed(p)
      BY <1>2, <1>5 DEF ResumeAdopt
    <2>2. PICK x : x = [resume[i] EXCEPT !.pc = "restoring"]
      OBVIOUS
    <2>3. resume' = [resume EXCEPT ![i] = x]
      BY <1>5, <2>2 DEF ResumeAdopt
    <2>4. {"pc", "prev", "p"} \subseteq DOMAIN x /\ x.pc = "restoring"
      BY <1>4, <2>2
    <2>5. ResumesQuiet /\ ProcessesQuiet
      BY <1>0, <1>3, <2>1, <2>3, <2>4, OneResume, Signals
    <2> QED
      BY <1>0, <1>1, <2>1, <2>5, UnchangedQuiet, QuietKeeps
  <1>6. CASE i \notin abort
    <2>1. PICK back : back = [rec[i] EXCEPT !.stop = FALSE, !.st = "active", !.exit = Null, !.attn = "none",
                                           !.gen = proc[p].gen, !.limit = FALSE, !.h = p, !.res = FALSE]
      OBVIOUS
    <2>2. /\ rec' = [rec EXCEPT ![i] = back] /\ disk' = [disk EXCEPT ![i] = Stored(back)]
          /\ proc' = [proc EXCEPT ![p].heard = TRUE] /\ resume' = [resume EXCEPT ![i] = NoResume]
      BY <1>2, <1>6, <2>1 DEF ResumeAdopt
    <2>3. RecordLike(back) /\ back.gen >= 2
      BY <1>2, <1>3, <2>1 DEF RecordLike, RecordFields
    <2>4. ~FirstRun(back)
      BY <1>2, <2>1, <2>3 DEF FirstRun
    <2>5. RecordsQuiet /\ DiskQuiet
      BY <1>0, <1>3, <2>2, <2>3, <2>4, OneRecord, OneSnapshot
    <2>6. ResumesQuiet
      BY <1>0, <1>3, <2>2, OneResume DEF NoResume
    <2>7. ProcessesQuiet
      BY <1>0, <2>2 DEF LifeTyped, ProcessesTyped, ProcessLike, ProcessesQuiet
    <2> QED
      BY <1>0, <1>1, <2>5, <2>6, <2>7, UnchangedQuiet, QuietKeeps
  <1> QED
    BY <1>5, <1>6

LEMMA ResumeQuietKeeps ==
    ASSUME SessionAssumption, LifeInv, NEW i \in Ids,
           \/ ResumeThread(i) \/ ResumeBarrier(i) \/ ResumeRestore(i)
           \/ /\ resume[i].pc \in {"prepare", "preparing"} /\ resume' = [resume EXCEPT ![i].pc = "restoring"]
              /\ UNCHANGED <<rec, disk, proc, launch, reserved, sup>>
    PROVE  LifeInv'
  <1>0. LifeTyped
    BY DEF LifeInv
  <1>1. UNCHANGED <<disk, launch, reserved, sup>>
    BY DEF ResumeThread, ResumeBarrier, ResumeRestore, processes
  <1>2. ~Early(i) /\ RecordLike(rec[i])
    BY <1>0, ShownIsLate DEF ResumeThread, MayResume, ResumeBarrier, ResumeRestore
  <1>3. {"pc", "prev", "p"} \subseteq DOMAIN resume[i]
    BY <1>0 DEF LifeTyped, ResumesTyped
  <1>4. ResumesQuiet
    <2>1. PICK a, b, c : /\ a = [pc |-> "barrier", prev |-> rec[i].h, p |-> NoProc]
                         /\ b = [resume[i] EXCEPT !.pc = "prepare"]
                         /\ c = [resume[i] EXCEPT !.pc = "restoring"]
      OBVIOUS
    <2>2. PICK x \in {a, b, c, NoResume} : resume' = [resume EXCEPT ![i] = x]
      BY <2>1 DEF ResumeThread, ResumeBarrier, ResumeRestore
    <2>3. {"pc", "prev", "p"} \subseteq DOMAIN x /\ x.pc \notin {"preparing", "spawned"}
      BY <1>3, <2>1, <2>2 DEF NoResume
    <2> QED
      BY <1>0, <1>2, <2>2, <2>3, OneResume
  <1>5. ProcessesQuiet
    <2>1. proc' = proc \/ proc' = Terminated(resume[i].prev)
      BY DEF ResumeThread, ResumeBarrier, ResumeRestore, processes
    <2> QED
      BY <1>0, <2>1, Signals
  <1>6. RecordsQuiet
    <2>1. PICK a, b : a = [rec[i] EXCEPT !.res = TRUE, !.h = NoProc] /\ b = [rec[i] EXCEPT !.res = FALSE]
      OBVIOUS
    <2>2. \/ rec' = rec \/ (rec' = HandleRestored(i) /\ resume[i].pc # "idle")
          \/ rec' = [rec EXCEPT ![i] = a] \/ rec' = [rec EXCEPT ![i] = b]
      BY <2>1 DEF ResumeThread, ResumeBarrier, ResumeRestore
    <2>3. /\ RecordLike(a) /\ RecordLike(b) /\ (FirstRun(a) => FirstRun(rec[i])) /\ (FirstRun(b) => FirstRun(rec[i]))
      BY <1>2, <2>1 DEF RecordLike, RecordFields, FirstRun
    <2> QED
      BY <1>0, <1>2, <2>2, <2>3, OneRecord, RestoredQuiet, UnchangedQuiet
  <1> QED
    BY <1>0, <1>1, <1>4, <1>5, <1>6, UnchangedQuiet, QuietKeeps

LEMMA ResumingKeeps ==
    ASSUME SessionAssumption, LifeInv, Resuming
    PROVE  LifeInv'
  <1>1. PICK i \in Ids : \/ ResumeThread(i) \/ ResumeBarrier(i) \/ ResumePrepare(i)
                         \/ ResumeSpawn(i) \/ ResumeAdopt(i) \/ ResumeRestore(i)
    BY DEF Resuming
  <1>2. CASE ResumeThread(i) \/ ResumeBarrier(i) \/ ResumeRestore(i)
    BY <1>2, ResumeQuietKeeps
  <1>3. CASE ResumePrepare(i)
    <2>1. UNCHANGED <<rec, disk, proc, launch, reserved, sup>> /\ resume[i].pc = "prepare"
      BY <1>3 DEF ResumePrepare, processes
    <2>2. \/ /\ i \in Executed => Unreaped(i) = {}
             /\ resume' = [resume EXCEPT ![i].pc = "preparing"]
          \/ resume' = [resume EXCEPT ![i].pc = "restoring"]
      BY <1>3 DEF ResumePrepare, Quiescent
    <2> QED
      BY <2>1, <2>2, ResumePrepareKeeps, ResumeQuietKeeps
  <1>4. CASE ResumeSpawn(i)
    <2>1. UNCHANGED <<rec, disk, launch, reserved, sup>> /\ resume[i].pc = "preparing"
      BY <1>4 DEF ResumeSpawn
    <2>2. \/ /\ SparePids # {} /\ proc' = [proc EXCEPT ![NextProc] = Spawned(i, rec[i].gen + 1)]
             /\ resume' = [resume EXCEPT ![i].pc = "spawned", ![i].p = NextProc]
          \/ resume' = [resume EXCEPT ![i].pc = "restoring"] /\ UNCHANGED proc
      BY <1>4 DEF ResumeSpawn
    <2> QED
      BY <2>1, <2>2, ResumeSpawnKeeps, ResumeQuietKeeps
  <1>5. CASE ResumeAdopt(i)
    BY <1>5, ResumeAdoptKeeps
  <1> QED
    BY <1>1, <1>2, <1>3, <1>4, <1>5

-----------------------------------------------------------------------------
(* Launching: one start moves on.                                            *)

LEMMA HoldersBegun == Holders \subseteq Begun
  BY ExecutedAreIds DEF Holders, Begun, Holding

\* Where the starts stand after one of them moved to x.
LEMMA StartMoved ==
    ASSUME LifeTyped, NEW i \in Ids, NEW pc, LaunchGoes(i, pc), pc # "idle", IsFiniteSet(Begun)
    PROVE  /\ LaunchTyped' /\ launch'[i].pc = pc /\ \A j \in Ids : j # i => launch'[j] = launch[j]
           /\ IsFiniteSet(Begun)'
           /\ i \notin Executed => Holders' = Holders
           /\ pc \in Holding /\ launch[i].pc \in Holding => Holders' = Holders
           /\ pc \in Holding /\ i \in Executed => Holders' = Holders \union {i}
           /\ pc \notin Holding => Holders' = Holders \ {i}
  <1>1. /\ LaunchTyped' /\ launch'[i].pc = pc /\ \A j \in Ids : j # i => launch'[j] = launch[j]
    BY DEF LifeTyped, LaunchTyped, LaunchGoes
  <1>2. IsFiniteSet(Begun)'
    <2>1. Begun' = Begun \union {i}
      BY <1>1 DEF Begun
    <2> QED
      BY <2>1, FS_AddElement
  <1>3. /\ i \notin Executed => Holders' = Holders
        /\ (pc \in Holding /\ launch[i].pc \in Holding) => Holders' = Holders
        /\ (pc \in Holding /\ i \in Executed) => Holders' = Holders \union {i}
        /\ pc \notin Holding => Holders' = Holders \ {i}
    BY <1>1, ExecutedAreIds DEF Holders
  <1> QED
    BY <1>1, <1>2, <1>3

LEMMA StartMoves ==
    ASSUME SessionAssumption, LifeInv, NEW i \in Ids, LaunchTyped',
           \A j \in Ids : j # i => launch'[j] = launch[j],
           Early(i)' => Early(i), Unspawned(i)' => Unspawned(i),
           RecordsShown', RecordsWritten', ProcessesQuiet, UNCHANGED resume, SupQuiet, SlotsCounted'
    PROVE  LifeInv'
  <1>0. LifeTyped /\ SpawnsAlone /\ OneAlive
    BY DEF LifeInv
  <1>1. \A j \in Ids : (Early(j)' => Early(j)) /\ (Unspawned(j)' => Unspawned(j))
    BY DEF Early, Unspawned
  <1>2. ProcessesTyped'
    BY DEF ProcessesTyped, ProcessesQuiet
  <1>3. ResumesTyped'
    BY <1>0, <1>1 DEF LifeTyped, ResumesTyped, ProcessesQuiet
  <1>4. ScoutsSupervised'
    BY <1>0, <1>1, ExecutedAreIds DEF LifeTyped, ScoutsSupervised, SupQuiet
  <1>5. SpawnsAlone'
    <2>1. ASSUME NEW j \in Executed, resume'[j].pc = "preparing" PROVE Unreaped(j)' = {}
      BY <1>0, <2>1, ProcessesShrink DEF SpawnsAlone
    <2>2. ASSUME NEW j \in Ids, Unspawned(j)', NEW p \in Procs PROVE proc'[p].of # j
      BY <1>0, <1>1, <2>2 DEF SpawnsAlone, ProcessesQuiet
    <2> QED
      BY <2>1, <2>2 DEF SpawnsAlone
  <1>6. OneAlive'
    <2>1. ASSUME NEW j \in Executed, NEW p \in Live(j)', NEW q \in Live(j)' PROVE p = q
      BY <1>0, ProcessesShrink DEF OneAlive
    <2> QED
      BY <2>1 DEF OneAlive
  <1> QED
    BY <1>2, <1>3, <1>4, <1>5, <1>6 DEF LifeInv, LifeTyped

LEMMA CountsTyped ==
    ASSUME LifeInv
    PROVE  /\ IsFiniteSet(Holders) /\ Cardinality(Holders) \in Nat
           /\ IsFiniteSet(Firsts) /\ Cardinality(Firsts) \in Nat
  BY HoldersBegun, FirstsBegun, FS_Subset, FS_CardinalityType DEF LifeInv, SlotsCounted

LEMMA HolderLeaves ==
    ASSUME SessionAssumption, LifeInv, NEW i \in Ids, launch[i].pc \in Holding, IsFiniteSet(Begun)',
           Holders' = Holders \ {i}, reserved' = reserved - Reserves(i),
           Firsts' \subseteq IF i \in Executed THEN Firsts \union {i} ELSE Firsts
    PROVE  SlotsCounted'
  <1>0. SlotsCounted
    BY DEF LifeInv
  <1>1. CASE i \in Executed
    <2>1. i \in Holders
      BY <1>1 DEF Holders
    <2>2. Cardinality(Holders') = Cardinality(Holders) - 1
      BY <2>1, CountsTyped, FS_RemoveElement
    <2>3. /\ Cardinality(Firsts \union {i}) <= Cardinality(Firsts) + 1
          /\ IsFiniteSet(Firsts \union {i})
      <3>1. IsFiniteSet(Firsts) /\ Cardinality(Firsts) \in Nat
        BY CountsTyped
      <3>2. /\ IsFiniteSet(Firsts \union {i})
            /\ Cardinality(Firsts \union {i}) = IF i \in Firsts THEN Cardinality(Firsts) ELSE Cardinality(Firsts) + 1
        BY <3>1, FS_AddElement
      <3> QED
        BY <3>1, <3>2
    <2>4. Cardinality(Firsts') <= Cardinality(Firsts \union {i}) /\ Cardinality(Firsts') \in Nat
      BY <1>1, <2>3, FS_Subset, FS_CardinalityType
    <2>5. Cardinality(Firsts \union {i}) \in Nat
      BY <2>3, FS_CardinalityType
    <2>6. reserved' = reserved - 1
      BY <1>1 DEF Reserves
    <2> QED
      BY <1>0, <2>2, <2>3, <2>4, <2>5, <2>6, CountsTyped DEF SlotsCounted, SessionAssumption
  <1>2. CASE i \notin Executed
    <2>1. Holders' = Holders
      BY <1>2 DEF Holders
    <2>2. reserved' = reserved /\ Firsts' \subseteq Firsts
      BY <1>0, <1>2, CountsTyped DEF Reserves, SlotsCounted
    <2> QED
      BY <1>0, <2>1, <2>2, CountsKeep, FirstsBegun DEF LifeInv
  <1> QED
    BY <1>1, <1>2

LEMMA HolderEnters ==
    ASSUME SessionAssumption, LifeInv, NEW i \in Ids, launch[i].pc = "idle", IsFiniteSet(Begun)',
           i \in Executed => Holders' = Holders \union {i}, i \notin Executed => Holders' = Holders,
           MayStart(i), reserved' = reserved + Reserves(i), UNCHANGED rec
    PROVE  SlotsCounted'
  <1>0. LifeTyped /\ SlotsCounted
    BY DEF LifeInv
  <1>1. Firsts' = Firsts
    BY DEF Firsts
  <1>2. CASE i \in Executed
    <2>1. i \notin Holders
      BY <1>2 DEF Holders, Holding
    <2>2. Cardinality(Holders') = Cardinality(Holders) + 1
      BY <1>2, <2>1, CountsTyped, FS_AddElement
    <2>3. PICK A : A = {j \in Executed : rec[j].in /\ rec[j].st = "active"}
      OBVIOUS
    <2>4. A \subseteq Begun /\ Firsts \subseteq A
      BY <1>0, <2>3, ExecutedAreIds
         DEF LifeTyped, RecordsShown, Firsts, FirstRun, Begun, Early, EarlySteps
    <2>5. IsFiniteSet(A) /\ Cardinality(A) \in Nat /\ Cardinality(Firsts) <= Cardinality(A)
      BY <1>0, <2>4, FS_Subset, FS_CardinalityType DEF SlotsCounted
    <2>6. Cardinality(A) + reserved < MaxWorkers
      BY <1>2, <2>3 DEF MayStart, ActiveWorkers
    <2>7. reserved' = reserved + 1
      BY <1>2 DEF Reserves
    <2> QED
      BY <1>0, <1>1, <2>2, <2>5, <2>6, <2>7, CountsTyped DEF SlotsCounted, SessionAssumption
  <1>3. CASE i \notin Executed
    <2>1. reserved' = reserved
      BY <1>0, <1>3, CountsTyped DEF Reserves, SlotsCounted
    <2> QED
      BY <1>0, <1>1, <1>3, <2>1, CountsKeep, FirstsBegun
  <1> QED
    BY <1>2, <1>3

\* No record and no stored record of a start that has not shown itself: kept while the others keep theirs.
LEMMA ShownKeeps ==
    ASSUME LifeTyped, NEW i \in Ids, \A j \in Ids : j # i => launch'[j] = launch[j],
           Early(i)' => Early(i), Unwritten(i)' => Unwritten(i)
    PROVE  /\ UNCHANGED rec => RecordsShown'
           /\ UNCHANGED disk => RecordsWritten'
  <1>1. \A j \in Ids : (Early(j)' => Early(j)) /\ (Unwritten(j)' => Unwritten(j))
    BY DEF Early, Unwritten
  <1> QED
    BY <1>1 DEF LifeTyped, RecordsShown, RecordsWritten

LEMMA AdoptedRecords ==
    ASSUME NEW c, DOMAIN c = Ids, \A j \in Ids : RecordLike(c[j]), NEW i \in Ids, rec' = Adopted(c, i)
    PROVE  /\ DOMAIN rec' = Ids
           /\ \A j \in Ids : /\ RecordLike(rec'[j]) /\ rec'[j].in = c[j].in /\ rec'[j].h = c[j].h
                             /\ FirstRun(rec'[j]) = FirstRun(c[j])
                             /\ rec'[j] # c[j] => j = ParentOf[i] /\ c[j].in
  <1>1. PICK q : q = ParentOf[i]
    OBVIOUS
  <1>2. rec' = c \/ (c[q].in /\ rec' = [c EXCEPT ![q].kids = @ \union {i}])
    BY <1>1 DEF Adopted
  <1>3. CASE rec' = c
    BY <1>3
  <1>4. CASE c[q].in /\ rec' = [c EXCEPT ![q].kids = @ \union {i}]
    <2>1. PICK r : r = [c[q] EXCEPT !.kids = @ \union {i}]
      OBVIOUS
    <2>2. rec' = [c EXCEPT ![q] = r]
      BY <1>4, <2>1
    <2>3. q \in Ids => RecordLike(r) /\ r.in = c[q].in /\ r.h = c[q].h /\ FirstRun(r) = FirstRun(c[q])
      BY <2>1 DEF RecordLike, RecordFields, FirstRun
    <2>4. DOMAIN rec' = Ids /\ (q \in Ids => rec'[q] = r) /\ \A j \in Ids : j # q => rec'[j] = c[j]
      BY <2>2
    <2> QED
      BY <1>1, <1>4, <2>3, <2>4
  <1> QED
    BY <1>2, <1>3, <1>4

LEMMA AdmitKeeps ==
    ASSUME SessionAssumption, LifeInv, NEW i \in Ids, Admit(i)
    PROVE  LifeInv'
  <1>0. LifeTyped /\ IsFiniteSet(Begun)
    BY DEF LifeInv, SlotsCounted
  <1>1. /\ launch[i].pc = "idle" /\ MayStart(i) /\ reserved' = reserved + Reserves(i)
        /\ LaunchGoes(i, "reserved") /\ UNCHANGED <<rec, disk, proc, resume, sup>>
    BY DEF Admit, At, processes
  <1>2. "reserved" # "idle" /\ "reserved" \in Holding
    BY DEF Holding, EarlySteps
  <1>3. /\ LaunchTyped' /\ launch'[i].pc = "reserved" /\ \A j \in Ids : j # i => launch'[j] = launch[j]
        /\ IsFiniteSet(Begun)'
        /\ i \notin Executed => Holders' = Holders
        /\ i \in Executed => Holders' = Holders \union {i}
    BY <1>0, <1>1, <1>2, StartMoved
  <1>4. Early(i) /\ Unwritten(i) /\ Unspawned(i)
    BY <1>1 DEF Early, EarlySteps, Unwritten, Unspawned
  <1>5. RecordsShown' /\ RecordsWritten'
    BY <1>0, <1>1, <1>3, <1>4, ShownKeeps
  <1>6. SlotsCounted'
    BY <1>1, <1>3, HolderEnters
  <1> QED
    BY <1>0, <1>1, <1>3, <1>4, <1>5, <1>6, StartMoves, UnchangedQuiet

\* A step inside a start's own path, the slot still held.
LEMMA StartGoesOn ==
    ASSUME SessionAssumption, LifeInv, NEW i \in Ids, NEW pc \in Holding, launch[i].pc \in Holding,
           LaunchGoes(i, pc), UNCHANGED <<rec, proc, resume, sup, reserved>>,
           RecordsWritten' \/ (UNCHANGED disk /\ (Unwritten(i)' => Unwritten(i))),
           pc # "spawned" => launch[i].pc # "spawned"
    PROVE  LifeInv'
  <1>0. LifeTyped /\ IsFiniteSet(Begun) /\ SlotsCounted
    BY DEF LifeInv, SlotsCounted
  <1>1. pc # "idle" /\ pc \in EarlySteps
    BY DEF Holding
  <1>2. /\ LaunchTyped' /\ launch'[i].pc = pc /\ \A j \in Ids : j # i => launch'[j] = launch[j]
        /\ IsFiniteSet(Begun)' /\ Holders' = Holders
    BY <1>0, <1>1, StartMoved
  <1>3. Early(i) /\ (Unspawned(i)' => Unspawned(i))
    BY <1>2 DEF Early, Holding, Unspawned
  <1>4. RecordsShown'
    BY <1>0, <1>2, <1>3 DEF LifeTyped, RecordsShown, Early
  <1>5. RecordsWritten'
    <2>1. ASSUME UNCHANGED disk, Unwritten(i)' => Unwritten(i) PROVE RecordsWritten'
      BY <1>0, <1>2, <2>1 DEF LifeTyped, RecordsWritten, Unwritten
    <2> QED
      BY <2>1
  <1>6. SlotsCounted'
    <2>1. Firsts' \subseteq Firsts
      BY DEF Firsts
    <2> QED
      BY <1>0, <1>2, <2>1, CountsKeep, FirstsBegun
  <1> QED
    BY <1>0, <1>2, <1>3, <1>4, <1>5, <1>6, StartMoves, UnchangedQuiet

\* A start that is over, the slot given back.
LEMMA StartEnds ==
    ASSUME SessionAssumption, LifeInv, NEW i \in Ids, NEW pc, launch[i].pc \in Holding,
           pc \notin EarlySteps, LaunchGoes(i, pc), ProcessesQuiet, UNCHANGED <<resume, sup>>,
           reserved' = reserved - Reserves(i),
           DOMAIN rec' = Ids, DOMAIN disk' = Ids,
           \A j \in Ids : /\ RecordLike(rec'[j]) /\ SnapshotLike(disk'[j])
                          /\ j # i => /\ (Early(j) => ~rec'[j].in /\ rec'[j].h = NoProc)
                                      /\ (Unwritten(j) => ~disk'[j].in)
                                      /\ (FirstRun(rec'[j]) => FirstRun(rec[j]))
    PROVE  LifeInv'
  <1>0. LifeTyped /\ IsFiniteSet(Begun) /\ SlotsCounted
    BY DEF LifeInv, SlotsCounted
  <1>1. pc # "idle" /\ pc \notin Holding
    BY DEF Holding, EarlySteps
  <1>2. /\ LaunchTyped' /\ launch'[i].pc = pc /\ \A j \in Ids : j # i => launch'[j] = launch[j]
        /\ IsFiniteSet(Begun)' /\ Holders' = Holders \ {i}
    BY <1>0, <1>1, StartMoved
  <1>3. ~Early(i)' /\ ~Unspawned(i)' /\ ~Unwritten(i)'
    BY <1>2 DEF Early, Unspawned, Unwritten, EarlySteps
  <1>4. RecordsShown'
    BY <1>2, <1>3 DEF RecordsShown, Early
  <1>5. RecordsWritten'
    BY <1>2, <1>3 DEF RecordsWritten, Unwritten
  <1>6. SlotsCounted'
    <2>1. Firsts' \subseteq IF i \in Executed THEN Firsts \union {i} ELSE Firsts
      BY ExecutedAreIds DEF Firsts
    <2> QED
      BY <1>2, <2>1, HolderLeaves
  <1> QED
    BY <1>0, <1>2, <1>3, <1>4, <1>5, <1>6, StartMoves, UnchangedQuiet

LEMMA FailLaunchKeeps ==
    ASSUME SessionAssumption, LifeInv, NEW i \in Ids, launch[i].pc \in Holding, FailLaunch(i),
           ProcessesQuiet, UNCHANGED <<resume, sup>>
    PROVE  LifeInv'
  <1>0. LifeTyped
    BY DEF LifeInv
  <1>1. /\ LaunchGoes(i, "failed") /\ reserved' = reserved - Reserves(i) /\ "failed" \notin EarlySteps
        /\ \A j \in Ids : RecordLike(rec[j]) /\ SnapshotLike(disk[j])
    BY <1>0 DEF FailLaunch, EarlySteps, LifeTyped, RecordsShown, RecordsWritten
  <1>2. CASE i \notin ScoutIds
    <2>1. UNCHANGED <<rec, disk>>
      BY <1>2 DEF FailLaunch
    <2>2. /\ DOMAIN rec' = Ids /\ DOMAIN disk' = Ids
          /\ \A j \in Ids : /\ Early(j) => ~rec'[j].in /\ rec'[j].h = NoProc
                            /\ Unwritten(j) => ~disk'[j].in
      BY <1>0, <2>1 DEF LifeTyped, RecordsShown, RecordsWritten
    <2>3. \A j \in Ids : FirstRun(rec'[j]) => FirstRun(rec[j])
      BY <2>1
    <2> QED
      BY <1>1, <2>1, <2>2, <2>3, StartEnds
  <1>3. CASE i \in ScoutIds
    <2>1. PICK r, c : r = FailedScout(i) /\ c = [rec EXCEPT ![i] = r]
      OBVIOUS
    <2>2. RecordLike(r) /\ ~FirstRun(r)
      BY <2>1 DEF FailedScout, Blank, RecordLike, RecordFields, FirstRun
    <2>3. /\ DOMAIN c = Ids /\ c[i] = r /\ \A j \in Ids : j # i => c[j] = rec[j]
      BY <1>0, <2>1 DEF LifeTyped, RecordsShown
    <2>4. \A j \in Ids : RecordLike(c[j])
      BY <1>1, <2>2, <2>3
    <2>5. /\ rec' = Adopted(c, i)
          /\ disk' = [j \in Ids |-> IF rec'[j] # rec[j] THEN Stored(rec'[j]) ELSE disk[j]]
      BY <1>3, <2>1 DEF FailLaunch
    <2>6. /\ DOMAIN rec' = Ids
          /\ \A j \in Ids : /\ RecordLike(rec'[j]) /\ rec'[j].in = c[j].in /\ rec'[j].h = c[j].h
                            /\ FirstRun(rec'[j]) = FirstRun(c[j])
                            /\ rec'[j] # c[j] => c[j].in
      BY <2>3, <2>4, <2>5, AdoptedRecords
    <2>7. ASSUME NEW j \in Ids PROVE SnapshotLike(disk'[j])
      <3>1. disk'[j] = Stored(rec'[j]) \/ disk'[j] = disk[j]
        BY <2>5
      <3>2. SnapshotLike(Stored(rec'[j]))
        BY <2>6 DEF RecordLike, SnapshotLike, Stored
      <3> QED
        BY <1>1, <3>1, <3>2
    <2>8. ASSUME NEW j \in Ids, j # i
          PROVE  /\ Early(j) => ~rec'[j].in /\ rec'[j].h = NoProc
                 /\ Unwritten(j) => ~disk'[j].in
                 /\ FirstRun(rec'[j]) => FirstRun(rec[j])
      <3>1. c[j] = rec[j]
        BY <2>3, <2>8
      <3>2. Early(j) => ~rec'[j].in /\ rec'[j].h = NoProc
        BY <1>0, <2>6, <3>1 DEF LifeTyped, RecordsShown
      <3>3. FirstRun(rec'[j]) => FirstRun(rec[j])
        BY <2>6, <3>1
      <3>4. ASSUME Unwritten(j) PROVE ~disk'[j].in
        <4>1. ~rec[j].in
          BY <1>0, <3>4, ShownIsLate
        <4>2. rec'[j] = rec[j]
          BY <2>6, <3>1, <4>1
        <4>3. disk'[j] = disk[j]
          BY <2>5, <4>2
        <4> QED
          BY <1>0, <3>4, <4>3 DEF LifeTyped, RecordsWritten
      <3> QED
        BY <3>2, <3>3, <3>4
    <2>9. DOMAIN disk' = Ids
      BY <2>5
    <2> QED
      BY <1>1, <2>6, <2>7, <2>8, <2>9, StartEnds
  <1> QED
    BY <1>2, <1>3

LEMMA ProvisionKeeps ==
    ASSUME SessionAssumption, LifeInv, NEW i \in Ids, Provision(i)
    PROVE  LifeInv'
  <1>0. LifeTyped
    BY DEF LifeInv
  <1>1. launch[i].pc = "reserved" /\ UNCHANGED <<rec, disk, proc, resume, sup>>
    BY DEF Provision, At, processes
  <1>2. launch[i].pc \in Holding /\ "provisioned" \in Holding /\ "failed" \notin EarlySteps
    BY <1>1 DEF Holding, EarlySteps
  <1>3. CASE LaunchGoes(i, "provisioned") /\ UNCHANGED reserved
    BY <1>1, <1>2, <1>3, StartGoesOn DEF Unwritten
  <1>4. CASE LaunchGoes(i, "failed") /\ reserved' = reserved - Reserves(i)
    <2>1. /\ DOMAIN rec' = Ids /\ DOMAIN disk' = Ids
          /\ \A j \in Ids : /\ RecordLike(rec'[j]) /\ SnapshotLike(disk'[j])
                            /\ Early(j) => ~rec'[j].in /\ rec'[j].h = NoProc
                            /\ Unwritten(j) => ~disk'[j].in
      BY <1>0, <1>1 DEF LifeTyped, RecordsShown, RecordsWritten
    <2>2. \A j \in Ids : FirstRun(rec'[j]) => FirstRun(rec[j])
      BY <1>1
    <2> QED
      BY <1>0, <1>1, <1>2, <1>4, <2>1, <2>2, StartEnds, UnchangedQuiet
  <1> QED
    BY <1>3, <1>4 DEF Provision

LEMMA ActivateKeeps ==
    ASSUME SessionAssumption, LifeInv, NEW i \in Ids, Activate(i)
    PROVE  LifeInv'
  <1>0. LifeTyped
    BY DEF LifeInv
  <1>1. launch[i].pc = "provisioned" /\ UNCHANGED <<proc, resume, sup>>
    BY DEF Activate, At, processes
  <1>2. launch[i].pc \in Holding /\ "activated" \in Holding
    BY <1>1 DEF Holding, EarlySteps
  <1>3. CASE /\ LaunchGoes(i, "activated") /\ UNCHANGED <<rec, reserved>>
             /\ disk' = [disk EXCEPT ![i] = Stored([Blank EXCEPT !.up = ParentOf[i]])]
    <2>1. PICK d : d = Stored([Blank EXCEPT !.up = ParentOf[i]])
      OBVIOUS
    <2>2. SnapshotLike(d)
      BY <2>1 DEF Stored, Blank, SnapshotLike
    <2>3. /\ DOMAIN disk' = Ids /\ disk'[i] = d /\ \A j \in Ids : j # i => disk'[j] = disk[j]
      BY <1>0, <1>3, <2>1 DEF LifeTyped, RecordsWritten
    <2>4. launch'[i].pc = "activated" /\ \A j \in Ids : j # i => launch'[j] = launch[j]
      BY <1>0, <1>3 DEF LifeTyped, LaunchTyped, LaunchGoes
    <2>5. RecordsWritten'
      BY <1>0, <2>2, <2>3, <2>4 DEF LifeTyped, RecordsWritten, Unwritten
    <2> QED
      BY <1>1, <1>2, <1>3, <2>5, StartGoesOn
  <1>4. CASE FailLaunch(i)
    BY <1>0, <1>1, <1>2, <1>4, FailLaunchKeeps, UnchangedQuiet
  <1> QED
    BY <1>3, <1>4 DEF Activate

LEMMA BeginSpawnKeeps ==
    ASSUME SessionAssumption, LifeInv, NEW i \in Ids, BeginSpawn(i)
    PROVE  LifeInv'
  <1>0. LifeTyped
    BY DEF LifeInv
  <1>1. launch[i].pc = "activated" /\ UNCHANGED <<proc, resume, sup>>
    BY DEF BeginSpawn, At, processes
  <1>2. launch[i].pc \in Holding /\ "preparing" \in Holding
    BY <1>1 DEF Holding, EarlySteps
  <1>3. CASE LaunchGoes(i, "preparing") /\ UNCHANGED <<rec, disk, reserved>>
    <2>1. Unwritten(i)' => Unwritten(i)
      BY <1>0, <1>3 DEF LifeTyped, LaunchTyped, LaunchGoes, Unwritten
    <2> QED
      BY <1>1, <1>2, <1>3, <2>1, StartGoesOn
  <1>4. CASE FailLaunch(i)
    BY <1>0, <1>1, <1>2, <1>4, FailLaunchKeeps, UnchangedQuiet
  <1> QED
    BY <1>3, <1>4 DEF BeginSpawn

LEMMA SpawnSucceeds ==
    ASSUME SessionAssumption, LifeInv, NEW i \in Ids, launch[i].pc = "preparing", SparePids # {},
           proc' = [proc EXCEPT ![NextProc] = Spawned(i, 1)],
           launch' = [launch EXCEPT ![i] = [pc |-> "spawned", p |-> NextProc]],
           UNCHANGED <<rec, disk, resume, sup, reserved>>
    PROVE  LifeInv'
  <1>0. LifeTyped /\ SpawnsAlone /\ OneAlive /\ SlotsCounted
    BY DEF LifeInv
  <1>1. PICK n : n = NextProc
    OBVIOUS
  <1>2. /\ n \in Procs /\ proc[n].of = NoOne
        /\ ProcessesTyped' /\ proc'[n].of = i /\ proc'[n].gen = 1
        /\ \A p \in Procs : p # n => proc'[p] = proc[p]
        /\ \A j \in Ids : j # i => Live(j)' = Live(j) /\ Unreaped(j)' = Unreaped(j)
        /\ Live(i)' \subseteq Live(i) \union {n}
    BY <1>0, <1>1, SpawnFacts
  <1>3. /\ LaunchTyped' /\ launch'[i].pc = "spawned" /\ \A j \in Ids : j # i => launch'[j] = launch[j]
    BY <1>0 DEF LifeTyped, LaunchTyped
  <1>4. Early(i) /\ Unspawned(i) /\ ~Unspawned(i)' /\ ~Unwritten(i)'
    BY <1>3 DEF Early, Unspawned, Unwritten, EarlySteps
  <1>5. \A j \in Ids : /\ (Early(j)' => Early(j)) /\ (Unwritten(j)' => Unwritten(j))
                       /\ (Unspawned(j)' => Unspawned(j) /\ j # i)
    BY <1>3, <1>4 DEF Early, Unspawned, Unwritten
  <1>6. RecordsShown' /\ RecordsWritten' /\ ScoutsSupervised'
    BY <1>0, <1>5, ExecutedAreIds DEF LifeTyped, RecordsShown, RecordsWritten, ScoutsSupervised
  <1>7. resume[i].pc = "idle"
    BY <1>0, <1>4 DEF LifeTyped, ResumesTyped
  <1>8. ResumesTyped'
    <2>1. ASSUME NEW j \in Ids, resume[j].pc = "spawned"
          PROVE  resume[j].p \in Procs /\ proc'[resume[j].p].of = j /\ proc'[resume[j].p].gen >= 2
      <3>1. PICK q \in Procs : q = resume[j].p /\ proc[q].of = j /\ proc[q].gen >= 2
        BY <1>0, <2>1 DEF LifeTyped, ResumesTyped
      <3>2. q # n
        BY <1>2, <3>1 DEF SessionAssumption
      <3> QED
        BY <1>2, <3>1, <3>2
    <2> QED
      BY <1>0, <1>5, <2>1 DEF LifeTyped, ResumesTyped
  <1>9. SpawnsAlone'
    <2>1. ASSUME NEW j \in Ids, Unspawned(j)', NEW p \in Procs PROVE proc'[p].of # j
      BY <1>0, <1>2, <1>5, <2>1 DEF SpawnsAlone
    <2>2. ASSUME NEW j \in Executed, resume'[j].pc = "preparing" PROVE Unreaped(j)' = {}
      BY <1>0, <1>2, <1>7, <2>2, ExecutedAreIds DEF SpawnsAlone
    <2> QED
      BY <2>1, <2>2 DEF SpawnsAlone
  <1>10. OneAlive'
    <2>1. Live(i) = {}
      BY <1>0, <1>4 DEF SpawnsAlone, Live
    <2>2. ASSUME NEW j \in Executed, NEW p \in Live(j)', NEW q \in Live(j)' PROVE p = q
      <3>1. CASE j = i
        BY <1>2, <2>1, <2>2, <3>1
      <3>2. CASE j # i
        BY <1>0, <1>2, <2>2, <3>2, ExecutedAreIds DEF OneAlive
      <3> QED
        BY <3>1, <3>2
    <2> QED
      BY <2>2 DEF OneAlive
  <1>11. SlotsCounted'
    <2>1. Holders' = Holders /\ Begun' = Begun /\ Firsts' = Firsts
      BY <1>3, ExecutedAreIds DEF Holders, Begun, Firsts, Holding, EarlySteps
    <2> QED
      BY <1>0, <2>1 DEF SlotsCounted
  <1> QED
    BY <1>2, <1>3, <1>6, <1>8, <1>9, <1>10, <1>11 DEF LifeInv, LifeTyped

LEMMA SpawnKeeps ==
    ASSUME SessionAssumption, LifeInv, NEW i \in Ids, Spawn(i)
    PROVE  LifeInv'
  <1>0. LifeTyped
    BY DEF LifeInv
  <1>1. launch[i].pc = "preparing" /\ UNCHANGED <<resume, sup>>
    BY DEF Spawn, At
  <1>2. \/ /\ SparePids # {} /\ proc' = [proc EXCEPT ![NextProc] = Spawned(i, 1)]
           /\ launch' = [launch EXCEPT ![i] = [pc |-> "spawned", p |-> NextProc]]
           /\ UNCHANGED <<rec, disk, reserved>>
        \/ FailLaunch(i) /\ UNCHANGED proc
    BY DEF Spawn
  <1>3. launch[i].pc \in Holding
    BY <1>1 DEF Holding, EarlySteps
  <1> QED
    BY <1>0, <1>1, <1>2, <1>3, SpawnSucceeds, FailLaunchKeeps, UnchangedQuiet

LEMMA AdoptKeeps ==
    ASSUME SessionAssumption, LifeInv, NEW i \in Ids, Adopt(i)
    PROVE  LifeInv'
  <1>0. LifeTyped
    BY DEF LifeInv
  <1>1. launch[i].pc = "spawned" /\ UNCHANGED <<resume, sup>>
    BY DEF Adopt, At
  <1>2. launch[i].pc \in Holding /\ {"register", "init"} \intersect EarlySteps = {}
    BY <1>1 DEF Holding, EarlySteps
  <1>3. PICK p : p = launch[i].p
    OBVIOUS
  <1>4. CASE i \in abort
    <2>1. proc' = Killed(p) /\ FailLaunch(i)
      BY <1>3, <1>4 DEF Adopt
    <2> QED
      BY <1>0, <1>1, <1>2, <2>1, FailLaunchKeeps, Signals
  <1>5. CASE i \notin abort
    <2>1. PICK r : r = [Blank EXCEPT !.in = TRUE, !.st = "active", !.h = p, !.up = ParentOf[i]]
      OBVIOUS
    <2>2. /\ rec' = [rec EXCEPT ![i] = r] /\ proc' = [proc EXCEPT ![p].heard = TRUE]
          /\ reserved' = reserved - Reserves(i) /\ UNCHANGED disk
          /\ \E pc \in {"register", "init"} : LaunchGoes(i, pc)
      BY <1>3, <1>5, <2>1 DEF Adopt
    <2>3. PICK pc \in {"register", "init"} : LaunchGoes(i, pc)
      BY <2>2
    <2>4. RecordLike(r)
      BY <2>1 DEF Blank, RecordLike, RecordFields
    <2>5. ProcessesQuiet
      BY <1>0, <2>2 DEF LifeTyped, ProcessesTyped, ProcessLike, ProcessesQuiet
    <2>6. DOMAIN rec' = Ids /\ rec'[i] = r /\ \A j \in Ids : j # i => rec'[j] = rec[j]
      BY <1>0, <2>2 DEF LifeTyped, RecordsShown
    <2>7. \A j \in Ids : /\ RecordLike(rec[j]) /\ SnapshotLike(disk[j]) /\ DOMAIN disk = Ids
                         /\ Early(j) => ~rec[j].in /\ rec[j].h = NoProc
                         /\ Unwritten(j) => ~disk[j].in
      BY <1>0 DEF LifeTyped, RecordsShown, RecordsWritten
    <2>8. \A j \in Ids : /\ RecordLike(rec'[j]) /\ SnapshotLike(disk'[j])
                         /\ j # i => /\ (Early(j) => ~rec'[j].in /\ rec'[j].h = NoProc)
                                     /\ (Unwritten(j) => ~disk'[j].in)
                                     /\ (FirstRun(rec'[j]) => FirstRun(rec[j]))
      BY <2>2, <2>4, <2>6, <2>7
    <2>9. DOMAIN disk' = Ids
      BY <2>2, <2>7
    <2>10. pc \notin EarlySteps
      BY <1>2, <2>3
    <2> QED
      BY <1>1, <1>2, <2>2, <2>3, <2>5, <2>6, <2>8, <2>9, <2>10, StartEnds
  <1> QED
    BY <1>4, <1>5

\* A start past its adoption: its thread is shown, its slot has gone.
LEMMA LateStart ==
    ASSUME SessionAssumption, LifeInv, NEW i \in Ids, NEW pc, ~Early(i), pc \notin EarlySteps,
           LaunchGoes(i, pc), RecordsQuiet, DiskQuiet, ProcessesQuiet, UNCHANGED <<resume, reserved>>, SupQuiet
    PROVE  LifeInv'
  <1>0. LifeTyped /\ SlotsCounted /\ IsFiniteSet(Begun)
    BY DEF LifeInv, SlotsCounted
  <1>1. pc # "idle" /\ pc \notin Holding /\ launch[i].pc \notin Holding
    BY DEF Holding, EarlySteps, Early
  <1>2. /\ LaunchTyped' /\ launch'[i].pc = pc /\ \A j \in Ids : j # i => launch'[j] = launch[j]
        /\ IsFiniteSet(Begun)' /\ Holders' = Holders \ {i}
    BY <1>0, <1>1, StartMoved
  <1>3. Holders' = Holders
    BY <1>1, <1>2 DEF Holders
  <1>4. ~Early(i)' /\ ~Unspawned(i)' /\ ~Unwritten(i)'
    BY <1>2 DEF Early, Unspawned, Unwritten, EarlySteps
  <1>5. \A j \in Ids : (Early(j)' => Early(j)) /\ (Unwritten(j)' => Unwritten(j))
    BY <1>2, <1>4 DEF Early, Unwritten
  <1>6. RecordsShown'
    BY <1>0, <1>5 DEF LifeTyped, RecordsShown, RecordsQuiet
  <1>7. RecordsWritten'
    BY <1>0, <1>5 DEF LifeTyped, RecordsWritten, DiskQuiet
  <1>8. SlotsCounted'
    <2>1. Firsts' \subseteq Firsts
      BY ExecutedAreIds DEF Firsts, RecordsQuiet
    <2> QED
      BY <1>0, <1>2, <1>3, <2>1, CountsKeep, FirstsBegun
  <1> QED
    BY <1>2, <1>4, <1>6, <1>7, <1>8, StartMoves

LEMMA InitializeKeeps ==
    ASSUME SessionAssumption, LifeInv, NEW i \in Ids, Initialize(i)
    PROVE  LifeInv'
  <1>0. LifeTyped
    BY DEF LifeInv
  <1>1. /\ launch[i].pc = "init" /\ UNCHANGED <<disk, resume, reserved>>
        /\ \E pc \in {"done", "register", "failed"} : LaunchGoes(i, pc)
    BY DEF Initialize, At, services
  <1>2. PICK pc \in {"done", "register", "failed"} : LaunchGoes(i, pc)
    BY <1>1
  <1>3. ~Early(i) /\ pc \notin EarlySteps /\ RecordLike(rec[i])
    BY <1>0, <1>1, ShownIsLate DEF Early, EarlySteps
  <1>4. proc' = proc \/ proc' = Terminated(launch[i].p)
    BY DEF Initialize
  <1>5. RecordsQuiet
    <2>1. PICK r : r = [rec[i] EXCEPT !.in = FALSE, !.h = IF @ = launch[i].p THEN NoProc ELSE @]
      OBVIOUS
    <2>2. rec' = rec \/ rec' = [rec EXCEPT ![i] = r]
      BY <2>1 DEF Initialize
    <2>3. RecordLike(r) /\ (FirstRun(r) => FirstRun(rec[i]))
      BY <1>3, <2>1 DEF RecordLike, RecordFields, FirstRun
    <2> QED
      BY <1>0, <1>3, <2>2, <2>3, OneRecord, UnchangedQuiet
  <1>6. SupQuiet
    <2>1. PICK u : u = [sup[i] EXCEPT !.armed = TRUE]
      OBVIOUS
    <2>2. sup' = sup \/ sup' = [sup EXCEPT ![i] = u]
      BY <2>1 DEF Initialize
    <2>3. i \in ScoutIds => {"cap", "final", "code", "clean", "armed", "cut", "answered", "said", "dirty"} \subseteq DOMAIN u
      BY <1>0, <2>1 DEF LifeTyped, ScoutsSupervised
    <2> QED
      BY <1>0, <1>3, <2>2, <2>3, OneSupervisor, UnchangedQuiet
  <1> QED
    BY <1>0, <1>1, <1>2, <1>3, <1>4, <1>5, <1>6, LateStart, Signals, UnchangedQuiet

LEMMA RegisterKeeps ==
    ASSUME SessionAssumption, LifeInv, NEW i \in Ids, RegisterSession(i)
    PROVE  LifeInv'
  <1>0. LifeTyped
    BY DEF LifeInv
  <1>1. /\ launch[i].pc = "register" /\ UNCHANGED <<resume, reserved, sup>>
        /\ \E pc \in {"init", "done", "failed"} : LaunchGoes(i, pc)
    BY DEF RegisterSession, At, services
  <1>2. PICK pc \in {"init", "done", "failed"} : LaunchGoes(i, pc)
    BY <1>1
  <1>3. /\ ~Early(i) /\ ~Unwritten(i) /\ pc \notin EarlySteps
        /\ DOMAIN rec = Ids /\ DOMAIN disk = Ids /\ \A j \in Ids : RecordLike(rec[j])
    BY <1>0, <1>1, ShownIsLate DEF Early, EarlySteps, LifeTyped, RecordsShown, RecordsWritten
  <1>4. proc' = proc \/ proc' = Terminated(launch[i].p)
    BY DEF RegisterSession
  <1>5. RecordsQuiet /\ DiskQuiet
    <2>1. CASE /\ ParentOf[i] = NoOne \/ rec[ParentOf[i]].in
               /\ rec' = Adopted(rec, i)
               /\ disk' = [j \in Ids |-> IF j \in {i, ParentOf[i]} THEN Stored(rec'[j]) ELSE disk[j]]
      <3>1. /\ DOMAIN rec' = Ids
            /\ \A j \in Ids : /\ RecordLike(rec'[j]) /\ rec'[j].in = rec[j].in /\ rec'[j].h = rec[j].h
                              /\ FirstRun(rec'[j]) = FirstRun(rec[j])
        BY <1>3, <2>1, AdoptedRecords
      <3>2. RecordsQuiet
        BY <1>0, <3>1 DEF LifeTyped, RecordsShown, RecordsQuiet
      <3>3. ASSUME NEW j \in Ids
            PROVE  disk'[j] = disk[j] \/ (SnapshotLike(disk'[j]) /\ (Unwritten(j) => ~disk'[j].in))
        <4>1. CASE j \in {i, ParentOf[i]}
          <5>1. disk'[j] = Stored(rec'[j])
            BY <2>1, <4>1
          <5>2. SnapshotLike(Stored(rec'[j]))
            BY <3>1 DEF RecordLike, SnapshotLike, Stored
          <5>3. ~Unwritten(j)
            BY <1>0, <1>3, <2>1, <4>1, ShownIsLate DEF SessionAssumption
          <5> QED
            BY <5>1, <5>2, <5>3
        <4>2. CASE j \notin {i, ParentOf[i]}
          BY <2>1, <4>2
        <4> QED
          BY <4>1, <4>2
      <3>4. DOMAIN disk' = Ids
        BY <2>1
      <3> QED
        BY <3>2, <3>3, <3>4 DEF DiskQuiet
    <2>2. CASE /\ rec' = IF i \in ScoutIds THEN [rec EXCEPT ![i] = FailLive(i, @)]
                                         ELSE [rec EXCEPT ![i].in = FALSE]
               /\ disk' = [disk EXCEPT ![i] = Stored(rec'[i])]
      <3>1. PICK a, b : a = FailLive(i, rec[i]) /\ b = [rec[i] EXCEPT !.in = FALSE]
        OBVIOUS
      <3>2. PICK r \in {a, b} : rec' = [rec EXCEPT ![i] = r]
        BY <2>2, <3>1
      <3>3. RecordLike(a) /\ RecordLike(b) /\ ~FirstRun(a) /\ ~FirstRun(b)
        BY <1>3, <3>1 DEF FailLive, RecordLike, RecordFields, FirstRun
      <3>4. rec'[i] = r
        BY <1>3, <3>2
      <3> QED
        BY <1>0, <1>3, <2>2, <3>2, <3>3, <3>4, OneRecord, OneSnapshot
    <2> QED
      BY <2>1, <2>2 DEF RegisterSession
  <1> QED
    BY <1>0, <1>1, <1>2, <1>3, <1>4, <1>5, LateStart, Signals, UnchangedQuiet

LEMMA LaunchingKeeps ==
    ASSUME SessionAssumption, LifeInv, Launching
    PROVE  LifeInv'
  BY AdmitKeeps, ProvisionKeeps, ActivateKeeps, BeginSpawnKeeps, SpawnKeeps, AdoptKeeps,
     InitializeKeeps, RegisterKeeps DEF Launching

-----------------------------------------------------------------------------
(* A new broker process.                                                     *)

LEMMA RecoveredRecord ==
    ASSUME NEW d, SnapshotLike(d)
    PROVE  RecordLike(Recovered(d)) /\ Recovered(d).st # "active"
  <1> DEFINE wasLost == d.st \in {"active", "starting", "errored"}
             st == IF ~wasLost THEN d.st ELSE IF d.st = "errored" THEN "failed" ELSE "cancelled"
             attn == IF wasLost THEN IF d.st = "errored" THEN "failed" ELSE "interrupted"
                     ELSE IF st = "cancelled" /\ d.attn \in {"none", "stopping"} THEN "stopped"
                     ELSE IF st = "failed" /\ d.attn = "none" THEN "failed"
                     ELSE d.attn
             e == IF wasLost /\ Blank.exit = Null /\ d.exit = Null THEN "unknown" ELSE d.exit
  <1>1. st # "active"
    OBVIOUS
  <1>2. Recovered(d) = [Blank EXCEPT !.in = TRUE, !.st = st, !.attn = attn, !.gen = d.gen, !.up = d.up,
                                     !.kids = d.kids, !.limit = d.limit, !.term = d.term,
                                     !.card = d.card, !.exit = e]
    BY Zenon DEF Recovered
  <1> HIDE DEF st, attn, e
  <1> QED
    BY <1>1, <1>2 DEF Blank, RecordLike, RecordFields, SnapshotLike

LEMMA RestartRecovers ==
    ASSUME SessionAssumption, LifeInv, Restart
    PROVE  LifeInv'
  <1>0. LifeTyped /\ SpawnsAlone /\ SlotsCounted
    BY DEF LifeInv
  <1>1. /\ LaunchTyped'
        /\ \A i \in Ids : launch'[i].pc \in EarlySteps => launch'[i].pc = "idle" /\ launch[i].pc = "idle"
        /\ \A i \in Ids : launch'[i].pc = "idle" <=> launch[i].pc = "idle"
    <2>1. ASSUME NEW i \in Ids
          PROVE  /\ {"pc", "p"} \subseteq DOMAIN launch'[i]
                 /\ launch'[i].pc = IF launch[i].pc \in {"idle", "done", "failed"} THEN launch[i].pc ELSE "lost"
      <3>1. launch'[i] = [launch[i] EXCEPT !.pc = IF @ \in {"idle", "done", "failed"} THEN @ ELSE "lost"]
        BY DEF Restart
      <3> QED
        BY <1>0, <3>1 DEF LifeTyped, LaunchTyped
    <2>2. DOMAIN launch' = Ids
      BY DEF Restart
    <2> QED
      BY <2>1, <2>2 DEF LaunchTyped, EarlySteps
  <1>2. \A i \in Ids : Early(i)' \/ Unwritten(i)' \/ Unspawned(i)' =>
                       /\ launch[i].pc = "idle" /\ Early(i) /\ Unwritten(i) /\ Unspawned(i) /\ ~disk[i].in
    <2>1. ASSUME NEW i \in Ids, Early(i)' \/ Unwritten(i)' \/ Unspawned(i)'
          PROVE  launch[i].pc = "idle"
      BY <1>1, <2>1 DEF Early, Unwritten, Unspawned, EarlySteps
    <2> QED
      BY <1>0, <2>1 DEF Early, Unwritten, Unspawned, EarlySteps, LifeTyped, RecordsWritten
  <1>3. ASSUME NEW i \in Ids
        PROVE  RecordLike(rec'[i]) /\ rec'[i].st # "active" /\ (~disk[i].in => rec'[i] = Blank)
    <2>1. PICK r : r = Recovered(disk[i])
      OBVIOUS
    <2>2. RecordLike(r) /\ r.st # "active"
      BY <1>0, <2>1, RecoveredRecord DEF LifeTyped, RecordsWritten
    <2>3. PICK q : q = [r EXCEPT !.st = "exited", !.attn = "done", !.exit = IF @ = Null THEN "zero" ELSE @]
      OBVIOUS
    <2>4. RecordLike(q) /\ q.st # "active"
      BY <2>2, <2>3 DEF RecordLike, RecordFields
    <2>5. RecordLike(Blank) /\ Blank.st # "active"
      BY DEF Blank, RecordLike, RecordFields
    <2>6. rec'[i] = IF ~disk[i].in THEN Blank ELSE IF i \in ScoutIds THEN RecoveredScout(i, r) ELSE r
      BY <2>1 DEF Restart
    <2>7. RecoveredScout(i, r) \in {r, q}
      BY <2>3 DEF RecoveredScout
    <2> QED
      BY <2>2, <2>4, <2>5, <2>6, <2>7
  <1>4. RecordsShown'
    <2>1. DOMAIN rec' = Ids
      BY DEF Restart
    <2>2. ~Blank.in /\ Blank.h = NoProc
      BY DEF Blank, NoProc, NoProcess
    <2> QED
      BY <1>2, <1>3, <2>1, <2>2 DEF RecordsShown
  <1>5. RecordsWritten'
    <2>1. ASSUME NEW i \in Ids
          PROVE  SnapshotLike(disk'[i]) /\ (Unwritten(i)' => ~disk'[i].in)
      <3>1. disk'[i] = IF rec'[i].in THEN Stored(rec'[i]) ELSE disk[i]
        BY DEF Restart
      <3>2. SnapshotLike(Stored(rec'[i]))
        BY <1>3 DEF RecordLike, SnapshotLike, Stored
      <3>3. SnapshotLike(disk[i])
        BY <1>0 DEF LifeTyped, RecordsWritten
      <3>4. Unwritten(i)' => ~rec'[i].in /\ ~disk[i].in
        BY <1>2, <1>3 DEF Blank
      <3> QED
        BY <3>1, <3>2, <3>3, <3>4
    <2>2. DOMAIN disk' = Ids
      BY DEF Restart
    <2> QED
      BY <2>1, <2>2 DEF RecordsWritten
  <1>6. ASSUME NEW p \in Procs
        PROVE  ProcessLike(proc'[p]) /\ ~proc'[p].alive /\ proc'[p].of = proc[p].of
    <2>1. proc'[p] = [proc[p] EXCEPT !.alive = FALSE, !.told = TRUE, !.rang = TRUE]
      BY DEF Restart
    <2> QED
      BY <1>0, <2>1 DEF LifeTyped, ProcessesTyped, ProcessLike
  <1>7. ProcessesTyped'
    BY <1>6 DEF Restart, ProcessesTyped
  <1>8. ResumesTyped'
    BY DEF Restart, ResumesTyped, NoResume
  <1>9. ScoutsSupervised'
    <2>1. ASSUME NEW s \in ScoutIds
          PROVE  /\ {"cap", "final", "code", "clean", "armed", "cut", "answered", "said", "dirty"} \subseteq DOMAIN sup'[s]
                 /\ Early(s)' => SupervisorRests(sup'[s])
      <3>1. sup'[s] = [NoSup EXCEPT !.said = sup[s].said, !.dirty = sup[s].dirty,
                                    !.final = IF launch[s].pc = "idle" THEN @ ELSE "done"]
        BY DEF Restart
      <3> QED
        BY <3>1 DEF NoSup, SupervisorRests
    <2>2. DOMAIN sup' = ScoutIds
      BY DEF Restart
    <2>3. \A s \in ScoutIds : (Early(s) => SupervisorRests(sup[s]))'
      BY <2>1
    <2> QED
      BY <2>1, <2>2 DEF ScoutsSupervised
  <1>10. SpawnsAlone'
    <2>1. ASSUME NEW j \in Ids, Unspawned(j)', NEW p \in Procs PROVE proc'[p].of # j
      BY <1>0, <1>2, <1>6, <2>1 DEF SpawnsAlone
    <2>2. ASSUME NEW j \in Executed PROVE resume'[j].pc # "preparing"
      BY ExecutedAreIds DEF Restart, NoResume
    <2> QED
      BY <2>1, <2>2 DEF SpawnsAlone
  <1>11. OneAlive'
    BY <1>6 DEF OneAlive, Live
  <1>12. SlotsCounted'
    <2>1. Holders' = {}
      BY <1>1, ExecutedAreIds DEF Holders, Holding
    <2>2. Firsts' = {}
      BY <1>3, ExecutedAreIds DEF Firsts, FirstRun
    <2>3. Begun' = Begun
      BY <1>1 DEF Begun
    <2>4. reserved' = 0
      BY DEF Restart
    <2> QED
      BY <1>0, <2>1, <2>2, <2>3, <2>4, FS_EmptySet DEF SlotsCounted, SessionAssumption
  <1> QED
    BY <1>1, <1>4, <1>5, <1>7, <1>8, <1>9, <1>10, <1>11, <1>12 DEF LifeInv, LifeTyped

LEMMA OrderExists ==
    ASSUME SessionAssumption
    PROVE  \E f \in [AtStart -> Procs] : \A i, j \in AtStart : i # j => f[i] # f[j]
  <1>1. PICK n \in Nat : n = Cardinality(AtStart) /\ n <= MaxProcs /\ MaxProcs \in Nat
    BY FS_CardinalityType DEF SessionAssumption
  <1>2. ExistsBijection(1 .. n, AtStart)
    BY <1>1, FS_CardinalityType DEF SessionAssumption
  <1>3. PICK g \in Bijection(1 .. n, AtStart) : TRUE
    BY <1>2 DEF ExistsBijection
  <1>4. /\ g \in [1 .. n -> AtStart] /\ \A a, b \in 1 .. n : g[a] = g[b] => a = b
        /\ \A i \in AtStart : \E a \in 1 .. n : g[a] = i
    BY <1>3 DEF Bijection, Injection, Surjection, IsInjective
  <1>5. PICK f : f = [i \in AtStart |-> CHOOSE a \in 1 .. n : g[a] = i]
    OBVIOUS
  <1>6. \A i \in AtStart : f[i] \in 1 .. n /\ g[f[i]] = i
    BY <1>4, <1>5
  <1>7. 1 .. n \subseteq Procs
    BY <1>1 DEF Procs
  <1>8. f \in [AtStart -> Procs]
    BY <1>5, <1>6, <1>7
  <1>9. \A i, j \in AtStart : i # j => f[i] # f[j]
    BY <1>6
  <1> QED
    BY <1>8, <1>9

LEMMA InitLife ==
    ASSUME SessionAssumption, SessionsInit
    PROVE  LifeInv
  <1> DEFINE order == CHOOSE f \in [AtStart -> Procs] : \A i, j \in AtStart : i # j => f[i] # f[j]
  <1>1. order \in [AtStart -> Procs] /\ \A i, j \in AtStart : i # j => order[i] # order[j]
    BY OrderExists
  <1>2. /\ rec = [i \in Ids |-> IF i \in AtStart
                                THEN [Blank EXCEPT !.in = TRUE, !.st = "active", !.h = order[i],
                                                   !.up = ParentOf[i], !.kids = {j \in AtStart : ParentOf[j] = i}]
                                ELSE Blank]
        /\ disk = [i \in Ids |-> IF i \in AtStart THEN Stored(rec[i]) ELSE Unstored]
        /\ proc = [p \in Procs |-> IF \E i \in AtStart : order[i] = p
                                   THEN [Spawned(CHOOSE i \in AtStart : order[i] = p, 1) EXCEPT !.heard = TRUE]
                                   ELSE NoProcess]
        /\ launch = [i \in Ids |-> IF i \in AtStart THEN [pc |-> "done", p |-> order[i]]
                                   ELSE [pc |-> "idle", p |-> NoProc]]
        /\ sup = [s \in ScoutIds |-> [NoSup EXCEPT !.armed = s \in AtStart]]
        /\ resume = [i \in Ids |-> NoResume] /\ reserved = 0
    BY DEF SessionsInit
  <1> HIDE DEF order
  <1>3. LaunchTyped /\ \A i \in Ids : launch[i].pc = IF i \in AtStart THEN "done" ELSE "idle"
    BY <1>2 DEF LaunchTyped
  <1>4. \A i \in Ids : Early(i) \/ Unwritten(i) \/ Unspawned(i) => i \notin AtStart
    BY <1>3 DEF Early, Unwritten, Unspawned, EarlySteps
  <1>5. ASSUME NEW i \in Ids
        PROVE  /\ RecordLike(rec[i]) /\ (i \notin AtStart => ~rec[i].in /\ rec[i].h = NoProc)
    <2>1. PICK r : r = [Blank EXCEPT !.in = TRUE, !.st = "active", !.h = order[i],
                                     !.up = ParentOf[i], !.kids = {j \in AtStart : ParentOf[j] = i}]
      OBVIOUS
    <2>2. RecordLike(r)
      BY <2>1 DEF Blank, RecordLike, RecordFields
    <2>3. RecordLike(Blank) /\ ~Blank.in /\ Blank.h = NoProc
      BY DEF Blank, RecordLike, RecordFields, NoProc, NoProcess
    <2>4. rec[i] = IF i \in AtStart THEN r ELSE Blank
      BY <1>2, <2>1
    <2> QED
      BY <2>2, <2>3, <2>4
  <1>6. RecordsShown
    <2>1. DOMAIN rec = Ids
      BY <1>2
    <2> QED
      BY <1>4, <1>5, <2>1 DEF RecordsShown
  <1>7. RecordsWritten
    <2>1. ASSUME NEW i \in Ids PROVE SnapshotLike(disk[i]) /\ (i \notin AtStart => ~disk[i].in)
      <3>1. SnapshotLike(Stored(rec[i]))
        BY <1>5 DEF RecordLike, SnapshotLike, Stored
      <3>2. SnapshotLike(Unstored) /\ ~Unstored.in
        BY DEF Unstored, Stored, Blank, SnapshotLike
      <3>3. disk[i] = IF i \in AtStart THEN Stored(rec[i]) ELSE Unstored
        BY <1>2
      <3> QED
        BY <3>1, <3>2, <3>3
    <2>2. DOMAIN disk = Ids
      BY <1>2
    <2> QED
      BY <1>4, <2>1, <2>2 DEF RecordsWritten
  <1>8. ASSUME NEW p \in Procs
        PROVE  /\ ProcessLike(proc[p])
               /\ proc[p].of # NoOne => proc[p].of \in AtStart /\ order[proc[p].of] = p
    <2>1. CASE \E i \in AtStart : order[i] = p
      <3>1. PICK j \in AtStart : order[j] = p /\ j = CHOOSE i \in AtStart : order[i] = p
        BY <2>1
      <3>2. proc[p] = [Spawned(j, 1) EXCEPT !.heard = TRUE]
        BY <1>2, <2>1, <3>1
      <3> QED
        BY <3>1, <3>2 DEF Spawned, ProcessLike
    <2>2. CASE ~\E i \in AtStart : order[i] = p
      <3>1. proc[p] = NoProcess
        BY <1>2, <2>2
      <3> QED
        BY <3>1 DEF NoProcess, ProcessLike
    <2> QED
      BY <2>1, <2>2
  <1>9. ProcessesTyped
    BY <1>2, <1>8 DEF ProcessesTyped
  <1>10. ResumesTyped
    BY <1>2 DEF ResumesTyped, NoResume
  <1>11. ScoutsSupervised
    <2>1. \A s \in ScoutIds : Early(s) => s \notin AtStart
      BY <1>4, ExecutedAreIds
    <2> QED
      BY <1>2, <2>1 DEF ScoutsSupervised, NoSup, SupervisorRests
  <1>12. SpawnsAlone
    <2>1. ASSUME NEW i \in Ids, Unspawned(i), NEW p \in Procs PROVE proc[p].of # i
      BY <1>4, <1>8, <2>1 DEF SessionAssumption
    <2>2. ASSUME NEW i \in Executed PROVE resume[i].pc # "preparing"
      BY <1>2, ExecutedAreIds DEF NoResume
    <2> QED
      BY <2>1, <2>2 DEF SpawnsAlone
  <1>13. OneAlive
    <2>1. ASSUME NEW i \in Executed, NEW p \in Live(i), NEW q \in Live(i) PROVE p = q
      <3>1. p \in Procs /\ q \in Procs /\ proc[p].of = i /\ proc[q].of = i /\ i # NoOne
        BY ExecutedAreIds DEF Live, SessionAssumption
      <3> QED
        BY <1>8, <3>1
    <2> QED
      BY <2>1 DEF OneAlive
  <1>14. reserved = 0
    BY <1>2
  <1>15. SlotsCounted
    <2>1. Begun \subseteq AtStart /\ Holders = {}
      BY <1>3, ExecutedAreIds DEF Begun, Holders, Holding, EarlySteps
    <2>2. IsFiniteSet(AtStart) /\ IsFiniteSet(AtStart \intersect Executed)
      BY FS_Intersection, FS_Subset DEF SessionAssumption
    <2>3. Firsts \subseteq AtStart \intersect Executed
      BY <1>5, ExecutedAreIds DEF Firsts, FirstRun
    <2>4. /\ Cardinality(Firsts) <= Cardinality(AtStart \intersect Executed)
          /\ Cardinality(Firsts) \in Nat /\ Cardinality(AtStart \intersect Executed) \in Nat
      BY <2>2, <2>3, FS_Subset, FS_CardinalityType
    <2>5. IsFiniteSet(Begun) /\ Cardinality(Holders) = 0
      BY <2>1, <2>2, FS_Subset, FS_EmptySet
    <2> QED
      BY <1>14, <2>4, <2>5 DEF SlotsCounted, SessionAssumption
  <1> QED
    BY <1>3, <1>6, <1>7, <1>9, <1>10, <1>11, <1>12, <1>13, <1>15 DEF LifeInv, LifeTyped

LEMMA LifeStep ==
    ASSUME SessionAssumption, LifeInv, [SessionsNext]_sessionsVars
    PROVE  LifeInv'
  <1>1. CASE UNCHANGED sessionsVars
    <2>1. UNCHANGED <<rec, disk, proc, launch, resume, sup, reserved>>
      BY <1>1 DEF sessionsVars
    <2> QED
      BY <2>1, QuietKeeps, UnchangedQuiet DEF LifeInv
  <1> QED
    BY <1>1, LaunchingKeeps, StoppingKeeps, ResumingKeeps, DeletionKeeps, ExitsKeep, SupervisionKeeps,
       RestartRecovers DEF SessionsNext

LEMMA LifeAlways == ASSUME SessionAssumption PROVE SessionsSpec => []LifeInv
  <1>1. SessionsInit => LifeInv
    BY InitLife
  <1>2. LifeInv /\ [SessionsNext]_sessionsVars => LifeInv'
    BY LifeStep
  <1> QED
    BY <1>1, <1>2, PTL DEF SessionsSpec

\* The execution service never leaves two live processes of one worker or Scout behind,
\* whatever resumes, aborted starts, stops, unheard exits and restarts do to it
\* (worker-execution-service.ts, session-lifecycle-controller.ts).
THEOREM SessionsOneProcess == SessionAssumption /\ SessionsSpec => []OneProcess
  <1> SUFFICES ASSUME SessionAssumption PROVE SessionsSpec => []OneProcess
    OBVIOUS
  <1>1. LifeInv => OneProcess
    <2>1. ASSUME LifeInv, NEW i \in Executed PROVE Cardinality(Live(i)) <= 1
      <3>1. Live(i) = {} \/ \E p \in Live(i) : Live(i) = {p}
        BY <2>1 DEF LifeInv, OneAlive
      <3> QED
        <4>1. Cardinality({}) = 0 /\ \A p : Cardinality({p}) = 1
          BY FS_EmptySet, FS_Singleton
        <4>2. Cardinality(Live(i)) \in {0, 1}
          BY <3>1, <4>1
        <4> QED
          BY <4>2
    <2> QED
      BY <2>1 DEF OneProcess
  <1> QED
    BY <1>1, LifeAlways, PTL

\* pendingWorkerStarts counts exactly the starts between admission and adoption or failure,
\* and with the active first generation it never passes the ceiling
\* (session-launch-coordinator.ts).
THEOREM SessionsSlotsAgree == SessionAssumption /\ SessionsSpec => []SlotsAgree
  <1> SUFFICES ASSUME SessionAssumption PROVE SessionsSpec => []SlotsAgree
    OBVIOUS
  <1>1. LifeInv => SlotsAgree
    <2>1. Holding = {"reserved", "provisioned", "activated", "preparing", "spawned"}
      BY DEF Holding, EarlySteps
    <2>2. Firsts = {i \in Executed : rec[i].in /\ rec[i].st = "active" /\ rec[i].gen = 1}
      BY DEF Firsts, FirstRun
    <2> QED
      BY <2>1, <2>2 DEF LifeInv, SlotsCounted, SlotsAgree, Holders
  <1> QED
    BY <1>1, LifeAlways, PTL

====
