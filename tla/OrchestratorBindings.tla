------------------------ MODULE OrchestratorBindings ------------------------
(***************************************************************************)
(* Which orchestrator session speaks for a scope: OrchestratorManager and  *)
(* OrchestratorPeerService (src/orchestration/), the append-only binding   *)
(* store, the liveness observer that tells the lease substrate which       *)
(* controllers are alive, and the stop of one orchestrator by another.     *)
(*                                                                         *)
(* A scope has one primary binding, replaced by rebinding, and peers whose *)
(* key names their session.  Operator calls (ensure, create, toggle,       *)
(* reset, delete) run concurrently: nothing serialises them.  The creates  *)
(* of one orchestrator are serialised by the peer service.  Every step of  *)
(* a call is what happens between two awaits.                              *)
(***************************************************************************)
EXTENDS Naturals, FiniteSets

CONSTANTS
    SessionIds,   \* session ids a launch may be given
    First,        \* the session bound as primary when a behaviour starts
    NoSession,
    Primary,      \* the key of the scope's primary binding
    Operators,    \* slots for concurrent operator requests
    Selectable,   \* provider, model and effort, as the operator picks them
    AnySelection, \* an ensure that names no provider
    Intents,      \* mutation ids of peer creates
    NoIntent,
    MaxRequests, MaxBindingMoves, MaxGeneration   \* bounds

ASSUME BindingsConstants ==
    /\ First \in SessionIds
    /\ NoSession \notin SessionIds \cup {Primary} /\ Primary \notin SessionIds
    /\ AnySelection \notin Selectable /\ NoIntent \notin Intents

VARIABLES
    bindings,    \* the projection of bindings.jsonl
    session,     \* the registry's record of each session
    generation,
    controllers, \* the liveness observer's map: which session a key is followed by
    seen,        \* the last durable observation of each key's controller
    requests,    \* requests in progress, one per operator slot and per creator
    replays,     \* the peer service's answers by creator and mutation id
    stopping,    \* sessions with a stop request pending
    acked,       \* history: the primary binding the operator was last told of
    calm,        \* history: nothing has run between the steps of a call
    stopped,     \* history: the sessions that were healthy when a stop reached them
    began, bindingMoves \* bounds

store == <<bindings, acked>>
registry == <<session, generation, stopping>>
observer == <<controllers, seen>>
bindingsVars == <<store, registry, observer, requests, replays, calm, stopped, began, bindingMoves>>

Keys == {Primary} \cup SessionIds
Callers == Operators \cup SessionIds
Unbound == [session |-> NoSession]

ActiveState(s) == session[s] \in {"starting", "active"}
\* "ailing": errored or cancelled by its label while its process has not exited.
Alive(s) == session[s] \in {"starting", "active", "ailing"}

NoRequest == [step |-> "idle"]
Request(step, key, selection, by, intent, held) ==
    [step |-> step, key |-> key, selection |-> selection, by |-> by, intent |-> intent,
     grant |-> {}, held |-> held, session |-> NoSession]

Quiet(i) == \A j \in Callers \ {i} : requests[j] = NoRequest

Begins(i, c) ==
    /\ requests[i] = NoRequest /\ began < MaxRequests
    /\ requests' = [requests EXCEPT ![i] = c]
    /\ calm' = (calm /\ Quiet(i))
    /\ began' = began + 1
    /\ UNCHANGED <<stopped, bindingMoves>>

Steps(i, c) ==
    /\ requests' = [requests EXCEPT ![i] = c]
    /\ UNCHANGED <<calm, stopped, began, bindingMoves>>

RequestEnds(i) == Steps(i, NoRequest)

-----------------------------------------------------------------------------
(* The liveness observer *)

Observed(s, alive) == [session |-> s, generation |-> generation[s], alive |-> alive]

BindingSession(k, s, alive) ==
    /\ controllers' = [controllers EXCEPT ![k] = s]
    /\ seen' = [seen EXCEPT ![k] = Observed(s, alive)]

BindingRemoved(k, s) ==
    /\ controllers' = [controllers EXCEPT ![k] = NoSession]
    /\ seen' = [seen EXCEPT ![k] = Observed(s, FALSE)]

\* onSessionUpdate: every key followed by the session that changed.
SessionSeen(s, g, alive) ==
    /\ seen' = [k \in Keys |->
          IF controllers[k] = s THEN [session |-> s, generation |-> g, alive |-> alive]
          ELSE seen[k]]
    /\ UNCHANGED controllers

-----------------------------------------------------------------------------
(* ensure: answer with the scope's orchestrator, resumed or launched *)

\* What is read decides between an answer, a resume and a launch.  An active
\* orchestrator of the same selection is the answer; one of another selection is
\* refused; neither changes anything.
EnsureRead(i, selection) ==
    LET existing == bindings[Primary] IN
    /\ \/ /\ existing = Unbound /\ selection # AnySelection
          /\ Begins(i, Request("launch", Primary, selection, NoSession, NoIntent, existing))
       \/ /\ existing # Unbound /\ ~ActiveState(existing.session)
          /\ Begins(i, Request(IF selection \in {AnySelection, existing.selection}
                            THEN "resume" ELSE "launch",
                            Primary, selection, NoSession, NoIntent, existing))
    /\ UNCHANGED <<store, registry, observer, replays>>

\* registry.resume: a record that is neither active nor starting
Resumed(s) ==
    /\ session[s] \in {"ailing", "exited"} /\ generation[s] < MaxGeneration
    /\ session' = [session EXCEPT ![s] = "active"]
    /\ generation' = [generation EXCEPT ![s] = @ + 1]
    /\ stopping' = stopping \ {s}
    /\ SessionSeen(s, generation[s] + 1, TRUE)

ResumeExisting(i) ==
    /\ requests[i].step = "resume"
    /\ Resumed(requests[i].held.session)
    /\ RequestEnds(i)
    /\ acked' = bindings[Primary]
    /\ UNCHANGED <<bindings, replays>>

\* SESSION_NOT_FOUND or SESSION_RESUME_UNAVAILABLE: with a selection, launch anew.
ResumeUnavailable(i) ==
    /\ requests[i].step = "resume"
    /\ ~ActiveState(requests[i].held.session)
    /\ IF requests[i].selection = AnySelection
       THEN RequestEnds(i)
       ELSE Steps(i, [requests[i] EXCEPT !.step = "launch"])
    /\ UNCHANGED <<store, registry, observer, replays>>

\* Any other failure is thrown.
ResumeThrows(i) ==
    /\ requests[i].step = "resume" /\ session[requests[i].held.session] # "absent"
    /\ RequestEnds(i)
    /\ UNCHANGED <<store, registry, observer, replays>>

-----------------------------------------------------------------------------
(* createBound: the binding is written during the start *)

Record(c, answer) ==
    replays' = IF c.intent = NoIntent THEN replays
               ELSE [replays EXCEPT ![<<c.by, c.intent>>] = answer]

Unused(s) == session[s] = "absent" /\ generation[s] = 0

\* The activation step of registry.start
Activation(i, s) ==
    LET c == requests[i]
        k == IF c.key = Primary THEN Primary ELSE s IN
    /\ c.step = "launch" /\ Unused(s)
    /\ session' = [session EXCEPT ![s] = "starting"]
    /\ generation' = [generation EXCEPT ![s] = 1]
    /\ bindings' = [bindings EXCEPT ![k] =
          [session |-> s, selection |-> c.selection, by |-> c.by, intent |-> c.intent,
           grant |-> IF c.by = NoSession THEN {"create"} ELSE c.grant]]
    /\ controllers' = [controllers EXCEPT ![k] = s]
    /\ seen' = [seen EXCEPT ![k] = [session |-> s, generation |-> 1, alive |-> TRUE]]
    /\ Steps(i, [c EXCEPT !.step = "start", !.key = k, !.session = s])
    /\ UNCHANGED <<acked, stopping, replays>>

\* The selection or its permissions are refused, or the start fails before activation.
LaunchRefused(i) ==
    /\ requests[i].step = "launch"
    /\ Record(requests[i], "failed")
    /\ RequestEnds(i)
    /\ UNCHANGED <<store, registry, observer>>

Started(i) ==
    LET c == requests[i] IN
    /\ c.step = "start" /\ session[c.session] = "starting"
    /\ session' = [session EXCEPT ![c.session] = "active"]
    /\ SessionSeen(c.session, 1, TRUE)
    /\ Record(c, "created")
    /\ acked' = IF c.key = Primary THEN bindings[Primary] ELSE acked
    /\ RequestEnds(i)
    /\ UNCHANGED <<bindings, generation, stopping>>

\* restoreBinding
Restored(c) == [bindings EXCEPT ![c.key] = IF c.key = Primary THEN c.held ELSE Unbound]

\* The start failed after the binding became durable.
StartFails(i) ==
    LET c == requests[i] IN
    /\ c.step = "start" /\ session[c.session] = "starting"
    /\ session' = [session EXCEPT ![c.session] = "absent"]
    /\ BindingSession(c.key, c.session, FALSE)
    /\ bindings' = Restored(c)
    /\ Record(c, "failed")
    /\ RequestEnds(i)
    /\ UNCHANGED <<acked, generation, stopping>>

\* Fleet's own create: a peer with the default grant and no lineage.
Create(i, selection) ==
    /\ Begins(i, Request("launch", NoSession, selection, NoSession, NoIntent, Unbound))
    /\ UNCHANGED <<store, registry, observer, replays>>

-----------------------------------------------------------------------------
(* toggleGrantCapability, reset and the deletion of a bound session *)

ToggleRead(i, capability) ==
    /\ bindings[Primary] # Unbound
    /\ LET b == bindings[Primary]
           flipped == IF capability \in b.grant THEN b.grant \ {capability}
                      ELSE b.grant \cup {capability} IN
       Begins(i, Request("toggle", Primary, AnySelection, NoSession, NoIntent,
                      [b EXCEPT !.grant = flipped]))
    /\ UNCHANGED <<store, registry, observer, replays>>

ToggleWrite(i) ==
    /\ requests[i].step = "toggle"
    /\ bindings' = [bindings EXCEPT ![Primary] = requests[i].held]
    /\ acked' = requests[i].held
    /\ RequestEnds(i)
    /\ UNCHANGED <<registry, observer, replays>>

ResetRead(i) ==
    /\ bindings[Primary] # Unbound /\ ~ActiveState(bindings[Primary].session)
    /\ Begins(i, Request("reset", Primary, AnySelection, NoSession, NoIntent, bindings[Primary]))
    /\ UNCHANGED <<store, registry, observer, replays>>

ResetWrite(i) ==
    /\ requests[i].step = "reset"
    /\ bindings' = [bindings EXCEPT ![Primary] = Unbound]
    /\ BindingRemoved(Primary, requests[i].held.session)
    /\ acked' = Unbound
    /\ RequestEnds(i)
    /\ UNCHANGED <<registry, replays>>

KeysOf(s) == {k \in Keys : bindings[k] # Unbound /\ bindings[k].session = s}

\* resetSessionBinding finds the key of the session first ...
DeleteRead(i, s) ==
    /\ session[s] = "exited"
    /\ \E k \in IF KeysOf(s) = {} THEN {NoSession} ELSE KeysOf(s) :
          Begins(i, [Request("delete", k, AnySelection, NoSession, NoIntent, Unbound)
                     EXCEPT !.session = s])
    /\ UNCHANGED <<store, registry, observer, replays>>

\* ... and clears it, whoever holds it by then, before the record goes.
DeleteWrite(i) ==
    LET c == requests[i] IN
    /\ c.step = "delete"
    /\ session' = [session EXCEPT ![c.session] = "absent"]
    /\ IF c.key = NoSession
       THEN UNCHANGED <<bindings, observer, acked>>
       ELSE /\ bindings' = [bindings EXCEPT ![c.key] = Unbound]
            /\ BindingRemoved(c.key, c.session)
            /\ acked' = IF c.key = Primary THEN Unbound ELSE acked
    /\ RequestEnds(i)
    /\ UNCHANGED <<generation, stopping, replays>>

-----------------------------------------------------------------------------
(* The peer service: one create at a time per creator *)

BindingOf(s) == bindings[CHOOSE k \in KeysOf(s) : TRUE]

\* describeActor: a session whose scope is now bound to another one is orphaned; its
\* successor's grant is not inherited.
DescribeActor(s) ==
    IF KeysOf(s) # {} THEN "bound"
    ELSE IF session[s] = "absent" THEN "unknown-session"
    ELSE IF bindings[Primary] # Unbound THEN "orphaned"
    ELSE "unbound"

\* requireActiveBinding
ActiveOrchestrator(s) == DescribeActor(s) = "bound" /\ session[s] = "active"

\* Bug: a retry is answered from memory only.
LoggedNowhere(by, intent) == FALSE

\* The binding log, which answers a retry that memory has forgotten
Logged(by, intent) ==
    \E k \in Keys : /\ bindings[k] # Unbound
                    /\ bindings[k].by = by /\ bindings[k].intent = intent

Replay(c, intent) ==
    /\ requests[c] = NoRequest /\ replays[<<c, intent>>] = "none" /\ Logged(c, intent)
    /\ replays' = [replays EXCEPT ![<<c, intent>>] = "created"]
    /\ UNCHANGED <<store, registry, observer, requests, calm, stopped, began, bindingMoves>>

\* admission: bound, active, holding the grant, and the scope's switch is on.
Admitted(c) ==
    /\ ActiveOrchestrator(c)
    /\ "create" \in BindingOf(c).grant
    /\ bindings[Primary] # Unbound => "create" \in bindings[Primary].grant

Decide(c, intent, selection) ==
    /\ replays[<<c, intent>>] = "none" /\ ~Logged(c, intent)
    /\ Admitted(c)
    /\ Begins(c, [Request("launch", NoSession, selection, c, intent, Unbound)
                  EXCEPT !.grant = BindingOf(c).grant])
    /\ UNCHANGED <<store, registry, observer, replays>>

-----------------------------------------------------------------------------
(* stopOrchestrator: an orchestrator stops an unhealthy one it inspected *)

Stoppable(t, g, mode) ==
    /\ session[t] = "ailing" /\ generation[t] = g
    /\ mode = "force" => t \in stopping

StopPreflight(c, t, mode) ==
    /\ ActiveOrchestrator(c) /\ t # c
    /\ Stoppable(t, generation[t], mode)
    /\ Begins(c, [step |-> "audit", target |-> t, generation |-> generation[t], mode |-> mode])
    /\ UNCHANGED <<store, registry, observer, replays>>

\* The audit write yields: the record is read again, then the impact is inspected.
StopReread(c) ==
    /\ requests[c].step = "audit"
    /\ IF Stoppable(requests[c].target, requests[c].generation, "graceful")
       THEN Steps(c, [requests[c] EXCEPT !.step = "stop"])
       ELSE RequestEnds(c)
    /\ UNCHANGED <<store, registry, observer, replays>>

\* After the inspection only the ownership of the process and, for a forced stop, the
\* pending request are read: stop asks and forceStop kills what the session has become.
StopTarget(c) ==
    LET t == requests[c].target IN
    /\ requests[c].step = "stop"
    /\ requests' = [requests EXCEPT ![c] = NoRequest]
    /\ IF ~Alive(t) \/ (requests[c].mode = "force" /\ t \notin stopping)
       THEN UNCHANGED <<registry, observer, stopped>>
       ELSE /\ stopped' = IF session[t] = "active" THEN stopped \cup {t} ELSE stopped
            /\ session' = [session EXCEPT ![t] =
                  IF requests[c].mode = "force" THEN "exited" ELSE "ailing"]
            /\ stopping' = stopping \cup {t}
            /\ UNCHANGED generation
            /\ SessionSeen(t, generation[t], requests[c].mode # "force")
    /\ UNCHANGED <<store, replays, calm, began, bindingMoves>>

-----------------------------------------------------------------------------
(* Processes and the broker *)

BindingMove ==
    /\ bindingMoves < MaxBindingMoves /\ bindingMoves' = bindingMoves + 1
    /\ UNCHANGED <<stopped, began>>

Ails(s) ==
    /\ BindingMove /\ session[s] = "active"
    /\ session' = [session EXCEPT ![s] = "ailing"]
    /\ SessionSeen(s, generation[s], TRUE)
    /\ UNCHANGED <<store, generation, stopping, requests, replays, calm>>

Exits(s) ==
    /\ BindingMove /\ session[s] \in {"active", "ailing"}
    /\ session' = [session EXCEPT ![s] = "exited"]
    /\ stopping' = stopping \ {s}
    /\ SessionSeen(s, generation[s], FALSE)
    /\ UNCHANGED <<store, generation, requests, replays, calm>>

\* session.resume, of any thread the operator opens
SessionResume(s) ==
    /\ BindingMove /\ Resumed(s)
    /\ calm' = (calm /\ \A j \in Callers : requests[j] = NoRequest)
    /\ UNCHANGED <<store, requests, replays>>

\* The broker stops and starts: the maps in memory are gone, every process it owned
\* has exited, and the observer is rebuilt from the bindings.
BrokerRestart ==
    /\ BindingMove
    /\ session' = [s \in SessionIds |-> IF Alive(s) THEN "exited" ELSE session[s]]
    /\ stopping' = {}
    /\ controllers' = [k \in Keys |-> bindings[k].session]
    /\ seen' = [k \in Keys |->
          IF bindings[k] # Unbound THEN Observed(bindings[k].session, FALSE)
          ELSE [seen[k] EXCEPT !.alive = FALSE]]
    /\ requests' = [i \in Callers |-> NoRequest]
    /\ replays' = [r \in SessionIds \X Intents |-> "none"]
    /\ acked' = IF \E i \in Callers : requests[i] # NoRequest THEN bindings[Primary] ELSE acked
    /\ UNCHANGED <<bindings, generation, calm>>

-----------------------------------------------------------------------------

BindingsInit ==
    /\ \E selection \in Selectable :
          bindings = [k \in Keys |-> IF k = Primary
                        THEN [session |-> First, selection |-> selection, by |-> NoSession,
                              intent |-> NoIntent, grant |-> {"create"}]
                        ELSE Unbound]
    /\ session = [s \in SessionIds |-> IF s = First THEN "active" ELSE "absent"]
    /\ generation = [s \in SessionIds |-> IF s = First THEN 1 ELSE 0]
    /\ controllers = [k \in Keys |-> IF k = Primary THEN First ELSE NoSession]
    /\ seen = [k \in Keys |-> IF k = Primary
                 THEN [session |-> First, generation |-> 1, alive |-> TRUE]
                 ELSE [session |-> NoSession, generation |-> 0, alive |-> FALSE]]
    /\ requests = [i \in Callers |-> NoRequest]
    /\ replays = [r \in SessionIds \X Intents |-> "none"]
    /\ stopping = {} /\ acked = bindings[Primary]
    /\ calm = TRUE /\ stopped = {} /\ began = 0 /\ bindingMoves = 0

Requests ==
    \/ \E i \in Operators, s \in Selectable \cup {AnySelection} : EnsureRead(i, s)
    \/ \E i \in Operators, s \in Selectable : Create(i, s)
    \/ \E i \in Operators : ToggleRead(i, "create") \/ ResetRead(i)
    \/ \E i \in Operators, s \in SessionIds : DeleteRead(i, s)
    \/ \E c \in SessionIds, m \in Intents, s \in Selectable : Decide(c, m, s)
    \/ \E c \in SessionIds, m \in Intents : Replay(c, m)
    \/ \E c, t \in SessionIds, mode \in {"graceful", "force"} : StopPreflight(c, t, mode)

Progress ==
    \E i \in Callers :
       \/ ResumeExisting(i) \/ ResumeUnavailable(i) \/ ResumeThrows(i)
       \/ \E s \in SessionIds : Activation(i, s)
       \/ LaunchRefused(i) \/ Started(i) \/ StartFails(i)
       \/ ToggleWrite(i) \/ ResetWrite(i) \/ DeleteWrite(i)
       \/ StopReread(i) \/ StopTarget(i)

BindingsNext ==
    \/ Requests \/ Progress
    \/ \E s \in SessionIds : Ails(s) \/ Exits(s) \/ SessionResume(s)
    \/ BrokerRestart

BindingsSpec == BindingsInit /\ [][BindingsNext]_bindingsVars

-----------------------------------------------------------------------------

AtRest == \A i \in Callers : requests[i] = NoRequest

\* One mutation id of one creator is one bound peer, however often the create is
\* retried, across launches that fail and restarts that forget the answers
\* (OrchestratorPeerService.replay: "the same intent can never launch twice").  It
\* speaks of peers that are bound: a binding that was deleted is not counted.
OneBindingPerIntent ==
    \A j, k \in Keys :
       (/\ bindings[j] # Unbound /\ bindings[k] # Unbound
        /\ bindings[j].intent # NoIntent
        /\ bindings[j].by = bindings[k].by /\ bindings[j].intent = bindings[k].intent)
       => j = k

\* The controller of a bound session whose process is alive is seen connected
\* once nothing is under way ("quiet, blocked and errored live processes keep leases",
\* orchestrator-session-liveness.ts:14).
LiveIsConnected ==
    (calm /\ AtRest) =>
       \A k \in Keys : (bindings[k] # Unbound /\ Alive(bindings[k].session)) => seen[k].alive

=============================================================================
