---------------------------- MODULE FleetClient ----------------------------
(***************************************************************************)
(* The terminal client of the fleet (src/src/client/fleet): the snapshot   *)
(* feed that follows the broker's projection, the key handler that turns   *)
(* keys into broker requests, the render loop that runs beside it, and the *)
(* gestures with memory: the stop/delete ladder of ctrl+x, in the list and *)
(* in the orchestrator picker, the marked batch and its handoff, and the   *)
(* read marks of a visit.                                                  *)
(*                                                                         *)
(* Keys are handled one at a time (the input queue), but a key that sends  *)
(* a request holds the state and the snapshot it was handled with until    *)
(* the answer comes, while the feed and the render loop go on.  Rows,      *)
(* folders and text are abstracted: a row is a thread or a control, and    *)
(* exited threads fold into one history section.                           *)
(***************************************************************************)
EXTENDS Naturals, FiniteSets

CONSTANTS
    FleetWorkers,   \* worker sessions
    Orc,            \* the orchestrator session
    None,           \* no thread, no request, no snapshot
    MaxFleetMoves,  \* bound on what the broker's sessions do by themselves
    MaxDrops,       \* bound on lost connections and failed requests
    MaxGestures     \* bound on handoff directives written

Ids == FleetWorkers \cup {Orc}

\* What the broker shows of a session, of the fleet, and what it replies.
Sessions == [st : {"absent", "live", "exited"}, turns : Nat, text : Nat]
Fleets == [Ids -> Sessions]
SnapshotReplies == [reply : [kind : {"full", "unchanged", "delta"}, version : Fleets, upsert : Fleets],
                    base : Fleets \cup {None}, stale : BOOLEAN, at : Nat, removed : SUBSET Ids]

ASSUME FleetConstants ==
    /\ {MaxFleetMoves, MaxDrops, MaxGestures} \subseteq Nat
    /\ None \notin SnapshotReplies

\* What the operator does in a visit: the ladder in the list or in the picker,
\* a handoff, or reading.
Operators == {"ladder", "picker", "handoff", "reading"}

VARIABLES
    operator,   \* which gestures this operator uses
    fleet,      \* the sessions of the broker
    feed,       \* FleetSnapshotFeed: snapshot and the version it stands for
    wire,       \* the reply of fleet.snapshot on its way, or None
    retained,   \* the projection the broker keeps for this connection
    snap,       \* runFleet's snapshot: what keys are handled with
    ui,         \* FleetState
    busy,       \* the action whose request is in flight, or None
    phase,      \* "running", "attached" or "stopped"
    mutations,  \* handoffs the broker committed, by mutation id
    gestures,   \* directives written so far
    presses,    \* history: ctrl+x pressed in a row on the focused thread, in the
                \* list and in the picker; a confirmation that lapsed counts once
    asOf,       \* history: when the feed's snapshot and snap were read
    base,       \* history: the last reply each thread had shown the operator
    fleetMoves, \* broker moves so far
    drops       \* lost connections and failures so far

clientVars == <<operator, fleet, feed, wire, retained, snap, ui, busy, phase, mutations,
          gestures, presses, asOf, base, fleetMoves, drops>>

broker == <<fleet, mutations, fleetMoves>>
ghosts == <<presses, base>>

--------------------------------------------------------------------------
(* Snapshots.  A record shows whether its process runs, how many canonical *)
(* turns the broker counted and the last reply; the list that an action    *)
(* collects carries no worker truth, so its turns read as zero.            *)

Absent == [st |-> "absent", turns |-> 0, text |-> 0]

\* Every session absent: the snapshot of a feed that has none.
Empty == [i \in Ids |-> Absent]

Present(s) == {i \in Ids : s[i].st # "absent"}

\* isTerminalSession
Terminal(s, i) == s[i].st = "exited"

\* collectFleetSnapshot: session.list without the worker truth.
Collected(f) == [i \in Ids |-> [f[i] EXCEPT !.turns = 0]]

\* orderedThreads(snapshot)[0]
First(S) == CHOOSE i \in S : TRUE

--------------------------------------------------------------------------
(* Read marks (visit-state).                                               *)

Watermark(turns, text) == [seen |-> text, latest |-> text, turns |-> turns, seenTurns |-> turns]

\* reconcileReplyWatermarks, for one thread: the first sight is a baseline,
\* and so is the first trusted capture after a cold list; afterwards only a
\* turn with a new text moves the mark.
ReconcileRead(w, r) ==
    IF r.st = "absent" THEN w
    ELSE IF w = None THEN Watermark(r.turns, r.text)
    ELSE IF w.turns = 0 /\ w.latest # 0 /\ w.latest = w.seen /\ r.turns > 0 /\ r.text # 0
         THEN Watermark(r.turns, r.text)
    ELSE IF r.turns > w.turns /\ r.text # 0 /\ r.text # w.latest
         THEN [w EXCEPT !.latest = r.text, !.turns = r.turns]
    ELSE w

IsUnread(w) == w # None /\ w.latest # 0 /\ (w.latest # w.seen \/ w.turns > w.seenTurns)

\* markThreadRead
MarkRead(w) == IF IsUnread(w) THEN [w EXCEPT !.seen = w.latest, !.seenTurns = w.turns] ELSE w

--------------------------------------------------------------------------
(* The client's state and its normalisation against a snapshot.            *)

Quiet == [of |-> None, fresh |-> FALSE]                 \* no confirmation armed
NoPicker == [focus |-> None, ack |-> None, conf |-> Quiet, open |-> FALSE]
NoHandoff == [step |-> "closed", workers |-> {}, rcpt |-> None, mid |-> 0, text |-> 0]

\* createFleetState
FreshState(s) ==
    [sel |-> IF Present(s) = {} THEN None ELSE First(Present(s)), inert |-> Present(s) = {},
     history |-> FALSE, ack |-> None, conf |-> Quiet, quit |-> FALSE, marks |-> {},
     picker |-> NoPicker, handoff |-> NoHandoff,
     read |-> [i \in Ids |-> ReconcileRead(None, s[i])]]

\* isHandoffEligible
Eligible(s) == {i \in FleetWorkers : s[i].st = "live"}

\* normalizeOrchestratorPicker: a deleted focus is rescued onto the first
\* row, and the ladder of another row is dropped.
NormalizePicker(p, s) ==
    LET focus == IF p.focus \in Present(s) THEN p.focus ELSE None
    IN [p EXCEPT !.focus = focus,
                 !.ack = IF p.ack = focus THEN p.ack ELSE None,
                 !.conf = IF p.conf.of = focus /\ p.conf.fresh THEN p.conf ELSE Quiet]

\* normalizeState: a lost selection arms nothing (the focus goes to the view
\* control), a stop-acknowledged one is kept in view when it folds into the
\* history, and acknowledgement, confirmation and marks are kept only where
\* the snapshot still bears them out.
Normalize(u, s) ==
    LET lost == u.sel # None /\ u.sel \notin Present(s)
        sel  == IF u.sel \in Present(s) THEN u.sel
                ELSE IF lost \/ Present(s) = {} THEN None ELSE First(Present(s))
        history == u.history \/ (~u.inert /\ sel # None /\ u.ack = sel)
    IN [u EXCEPT
          !.sel = sel, !.history = history,
          !.inert = u.inert \/ lost \/ sel = None \/ (s[sel].st = "exited" /\ ~history),
          !.ack = IF u.ack = sel THEN u.ack ELSE None,
          !.conf = IF u.conf.of = sel /\ u.conf.fresh THEN u.conf ELSE Quiet,
          !.marks = u.marks \cap Eligible(s),
          !.picker = NormalizePicker(u.picker, s),
          !.read = [i \in Ids |-> ReconcileRead(u.read[i], s[i])]]

\* No press of ctrl+x.
Forgotten == [of |-> None, n |-> 0]

--------------------------------------------------------------------------
FleetInit ==
    /\ operator \in Operators
    /\ LET live == IF operator = "handoff" THEN Ids ELSE {Orc, First(FleetWorkers)}
       IN fleet = [i \in Ids |-> IF i \in live THEN [st |-> "live", turns |-> 0, text |-> 0] ELSE Absent]
    /\ feed = [snap |-> fleet, version |-> fleet, down |-> FALSE]
    /\ wire = None /\ retained = fleet
    /\ snap = fleet /\ ui = FreshState(fleet)
    /\ busy = None /\ phase = "running"
    /\ mutations = {} /\ gestures = 0
    /\ presses = [list |-> [of |-> None, n |-> 0], picker |-> [of |-> None, n |-> 0]]
    /\ asOf = [feed |-> 0, snap |-> 0]
    /\ base = [i \in Ids |-> 0]
    /\ fleetMoves = 0 /\ drops = 0

--------------------------------------------------------------------------
(* The broker: sessions exit, resume, reply and disappear by themselves    *)
(* (other clients and the providers).                                      *)

BrokerMoves(i, r) ==
    /\ fleetMoves < MaxFleetMoves
    /\ fleetMoves' = fleetMoves + 1
    /\ fleet' = [fleet EXCEPT ![i] = r]
    /\ UNCHANGED <<operator, feed, wire, retained, snap, ui, busy, phase, mutations,
                   gestures, ghosts, asOf, drops>>

Exits(i)   == /\ fleet[i].st = "live" /\ (operator = "handoff" => fleetMoves = 0)
              /\ BrokerMoves(i, [fleet[i] EXCEPT !.st = "exited"])
Resumed(i) == fleet[i].st = "exited" /\ operator \in {"ladder", "picker"} /\ BrokerMoves(i, [fleet[i] EXCEPT !.st = "live"])
Deleted(i) == fleet[i].st = "exited" /\ operator \in {"ladder", "picker"} /\ BrokerMoves(i, Absent)
Launched(i) == /\ fleet[i].st = "absent" /\ operator = "reading"
               /\ BrokerMoves(i, [st |-> "live", turns |-> 1, text |-> 1])
Replies(i) == /\ fleet[i].st = "live" /\ operator = "reading"
              /\ BrokerMoves(i, [fleet[i] EXCEPT !.turns = @ + 1, !.text = @ + 1])

--------------------------------------------------------------------------
(* The feed.  One refresh is in flight at a time; a resync or a lost       *)
(* connection fences it off by its generation ("stale" here).              *)

\* FleetProjection.read: a full snapshot unless the client holds exactly the
\* projection kept for this connection.
ReadProjection(version) ==
    IF retained = None \/ version # retained THEN [kind |-> "full", version |-> fleet, upsert |-> fleet]
    ELSE IF fleet = version THEN [kind |-> "unchanged", version |-> fleet, upsert |-> Empty]
    ELSE [kind |-> "delta", version |-> fleet,
          upsert |-> [i \in Ids |-> IF fleet[i] = retained[i] THEN Absent ELSE fleet[i]]]

RefreshFeed ==
    /\ wire = None /\ ~feed.down /\ phase # "stopped"
    /\ LET reply == ReadProjection(feed.version)
       IN /\ wire' = [reply |-> reply, base |-> feed.version, stale |-> FALSE, at |-> fleetMoves,
                      removed |-> {i \in Ids : reply.kind = "delta" /\ retained[i].st # "absent" /\ fleet[i].st = "absent"}]
          /\ retained' = fleet
    /\ UNCHANGED <<operator, broker, feed, snap, ui, busy, phase, gestures, ghosts, asOf, drops>>

\* Applying a reply to the snapshot in hand.
Applied(w) ==
    CASE w.reply.kind = "full" -> w.reply.upsert
      [] w.reply.kind = "unchanged" -> feed.snap
      [] OTHER -> [i \in Ids |-> IF i \in w.removed THEN Absent
                                 ELSE IF w.reply.upsert[i].st # "absent" THEN w.reply.upsert[i]
                                 ELSE feed.snap[i]]

\* Bug: a reply that was overtaken by a newer snapshot is applied.
Overtakes ==
    /\ wire # None
    /\ wire' = None
    /\ IF wire.reply.kind # "full" /\ wire.base # feed.version
       THEN feed' = [feed EXCEPT !.version = None] /\ UNCHANGED asOf
       ELSE /\ feed' = [feed EXCEPT !.snap = Applied(wire), !.version = wire.reply.version]
            /\ asOf' = [asOf EXCEPT !.feed = wire.at]
    /\ UNCHANGED <<operator, broker, retained, snap, ui, busy, phase, gestures, ghosts, drops>>

\* collect: a reply of an older generation is thrown away, a delta or an
\* "unchanged" for another version forgets the version, the rest is applied.
Receive ==
    /\ wire # None
    /\ wire' = None
    /\ IF wire.stale THEN UNCHANGED <<feed, asOf>>
       ELSE IF wire.reply.kind # "full" /\ wire.base # feed.version
       THEN feed' = [feed EXCEPT !.version = None] /\ UNCHANGED asOf
       ELSE /\ feed' = [feed EXCEPT !.snap = Applied(wire), !.version = wire.reply.version]
            /\ asOf' = [asOf EXCEPT !.feed = wire.at]
    /\ UNCHANGED <<operator, broker, retained, snap, ui, busy, phase, gestures, ghosts, drops>>

Fenced(w) == IF w = None THEN None ELSE [w EXCEPT !.stale = TRUE]

\* resync: the snapshot an action returned replaces the feed's, whose version
\* is forgotten and whose pending reply is fenced.
Resync(s) == feed' = [feed EXCEPT !.snap = s, !.version = None] /\ wire' = Fenced(wire)

\* disconnect
Disconnect ==
    /\ ~feed.down /\ drops < MaxDrops /\ phase = "running" /\ busy = None /\ operator = "reading"
    /\ drops' = drops + 1
    /\ feed' = [feed EXCEPT !.down = TRUE, !.version = None]
    /\ wire' = None /\ retained' = None
    /\ UNCHANGED <<operator, broker, snap, ui, busy, phase, gestures, ghosts, asOf>>

\* collect, reconnecting: the cached snapshot stays, the version is unknown.
Reconnect ==
    /\ feed.down
    /\ feed' = [feed EXCEPT !.down = FALSE, !.version = None]
    /\ UNCHANGED <<operator, broker, wire, retained, snap, ui, busy, phase, gestures, ghosts, asOf, drops>>

--------------------------------------------------------------------------
(* The render loop.                                                        *)

\* The history of a reading operator: the first sight of a thread, and the
\* first sight of its turns, count as shown.
Shown(s) == [i \in Ids |-> IF s[i].st = "absent" THEN base[i]
                           ELSE IF ui.read[i] = None \/ (ui.read[i].turns = 0 /\ ui.read[i].latest # 0 /\ s[i].turns > 0)
                           THEN s[i].text ELSE base[i]]

Frame ==
    /\ phase = "running"
    /\ snap' = feed.snap /\ asOf' = [asOf EXCEPT !.snap = asOf.feed]
    /\ ui' = Normalize(ui, feed.snap)
    /\ base' = Shown(feed.snap)
    /\ UNCHANGED <<operator, broker, feed, wire, retained, busy, phase, gestures, presses, drops>>

Aged(u) == [u EXCEPT !.conf.fresh = FALSE, !.picker.conf.fresh = FALSE, !.quit = FALSE]

\* DELETE_CONFIRMATION_MS and QUIT_CONFIRMATION_MS pass.
ConfirmationExpires ==
    /\ ui.conf.fresh \/ ui.picker.conf.fresh \/ ui.quit
    /\ ui' = Aged(ui)
    /\ presses' = [l \in DOMAIN presses |-> IF presses[l].n > 1 THEN [presses[l] EXCEPT !.n = 1] ELSE presses[l]]
    /\ busy' = IF busy = None THEN None ELSE [busy EXCEPT !.ui = Aged(busy.ui)]
    /\ UNCHANGED <<operator, broker, feed, wire, retained, snap, phase, gestures,
                   base, asOf, drops>>

--------------------------------------------------------------------------
(* Keys (perform and transitionFleet).  A key is handled with the state    *)
(* normalised against the snapshot in hand; any key but ctrl+c withdraws   *)
(* the quit confirmation.                                                  *)

Now == Normalize(ui, snap)
Keyed == [Now EXCEPT !.quit = FALSE]
Listening == phase = "running" /\ busy = None
Listing == Listening /\ ~Keyed.picker.open /\ Keyed.handoff.step = "closed"
Selected == IF Keyed.inert THEN None ELSE Keyed.sel

\* The history of the keys.
Pressed(u) == UNCHANGED presses /\ base' = Shown(snap)

\* A key without an action.
PressesKey(u) ==
    /\ ui' = u
    /\ Pressed(u)
    /\ UNCHANGED <<operator, broker, feed, wire, retained, snap, busy, phase, gestures, asOf, drops>>

\* A key whose action goes to the broker: the state and the snapshot are held
\* until it answers.
Action(kind, i) == [kind |-> kind, id |-> i, ui |-> ui', snap |-> snap, at |-> asOf.snap, sent |-> NoHandoff]

Sends(kind, i, u) ==
    /\ ui' = u
    /\ busy' = Action(kind, i)
    /\ UNCHANGED <<operator, broker, feed, wire, retained, snap, phase, gestures, asOf, drops>>

\* transitionQuit
CtrlC ==
    /\ Listening /\ operator = "reading"
    /\ IF Now.quit
       THEN /\ phase' = "stopped"
            /\ ui' = [Now EXCEPT !.quit = FALSE]
            /\ wire' = None
       ELSE /\ ui' = [Now EXCEPT !.quit = TRUE, !.conf = Quiet]
            /\ UNCHANGED <<phase, wire>>
    /\ Pressed(ui')
    /\ UNCHANGED <<operator, broker, feed, retained, snap, busy, gestures, asOf, drops>>

\* Moving the focus to a visible row: a thread, or a control that leaves the
\* selection where it is.
Navigate(i) ==
    /\ operator # "picker" /\ Listing /\ i \in Present(snap) \cup (IF operator = "handoff" THEN {} ELSE {None})
    /\ i # None => (snap[i].st = "live" \/ Keyed.history)
    /\ ui' = [Keyed EXCEPT !.sel = IF i = None THEN @ ELSE i, !.inert = i = None, !.conf = Quiet]
    /\ presses' = IF i \in {None, presses.list.of} THEN presses ELSE [presses EXCEPT !.list = Forgotten]
    /\ base' = Shown(snap)
    /\ UNCHANGED <<operator, broker, feed, wire, retained, snap, busy, phase, gestures, asOf, drops>>

\* Folding and unfolding the history section.
FoldHistory ==
    /\ operator = "ladder" /\ Listing /\ Keyed.inert
    /\ PressesKey([Keyed EXCEPT !.history = ~@])

\* The history of a ladder: presses in a row on one thread.
Ladder(l, i) == /\ presses' = [presses EXCEPT ![l] = [of |-> i, n |-> IF @.of # i THEN 1 ELSE IF @.n < 3 THEN @.n + 1 ELSE 3]]
                /\ base' = Shown(snap)

\* ctrl+x on the selected thread: stop it until it is terminal and the stop
\* was acknowledged here, then ask, then delete.
CtrlX ==
    /\ operator = "ladder" /\ Listing /\ Selected # None
    /\ LET i == Selected
       IN IF ~Terminal(snap, i) \/ Keyed.ack # i
          THEN Sends("stop", i, [Keyed EXCEPT !.ack = i, !.conf = Quiet])
          ELSE IF Keyed.conf.of = i
          THEN Sends("delete", i, [Keyed EXCEPT !.conf = Quiet])
          ELSE /\ ui' = [Keyed EXCEPT !.conf = [of |-> i, fresh |-> TRUE]]
               /\ UNCHANGED <<operator, broker, feed, wire, retained, snap, busy, phase, gestures, asOf, drops>>
    /\ Ladder("list", Selected)

\* ctrl+o opens the picker on its first row.
OpenPicker ==
    /\ Listening /\ operator = "picker" /\ Keyed.handoff.step = "closed"
    /\ ui' = [Keyed EXCEPT !.conf = Quiet, !.picker = [NoPicker EXCEPT !.open = TRUE,
                 !.focus = IF snap[Orc].st = "absent" THEN None ELSE Orc]]
    /\ busy' = Action("refresh", None)
    /\ presses' = [presses EXCEPT !.picker = Forgotten] /\ base' = Shown(snap)
    /\ UNCHANGED <<operator, broker, feed, wire, retained, snap, phase, gestures, asOf, drops>>

Picking == operator = "picker" /\ Listening /\ Keyed.picker.open

\* Up and down in the picker: between the orchestrator and a new profile.
PickerMove ==
    /\ Picking
    /\ ui' = [Keyed EXCEPT !.picker.focus = IF @ = None /\ snap[Orc].st # "absent" THEN Orc ELSE None]
    /\ presses' = [presses EXCEPT !.picker = Forgotten] /\ base' = Shown(snap)
    /\ UNCHANGED <<operator, broker, feed, wire, retained, snap, busy, phase, gestures, asOf, drops>>

\* Escape, and enter on a row that only leaves the picker.
ClosePicker ==
    /\ Picking
    /\ ui' = [Keyed EXCEPT !.picker = NoPicker]
    /\ presses' = [presses EXCEPT !.picker = Forgotten] /\ base' = Shown(snap)
    /\ UNCHANGED <<operator, broker, feed, wire, retained, snap, busy, phase, gestures, asOf, drops>>

\* The same ladder on the focused row of the picker.
PickerCtrlX ==
    /\ Picking /\ Keyed.picker.focus # None
    /\ LET p == Keyed.picker
           i == p.focus
       IN IF ~Terminal(snap, i) \/ p.ack # i
          THEN Sends("stop", i, [Keyed EXCEPT !.picker.ack = i, !.picker.conf = Quiet])
          ELSE IF p.conf.of = i /\ p.conf.fresh
          THEN Sends("delete", i, [Keyed EXCEPT !.picker.conf = Quiet])
          ELSE /\ ui' = [Keyed EXCEPT !.picker.conf = [of |-> i, fresh |-> TRUE]]
               /\ UNCHANGED <<operator, broker, feed, wire, retained, snap, busy, phase, gestures, asOf, drops>>
    /\ Ladder("picker", Orc)

\* Keys whose action collects a new snapshot (pin, rename, reorder) and keys
\* whose action keeps the one it was handled with (a shell command, another
\* directory, the worktree in an editor).
OtherAction(kind) ==
    /\ <<operator, kind>> \in {<<"ladder", "local">>, <<"reading", "refresh">>} /\ Listing
    /\ Sends(kind, None, Keyed)
    /\ Pressed(Keyed)

\* enter, space or right on a thread: attach to it, or resume it first.
Open ==
    /\ operator = "reading" /\ Listing /\ Selected # None
    /\ Sends(IF snap[Selected].st = "live" THEN "attach" ELSE "resume", Selected, [Keyed EXCEPT !.conf = Quiet])
    /\ Pressed(Keyed)

--------------------------------------------------------------------------
(* The handoff picker.                                                     *)

\* ctrl+d
Mark ==
    /\ operator = "handoff" /\ Listing /\ Selected \in Eligible(snap)
    /\ PressesKey([Keyed EXCEPT !.marks = IF Selected \in @ THEN @ \ {Selected} ELSE @ \cup {Selected}])

\* handoffTargets
HandoffTargets == IF Keyed.marks # {} THEN Keyed.marks ELSE {Keyed.sel} \cap Eligible(snap)

\* openHandoffPicker
OpenHandoff ==
    /\ operator = "handoff" /\ Listing /\ HandoffTargets # {} /\ snap[Orc].st = "live"
    /\ PressesKey([Keyed EXCEPT !.handoff = [NoHandoff EXCEPT !.step = "recipient", !.workers = HandoffTargets]])

Handing == operator = "handoff" /\ Listening /\ Keyed.handoff.step # "closed"

\* transitionHandoffPicker: workers that left the fleet leave the batch.
Narrowed == [Keyed EXCEPT !.handoff.workers = @ \cap Eligible(snap)]

\* An empty batch, an empty roster or an escape closes the picker.
CloseHandoff ==
    /\ Handing
    /\ \/ Narrowed.handoff.workers = {}
       \/ Narrowed.handoff.step = "recipient"
    /\ PressesKey([Narrowed EXCEPT !.handoff = NoHandoff])

\* enter on a recipient: a new directive, with a mutation id of its own.
ChooseRecipient ==
    /\ Handing /\ Narrowed.handoff.workers # {} /\ Narrowed.handoff.step = "recipient"
    /\ snap[Orc].st = "live" /\ gestures < MaxGestures
    /\ gestures' = gestures + 1
    /\ ui' = [Narrowed EXCEPT !.handoff = [@ EXCEPT !.step = "directive", !.rcpt = Orc,
                                                   !.mid = gestures + 1, !.text = gestures + 1]]
    /\ Pressed(Narrowed)
    /\ UNCHANGED <<operator, broker, feed, wire, retained, snap, busy, phase, asOf, drops>>

\* Escape goes back to the recipient; what was typed is gone.
BackToRecipient ==
    /\ Handing /\ Narrowed.handoff.workers # {} /\ Narrowed.handoff.step = "directive"
    /\ PressesKey([Narrowed EXCEPT !.handoff = [@ EXCEPT !.step = "recipient", !.mid = 0, !.text = 0]])

\* enter on a directive sends it.
SendHandoff ==
    /\ Handing /\ Narrowed.handoff.workers # {} /\ Narrowed.handoff.step = "directive"
    /\ ui' = [Narrowed EXCEPT !.handoff = NoHandoff]
    /\ busy' = [Action("handoff", None) EXCEPT !.sent = Narrowed.handoff]
    /\ Pressed(Narrowed)
    /\ UNCHANGED <<operator, broker, feed, wire, retained, snap, phase, gestures, asOf, drops>>

--------------------------------------------------------------------------
(* Answers.  The state of the action becomes the client's state, whatever  *)
(* the render loop did to it meanwhile, and its snapshot the feed's.       *)

Settle(u, s, at) ==
    /\ ui' = u /\ snap' = s
    /\ asOf' = [feed |-> at, snap |-> at]
    /\ busy' = None
    /\ Resync(s)
    /\ UNCHANGED presses

\* The broker did what was asked and answered.
Answered ==
    /\ busy # None /\ phase = "running" /\ ~feed.down /\ busy.kind \in {"stop", "refresh"}
    /\ Settle(busy.ui, Collected(fleet), fleetMoves)
    /\ UNCHANGED <<operator, broker, retained, phase, gestures, base, drops>>

\* An action that collects nothing returns the snapshot it was given.
AnsweredLocally ==
    /\ busy # None /\ phase = "running" /\ busy.kind = "local"
    /\ Settle(busy.ui, busy.snap, busy.at)
    /\ UNCHANGED <<operator, broker, retained, phase, gestures, base, drops>>

\* session.delete: the broker deletes what has exited; the selection and the
\* focus of the picker move to the row that takes its place.
AnsweredDelete ==
    /\ busy # None /\ phase = "running" /\ ~feed.down /\ busy.kind = "delete"
    /\ fleet[busy.id].st = "exited"
    /\ fleet' = [fleet EXCEPT ![busy.id] = Absent]
    /\ fleetMoves' = fleetMoves + 1
    /\ LET left == Present(fleet')
       IN Settle([busy.ui EXCEPT !.sel = IF left = {} THEN None ELSE First(left),
                     !.picker = IF @.focus = busy.id THEN [NoPicker EXCEPT !.open = TRUE] ELSE @],
                 Collected(fleet'), fleetMoves')
    /\ UNCHANGED <<operator, retained, mutations, phase, gestures, base, drops>>

\* session.resume, then the attachment.
AnsweredOpen ==
    /\ busy # None /\ phase = "running" /\ ~feed.down /\ busy.kind \in {"attach", "resume"}
    /\ fleet[busy.id].st = (IF busy.kind = "attach" THEN "live" ELSE "exited")
    /\ fleet' = [fleet EXCEPT ![busy.id].st = "live"]
    /\ fleetMoves' = IF busy.kind = "resume" THEN fleetMoves + 1 ELSE fleetMoves
    /\ phase' = "attached"
    /\ ui' = busy.ui
    /\ UNCHANGED <<operator, mutations, feed, wire, retained, snap, busy, gestures, ghosts, asOf, drops>>

\* openNativeThread, after the operator detached: what the feed shows by then
\* counts as read.
Detached ==
    /\ phase = "attached"
    /\ phase' = "running"
    /\ LET seen == Normalize(ui, feed.snap)
       IN Settle([seen EXCEPT !.read = [seen.read EXCEPT ![busy.id] = MarkRead(@)]], feed.snap, asOf.feed)
    /\ base' = [Shown(feed.snap) EXCEPT ![busy.id] = IF feed.snap[busy.id].turns > 0 \/ ui.read[busy.id] = None
                                                     THEN feed.snap[busy.id].text ELSE @]
    /\ UNCHANGED <<operator, broker, retained, gestures, drops>>

\* handoffBatch: one commit for a mutation id, and the same answer again.
Commits(h) == /\ h.workers \subseteq {i \in FleetWorkers : fleet[i].st = "live"} /\ fleet[h.rcpt].st = "live"
              /\ \A m \in mutations : m.mid = h.mid => m.workers = h.workers

\* The broker's answer: marks are cleared by a transfer that happened.
AnsweredHandoff ==
    /\ busy # None /\ phase = "running" /\ ~feed.down /\ busy.kind = "handoff"
    /\ mutations' = IF Commits(busy.sent) THEN mutations \cup {busy.sent} ELSE mutations
    /\ Settle([busy.ui EXCEPT !.marks = IF Commits(busy.sent) THEN {} ELSE @], Collected(fleet), fleetMoves)
    /\ UNCHANGED <<operator, fleet, fleetMoves, retained, phase, gestures, base, drops>>

\* executeFleetAction's catch: a handoff comes back with its directive and its
\* mutation id, everything else leaves the state as it was.
Restored(u, b) == IF b.kind = "handoff" THEN [u EXCEPT !.handoff = b.sent] ELSE u

\* The request failed, or its answer was lost after the broker did it.
Failed(done) ==
    /\ busy # None /\ phase = "running" /\ drops < MaxDrops /\ drops' = drops + 1
    /\ done => (busy.kind = "handoff" /\ Commits(busy.sent))
    /\ mutations' = IF done THEN mutations \cup {busy.sent} ELSE mutations
    /\ Settle(Restored(busy.ui, busy), busy.snap, busy.at)
    /\ UNCHANGED <<operator, fleet, fleetMoves, retained, phase, gestures, base>>

\* The broker refuses: the session is not in the state the action needs.
Refused ==
    /\ busy # None /\ phase = "running"
    /\ \/ busy.kind \in {"delete", "resume"} /\ fleet[busy.id].st # "exited"
       \/ busy.kind = "attach" /\ fleet[busy.id].st # "live"
    /\ Settle(busy.ui, busy.snap, busy.at)
    /\ UNCHANGED <<operator, broker, retained, phase, gestures, base, drops>>

--------------------------------------------------------------------------
(* A new visit loads the read marks the last one saved.                    *)
Reopen ==
    /\ phase = "stopped" /\ operator = "reading" /\ drops < MaxDrops /\ drops' = drops + 1
    /\ phase' = "running"
    /\ retained' = fleet /\ wire' = None
    /\ feed' = [snap |-> fleet, version |-> fleet, down |-> FALSE]
    /\ snap' = fleet /\ asOf' = [feed |-> fleetMoves, snap |-> fleetMoves]
    /\ ui' = [FreshState(fleet) EXCEPT !.read = [i \in Ids |-> ReconcileRead(ui.read[i], fleet[i])]]
    /\ base' = Shown(fleet)
    /\ presses' = [list |-> Forgotten, picker |-> Forgotten]
    /\ UNCHANGED <<operator, broker, busy, gestures>>

--------------------------------------------------------------------------
Finished == phase = "stopped" /\ (operator # "reading" \/ drops = MaxDrops) /\ UNCHANGED clientVars

Environment == \E i \in Ids : Exits(i) \/ Resumed(i) \/ Deleted(i) \/ Launched(i) \/ Replies(i)
Feed == RefreshFeed \/ Receive \/ Disconnect \/ Reconnect
Keys == \/ CtrlC \/ FoldHistory \/ CtrlX \/ OpenPicker \/ PickerMove \/ ClosePicker \/ PickerCtrlX \/ Open
        \/ \E i \in Ids \cup {None} : Navigate(i)
        \/ \E kind \in {"refresh", "local"} : OtherAction(kind)
Gesture == Mark \/ OpenHandoff \/ CloseHandoff \/ ChooseRecipient \/ BackToRecipient \/ SendHandoff
Answers == \/ Answered \/ AnsweredLocally \/ AnsweredDelete \/ AnsweredOpen \/ Detached \/ AnsweredHandoff
           \/ Refused \/ \E done \in BOOLEAN : Failed(done)

FleetNext == Environment \/ Feed \/ Frame \/ ConfirmationExpires \/ Keys \/ Gesture \/ Answers \/ Reopen \/ Finished

FleetSpec == FleetInit /\ [][FleetNext]_clientVars

--------------------------------------------------------------------------
(* Properties.                                                             *)

\* A reply the feed asked for never replaces a snapshot that is newer than it
\* (collect and the generation it is fenced by); an action brings its own snapshot.
ReplyNeverRewinds == [][wire # None /\ wire' = None /\ phase' = phase => asOf'.feed >= asOf.feed]_clientVars

============================================================================
