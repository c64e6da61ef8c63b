----------------------------- MODULE AgentTools -----------------------------
(***************************************************************************)
(* The tools an orchestrator calls through its MCP server: reading a       *)
(* thread page by page, waiting for workers in segments, and starting a    *)
(* batch of workers (AgentControlService, readThreadPage and               *)
(* SessionWaitCoordinator, behind runMcpServer).                           *)
(*                                                                         *)
(* The server answers requests concurrently and by id, so a call the       *)
(* harness gave up on goes on in the broker beside its retry.  An event of *)
(* a thread is its number; `sizes` says in how many fragments it fits.     *)
(* Time is counted in intervention polls.  The orchestrator follows the    *)
(* tool descriptions: it carries cursors, continuations and tickets, and   *)
(* repeats a request whose answer was lost.                                *)
(***************************************************************************)
EXTENDS Naturals, Sequences, FiniteSets, FiniteSetsExt

CONSTANTS
    Calls,          \* tool calls that may be under way at once
    Targets,
    Scenes,         \* [about, sizes, budgeted, scouts, intervene]
    Timeout, Segment, Grace,    \* of a wait, in polls
    MaxClock,       \* bound
    MaxLost         \* bound: answers lost, restarts, failures

\* No call is the mark of a reader or a waiter that has none under way.
ASSUME ToolsAssumption ==
    /\ Timeout \in Nat /\ Segment \in Nat /\ Grace \in Nat
    /\ "none" \notin Calls

VARIABLES
    scene,
    log, gone,      \* events written to the thread, and how many retention dropped
    cursor,         \* AgentControlService.threadCursors of this reader
    reads,          \* read requests in the broker
    reader,         \* what the orchestrator has of the thread
    whole,          \* history: events whose only answer was lost
    clock,
    done, asking,   \* workers settled; workers with an open intervention
    tickets,        \* AgentControlService.pendingWaits: id -> deadline
    waits,          \* wait requests in the broker
    waiter,         \* what the orchestrator knows of its wait
    starts,         \* worker starts: stage and durable budget
    lost

reading == <<log, gone, cursor, reads, reader, whole>>
waiting == <<clock, done, asking, tickets, waits, waiter>>
toolsVars == <<scene, reading, waiting, starts, lost>>

None == 0
NoRead == [state |-> "idle", after |-> 0, part |-> <<>>, previous |-> 0, reply |-> <<>>]
NoWait == [state |-> "idle", ticket |-> None, deadline |-> 0, wake |-> 0, outcome |-> "none"]
NewStart == [stage |-> "asked", budget |-> "none", unmarked |-> FALSE]

Lose == lost < MaxLost /\ lost' = lost + 1

ToolsInit ==
    /\ scene \in Scenes
    /\ log = 0 /\ gone = 0 /\ cursor = 0 /\ whole = {}
    /\ reads = [c \in Calls |-> NoRead]
    /\ reader = [call |-> "none", at |-> 0, part |-> <<>>, got |-> <<>>]
    /\ clock = 0 /\ done = {} /\ asking = {} /\ tickets = [i \in {} |-> 0]
    /\ waits = [c \in Calls |-> NoWait]
    /\ waiter = [call |-> "none", ticket |-> None, deadline |-> 0, since |-> 0, heard |-> "none", restarted |-> FALSE]
    /\ starts = [w \in Targets |-> NewStart]
    /\ lost = 0

(***************************************************************************)
(* cyberdeck_thread_read, one event of at most maxBytes per call           *)
(***************************************************************************)
Write ==
    /\ scene.about = "read" /\ log < Len(scene.sizes)
    /\ log' = log + 1
    /\ UNCHANGED <<scene, gone, cursor, reads, reader, whole, waiting, starts, lost>>

\* Retention rotates the oldest event out.
Rotate ==
    /\ scene.about = "read" /\ gone < log /\ Lose
    /\ gone' = gone + 1
    /\ UNCHANGED <<scene, log, cursor, reads, reader, whole, waiting, starts>>

AskRead(c) ==
    /\ scene.about = "read" /\ reader.call = "none" /\ reads[c].state = "idle"
    /\ reader' = [reader EXCEPT !.call = c]
    /\ reads' = [reads EXCEPT ![c] = [NoRead EXCEPT !.state = "asked", !.after = reader.at, !.part = reader.part]]
    /\ UNCHANGED <<scene, log, gone, cursor, whole, waiting, starts, lost>>

\* readThread refuses what was read already.
ReadThread(c) ==
    /\ reads[c].state = "asked"
    /\ reads' = [reads EXCEPT ![c] = IF @.after < cursor
                                      THEN [@ EXCEPT !.state = "answered", !.reply = <<"STALE_THREAD_CURSOR", cursor>>]
                                      ELSE [@ EXCEPT !.state = "reading", !.previous = cursor]]
    /\ UNCHANGED <<scene, log, gone, cursor, reader, whole, waiting, starts, lost>>

\* readThreadPage with limit 1: the event after the cursor, or a fragment of it.
Page(r) ==
    LET e == Max({r.after, gone}) + 1
        k == Len(r.part) + 1
    IN  CASE r.part # <<>> /\ (e > log \/ e # r.part[1][1]) -> <<"STALE_THREAD_DETAIL", r.after>>
          [] r.part = <<>> /\ e > log -> <<"empty", r.after>>
          [] e <= log /\ r.part = <<>> /\ scene.sizes[e] = 1 -> <<"event", e>>
          [] OTHER -> <<"fragment", e, k>>

\* Fragments are acknowledged by the next request's afterCursor.
CursorAfter(r, page) ==
    Max({r.previous, IF page[1] = "event" THEN page[2] ELSE r.after})

ReadPage(c) ==
    /\ reads[c].state = "reading"
    /\ LET page == Page(reads[c])
       IN  /\ cursor' = IF page[1] = "STALE_THREAD_DETAIL" THEN cursor ELSE CursorAfter(reads[c], page)
           /\ reads' = IF reader.call = c THEN [reads EXCEPT ![c].state = "answered", ![c].reply = page]
                       ELSE [reads EXCEPT ![c] = NoRead]
           /\ whole' = IF reader.call # c /\ page[1] = "event" THEN whole \cup {page[2]} ELSE whole
    /\ UNCHANGED <<scene, log, gone, reader, waiting, starts, lost>>

\* The orchestrator reads the answer as the tool description says.
HearRead(c) ==
    /\ reader.call = c /\ reads[c].state = "answered"
    /\ reads' = [reads EXCEPT ![c] = NoRead]
    /\ LET p == reads[c].reply
           parts == IF p[1] = "fragment" THEN Append(reader.part, <<p[2], p[3]>>) ELSE <<>>
           last == p[1] = "fragment" /\ p[3] = scene.sizes[p[2]]
       IN  reader' = [call |-> "none",
                      at   |-> IF p[1] = "fragment" /\ ~last THEN reader.at ELSE p[2],
                      part |-> IF last THEN <<>> ELSE parts,
                      got  |-> CASE p[1] = "event" -> Append(reader.got, <<p[2], <<p[2], 1>>>>)
                                 [] last -> Append(reader.got, <<p[2]>> \o parts)
                                 [] OTHER -> reader.got]
    /\ UNCHANGED <<scene, log, gone, cursor, whole, waiting, starts, lost>>

\* The harness gives up on the call, answered or not.
LoseRead ==
    /\ reader.call # "none" /\ Lose
    /\ LET r == reads[reader.call]
       IN  /\ whole' = IF r.state = "answered" /\ r.reply[1] = "event" THEN whole \cup {r.reply[2]} ELSE whole
           /\ reads' = IF r.state = "answered" THEN [reads EXCEPT ![reader.call] = NoRead] ELSE reads
    /\ reader' = [reader EXCEPT !.call = "none"]
    /\ UNCHANGED <<scene, log, gone, cursor, waiting, starts>>

(***************************************************************************)
(* cyberdeck_workers_wait for every worker                                 *)
(***************************************************************************)
Waiting == scene.about = "wait"

\* An update of a session reaches the listeners of the waits that sleep.
Woken(settled) ==
    [c \in Calls |-> IF waits[c].state = "sleeping" /\ settled = Targets
                     THEN [waits[c] EXCEPT !.state = "finishing", !.outcome = "settled"] ELSE waits[c]]

Settle(w) ==
    /\ Waiting /\ w \in Targets \ done
    /\ done' = done \cup {w} /\ waits' = Woken(done')
    /\ UNCHANGED <<scene, reading, clock, asking, tickets, waiter, starts, lost>>

Intervene(w) ==
    /\ Waiting /\ scene.intervene /\ w \notin asking
    /\ asking' = asking \cup {w}
    /\ UNCHANGED <<scene, reading, clock, done, tickets, waits, waiter, starts, lost>>

AskWait(c) ==
    /\ Waiting /\ waiter.call = "none" /\ waits[c].state = "idle" /\ waiter.heard \in {"none", "incomplete"}
    /\ waiter' = [waiter EXCEPT !.call = c, !.since = IF waiter.heard = "none" /\ waiter.ticket = None /\ lost = 0 THEN clock ELSE @]
    /\ waits' = [waits EXCEPT ![c] = [NoWait EXCEPT !.state = "asked", !.ticket = waiter.ticket]]
    /\ UNCHANGED <<scene, reading, clock, done, asking, tickets, starts, lost>>

SegmentOf(remaining) == Min({remaining, Segment})

NextTicket == 1 + Max({0} \cup DOMAIN tickets \cup {waits[c].ticket : c \in Calls} \cup {waiter.ticket})

DeadlineOf(live, t) == IF t \in DOMAIN live THEN live[t] ELSE clock + Timeout

\* openWait, and the first look at the targets.
WaitForWorkers(c) ==
    /\ waits[c].state = "asked"
    /\ LET live == [t \in {t \in DOMAIN tickets : tickets[t] + Grace >= clock} |-> tickets[t]]
           asked == waits[c].ticket
           id == IF asked \in DOMAIN live THEN asked ELSE NextTicket
           deadline == DeadlineOf(live, asked)
           remaining == IF deadline > clock THEN deadline - clock ELSE 0
           looking == scene.intervene /\ remaining > 0 /\ asking # {}
       IN  /\ tickets' = live
           /\ waits' = [waits EXCEPT ![c] =
                  [state    |-> IF done = Targets \/ looking THEN "finishing" ELSE "sleeping",
                   ticket   |-> id, deadline |-> deadline, wake |-> clock + SegmentOf(remaining),
                   outcome  |-> CASE done = Targets -> "settled"
                                  [] done # Targets /\ looking -> "intervention"
                                  [] OTHER -> "none"]]
    /\ UNCHANGED <<scene, reading, clock, done, asking, waiter, starts, lost>>

\* The events of the workers are looked at once a poll.
Poll(c) ==
    /\ waits[c].state = "sleeping" /\ scene.intervene /\ asking # {} /\ clock < waits[c].wake
    /\ waits' = [waits EXCEPT ![c].state = "finishing", ![c].outcome = "intervention"]
    /\ UNCHANGED <<scene, reading, clock, done, asking, tickets, waiter, starts, lost>>

SegmentEnds(c) ==
    /\ waits[c].state = "sleeping" /\ clock >= waits[c].wake
    /\ waits' = [waits EXCEPT ![c].state = "finishing", ![c].outcome = "timedOut"]
    /\ UNCHANGED <<scene, reading, clock, done, asking, tickets, waiter, starts, lost>>

\* Bug: the ticket of a wait that goes on is not kept.
TicketsDropped(c, state) == [t \in DOMAIN tickets \ {waits[c].ticket} |-> tickets[t]]

TicketsAfter(c, state) ==
    LET t == waits[c].ticket
    IN  IF state = "incomplete"
        THEN [i \in DOMAIN tickets \cup {t} |-> IF i = t THEN waits[c].deadline ELSE tickets[i]]
        ELSE [i \in DOMAIN tickets \ {t} |-> tickets[i]]

\* The notices of what settled are consumed, then the wait is judged.
Conclude(c) ==
    /\ waits[c].state = "finishing"
    /\ LET state == CASE waits[c].outcome = "intervention" -> "intervention-required"
                      [] waits[c].outcome = "settled" -> "settled"
                      [] waits[c].outcome = "timedOut" /\ clock >= waits[c].deadline -> "timed-out"
                      [] OTHER -> "incomplete"
       IN  /\ tickets' = TicketsAfter(c, state)
           /\ waits' = IF waiter.call = c THEN [waits EXCEPT ![c].state = "answered", ![c].outcome = state]
                       ELSE [waits EXCEPT ![c] = NoWait]
    /\ UNCHANGED <<scene, reading, clock, done, asking, waiter, starts, lost>>

HearWait(c) ==
    /\ waiter.call = c /\ waits[c].state = "answered"
    /\ waits' = [waits EXCEPT ![c] = NoWait]
    /\ waiter' = [waiter EXCEPT !.call = "none", !.heard = waits[c].outcome,
                                !.ticket = IF waits[c].outcome = "incomplete" THEN waits[c].ticket ELSE @,
                                !.deadline = waits[c].deadline]
    /\ UNCHANGED <<scene, reading, clock, done, asking, tickets, starts, lost>>

LoseWait ==
    /\ waiter.call # "none" /\ Lose
    /\ waits' = IF waits[waiter.call].state = "answered" THEN [waits EXCEPT ![waiter.call] = NoWait] ELSE waits
    /\ waiter' = [waiter EXCEPT !.call = "none"]
    /\ UNCHANGED <<scene, reading, clock, done, asking, tickets, starts>>

\* Timers fire when they are due.
ToolsTick ==
    /\ Waiting /\ clock < MaxClock
    /\ \A c \in Calls : /\ waits[c].state = "sleeping" => clock < waits[c].wake /\ ~(scene.intervene /\ asking # {})
                        /\ waits[c].state # "asked"
    /\ clock' = clock + 1
    /\ UNCHANGED <<scene, reading, done, asking, tickets, waits, waiter, starts, lost>>

\* Cursors and tickets are in memory.
ToolsRestart ==
    /\ scene.about # "start" /\ Lose
    /\ cursor' = 0 /\ reads' = [c \in Calls |-> NoRead] /\ reader' = [reader EXCEPT !.call = "none"]
    /\ tickets' = [i \in {} |-> 0] /\ waits' = [c \in Calls |-> NoWait]
    /\ waiter' = [waiter EXCEPT !.call = "none", !.restarted = TRUE]
    /\ UNCHANGED <<scene, log, gone, whole, clock, done, asking, starts>>

(***************************************************************************)
(* cyberdeck_workers_start: every worker of the batch on its own           *)
(***************************************************************************)
Start(w, from) == scene.about = "start" /\ starts[w].stage = from
Goes(w, stage) == starts' = [starts EXCEPT ![w].stage = stage]

\* Binding, capability, selection, workspace and permission plan.
StartWorker(w) ==
    /\ Start(w, "asked") /\ w \notin scene.scouts
    /\ \E stage \in {"refused", IF w \in scene.budgeted THEN "activating" ELSE "launching"} : Goes(w, stage)
    /\ UNCHANGED <<scene, reading, waiting, lost>>

\* A Scout: its scope and the operator's egress grant, which may be unreadable.
StartScout(w) ==
    /\ Start(w, "asked") /\ w \in scene.scouts
    /\ \E stage \in {"refused", "launching"} : Goes(w, stage)
    /\ UNCHANGED <<scene, reading, waiting, lost>>

\* The activation callback registers the budget before the first turn.
Register(w) ==
    /\ Start(w, "activating")
    /\ \/ starts' = [starts EXCEPT ![w].stage = "launching", ![w].budget = "active"] /\ lost' = lost
       \/ Goes(w, "refused") /\ Lose
    /\ UNCHANGED <<scene, reading, waiting>>

LaunchFails(w) == Goes(w, IF starts[w].budget = "active" THEN "marking" ELSE "refused")

Launch(w) ==
    /\ Start(w, "launching")
    /\ \/ Goes(w, "started") /\ lost' = lost
       \/ LaunchFails(w) /\ Lose
    /\ UNCHANGED <<scene, reading, waiting>>

\* markLaunchFailed, which may itself fail.
MarkLaunchFailed(w) ==
    /\ Start(w, "marking")
    /\ \/ starts' = [starts EXCEPT ![w].stage = "refused", ![w].budget = "failed"] /\ lost' = lost
       \/ starts' = [starts EXCEPT ![w].stage = "refused", ![w].unmarked = TRUE] /\ Lose
    /\ UNCHANGED <<scene, reading, waiting>>

\* Nothing is left to do.
Rest ==
    /\ \/ scene.about = "start" /\ \A w \in Targets : starts[w].stage \in {"started", "refused"}
       \/ Waiting /\ (clock = MaxClock \/ waiter.heard \notin {"none", "incomplete"})
    /\ UNCHANGED toolsVars

ToolsNext ==
    \/ Write \/ Rotate \/ LoseRead
    \/ \E c \in Calls : AskRead(c) \/ ReadThread(c) \/ ReadPage(c) \/ HearRead(c)
    \/ \E w \in Targets : Settle(w) \/ Intervene(w)
    \/ \E c \in Calls : \/ AskWait(c) \/ WaitForWorkers(c) \/ Poll(c) \/ SegmentEnds(c)
                        \/ Conclude(c) \/ HearWait(c)
    \/ LoseWait \/ ToolsTick \/ ToolsRestart
    \/ \E w \in Targets : StartWorker(w) \/ StartScout(w) \/ Register(w) \/ Launch(w) \/ MarkLaunchFailed(w)
    \/ Rest

ToolsSpec == ToolsInit /\ [][ToolsNext]_toolsVars

----------------------------------------------------------------------------
\* A wait is not cut short: an orchestrator that carries its ticket is told
\* "timed-out" only when its whole budget has passed, and while it may resume,
\* its ticket is there (waitForWorkers, openWait); the ticket is claimed as long as
\* no answer was lost, since a request made again may have used it up.
WaitHonoured ==
    /\ waiter.heard = "timed-out" => clock >= waiter.since + Timeout
    /\ (waiter.heard = "incomplete" /\ lost = 0 /\ waiter.call = "none" /\ clock <= waiter.deadline + Grace)
           => waiter.ticket \in DOMAIN tickets

=============================================================================
