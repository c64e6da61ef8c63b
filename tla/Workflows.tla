----------------------------- MODULE Workflows -----------------------------
(***************************************************************************)
(* The workflow service of the broker: a run, its two append-only journals *)
(* (orchestration/workflow-runs.jsonl, orchestration/workflow-messages     *)
(* .jsonl), and the requests send, changes and cancel.  Nothing is kept in *)
(* memory: every request reads a journal, waits, decides, and appends.     *)
(* The broker serves requests of several clients at once, so the steps of  *)
(* two requests interleave at every one of these waits, and a crash drops  *)
(* the requests and keeps the journals.                                    *)
(*                                                                         *)
(* One run is modelled: requests of different runs share only the files,   *)
(* whose lines are told apart by the run's id.  An append is one step (the *)
(* torn last line that readLines skips is not modelled).                   *)
(***************************************************************************)
EXTENDS Integers, Sequences, FiniteSets, SequencesExt

CONSTANTS
  Sends,        \* send requests: [id, wake, cause], retries included
  Cancels,      \* cancel requests
  Nobody,       \* no causation message
  MaxMessages, MaxTurns, MaxHops,   \* WorkflowLimits
  MaxCrashes,   \* bound: broker crashes
  Widths        \* how many requests the clients have in progress at once

Requests == Sends \cup Cancels

VARIABLES
  runs,      \* lines of workflow-runs.jsonl: [status, messageCount, turnCount]
  messages,  \* lines of workflow-messages.jsonl
  queued,    \* message ids handed to InstructionQueue.enqueue, in order
  request,   \* where each request is
  local,     \* what a request has read and not yet written
  seen,      \* the participant's last changes() call: [cursor, ids]
  crashes,
  width      \* member of Widths, fixed

workflowVars == <<runs, messages, queued, request, local, seen, crashes, width>>

Active == [status |-> "active", messageCount |-> 0, turnCount |-> 0]
NothingRead == [run |-> Active, message |-> Nobody]

WorkflowInit ==
  /\ runs = <<Active>>
  /\ messages = <<>>
  /\ queued = <<>>
  /\ request = [r \in Requests |-> "start"]
  /\ local = [r \in Requests |-> NothingRead]
  /\ seen = [cursor |-> 0, ids |-> {}]
  /\ crashes = 0
  /\ width \in Widths

(* getRun: the last line of the run wins. *)
GetRun == Last(runs)

(* A message id that is already there, and the first line that bears the   *)
(* causation id of a request; 0 is the cause of a request that names none. *)
Duplicate(id) == \E i \in DOMAIN messages : messages[i].id = id
Causes(r) ==
  IF r.cause = Nobody THEN {0}
  ELSE {i \in DOMAIN messages : /\ messages[i].id = r.cause
                                /\ \A j \in 1 .. i - 1 : messages[j].id # r.cause}

InProgress == {r \in Requests : request[r] \in {"read", "compose", "message", "wake"}}

Goes(r, to) == request' = [request EXCEPT ![r] = to]

(* The first wait of send and of cancel: the run is read, then checked. *)
ReadRun(r) ==
  /\ request[r] = "start"
  /\ Cardinality(InProgress) < width
  /\ local' = [local EXCEPT ![r].run = GetRun]
  /\ Goes(r, IF r \in Sends /\ GetRun.status # "active" THEN "refused" ELSE "read")
  /\ UNCHANGED <<runs, messages, queued, seen, crashes, width>>

(* The limits, checked against the run that was read. *)
WithinLimits(r, hop) ==
  /\ local[r].run.messageCount < MaxMessages
  /\ r.wake => local[r].run.turnCount < MaxTurns
  /\ hop <= MaxHops

(* Bug: a reply is as deep as the message it answers. *)
HopOfFlat(cause) == IF cause = 0 THEN 0 ELSE messages[cause].hop

HopOf(cause) == IF cause = 0 THEN 0 ELSE messages[cause].hop + 1

NextCursor == IF messages = <<>> THEN 1 ELSE Last(messages).cursor + 1

(* The second wait: the messages are read; a message id that is already    *)
(* there answers the request, and otherwise the new message is composed.   *)
ReadMessages(r) ==
  /\ r \in Sends /\ request[r] = "read"
  /\ \/ /\ Duplicate(r.id)
        /\ Goes(r, "done")
        /\ UNCHANGED local
     \/ /\ ~Duplicate(r.id)
        /\ ~\E cause \in Causes(r) : WithinLimits(r, HopOf(cause))
        /\ Goes(r, "refused")
        /\ UNCHANGED local
     \/ /\ ~Duplicate(r.id)
        /\ Goes(r, "compose")
        /\ \E cause \in Causes(r) :
             /\ WithinLimits(r, HopOf(cause))
             /\ local' = [local EXCEPT ![r].message =
                  [id |-> r.id, cursor |-> NextCursor, cause |-> r.cause,
                   hop |-> HopOf(cause)]]
  /\ UNCHANGED <<runs, messages, queued, seen, crashes, width>>

PutMessage(r) ==
  /\ request[r] = "compose"
  /\ messages' = Append(messages, local[r].message)
  /\ Goes(r, "message")
  /\ UNCHANGED <<runs, queued, local, seen, crashes, width>>

(* The run that was read, with this message counted: every other field is  *)
(* written back as it was read.                                            *)
Counted(r) ==
  [local[r].run EXCEPT !.messageCount = @ + 1,
                       !.turnCount = @ + IF r.wake THEN 1 ELSE 0]

PutRun(r) ==
  /\ request[r] = "message"
  /\ runs' = Append(runs, Counted(r))
  /\ Goes(r, IF r.wake THEN "wake" ELSE "done")
  /\ UNCHANGED <<messages, queued, local, seen, crashes, width>>

(* InstructionQueue.enqueue keeps one instruction of a message id. *)
Enqueue(r) ==
  /\ request[r] = "wake"
  /\ queued' = IF r.id \in ToSet(queued) THEN queued ELSE Append(queued, r.id)
  /\ Goes(r, "done")
  /\ UNCHANGED <<runs, messages, local, seen, crashes, width>>

(* cancel: no status is checked, and the run that was read is appended     *)
(* with its status changed.                                                *)
Cancel(r) ==
  /\ r \in Cancels /\ request[r] = "read"
  /\ runs' = Append(runs, [local[r].run EXCEPT !.status = "cancelled"])
  /\ Goes(r, "done")
  /\ UNCHANGED <<messages, queued, local, seen, crashes, width>>

(* changes(afterCursor): a participant asks for what follows the last      *)
(* cursor it was shown, and keeps the cursor of the last line it got.      *)
Changes ==
  LET new == SelectSeq(messages, LAMBDA m : m.cursor > seen.cursor)
  IN /\ new # <<>>
     /\ seen' = [cursor |-> Last(new).cursor,
                 ids |-> seen.ids \cup {new[i].id : i \in DOMAIN new}]
     /\ UNCHANGED <<runs, messages, queued, request, local, crashes, width>>

(* The broker dies; the clients whose requests were lost ask again. *)
WorkflowCrash ==
  /\ crashes < MaxCrashes
  /\ InProgress # {}
  /\ crashes' = crashes + 1
  /\ request' = [r \in Requests |-> IF r \in InProgress THEN "start" ELSE request[r]]
  /\ local' = [r \in Requests |-> NothingRead]
  /\ UNCHANGED <<runs, messages, queued, seen, width>>

WorkflowNext ==
  \/ \E r \in Requests : \/ ReadRun(r)
                         \/ ReadMessages(r)
                         \/ PutMessage(r)
                         \/ PutRun(r)
                         \/ Enqueue(r)
                         \/ Cancel(r)
  \/ Changes
  \/ WorkflowCrash

WorkflowSpec == WorkflowInit /\ [][WorkflowNext]_workflowVars

----------------------------------------------------------------------------
(* A reply is one hop below a message that stands before it in the file    *)
(* and is never deeper than the limit, so a chain of replies that wake     *)
(* each other is finite although the limits are read before two waits.     *)
ChainsEnd ==
  \A i \in DOMAIN messages :
     LET m == messages[i]
     IN /\ m.hop <= MaxHops
        /\ m.cause # Nobody =>
             \E j \in 1 .. i - 1 : messages[j].id = m.cause /\ m.hop > messages[j].hop

(* README: "Cancellation prevents further workflow messages or wakes."     *)
(* Once cancel has returned, a send that starts afterwards is refused: the *)
(* run that it reads is not active.                                        *)
CancelledStaysCancelled ==
  (\E r \in Cancels : request[r] = "done") => GetRun.status = "cancelled"

=============================================================================
