---- MODULE MCWorkerEventStream ----
(* The event stream of one worker; beside it, one at a time, the journals   *)
(* of the operator's clients, the worktree of one task and the transcript   *)
(* of one thread.                                                           *)
EXTENDS WorkerEventStream, OperatorJournals, Workspaces, TLC

CONSTANTS e1, e2, e3, w1, k1, r1, r2, inside, beside, outside

MCWorkerOf == [e \in EventIds |-> w1]
MCCheckpointOf == [c \in Correlations |-> w1]

Report(kind, intervention, material, correlation) ==
    [kind |-> kind, intervention |-> intervention, material |-> material,
     correlation |-> correlation]

\* Plain and intervention-required progress, an exception, checkpoint answers.
MCPayloads ==
    {Report("PROGRESS", FALSE, {}, NoCorrelation),
     Report("PROGRESS", TRUE, {}, NoCorrelation),
     Report("EXCEPTION", FALSE, {}, NoCorrelation)}
       \cup {Report("CHECKPOINT", FALSE, {}, c) : c \in Correlations}

MCSymmetry == Permutations(EventIds)

JournalRootOf == (inside :> r1) @@ (beside :> r2) @@ (outside :> Nothing)
TreeScenes == {[about |-> about, base |-> "merged"] : about \in {"check", "start", "prune", "scout"}}

VARIABLES
    moving,    \* the component that moves in this behaviour
    produced, transcriptJournal, transcriptTorn, synced, stored, memory, hydration, transcriptOp,
    observed, acked, dropped, spoiled, garbled, notes, transcriptFaults

Transcript == INSTANCE TranscriptLedger WITH
    Turns <- 2, SegmentSize <- 1, Retained <- 1, Kept <- 1, MaxNotes <- 1, MaxFaults <- 2,
    journal <- transcriptJournal, torn <- transcriptTorn, op <- transcriptOp, faults <- transcriptFaults
transcriptVars == <<produced, transcriptJournal, transcriptTorn, synced, stored, memory, hydration,
                    transcriptOp, observed, acked, dropped, spoiled, garbled, notes,
                    transcriptFaults>>
allVars == <<moving, vars, journalsVars, workspacesVars, transcriptVars>>

\* A component that does not move rests in the first of its settings.
MCInit ==
    /\ moving \in {"stream", "journals", "trees", "transcript"}
    /\ Init /\ JournalsInit /\ WorkspacesInit /\ Transcript!Init
    /\ moving # "journals" => part = "detach"
    /\ moving # "trees" => scene.about = "start"

MCNext ==
    \/ moving = "stream" /\ Next /\ UNCHANGED <<moving, journalsVars, workspacesVars, transcriptVars>>
    \/ moving = "journals" /\ JournalsNext /\ UNCHANGED <<moving, vars, workspacesVars, transcriptVars>>
    \/ moving = "trees" /\ WorkspacesNext /\ UNCHANGED <<moving, vars, journalsVars, transcriptVars>>
    \/ moving = "transcript" /\ Transcript!Next /\ UNCHANGED <<moving, vars, journalsVars, workspacesVars>>

MCSpec == MCInit /\ [][MCNext]_allVars

(* What a commit acknowledged is in the durable receipt ledger, whatever happens to the journal. *)
AckKept == Transcript!AckKept

(* No turn is counted twice, however often its commit is retried or recovered. *)
TurnOnce == Transcript!TurnOnce
====
