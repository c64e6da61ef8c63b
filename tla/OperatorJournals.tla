-------------------------- MODULE OperatorJournals --------------------------
(***************************************************************************)
(* Three append-only journals of what the operator decided: which          *)
(* repositories may be answered for or read by a Scout                     *)
(* (ModalAnswerGrantStore, ScoutEgressGrantStore, one shape), what each    *)
(* Fleet client has read (FleetPreferenceStore over ValidatedJournal, with *)
(* visit-state.ts and visit-preferences.ts in the client), and the thread  *)
(* last detached from (FleetDetachStore).                                  *)
(*                                                                         *)
(* An append may be cut short by a crash or a full disk: then the file     *)
(* ends without a newline, its readers drop that tail, and the next append *)
(* is glued to it.  "part" says which journal a behaviour is about.  One   *)
(* conversation, one detach identity; records without a generation, which  *)
(* older versions wrote, are left out.                                     *)
(***************************************************************************)
EXTENDS Integers, Sequences, FiniteSets, SequencesExt

CONSTANTS
    Roots,        \* canonical repository roots
    Worktrees,    \* working directories of workers
    RootOf,       \* the repository each of them belongs to, or Nothing
    Clients,      \* Fleet clients
    Sessions,     \* threads one can detach from
    Texts,        \* replies of the worker
    Nothing,      \* no reply, no watermark, no session
    MaxAppends,   \* bound on appends
    MaxMoves      \* bound on what the worker does

VARIABLES
    part, lines, torn, appends,
    rejected,     \* FleetDetachStore's writeTail has rejected
    want,         \* per root: the last answer the operator was given
    worker,       \* generation, canonical turns and preview of the thread
    moves,
    mark, saved,  \* per client: its watermark and the one it saved
    told,         \* the acknowledged watermarks
    detached,     \* the last acknowledged detach
    clearing,     \* reattach: the stale target about to be cleared
    gone          \* sessions found stale; one that is resumed later is left out

ASSUME RootOfIsARoot == RootOf \in [Worktrees -> Roots \cup {Nothing}]

journal == <<part, lines, torn, appends>>
visits == <<worker, moves, mark, saved, told>>
detaches == <<rejected, detached, clearing, gone>>
journalsVars == <<journal, want, visits, detaches>>

-----------------------------------------------------------------------------
(* The file.                                                               *)

Malformed == [kind |-> "malformed"]
Outcomes == {"acked", "torn", "whole"}

\* One append: acknowledged, cut short, or whole but never acknowledged.
Put(record, outcome) ==
    /\ appends < MaxAppends
    /\ appends' = appends + 1
    /\ torn' = (outcome = "torn")
    /\ lines' = IF outcome = "torn" THEN lines
                ELSE Append(lines, IF torn THEN Malformed ELSE record)
    /\ UNCHANGED part

\* A malformed line that is not the tail makes every reader throw.
Unreadable == \E i \in DOMAIN lines : lines[i].kind = "malformed"

-----------------------------------------------------------------------------
(* Grants.                                                                 *)

\* readActive: the last decision about a root counts.
Decision(i, root) == lines[i].kind = "grant" /\ lines[i].root = root
ReadActive ==
    {root \in Roots : \E i \in DOMAIN lines :
        /\ Decision(i, root) /\ lines[i].on
        /\ \A j \in DOMAIN lines : j > i => ~Decision(j, root)}

\* Bug: a malformed line is skipped instead of refusing the file.
AllowsRootSkipping(root) == root \in ReadActive

AllowsRoot(root) == ~Unreadable /\ root \in ReadActive

ModalKinds == {"workspace-trust", "hook-review", "mcp-approval", "plan-confirm", "login", "unknown"}
Answerable == ModalKinds \ {"login", "unknown"}
Answers == {"continue-without-hooks", "trust", "unnamed"}

Evaluate(cwd, kind, answer) ==
    /\ kind \in Answerable
    /\ kind = "hook-review" => answer = "continue-without-hooks"
    /\ RootOf[cwd] # Nothing
    /\ AllowsRoot(RootOf[cwd])

\* A decision that stands is answered without a write.
Decided(root, on) == (root \in ReadActive) = on

\* set: an unreadable journal refuses.
SetGrant(root, on, outcome) ==
    /\ part = "grants" /\ ~Unreadable
    /\ IF Decided(root, on)
       THEN outcome = "acked" /\ UNCHANGED journal
       ELSE Put([kind |-> "grant", root |-> root, on |-> on], outcome)
    /\ want' = [want EXCEPT ![root] = IF outcome # "acked" THEN "unknown"
                                      ELSE IF on THEN "granted" ELSE "revoked"]
    /\ UNCHANGED <<visits, detaches>>

-----------------------------------------------------------------------------
(* Reply watermarks.                                                       *)

Later(a, b) == a[1] > b[1] \/ (a[1] = b[1] /\ a[2] > b[2])
LatestPair(m) == <<m.gen, m.turns>>
SeenPair(m) == <<m.seenGen, m.seenTurns>>

\* compareSeen: the most recent inspection, whoever appended it.
ReadOf(previous, next) == IF Later(SeenPair(previous), SeenPair(next)) THEN previous ELSE next

MergedMark(previous, line) ==
    IF line.kind # "visit" THEN previous
    ELSE IF previous = Nothing THEN line.mark
    ELSE LET next == line.mark
             latest == IF Later(LatestPair(previous), LatestPair(next)) THEN previous ELSE next
             inspected == ReadOf(previous, next)
         IN [latest EXCEPT !.seen = inspected.seen, !.seenGen = inspected.seenGen,
                           !.seenTurns = inspected.seenTurns]

ProjectPreferences == FoldLeft(MergedMark, Nothing, lines)

Unread(m) ==
    /\ m # Nothing /\ m.latest # Nothing
    /\ m.latest # m.seen \/ m.turns > m.seenTurns \/ m.gen > m.seenGen

\* A baseline is never a claim that historical prose is new.
Baseline(preview) ==
    [seen |-> preview, latest |-> preview, turns |-> worker.turns, gen |-> worker.gen,
     seenTurns |-> worker.turns, seenGen |-> worker.gen]

\* reconcileReplyWatermarks for the thread as the client's snapshot has it.
Reconciled(m) ==
    LET preview == IF worker.turns > 0 THEN worker.preview ELSE Nothing
    IN IF m = Nothing THEN Baseline(worker.preview)
       ELSE IF worker.gen < m.gen \/ preview = Nothing THEN m
       ELSE IF m.turns = 0 /\ m.latest # Nothing /\ m.latest = m.seen THEN Baseline(preview)
       ELSE IF (worker.turns > m.turns \/ worker.gen > m.gen) /\ preview # m.latest
            THEN [m EXCEPT !.latest = preview, !.turns = worker.turns, !.gen = worker.gen]
       ELSE m

\* The worker answers, resumes (its turns counted from the start or on), or its
\* ledger is restored behind a cold index.
WorkerMoves ==
    /\ part = "visits" /\ moves < MaxMoves
    /\ moves' = moves + 1
    /\ \/ \E text \in Texts :
              worker' = [worker EXCEPT !.turns = @ + 1, !.preview = text]
       \/ \E turns \in {0, worker.turns} :
              worker' = [worker EXCEPT !.gen = @ + 1, !.turns = turns]
    /\ UNCHANGED <<journal, want, mark, saved, told, detaches>>

\* loadVisitPreferences: a failing read leaves a visit-local baseline, never saved.
OpenFleet(c) ==
    /\ part = "visits" /\ saved[c] = "closed"
    /\ LET visit == IF Unreadable THEN Nothing ELSE ProjectPreferences
       IN /\ mark' = [mark EXCEPT ![c] = visit]
          /\ saved' = [saved EXCEPT ![c] = IF Unreadable THEN "local" ELSE "open"]
    /\ UNCHANGED <<journal, want, worker, moves, told, detaches>>

Refresh(c) ==
    /\ part = "visits" /\ saved[c] # "closed" /\ mark[c] # Reconciled(mark[c])
    /\ mark' = [mark EXCEPT ![c] = Reconciled(mark[c])]
    /\ saved' = [saved EXCEPT ![c] = IF @ = "local" THEN @ ELSE "dirty"]
    /\ UNCHANGED <<journal, want, worker, moves, told, detaches>>

MarkThreadRead(c) ==
    /\ part = "visits" /\ saved[c] # "closed" /\ Unread(mark[c])
    /\ mark' = [mark EXCEPT ![c].seen = mark[c].latest, ![c].seenTurns = mark[c].turns,
                            ![c].seenGen = mark[c].gen]
    /\ saved' = [saved EXCEPT ![c] = IF @ = "local" THEN @ ELSE "dirty"]
    /\ UNCHANGED <<journal, want, worker, moves, told, detaches>>

\* The saver stops after the first failed request.
SaveVisit(c, outcome) ==
    /\ part = "visits" /\ saved[c] = "dirty"
    /\ Put([kind |-> "visit", mark |-> mark[c]], outcome)
    /\ saved' = [saved EXCEPT ![c] = IF outcome = "acked" THEN "open" ELSE "local"]
    /\ told' = IF outcome = "acked" THEN told \cup {mark[c]} ELSE told
    /\ UNCHANGED <<want, worker, moves, mark, detaches>>

-----------------------------------------------------------------------------
(* Detaches.                                                               *)

LatestAfter(latest, line) ==
    CASE line.kind = "detach" -> line.session
      [] line.kind = "clear" -> IF latest = line.session THEN Nothing ELSE latest
      [] OTHER -> latest

LatestSessionId == FoldLeft(LatestAfter, Nothing, lines)

\* append: once one write has failed, the chained promise rejects every later one.
PutDetach(record, outcome) == ~rejected /\ Put(record, outcome) /\ rejected' = (outcome # "acked")

RecordDetach(s, outcome) ==
    /\ part = "detach" /\ s \notin gone
    /\ PutDetach([kind |-> "detach", session |-> s], outcome)
    /\ detached' = IF outcome = "acked" THEN s ELSE Nothing
    /\ UNCHANGED <<want, visits, clearing, gone>>

SessionGone(s) ==
    /\ part = "detach" /\ s \notin gone
    /\ gone' = gone \cup {s}
    /\ UNCHANGED <<journal, want, visits, rejected, detached, clearing>>

\* fleet.reattach: the target read, then cleared when it is stale.
Reattach ==
    /\ part = "detach" /\ ~Unreadable /\ clearing = Nothing
    /\ LatestSessionId \in gone
    /\ clearing' = LatestSessionId
    /\ UNCHANGED <<journal, want, visits, rejected, detached, gone>>

ClearStale(outcome) ==
    /\ part = "detach" /\ clearing # Nothing
    /\ PutDetach([kind |-> "clear", session |-> clearing], outcome)
    /\ clearing' = Nothing
    /\ UNCHANGED <<want, visits, detached, gone>>

RestartFleet ==
    /\ part = "detach" /\ rejected
    /\ rejected' = FALSE /\ clearing' = Nothing
    /\ UNCHANGED <<journal, want, visits, detached, gone>>

-----------------------------------------------------------------------------

JournalsInit ==
    /\ part \in {"grants", "visits", "detach"}
    /\ lines = <<>> /\ torn = FALSE /\ appends = 0
    /\ want = [r \in Roots |-> "unknown"]
    /\ worker \in [gen : {1}, turns : {0}, preview : IF part = "visits" THEN {Nothing} \cup Texts ELSE {Nothing}]
    /\ moves = 0
    /\ mark = [c \in Clients |-> Nothing] /\ saved = [c \in Clients |-> "closed"]
    /\ told = {}
    /\ rejected = FALSE /\ detached = Nothing /\ clearing = Nothing /\ gone = {}

JournalsNext ==
    \/ \E root \in Roots, on \in BOOLEAN, outcome \in Outcomes : SetGrant(root, on, outcome)
    \/ WorkerMoves
    \/ \E c \in Clients : OpenFleet(c) \/ Refresh(c) \/ MarkThreadRead(c)
    \/ \E c \in Clients, outcome \in Outcomes : SaveVisit(c, outcome)
    \/ \E s \in Sessions, outcome \in Outcomes : RecordDetach(s, outcome)
    \/ \E s \in Sessions : SessionGone(s)
    \/ Reattach
    \/ \E outcome \in Outcomes : ClearStale(outcome)
    \/ RestartFleet

JournalsSpec == JournalsInit /\ [][JournalsNext]_journalsVars

-----------------------------------------------------------------------------
(* Properties.                                                             *)

\* Once the operator was told that a repository is revoked, no prompt of any worker
\* in it is answered and no Scout reads it, whatever appends were torn before or
\* since (modal-answer-grant-store.ts:49-72, modal-answer-policy.ts:46-84).
RevokedIsRefused ==
    \A cwd \in Worktrees, kind \in ModalKinds, answer \in Answers :
        RootOf[cwd] # Nothing /\ Evaluate(cwd, kind, answer) => want[RootOf[cwd]] # "revoked"

=============================================================================
