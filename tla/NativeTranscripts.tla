------------------------- MODULE NativeTranscripts -------------------------
(***************************************************************************)
(* How the broker finds the transcript a provider writes for a session and *)
(* reads completed turns from it: the durable bindings and the resolution  *)
(* of src/persistence/thread-transcript-store.ts (Claude) and              *)
(* codex-conversation-discovery.ts (Codex), the incremental reader         *)
(* jsonl-offset-reader.ts, and ClaudeTurnStops, which decides which final  *)
(* message a turn_duration marker closes.                                  *)
(*                                                                         *)
(* A frame has a time, which is also its identity, and the session whose   *)
(* provider wrote it.  All sessions share one working directory.  Reading  *)
(* a transcript is one step: a provider turn does not fit between the      *)
(* awaits of a read.                                                       *)
(***************************************************************************)
EXTENDS Integers, FiniteSets, Sequences, SequencesExt

CONSTANTS
    Sessions, Files,
    Launch,         \* the file a session's provider is launched against
    Scenes          \* provider, sessions that act, shapes of a turn; those
                    \* that leave no name in the provider's home (no working
                    \* SessionStart hook, no actor marker); whether all were
                    \* launched with the same brief; and the bounds: turns
                    \* completed, and clears, resumes, rewrites, unfinished
                    \* lines, restarts and deletions

NativeConstants ==
    /\ Launch \in [Sessions -> Files]
    /\ \A s, t \in Sessions : Launch[s] = Launch[t] => s = t
    /\ Scenes \subseteq [provider : {"claude", "codex"}, acting : SUBSET Sessions,
                         shapes : SUBSET Seq({"text", "empty"}), nameless : SUBSET Sessions,
                         sameBrief : BOOLEAN, turns : Nat, moves : Nat]

VARIABLES
    scene,
    file,           \* complete frames, an unfinished one, the inode
    writes,         \* the file a provider appends to
    texts, marks,   \* frames a provider still has to write, in order
    hook,           \* a SessionStart hook is about to run
    binding,        \* durable: the file a session is bound to
    claimed,        \* claimedClaudePaths
    status,         \* what the last resolution said
    reader,         \* nativeProjections
    receipts,       \* durable: turns committed for a session
    deleted,        \* sessions whose bindings were dropped
    visited,        \* history: conversations that were resumed
    clock, turns, moves

world == <<file, writes, texts, marks>>
broker == <<claimed, status, reader>>
vars == <<scene, world, hook, binding, broker, receipts, deleted, visited, clock, turns, moves>>

NoFile == "no file"
Nobody == "nobody"
NoFrame == [kind |-> "none"]
Live == Sessions \ deleted
provider == scene.provider
Nameless(s) == s \in scene.nameless
Hooked(s) == provider = "claude" /\ ~Nameless(s)

\* A projection before its first scan; ClaudeTurnStops.reset.
Unread == [file |-> NoFile, inode |-> 0, offset |-> 0, cleared |-> FALSE,
           texts |-> {}, empties |-> {}, stops |-> {}, closed |-> 0, found |-> {}]

Move == moves < scene.moves /\ moves' = moves + 1

(***************************************************************************)
(* The providers                                                           *)
(***************************************************************************)
Meta(s) == [kind |-> "meta", at |-> 0, by |-> s, claims |-> IF Nameless(s) THEN {} ELSE {s}]

Init ==
    /\ scene \in Scenes
    /\ file = [f \in Files |->
                  [lines |-> IF \E s \in Sessions : Launch[s] = f
                             THEN <<Meta(CHOOSE s \in Sessions : Launch[s] = f)>> ELSE <<>>,
                   part |-> FALSE, inode |-> 1]]
    /\ writes = Launch
    /\ texts = [s \in Sessions |-> <<>>] /\ marks = [s \in Sessions |-> <<>>]
    /\ hook = [s \in Sessions |-> Hooked(s)]
    /\ binding = [s \in Sessions |-> NoFile]
    /\ claimed = [f \in Files |-> Nobody]
    /\ status = [s \in Sessions |-> "unknown"]
    /\ reader = [s \in Sessions |-> Unread]
    /\ receipts = [s \in Sessions |-> <<>>]
    /\ deleted = {} /\ visited = {} /\ clock = 0 /\ turns = 0 /\ moves = 0

\* A turn ends.  A final message may be empty; a Stop hook may continue the
\* turn after one.  The marker is written independently of the messages.
CompleteTurn(s, shape) ==
    /\ turns < scene.turns /\ s \in Live /\ ~hook[s]
    /\ texts' = [texts EXCEPT ![s] = @ \o [i \in DOMAIN shape |-> [kind |-> shape[i], at |-> clock + i, by |-> s]]]
    /\ marks' = [marks EXCEPT ![s] = Append(@, [kind |-> "stop", at |-> clock + Len(shape) + 1, by |-> s])]
    /\ clock' = clock + Len(shape) + 1
    /\ turns' = turns + 1
    /\ UNCHANGED <<scene, file, writes, hook, binding, broker, receipts, deleted, visited, moves>>

\* The next frame of a lane reaches the file; an unfinished line is completed
\* by the frame it belongs to.
Write(s, lane) ==
    /\ lane # <<>> /\ ~file[writes[s]].part
    /\ file' = [file EXCEPT ![writes[s]].lines = Append(@, Head(lane))]

WriteText(s) ==
    /\ Write(s, texts[s])
    /\ texts' = [texts EXCEPT ![s] = Tail(@)]
    /\ UNCHANGED <<scene, writes, marks, hook, binding, broker, receipts, deleted, visited, clock, turns, moves>>

WriteMark(s) ==
    /\ Write(s, marks[s])
    /\ marks' = [marks EXCEPT ![s] = Tail(@)]
    /\ UNCHANGED <<scene, writes, texts, hook, binding, broker, receipts, deleted, visited, clock, turns, moves>>

\* The provider is in the middle of a line.
WritePart(s) ==
    /\ texts[s] # <<>> \/ marks[s] # <<>>
    /\ ~file[writes[s]].part
    /\ Move
    /\ file' = [file EXCEPT ![writes[s]].part = TRUE]
    /\ UNCHANGED <<scene, writes, texts, marks, hook, binding, broker, receipts, deleted, visited, clock, turns>>

WriteRest(s) ==
    /\ file[writes[s]].part
    /\ \/ texts[s] # <<>> /\ texts' = [texts EXCEPT ![s] = Tail(@)] /\ marks' = marks
          /\ file' = [file EXCEPT ![writes[s]] = [@ EXCEPT !.part = FALSE, !.lines = Append(@, Head(texts[s]))]]
       \/ marks[s] # <<>> /\ marks' = [marks EXCEPT ![s] = Tail(@)] /\ texts' = texts
          /\ file' = [file EXCEPT ![writes[s]] = [@ EXCEPT !.part = FALSE, !.lines = Append(@, Head(marks[s]))]]
    /\ UNCHANGED <<scene, writes, hook, binding, broker, receipts, deleted, visited, clock, turns, moves>>

AtPrompt(s) == texts[s] = <<>> /\ marks[s] = <<>> /\ ~hook[s]

\* /clear: the last frame of the old file, and a new file.
Clear(s, f) ==
    /\ provider = "claude" /\ s \in Live /\ AtPrompt(s) /\ file[f].lines = <<>> /\ file[f].inode = 1
    /\ ~file[writes[s]].part
    /\ Move
    /\ file' = [file EXCEPT ![writes[s]].lines = Append(@, [kind |-> "clear", at |-> 0, by |-> s]),
                            ![f].lines = <<Meta(s)>>]
    /\ writes' = [writes EXCEPT ![s] = f]
    /\ hook' = [hook EXCEPT ![s] = Hooked(s)]
    /\ UNCHANGED <<scene, texts, marks, binding, broker, receipts, deleted, visited, clock, turns>>

\* A session resumes a conversation: another one's, which goes on there, or an
\* earlier one of its own.
Resume(s, f) ==
    /\ s \in Live /\ AtPrompt(s) /\ f # writes[s] /\ file[f].lines # <<>>
    /\ ~file[f].part /\ ~file[writes[s]].part
    /\ Move
    /\ writes' = [writes EXCEPT ![s] = f]
    /\ file' = IF provider = "codex" THEN [file EXCEPT ![f].lines = Append(@, Meta(s))] ELSE file
    /\ hook' = [hook EXCEPT ![s] = Hooked(s)]
    /\ visited' = visited \cup {f}
    /\ UNCHANGED <<scene, texts, marks, binding, broker, receipts, deleted, clock, turns>>

\* The file is rewritten without its first line.
Rewrite(f) ==
    /\ provider = "claude" /\ file[f].lines # <<>> /\ Head(file[f].lines).kind = "meta" /\ ~file[f].part
    /\ Move
    /\ file' = [file EXCEPT ![f].lines = Tail(@), ![f].inode = @ + 1]
    /\ UNCHANGED <<scene, writes, texts, marks, hook, binding, broker, receipts, deleted, visited, clock, turns>>

\* ClaudeConversationBindingStore.record, in the hook's own process.
RecordBinding(s) ==
    /\ hook[s]
    /\ binding' = [binding EXCEPT ![s] = writes[s]]
    /\ hook' = [hook EXCEPT ![s] = FALSE]
    /\ UNCHANGED <<scene, world, broker, receipts, deleted, visited, clock, turns, moves>>

(***************************************************************************)
(* Which file is this session's?                                           *)
(***************************************************************************)
SessionsBoundTo(f) == {s \in Sessions : binding[s] = f}

\* Bug: the durable bindings of other sessions are not asked.
ResolveClaudeAlone(s) ==
    IF binding[s] = NoFile THEN [file |-> Launch[s], status |-> "bound"] ELSE [file |-> binding[s], status |-> "bound"]

\* resolveClaudeTranscript
ResolveClaude(s) ==
    LET f == IF binding[s] = NoFile THEN Launch[s] ELSE binding[s] IN
    IF \/ SessionsBoundTo(f) \ {s} # {}
       \/ claimed[f] \notin {Nobody, s}
    THEN [file |-> NoFile, status |-> "attribution-conflict"]
    ELSE [file |-> f, status |-> "bound"]

\* readCodexLaunchClaims: every actor marker in the rollout.
Claims(f) == UNION {IF x.kind = "meta" THEN x.claims ELSE {} : x \in Range(file[f].lines)}

\* codexLaunchMatches: the first prompt of the rollout is this session's brief.
LaunchMatches(s, f) == file[f].lines # <<>> /\ (scene.sameBrief \/ Head(file[f].lines).by = s)

\* The rollouts of this directory that count as the session's own: its marker
\* alone, or, for a session without one, an unmarked rollout with its brief.
Candidates(s) ==
    {f \in Files : /\ file[f].lines # <<>>
                   /\ LaunchMatches(s, f)
                   /\ \/ Claims(f) = {s}
                      \/ Nameless(s) /\ Claims(f) = {}}

ConflictingClaim(s) == \E f \in Files : s \in Claims(f) /\ Claims(f) # {s}

\* CodexConversationDiscovery.resolve
ResolveCodex(s) ==
    LET refused(why) == [file |-> NoFile, status |-> why]
        f == binding[s]
        all == Candidates(s) \cup ({f} \ {NoFile})
    IN  IF f # NoFile /\ SessionsBoundTo(f) # {s} THEN refused("conflict")
        ELSE IF f # NoFile /\ Claims(f) \notin {{}, {s}} THEN refused("conflict")
        ELSE IF f # NoFile /\ ~Nameless(s) /\ Claims(f) = {} THEN refused("unbound")
        ELSE IF f # NoFile /\ Claims(f) = {s} THEN [file |-> f, status |-> "available"]
        ELSE IF Cardinality(all) > 1 \/ ConflictingClaim(s) THEN refused("conflict")
        ELSE IF all = {} THEN refused("unbound")
        ELSE LET only == CHOOSE x \in all : TRUE IN
             IF SessionsBoundTo(only) \ {s} # {} THEN refused("conflict")
             ELSE [file |-> only, status |-> "available"]

(***************************************************************************)
(* JsonlOffsetReader: complete lines after the offset; everything is read  *)
(* again when the file is not the one that was read before.                *)
(***************************************************************************)
Reset(r, f) ==
    IF r.file # f \/ r.inode # file[f].inode \/ Len(file[f].lines) < r.offset
    THEN [Unread EXCEPT !.file = f, !.inode = file[f].inode]
    ELSE r

NewLines(r, f) == SubSeq(file[f].lines, r.offset + 1, Len(file[f].lines))

OffsetAfter(f) == Len(file[f].lines)

(***************************************************************************)
(* ClaudeTurnStops.observe                                                 *)
(***************************************************************************)
Within(S, low, high) == {x \in S : x > low /\ x <= high}
Latest(S) == CHOOSE x \in S : \A y \in S : y <= x

\* One marker, oldest first: it closes the last message before it, and waits
\* when there is none yet.
Drain(r, stop) ==
    LET texts_ == Within(r.texts, r.closed, stop)
        empties_ == Within(r.empties, r.closed, stop)
    IN  IF \E earlier \in r.stops : earlier < stop THEN r
        ELSE IF texts_ \cup empties_ = {} THEN r
        ELSE [r EXCEPT !.found = @ \cup {[id |-> IF texts_ # {} THEN Latest(texts_) ELSE stop, at |-> stop]},
                       !.closed = stop, !.stops = @ \ {stop},
                       !.texts = @ \ texts_, !.empties = @ \ empties_]

ObserveClaude(r, x) ==
    LET seen == CASE x.kind = "text"  -> [r EXCEPT !.texts = @ \cup Within({x.at}, r.closed, x.at)]
                  [] x.kind = "empty" -> [r EXCEPT !.empties = @ \cup Within({x.at}, r.closed, x.at)]
                  [] x.kind = "stop"  -> [r EXCEPT !.stops = @ \cup Within({x.at}, r.closed, x.at)]
                  [] x.kind = "clear" -> [r EXCEPT !.cleared = TRUE]
                  [] OTHER -> r
    IN  FoldLeft(Drain, seen, SetToSortSeq(seen.stops, <))

\* parseCodexTurn: task_complete is the turn.
ObserveCodex(r, x) ==
    IF x.kind = "stop" THEN [r EXCEPT !.found = @ \cup {[id |-> x.at, at |-> x.at]}] ELSE r

\* nativeProjection
Scanned(s, f) ==
    LET r == Reset(reader[s], f)
        visit(acc, x) == IF provider = "claude" THEN ObserveClaude(acc, x) ELSE ObserveCodex(acc, x)
    IN  [FoldLeft(visit, r, NewLines(r, f)) EXCEPT !.offset = OffsetAfter(f)]

(***************************************************************************)
(* Reading a session's turns                                               *)
(***************************************************************************)
Through(s) == IF receipts[s] = <<>> THEN 0 ELSE Last(receipts[s]).at

\* observeProviderTurns, and the commit that follows.
Committed(s, found) ==
    LET fresh == {t \in found : t.at > Through(s) /\ \A q \in Range(receipts[s]) : q.id # t.id}
    IN  receipts' = [receipts EXCEPT ![s] = @ \o SetToSortSeq(fresh, LAMBDA p, q : p.at < q.at)]

\* refuseClaudeTranscript: the session gives its claims up.
Unclaimed(s) == [f \in Files |-> IF claimed[f] = s THEN Nobody ELSE claimed[f]]

ReadClaude(s) ==
    /\ provider = "claude" /\ s \in Live
    /\ LET to == ResolveClaude(s) IN
       IF to.file = NoFile
       THEN /\ status' = [status EXCEPT ![s] = to.status] /\ claimed' = Unclaimed(s)
            /\ UNCHANGED <<reader, receipts>>
       ELSE LET r == Scanned(s, to.file) IN
            /\ reader' = [reader EXCEPT ![s] = r]
            /\ IF r.cleared
               THEN /\ status' = [status EXCEPT ![s] = "cleared-unbound"]
                    /\ claimed' = Unclaimed(s) /\ receipts' = receipts
               ELSE /\ status' = [status EXCEPT ![s] = "bound"]
                    /\ claimed' = [claimed EXCEPT ![to.file] = s]
                    /\ Committed(s, r.found)
    /\ UNCHANGED <<scene, world, hook, binding, deleted, visited, clock, turns, moves>>

ReadCodex(s) ==
    /\ provider = "codex" /\ s \in Live
    /\ LET to == ResolveCodex(s) IN
       /\ status' = [status EXCEPT ![s] = to.status]
       /\ IF to.file = NoFile THEN UNCHANGED <<reader, receipts, binding>>
          ELSE /\ reader' = [reader EXCEPT ![s] = Scanned(s, to.file)]
               /\ binding' = [binding EXCEPT ![s] = to.file]
               /\ Committed(s, Scanned(s, to.file).found)
    /\ UNCHANGED <<scene, world, hook, claimed, deleted, visited, clock, turns, moves>>

\* The broker restarts: bindings and receipts stay.
Restart ==
    /\ Move
    /\ claimed' = [f \in Files |-> Nobody]
    /\ status' = [s \in Sessions |-> "unknown"]
    /\ reader' = [s \in Sessions |-> Unread]
    /\ UNCHANGED <<scene, world, hook, binding, receipts, deleted, visited, clock, turns>>

\* dropClaudeBinding, dropCodexBinding: the session is deleted.
DropBinding(s) ==
    /\ s \in Live /\ AtPrompt(s)
    /\ Move
    /\ deleted' = deleted \cup {s}
    /\ binding' = [binding EXCEPT ![s] = NoFile]
    /\ claimed' = Unclaimed(s)
    /\ reader' = [reader EXCEPT ![s] = Unread]
    /\ status' = [status EXCEPT ![s] = "unknown"]
    /\ UNCHANGED <<scene, world, hook, receipts, visited, clock, turns>>

Provider(s) ==
    \/ \E shape \in scene.shapes : CompleteTurn(s, shape)
    \/ WriteText(s) \/ WriteMark(s) \/ WritePart(s) \/ WriteRest(s)
    \/ \E f \in Files : Clear(s, f) \/ Resume(s, f)

Broker(s) == RecordBinding(s) \/ ReadClaude(s) \/ ReadCodex(s) \/ DropBinding(s)

Next ==
    \/ \E s \in scene.acting : Provider(s) \/ Broker(s)
    \/ \E f \in Files : Rewrite(f)
    \/ Restart

Spec == Init /\ [][Next]_vars

-----------------------------------------------------------------------------
Author(at, f) == {x.by : x \in {y \in Range(file[f].lines) : y.kind = "stop" /\ y.at = at}}

\* Nothing durable says that this session is in this conversation: its hook did
\* not run or has since named another, or its rollout bears no marker.
Untold(s, f) == IF provider = "claude" THEN binding[s] # f ELSE Nameless(s)

\* A turn is recorded for a session whose provider did not write it only if
\* the session that wrote it is deleted, or the conversation was resumed and
\* nothing durable tells of that session in it ("the wrong worker's
\* conversation recorded as this one's is worse than no capture at all").
NoForeignTurns ==
    [][\A s \in Sessions :
           \A t \in Range(receipts'[s]) \ Range(receipts[s]) : \A f \in Files :
               \A author \in Author(t.at, f) \ ({s} \cup deleted) :
                   f \in visited /\ Untold(author, f)]_vars

=============================================================================
