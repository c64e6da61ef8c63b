--------------------------- MODULE BrokerArchives ---------------------------
(***************************************************************************)
(* Three stores the broker keeps evidence in.                              *)
(*   activity: AgentActivityStore, an fsynced journal of frames with a     *)
(*     disposable index, a retention cap and a checkpoint of the loss      *)
(*     (agent-activity-store.ts, activity-journal.ts,                      *)
(*     activity-disk-index.ts);                                            *)
(*   scout: ScoutReportStore, the drop box with a Scout's decision card    *)
(*     and its bounded trace, read in pages (scout-report-store.ts);       *)
(*   artifacts: ArtifactStore, content named by its digest and metadata    *)
(*     named by an id (artifact-store.ts).                                 *)
(*                                                                         *)
(* "archivesPart" says which one a behaviour is about.  A frame is one     *)
(* unit of the cap; a byte of the trace stands for its class in UTF-8:     *)
(* "a" is a character, "h" begins one of three bytes, "t" continues it,    *)
(* "m" is a byte of the truncation marker.                                 *)
(***************************************************************************)
EXTENDS Integers, Sequences, FiniteSets, FiniteSetsExt

CONSTANTS
    Sources, Runs,  \* dedup keys of frames, runs that can be pinned
    Cap, Batch,     \* maxBytes in frames, and what one compaction frees at least
    MaxOps,         \* bound on operations of the activity store
    Chunks,         \* what a Scout's process writes to its trace
    MaxTrace,       \* MAX_SCOUT_TRACE_BYTES
    PageBytes,      \* maxBytes of a read, at least 4
    Writers,        \* concurrent artifact writes
    DigestOf,       \* the content of each
    Faults          \* which steps may fail

Marker == <<"m", "m">>
None == "none"

VARIABLES
    archivesPart, ops,
    frames,       \* activity.jsonl: [seq, src, run]
    archivesTorn, \* it ends inside a frame
    health,       \* activity-health.json
    pins,         \* activity-pins.json
    store,        \* sequence, dropped, poisoned of the open store
    archivesOp,   \* the append in progress
    archivesAcked, \* frames a caller was given
    card, everComplete, capturing, captures,
    trace, cut, cursor, pages,
    content, meta, writer

activity == <<frames, archivesTorn, health, pins, store, archivesOp, archivesAcked>>
scout == <<card, everComplete, capturing, captures, trace, cut, cursor, pages>>
artifacts == <<content, meta, writer>>
archivesVars == <<archivesPart, ops, activity, scout, artifacts>>

ArchiveStep(which) == archivesPart = which /\ ops < MaxOps /\ ops' = ops + 1 /\ UNCHANGED archivesPart
Goes(which) == archivesPart = which /\ UNCHANGED <<archivesPart, ops>>

-----------------------------------------------------------------------------
(* Agent activity.                                                         *)

Idle == [pc |-> "idle", src |-> None, run |-> None, remove |-> 0]
LastSeq == IF frames = <<>> THEN 0 ELSE frames[Len(frames)].seq
Higher(a, b) == IF a > b THEN a ELSE b
Flag(b) == IF b THEN 1 ELSE 0

\* prune: the oldest frames go, up to the first that is pinned, or is young
\* enough and fits.
Removable(aged, target) ==
    Min({i \in DOMAIN frames : \/ frames[i].run \in pins
                               \/ i > aged /\ Len(frames) - (i - 1) + 1 <= target}
        \cup {Len(frames) + 1}) - 1

Target == IF Len(frames) + 1 > Cap THEN Cap - Batch ELSE Cap

\* The rejection handler of the append queue.
Reject == store' = [store EXCEPT !.dropped = @ + 1]

\* Loss is durable before replacement.
Checkpoint(remove) == [seq |-> store.sequence, dropped |-> store.dropped + remove]

\* append up to prune's decision.  aged says how many of the oldest frames are
\* past the cutoff.
AppendStart(src, run, aged) ==
    /\ ArchiveStep("activity") /\ archivesOp.pc = "idle" /\ ~store.poisoned
    /\ ~\E i \in DOMAIN frames : frames[i].src = src
    /\ LET remove == IF Len(frames) + 1 <= Cap /\ aged = 0 THEN 0 ELSE Removable(aged, Target)
       IN IF Len(frames) - remove + 1 > Cap
          THEN Reject /\ UNCHANGED <<health, archivesOp>>
          ELSE IF remove = 0
          THEN /\ archivesOp' = [pc |-> "write", src |-> src, run |-> run, remove |-> 0]
               /\ UNCHANGED <<store, health>>
          ELSE /\ health' = Checkpoint(remove)
               /\ archivesOp' = [pc |-> "rename", src |-> src, run |-> run, remove |-> remove]
               /\ UNCHANGED store
    /\ UNCHANGED <<frames, archivesTorn, pins, archivesAcked, scout, artifacts>>

\* An event already in the journal is answered with the frame that holds it.
AppendAgain(src) ==
    /\ ArchiveStep("activity") /\ archivesOp.pc = "idle" /\ ~store.poisoned
    /\ \E i \in DOMAIN frames : frames[i].src = src /\ archivesAcked' = archivesAcked \cup {frames[i]}
    /\ UNCHANGED <<frames, archivesTorn, health, pins, store, archivesOp, scout, artifacts>>

\* The rename of the compacted journal; it may fail, or be done and then fail.
Rename(done, fails) ==
    /\ Goes("activity") /\ archivesOp.pc = "rename"
    /\ ~done => fails
    /\ fails => "compact" \in Faults
    /\ frames' = IF done THEN SubSeq(frames, archivesOp.remove + 1, Len(frames)) ELSE frames
    /\ store' = [store EXCEPT !.poisoned = TRUE, !.dropped = @ + Flag(fails)]
    /\ archivesOp' = IF fails THEN Idle ELSE [archivesOp EXCEPT !.pc = "removed"]
    /\ UNCHANGED <<archivesTorn, health, pins, archivesAcked, scout, artifacts>>

RemovePrefix ==
    /\ Goes("activity") /\ archivesOp.pc = "removed"
    /\ store' = [store EXCEPT !.dropped = @ + archivesOp.remove, !.poisoned = FALSE]
    /\ archivesOp' = [archivesOp EXCEPT !.pc = "write"]
    /\ UNCHANGED <<frames, archivesTorn, health, pins, archivesAcked, scout, artifacts>>

\* The frame is appended and acknowledged, cut short, or appended with the sync
\* or the index failing after it.
WriteFrame(outcome) ==
    /\ Goes("activity") /\ archivesOp.pc = "write"
    /\ outcome # "acked" => "write" \in Faults
    /\ LET frame == [seq |-> store.sequence + 1, src |-> archivesOp.src, run |-> archivesOp.run]
       IN /\ frames' = IF outcome = "torn" THEN frames ELSE Append(frames, frame)
          /\ archivesTorn' = (outcome = "torn")
          /\ IF outcome = "acked"
             THEN archivesAcked' = archivesAcked \cup {frame} /\ store' = [store EXCEPT !.sequence = @ + 1]
             ELSE /\ store' = [store EXCEPT !.poisoned = TRUE, !.dropped = @ + 1]
                  /\ UNCHANGED archivesAcked
    /\ archivesOp' = Idle
    /\ UNCHANGED <<health, pins, scout, artifacts>>

\* recover, the first step of an append to a poisoned store.
Recover ==
    /\ Goes("activity") /\ archivesOp.pc = "idle" /\ store.poisoned
    /\ LET sequence == Higher(LastSeq, store.sequence)
       IN /\ store' = [sequence |-> sequence, dropped |-> store.dropped + 1, poisoned |-> FALSE]
          /\ health' = [seq |-> sequence, dropped |-> store.dropped + 1]
    /\ archivesTorn' = FALSE
    /\ UNCHANGED <<frames, pins, archivesOp, archivesAcked, scout, artifacts>>

NoteGap ==
    /\ ArchiveStep("activity") /\ archivesOp.pc = "idle"
    /\ store' = [store EXCEPT !.dropped = @ + 1]
    /\ health' = [seq |-> store.sequence, dropped |-> store.dropped + 1]
    /\ UNCHANGED <<frames, archivesTorn, pins, archivesOp, archivesAcked, scout, artifacts>>

Pin(run) ==
    /\ ArchiveStep("activity") /\ archivesOp.pc = "idle"
    /\ pins' = IF run \in pins THEN pins \ {run} ELSE pins \cup {run}
    /\ UNCHANGED <<frames, archivesTorn, health, store, archivesOp, archivesAcked, scout, artifacts>>

Opened(lost) == [sequence |-> Higher(LastSeq, health.seq), dropped |-> lost, poisoned |-> FALSE]

\* The broker dies and opens the store again.
Reopen ==
    /\ ArchiveStep("activity")
    /\ LET opened == Opened(Flag(archivesTorn) + health.dropped)
       IN /\ store' = opened
          /\ health' = IF opened.dropped > 0
                       THEN [seq |-> opened.sequence, dropped |-> opened.dropped] ELSE health
    /\ archivesTorn' = FALSE /\ archivesOp' = Idle
    /\ UNCHANGED <<frames, pins, archivesAcked, scout, artifacts>>

-----------------------------------------------------------------------------
(* The Scout drop box.                                                     *)

\* What captureScoutReport makes of the output, when it finds a report in it.
Readings == {"partial", "invalid", "complete"}

\* captureOnce up to its decision: what collect reads back is never replaced, if
\* it is complete, by a capture that is not.
CaptureRead(state) ==
    /\ capturing = <<>>
    /\ capturing' = IF card = "complete" /\ state # "complete" THEN capturing
                    ELSE Append(capturing, state)

Capture(state) ==
    /\ Goes("card") /\ Len(captures) < 3
    /\ CaptureRead(state)
    /\ captures' = Append(captures, state)
    /\ UNCHANGED <<activity, card, everComplete, trace, cut, cursor, pages, artifacts>>

\* The temporary file is renamed over the card, or the write fails, or the broker
\* dies before it.
WriteCard(i, written) ==
    /\ Goes("card") /\ i \in DOMAIN capturing
    /\ card' = IF written THEN capturing[i] ELSE card
    /\ everComplete' = (everComplete \/ card' = "complete")
    /\ capturing' = SubSeq(capturing, 1, i - 1) \o SubSeq(capturing, i + 1, Len(capturing))
    /\ UNCHANGED <<activity, captures, trace, cut, cursor, pages, artifacts>>

PayloadLimit == MaxTrace - Len(Marker)

\* appendTrace.  What the process writes is UTF-8, cut into chunks anywhere.
AppendTrace(chunk) ==
    LET size == Len(trace)
        available == IF PayloadLimit > size THEN PayloadLimit - size ELSE 0
        body == IF size >= PayloadLimit
                THEN SubSeq(Marker, 1, Min({Len(Marker), MaxTrace - size}))
                ELSE IF Len(chunk) <= available THEN chunk
                ELSE SubSeq(chunk, 1, available) \o SubSeq(Marker, 1, Min({Len(Marker), MaxTrace - size}))
    IN /\ Goes("trace") /\ size < MaxTrace
       /\ (chunk[1] = "t") = (size > 0 /\ trace[size] = "h")
       /\ trace' = trace \o body
       /\ cut' = (cut \/ size >= PayloadLimit \/ Len(chunk) > available)
       /\ UNCHANGED <<activity, card, everComplete, capturing, captures, cursor, pages, artifacts>>

\* A sequence of bytes the fatal decoder accepts.
Decodes(s) ==
    \A i \in DOMAIN s :
        /\ s[i] = "h" => i + 2 <= Len(s) /\ s[i + 1] = "t" /\ s[i + 2] = "t"
        /\ s[i] = "t" => i > 1 /\ (s[i - 1] = "h" \/ (i > 2 /\ s[i - 1] = "t" /\ s[i - 2] = "h"))

\* decodeUtf8Prefix: how many bytes of s one page delivers, -1 for a throw.
Decoded(s, atEnd) ==
    LET fits == {n \in (Len(s) - Min({3, Len(s)})) .. Len(s) :
                     (n > 0 \/ atEnd) /\ Decodes(SubSeq(s, 1, n))}
    IN IF fits # {} THEN Max(fits) ELSE IF atEnd THEN Len(s) ELSE -1

\* readArtifact: the next page of the trace.
ReadPage ==
    LET length == Min({PageBytes, Len(trace) - cursor})
        page == SubSeq(trace, cursor + 1, cursor + length)
        bytes == Decoded(page, cursor + length >= Len(trace))
    IN /\ Goes("trace") /\ cursor < Len(trace) /\ bytes > 0
       /\ cursor' = cursor + bytes
       /\ pages' = Append(pages, SubSeq(page, 1, bytes))
       /\ UNCHANGED <<activity, card, everComplete, capturing, captures, trace, cut, artifacts>>

-----------------------------------------------------------------------------
(* Artifacts.                                                              *)

\* Bug: the metadata is stored before the content it names.
MetaFirst(w) ==
    \/ writer[w] = "start" /\ writer' = [writer EXCEPT ![w] = "content"]
       /\ meta' = meta \cup {w} /\ UNCHANGED content
    \/ writer[w] = "content" /\ writer' = [writer EXCEPT ![w] = "stored"]
       /\ content' = content \cup {DigestOf[w]} /\ UNCHANGED meta

\* write: content already there is used, otherwise renamed into place, and then
\* the metadata.
ContentFirst(w) ==
    \/ writer[w] = "start" /\ writer' = [writer EXCEPT ![w] = IF DigestOf[w] \in content THEN "meta" ELSE "content"]
       /\ UNCHANGED <<content, meta>>
    \/ writer[w] = "content" /\ writer' = [writer EXCEPT ![w] = "meta"]
       /\ content' = content \cup {DigestOf[w]} /\ UNCHANGED meta
    \/ writer[w] = "meta" /\ writer' = [writer EXCEPT ![w] = "stored"]
       /\ meta' = meta \cup {w} /\ UNCHANGED content

WriteArtifact(w) ==
    /\ Goes("artifacts") /\ ContentFirst(w)
    /\ UNCHANGED <<activity, scout>>

\* The broker dies: a write in progress leaves what it had renamed.
StopWriters ==
    /\ Goes("artifacts") /\ \E w \in Writers : writer[w] \notin {"stored", "dead"}
    /\ writer' = [w \in Writers |-> IF writer[w] = "stored" THEN "stored" ELSE "dead"]
    /\ UNCHANGED <<activity, scout, content, meta>>

\* listIds, and read: the metadata is there and so is the content it names.
ListIds == meta
ReadArtifact(w) == w \in meta /\ DigestOf[w] \in content

-----------------------------------------------------------------------------

ArchivesInit ==
    /\ archivesPart \in {"activity", "card", "trace", "artifacts"} /\ ops = 0
    /\ frames = <<>> /\ archivesTorn = FALSE /\ health = [seq |-> 0, dropped |-> 0] /\ pins = {}
    /\ store = [sequence |-> 0, dropped |-> 0, poisoned |-> FALSE]
    /\ archivesOp = Idle /\ archivesAcked = {}
    /\ card = "missing" /\ everComplete = FALSE /\ capturing = <<>> /\ captures = <<>>
    /\ trace = <<>> /\ cut = FALSE /\ cursor = 0 /\ pages = <<>>
    /\ content = {} /\ meta = {} /\ writer = [w \in Writers |-> "start"]

ArchivesNext ==
    \/ \E src \in Sources, run \in Runs, aged \in {0, Len(frames)} : AppendStart(src, run, aged)
    \/ \E src \in Sources : AppendAgain(src)
    \/ \E done, fails \in BOOLEAN : Rename(done, fails)
    \/ RemovePrefix
    \/ \E outcome \in {"acked", "torn", "whole"} : WriteFrame(outcome)
    \/ Recover
    \/ NoteGap
    \/ \E run \in Runs : Pin(run)
    \/ Reopen
    \/ \E state \in Readings : Capture(state)
    \/ \E i \in 1 .. 3, written \in BOOLEAN : WriteCard(i, written)
    \/ \E chunk \in Chunks : AppendTrace(chunk)
    \/ ReadPage
    \/ \E w \in Writers : WriteArtifact(w)
    \/ StopWriters

ArchivesSpec == ArchivesInit /\ [][ArchivesNext]_archivesVars

-----------------------------------------------------------------------------
(* Properties.                                                             *)

\* Every artifact that can be listed can be read, whichever writers of the same
\* content were stopped on the way (artifact-store.ts:86-144).
ListedIsReadable == \A w \in ListIds : ReadArtifact(w)
=============================================================================
