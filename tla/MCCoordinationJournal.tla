---- MODULE MCCoordinationJournal ----
(* Two processes that share the coordination journal; beside it, one at a   *)
(* time, the archives of one session, the digest of its output and the      *)
(* native transcripts of two sessions.                                      *)
EXTENDS CoordinationJournal, BrokerArchives, TLC

CONSTANTS p1, p2, k1, k2, k3, s1, s2, f1, f2, f3

ArchiveChunks == {<<"a">>, <<"h", "t", "t">>, <<"a", "h">>, <<"t", "t">>}
ArchiveDigestOf == [w \in {1, 2, 3} |-> IF w = 3 THEN "other" ELSE "same"]

\* Outputs of four tokens: text, line ends and control sequences, with an
\* escape and with an opener in the payload of an OSC among them.
TextTokens == {<<"x">>, <<"cr", "lf">>, <<"cr">>, <<"lf">>}
Controls == {<<"esc", "[", "m">>, <<"esc", "]", "x", "bel">>, <<"esc", "]", "x", "esc", "st">>,
             <<"esc", "]", "x", "x", "esc", "[", "m", "x", "esc", "st">>,
             <<"esc", "]", "x", "esc", "]", "x", "bel">>,
             <<"esc", "(", "B">>, <<"esc", "[", "2", "J">>}
DigestStreams ==
    {t[1] \o t[2] \o t[3] \o t[4] :
        t \in {t \in [1 .. 4 -> TextTokens \cup Controls \cup {<<>>}] : t[1] = <<"x">>}}
FirstStream == CHOOSE t \in DigestStreams : TRUE

Scene(kind, who, without, brief, ts, ms, ss) ==
    [provider |-> kind, acting |-> who, nameless |-> without, sameBrief |-> brief,
     turns |-> ts, moves |-> ms, shapes |-> ss]

\* One session whose frames come in every order; two that share files, with
\* the hook of each or of one of them; and Codex sessions, without markers and
\* with the same brief.
NativeScenes ==
    {Scene("claude", {s1}, {}, FALSE, 2, 2, {<<"text">>, <<"empty">>, <<"text", "text">>}),
     Scene("claude", {s1, s2}, {}, FALSE, 1, 2, {<<"text">>}),
     Scene("claude", {s1, s2}, {s1}, FALSE, 1, 3, {<<"text">>}),
     Scene("codex", {s1, s2}, {s2}, FALSE, 2, 3, {<<>>}),
     Scene("codex", {s1, s2}, {s2}, TRUE, 2, 3, {<<>>}),
     Scene("codex", {s1, s2}, {s1, s2}, TRUE, 2, 2, {<<>>}),
     Scene("codex", {s1, s2}, {s1, s2}, FALSE, 2, 2, {<<>>})}

VARIABLES
    part,      \* the component that moves in this behaviour
    stream, read, carry, discarding, oscSeam, digest, titleAt,
    scene, homes, writes, texts, marks, hook, binding, claimed, status, reader, receipts,
    deleted, visited, clock, turns, moves

Digest == INSTANCE ReplayDigest WITH
    Streams <- DigestStreams, MaxCarry <- 6, Overlap <- 1, TailChars <- 2, ReplayChars <- 8
digestVars == <<stream, read, carry, discarding, oscSeam, digest, titleAt>>
Homes == INSTANCE NativeTranscripts WITH
    Sessions <- {s1, s2}, Files <- {f1, f2, f3}, Launch <- (s1 :> f1) @@ (s2 :> f2),
    Scenes <- NativeScenes, file <- homes
nativeVars == <<scene, homes, writes, texts, marks, hook, binding, claimed, status, reader,
                receipts, deleted, visited, clock, turns, moves>>
allVars == <<part, vars, archivesVars, digestVars, nativeVars>>

\* A component that does not move rests in the first of its settings.
MCInit ==
    /\ part \in {"journal", "archives", "digest", "native"}
    /\ Init /\ ArchivesInit /\ Digest!Init /\ Homes!Init
    /\ part # "archives" => archivesPart = "card"
    /\ part # "digest" => stream = FirstStream
    /\ part # "native" => scene = CHOOSE s \in NativeScenes : TRUE

MCNext ==
    \/ part = "journal" /\ Next /\ UNCHANGED <<part, archivesVars, digestVars, nativeVars>>
    \/ part = "archives" /\ ArchivesNext /\ UNCHANGED <<part, vars, digestVars, nativeVars>>
    \/ part = "digest" /\ Digest!Next /\ UNCHANGED <<part, vars, archivesVars, nativeVars>>
    \/ part = "native" /\ Homes!Next /\ UNCHANGED <<part, vars, archivesVars, digestVars>>

MCSpec == MCInit /\ [][MCNext]_allVars

(* The digest of an output that came in chunks is the digest of the whole output, *)
(* with the two exceptions Digest!ReadsAsWhole names.                              *)
ReadsAsWhole == Digest!ReadsAsWhole

(* A session is never credited with another's turn while a durable record says that the other is there. *)
NoForeignTurns == Homes!NoForeignTurns
====
