---------------------------- MODULE ReplayDigest ----------------------------
(***************************************************************************)
(* The broker's incremental reading of a provider's terminal output        *)
(* (ReplayDigest in runtime/replay-digest.ts, over stripTerminalControl    *)
(* and plainTerminalText of domain/terminal-replay.ts): every chunk is     *)
(* stripped once, when it arrives, and what could straddle two chunks is   *)
(* withheld.  The reference is the strip of everything read so far.        *)
(*                                                                         *)
(* A character stands for its class: Esc, "[", "]", "(", Bel, St (the      *)
(* backslash that ends an OSC after Esc), Cr, Lf, the parameter "2", the   *)
(* capitals "J" and "B", and the printed "x" and "m".  Every OSC is a      *)
(* window title, the text "xx" is the one activity marker.  Horizontal     *)
(* cursor moves, which become blanks, and the decoding of UTF-8 are left   *)
(* out.  Offsets count from 0 as in the code; -1 is "nowhere".             *)
(***************************************************************************)
EXTENDS Integers, Sequences, FiniteSetsExt

CONSTANTS
    Streams,        \* what a provider may write
    MaxCarry,       \* MAX_CARRY_CHARS
    Overlap,        \* OVERLAP_CHARS
    TailChars,      \* TAIL_CHARS
    ReplayChars     \* replayChars: the life of a title

VARIABLES
    stream,     \* the output of the process
    read,       \* rawOffset: how much of it has arrived
    carry,      \* the withheld tail of what has arrived
    discarding, \* inside an OSC that outgrew the carry
    oscSeam,    \* the last character of it
    digest,     \* the tails and what was found in them
    titleAt     \* raw offset of the last title

vars == <<stream, read, carry, discarding, oscSeam, digest, titleAt>>

Esc == "esc"
Bel == "bel"
St == "st"
Cr == "cr"
Lf == "lf"
Marker == <<"x", "x">>
ClearScreen == <<Esc, "[", "2", "J">>

From(s, i) == SubSeq(s, i + 1, Len(s))
Upto(s, i) == SubSeq(s, 1, i)
At(s, i, pattern) == i + Len(pattern) - 1 <= Len(s) /\ SubSeq(s, i, i + Len(pattern) - 1) = pattern
LastAt(s, pattern) == Max({-1} \cup {i - 1 : i \in {i \in 1 .. Len(s) : At(s, i, pattern)}})

(***************************************************************************)
(* Stripping                                                               *)
(***************************************************************************)
\* The ends of what a pattern matches at i; 0 is no match.  The terminator of
\* an OSC is the first one, whatever escapes are in its payload.
TerminatorEnd(s, i) == Min({Len(s) + 1} \cup {j \in i .. Len(s) : s[j] = Bel \/ (j > i /\ At(s, j - 1, <<Esc, St>>))})
OscEnd(s, i) ==
    IF At(s, i, <<Esc, "]">>) /\ TerminatorEnd(s, i + 2) <= Len(s) THEN TerminatorEnd(s, i + 2) ELSE 0
CsiEnd(s, i) ==
    LET final == Min({Len(s) + 1} \cup {j \in i + 2 .. Len(s) : s[j] # "2"})
    IN IF At(s, i, <<Esc, "[">>) /\ final <= Len(s) /\ s[final] \in {"[", "]", St, "J", "B", "x", "m"} THEN final ELSE 0
OtherEnd(s, i) ==
    CASE s[i] = Esc /\ i + 2 <= Len(s) /\ s[i + 1] = "(" /\ s[i + 2] \in {"2", "J", "B"} -> i + 2
      [] s[i] = Esc /\ i < Len(s) /\ s[i + 1] \in {"[", "]", St, "J", "B"} -> i + 1
      [] OTHER -> 0

\* String.replace with a global pattern: matches are taken from the left.
Removed(s, End(_, _)) ==
    LET f[i \in 0 .. Len(s)] ==
            IF i = 0 THEN [text |-> <<>>, until |-> 0]
            ELSE LET before == f[i - 1] IN
                 IF i <= before.until THEN before
                 ELSE LET end == End(s, i) IN
                      IF end > 0 THEN [before EXCEPT !.until = end] ELSE [before EXCEPT !.text = Append(@, s[i])]
    IN f[Len(s)].text

Strip(s) ==
    LET noOsc == Removed(s, OscEnd)
        noCsi == Removed(noOsc, CsiEnd)
    IN Removed(noCsi, OtherEnd)

\* plainTerminalText: a CR LF is one line break, and so is a CR.
Plain(s) ==
    LET folded(t, i) == IF At(t, i, <<Cr, Lf>>) THEN i ELSE 0
        text == Strip(s)
        lines == Removed(text, folded)
    IN [i \in 1 .. Len(lines) |-> IF lines[i] = Cr THEN Lf ELSE lines[i]]

(***************************************************************************)
(* One chunk                                                               *)
(***************************************************************************)
\* COMPLETE_SEQUENCE, anchored at the escape i: an opener is never complete.
Complete(s, i) ==
    OscEnd(s, i) > 0 \/ CsiEnd(s, i) > 0 \/ (OtherEnd(s, i) > 0 /\ s[i + 1] \notin {"[", "]"})

\* Bug: the last escape decides, also when it is inside the payload of an OSC.
ConsumableEndByEscape(s) ==
    LET escape == LastAt(s, <<Esc>>)
    IN CASE escape >= 0 /\ ~Complete(s, escape + 1) -> [at |-> escape, osc |-> At(s, escape + 1, <<Esc, "]">>)]
         [] escape < 0 /\ Len(s) > 0 /\ s[Len(s)] = Cr -> [at |-> Len(s) - 1, osc |-> FALSE]
         [] OTHER -> [at |-> Len(s), osc |-> FALSE]

\* consumableEnd: where the withheld tail begins.
ConsumableEnd(s) ==
    LET osc == LastAt(s, <<Esc, "]">>)
        escape == LastAt(s, <<Esc>>)
    IN IF osc >= 0 /\ OscEnd(s, osc + 1) = 0 THEN [at |-> osc, osc |-> TRUE]
       ELSE IF escape >= 0 /\ ~Complete(s, escape + 1) THEN [at |-> escape, osc |-> FALSE]
       ELSE IF Len(s) > 0 /\ s[Len(s)] = Cr THEN [at |-> Len(s) - 1, osc |-> FALSE]
       ELSE [at |-> Len(s), osc |-> FALSE]

\* trim: a tail that has doubled is cut to its length.
Trimmed(d) ==
    LET drop(tail) == IF Len(tail) > 2 * TailChars THEN Len(tail) - TailChars ELSE 0
    IN [d EXCEPT !.stripped = From(@, drop(d.stripped)), !.strippedOffset = @ + drop(d.stripped),
                 !.normalized = From(@, drop(d.normalized)), !.normalizedOffset = @ + drop(d.normalized)]

\* The marker, searched for across the seam.
MarkerAfter(d, text) ==
    LET seam == Max({0, Len(d.stripped) - Overlap})
        at == LastAt(From(d.stripped, seam) \o text, Marker)
    IN IF at < 0 THEN d.marker ELSE d.strippedOffset + seam + at

Ingest(d, segment, startsFrame) ==
    LET framed == IF startsFrame THEN [d EXCEPT !.frameOffset = d.normalizedOffset + Len(d.normalized)] ELSE d
    IN IF segment = <<>> THEN framed
       ELSE Trimmed([framed EXCEPT !.stripped = @ \o Strip(segment), !.normalized = @ \o Plain(segment),
                                   !.marker = MarkerAfter(d, Strip(segment))])

\* Split at the last clear-screen, so that the frame boundary is exact.
Ingested(d, consumable) ==
    LET clear == LastAt(consumable, ClearScreen)
    IN IF clear < 0 THEN Ingest(d, consumable, FALSE)
       ELSE Ingest(Ingest(d, Upto(consumable, clear), FALSE), From(consumable, clear), TRUE)

\* OSC_TITLE: no escape in the payload.
Titles(s) ==
    {i - 1 : i \in {i \in 1 .. Len(s) : OscEnd(s, i) > 0 /\ \A j \in i + 1 .. OscEnd(s, i) - 2 : s[j] # Esc}}

\* Offsets are raw: pending ends where the stream read so far does.
TitleAfter(consumable, pending, chunk) ==
    IF Titles(consumable) = {} THEN titleAt ELSE read + chunk - Len(pending) + Max(Titles(consumable))

\* append, for the next n characters.
Chunk(n) ==
    LET chunk == SubSeq(stream, read + 1, read + n)
        search == oscSeam \o chunk
        end == TerminatorEnd(search, 1)
        text == IF discarding THEN From(search, end) ELSE chunk
        pending == carry \o text
        cut == ConsumableEnd(pending)
        over == Len(pending) - cut.at > MaxCarry
        consumable == IF over /\ ~cut.osc THEN pending ELSE Upto(pending, cut.at)
    IN /\ read' = read + n
       /\ IF discarding /\ end > Len(search)
          THEN oscSeam' = <<chunk[n]>> /\ UNCHANGED <<carry, discarding, digest, titleAt>>
          ELSE /\ carry' = IF over THEN <<>> ELSE From(pending, cut.at)
               /\ discarding' = (over /\ cut.osc)
               /\ oscSeam' = IF over /\ cut.osc THEN <<pending[Len(pending)]>> ELSE <<>>
               /\ digest' = Ingested(digest, consumable)
               /\ titleAt' = TitleAfter(consumable, pending, n)
       /\ UNCHANGED stream

Init ==
    /\ stream \in Streams
    /\ read = 0 /\ carry = <<>> /\ discarding = FALSE /\ oscSeam = <<>> /\ titleAt = -1
    /\ digest = [stripped |-> <<>>, strippedOffset |-> 0, normalized |-> <<>>, normalizedOffset |-> 0,
                 frameOffset |-> 0, marker |-> -1]

Next == \E n \in 1 .. Len(stream) - read : Chunk(n)

Spec == Init /\ [][Next]_vars

----------------------------------------------------------------------------
Seen == Upto(stream, read)
NothingWithheld == carry = <<>> /\ ~discarding
TailOf(tail, offset, whole) == Len(whole) = offset + Len(tail) /\ tail = From(whole, offset)

\* What consumableEnd looks for is the last opener and the last escape.  So an
\* opener in the payload of an OSC that is still open takes its place: a cut
\* after it hands the head of the outer one to the visible text.
OpenerInOpenOsc(s) ==
    \E i, j \in 1 .. Len(s) :
        i < j /\ At(s, i, <<Esc, "]">>) /\ At(s, j, <<Esc, "]">>) /\ j < TerminatorEnd(s, i + 2)
\* And a CR is held only at the very end: one that a control sequence follows is
\* a line end already when an LF comes after the sequence.
LineEndParted(s) ==
    \E i, j \in 1 .. Len(s) :
        i + 1 < j /\ s[i] = Cr /\ s[j] = Lf /\ Strip(SubSeq(s, i + 1, j - 1)) = <<>>

\* However the output was cut into chunks, the text, the lines and the marker
\* are those of the whole replay, also past an OSC too long to be carried
\* (ReplayDigest.append: "no match may straddle the cut") -- except that nothing
\* is said once an OSC was opened inside an open one, and nothing of the lines
\* once a control sequence came between the CR and the LF of a line end.
ReadsAsWhole ==
    NothingWithheld /\ ~OpenerInOpenOsc(Seen) =>
        /\ TailOf(digest.stripped, digest.strippedOffset, Strip(Seen))
        /\ ~LineEndParted(Seen) => TailOf(digest.normalized, digest.normalizedOffset, Plain(Seen))
        /\ digest.marker = LastAt(Strip(Seen), Marker)

=============================================================================
