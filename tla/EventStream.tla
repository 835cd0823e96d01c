----------------------------- MODULE EventStream -----------------------------
(***************************************************************************)
(* The event stream of an answer between sse_stream, which writes one      *)
(* frame per event, and streamConversationMessage, which reads whatever    *)
(* pieces the network makes of them: a piece may end within a frame or     *)
(* between the two newlines that end it, and may hold several frames.      *)
(*                                                                         *)
(* A frame is five units here: "data: ", the two halves of its JSON (all   *)
(* ASCII, as json.dumps writes it), and the two newlines.  A unit is named *)
(* by its place in the stream, from 1.                                     *)
(***************************************************************************)
EXTENDS Integers, Sequences

CONSTANT Events      \* how many events the answer has

ASSUME EventsAssumption == Events \in Nat \ {0}

VARIABLES
  stream,       \* reading, tail (the body is read), ended, failed
  delivered,    \* how many units the reader has been given
  buffer,       \* the units not yet split off
  yielded       \* the events the generator has yielded

streamVars == <<stream, delivered, buffer, yielded>>

FrameUnits == 5
Sent == FrameUnits * Events

Frame(p) == (p - 1) \div FrameUnits + 1
IsPrefix(p) == p % FrameUnits = 1
IsNewline(p) == p % FrameUnits \in {0, 4}

StreamInit == stream = "reading" /\ delivered = 0 /\ buffer = <<>> /\ yielded = <<>>

-----------------------------------------------------------------------------
(***************************************************************************)
(* Frames.                                                                 *)
(***************************************************************************)

\* The first blank line is at i.
BlankLine(i) ==
  /\ i \in 1 .. Len(buffer) - 1
  /\ IsNewline(buffer[i]) /\ IsNewline(buffer[i + 1])
  /\ \A j \in 1 .. i - 1 : ~(IsNewline(buffer[j]) /\ IsNewline(buffer[j + 1]))

HasFrame == \E i \in 1 .. Len(buffer) - 1 : BlankLine(i)

\* startsWith("data: "); alone and trimmed the prefix is shorter than that.
HasData(text) == Len(text) > 1 /\ IsPrefix(text[1])

\* JSON.parse takes both halves of one frame's data.
Parses(text) == Len(text) = 3 /\ text[3] = text[1] + 2

\* A text without data is passed over; data that JSON.parse rejects ends the stream.
YieldText(text, after) ==
  /\ yielded' = IF HasData(text) /\ Parses(text)
                THEN Append(yielded, Frame(text[1])) ELSE yielded
  /\ stream' = IF HasData(text) /\ ~Parses(text) THEN "failed" ELSE after

-----------------------------------------------------------------------------
(***************************************************************************)
(* The reader.                                                             *)
(***************************************************************************)

\* Mutant: what the last piece left over is forgotten.
ReadPieceAlone(n) ==
  /\ stream = "reading" /\ ~HasFrame
  /\ delivered + n <= Sent
  /\ delivered' = delivered + n
  /\ buffer' = [i \in 1 .. n |-> delivered + i]
  /\ UNCHANGED <<stream, yielded>>

\* The next piece, once all frames of the last one are yielded.
ReadPiece(n) ==
  /\ stream = "reading" /\ ~HasFrame
  /\ delivered + n <= Sent
  /\ delivered' = delivered + n
  /\ buffer' = buffer \o [i \in 1 .. n |-> delivered + i]
  /\ UNCHANGED <<stream, yielded>>

YieldFrame ==
  /\ stream = "reading"
  /\ \E i \in 1 .. Len(buffer) - 1 :
       /\ BlankLine(i)
       /\ YieldText(SubSeq(buffer, 1, i - 1), stream)
       /\ buffer' = SubSeq(buffer, i + 2, Len(buffer))
  /\ UNCHANGED delivered

\* The body is over: all of it, or a proxy or a dying server cut it short.
Closes ==
  /\ stream = "reading" /\ ~HasFrame
  /\ stream' = "tail"
  /\ UNCHANGED <<delivered, buffer, yielded>>

\* read() rejects.
Breaks ==
  /\ stream = "reading" /\ ~HasFrame
  /\ stream' = "failed"
  /\ UNCHANGED <<delivered, buffer, yielded>>

\* Mutant: what is left in the buffer is dropped.
TailDropped ==
  /\ stream = "tail"
  /\ stream' = "ended"
  /\ UNCHANGED <<delivered, buffer, yielded>>

\* trim(): what is from i to j, without the newlines around it.
IsTrimmed(i, j) ==
  /\ \A k \in 1 .. Len(buffer) : k < i \/ j < k => IsNewline(buffer[k])
  /\ i <= j => ~IsNewline(buffer[i]) /\ ~IsNewline(buffer[j])

\* The rest, trimmed: a frame that lacks its blank line, or half a frame.
ReadTail ==
  /\ stream = "tail"
  /\ \E i \in 1 .. Len(buffer) + 1, j \in 0 .. Len(buffer) :
       IsTrimmed(i, j) /\ YieldText(SubSeq(buffer, i, j), "ended")
  /\ UNCHANGED <<delivered, buffer>>

StreamNext == \/ \E n \in 1 .. Sent : ReadPiece(n)
              \/ YieldFrame \/ Closes \/ Breaks \/ ReadTail

StreamSpec == StreamInit /\ [][StreamNext]_streamVars

-----------------------------------------------------------------------------
(***************************************************************************)
(* Properties.                                                             *)
(***************************************************************************)
StreamTypeOK ==
  /\ stream \in {"reading", "tail", "ended", "failed"}
  /\ delivered \in 0 .. Sent
  /\ buffer \in Seq(1 .. Sent) /\ Len(buffer) <= delivered
  /\ yielded \in Seq(1 .. Events) /\ Len(yielded) <= Events

\* However the body is cut into pieces, the events come whole, each once and
\* in the order the server sent them (streamConversationMessage).
EventsInOrder == \A i \in 1 .. Len(yielded) : yielded[i] = i

\* An event waits for no later piece, and none that arrived is lost: every
\* frame that is here is yielded before the next read and before an error
\* ends the stream, and at its end even one without its blank line.
NothingHeldBack ==
  /\ stream = "reading" /\ ~HasFrame => Len(yielded) = delivered \div FrameUnits
  /\ stream = "failed" => Len(yielded) >= delivered \div FrameUnits
  /\ stream = "ended" => Len(yielded) = (delivered + 2) \div FrameUnits
=============================================================================
