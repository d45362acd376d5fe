------------------------------ MODULE TextRuns ------------------------------
(***************************************************************************)
(* TEXT, RESTRICTED TEXT and APPEND TEXT. A text that is not final stays   *)
(* pending, so that attributes may change before the text appended to it;  *)
(* every segment is written with the attributes in force when it was read. *)
(* Like every primitive these close <defs> first, but they do not flush    *)
(* the pending text on the way to their handler.                           *)
(***************************************************************************)
EXTENDS ConverterState

TextColour ==
  \E c \in Alphabet :
    /\ c.op = "TEXT COLOUR"
    /\ Reads(c)
    /\ text' = [text EXCEPT !.colour = Here]
    /\ Continues
    /\ UNCHANGED <<doc, picture, clip, region, figure, fill, aps, symbols>>

\* The segments pending once this command's own has joined them.
Pends(d, segments, final) ==
  IF final
  THEN doc' = Draw(d, TextMarks(segments)) /\ text' = NoPending
  ELSE doc' = d /\ text' = [text EXCEPT !.pending = segments]

Text ==
  \E c \in Alphabet :
    /\ c.op = "TEXT"
    /\ Reads(c)
    /\ Pends(Flush(CloseOpenDefs(doc)), <<Segment(Here)>>, c.final)
    /\ Continues
    /\ UNCHANGED <<picture, clip, region, figure, fill, aps, symbols>>

\* Defect: it overtakes the pending text.
RestrictedTextFirst ==
  \E c \in Alphabet :
    /\ c.op = "RESTRICTED TEXT"
    /\ Reads(c)
    /\ IF c.final
       THEN /\ doc' = Draw(CloseOpenDefs(doc),
                          <<Mark(Here, <<Here>>, clip.ref, NoId, NoId, text.colour)>>)
            /\ UNCHANGED text
       ELSE Pends(Flush(CloseOpenDefs(doc)), <<Segment(Here)>>, FALSE)
    /\ Continues
    /\ UNCHANGED <<picture, clip, region, figure, fill, aps, symbols>>

\* A final RESTRICTED TEXT is written at once, and with the clip.
RestrictedText ==
  \E c \in Alphabet :
    /\ c.op = "RESTRICTED TEXT"
    /\ Reads(c)
    /\ LET d == Flush(CloseOpenDefs(doc)) IN
       IF c.final
       THEN /\ doc' = Draw(d, <<Mark(Here, <<Here>>, clip.ref, NoId, NoId, text.colour)>>)
            /\ text' = NoPending
       ELSE Pends(d, <<Segment(Here)>>, FALSE)
    /\ Continues
    /\ UNCHANGED <<picture, clip, region, figure, fill, aps, symbols>>

\* With nothing pending it starts a text of its own.
AppendText ==
  \E c \in Alphabet :
    /\ c.op = "APPEND TEXT"
    /\ Reads(c)
    /\ Pends(CloseOpenDefs(doc), Append(text.pending, Segment(Here)), c.final)
    /\ Continues
    /\ UNCHANGED <<picture, clip, region, figure, fill, aps, symbols>>
=============================================================================
