--------------------------- MODULE ConverterState ---------------------------
(***************************************************************************)
(* The state of an SVGConverter, the SVG text it writes and how it reads   *)
(* a metafile. A file is read lazily: a command nobody asked for yet is    *)
(* any member of Alphabet that Follows, so a run explores every file an    *)
(* instance allows. A later conversion by the same converter reads the     *)
(* same file again.                                                        *)
(*                                                                         *)
(* Coordinates, text and colours are known by the index of the command     *)
(* that carries them, so two commands never carry the same ones; a clip    *)
(* rectangle is a value, because the converter compares rectangles.        *)
(***************************************************************************)
EXTENDS Integers, Sequences, FiniteSets

CONSTANTS
  Alphabet,     \* the commands a file is made of, records with a field op
  Follows(_, _), \* whether a file that begins so may go on with a command;
                \* an instance bounds the length of its files here
  MaxRuns,      \* bound on the conversions one converter makes
  Rects,        \* clip rectangles ...
  Degenerate,   \* ... and those without a positive width and height
  Regions,      \* indices of protection regions
  Patterns,     \* indices of PATTERN TABLE, PATTERN INDEX
  Symbols,      \* symbols of the libraries of SYMBOL LIBRARY LIST
  Names,        \* words of the identifiers of application structures
  Compat,       \* compatibility_mode_
  Strict        \* segment_policy_ = StrictWebCgm

(***************************************************************************)
(* The SVG text the converter is writing: what matters of svg_output_ and  *)
(* of defs_open_, the flag that says an unclosed <defs> ends that text.    *)
(*                                                                         *)
(*   tags       the open elements, outermost first                         *)
(*   defsOpen   the converter's defs_open_ (not part of the text)          *)
(*   malformed  an end tag was written that does not match the last        *)
(*              start tag: the text is no longer well-formed XML           *)
(*   ids        every id written on an element                             *)
(*   reused     some id was written twice                                  *)
(*   defs       the definitions, a set of [id, content]                    *)
(*   marks      the drawn elements in document (that is, painting) order   *)
(*                                                                         *)
(* An id is a word, a number and the number its letters stand for:         *)
(* "clipPath2" is <<"clipPath", 2, 0>>, "hot-150b" is <<"hot-", 150, 2>>.  *)
(***************************************************************************)
NoId == <<"none", 0, 0>>

(***************************************************************************)
(* A drawn element: at is the command that wrote it, of the commands whose *)
(* geometry or text it shows, clip, fill and href the ids it refers to,    *)
(* colour its text colour and inside the elements it was written in.       *)
(***************************************************************************)
Mark(at, of, clip, fill, href, colour) ==
  [at |-> at, of |-> of, clip |-> clip, fill |-> fill, href |-> href,
   colour |-> colour, inside |-> <<>>]

\* The text a conversion starts from. Only the text is cleared: the flag
\* keeps the value it had.
FreshDoc(defsOpen) ==
  [tags |-> <<"svg">>, defsOpen |-> defsOpen, malformed |-> FALSE,
   ids |-> {}, reused |-> FALSE, defs |-> {}, marks |-> <<>>]

Open(d, tag) == [d EXCEPT !.tags = Append(@, tag)]

Close(d, tag) ==
  IF d.tags # <<>> /\ d.tags[Len(d.tags)] = tag
  THEN [d EXCEPT !.tags = SubSeq(@, 1, Len(@) - 1)]
  ELSE [d EXCEPT !.malformed = TRUE]

OpenDefs(d) ==
  IF d.defsOpen THEN d ELSE [Open(d, "defs") EXCEPT !.defsOpen = TRUE]

CloseOpenDefs(d) ==
  IF d.defsOpen THEN [Close(d, "defs") EXCEPT !.defsOpen = FALSE] ELSE d

WriteId(d, id) == [d EXCEPT !.ids = @ \cup {id}, !.reused = @ \/ id \in d.ids]

\* A definition is written inside <defs>, which is opened when needed and
\* stays open for the next one.
Define(d, id, content) ==
  [WriteId(OpenDefs(d), id) EXCEPT
     !.defs = @ \cup {[id |-> id, content |-> content]}]

Draw(d, ms) ==
  [d EXCEPT !.marks = @ \o [i \in DOMAIN ms |-> [ms[i] EXCEPT !.inside = d.tags]]]

DefinedIds(d) == {def.id : def \in d.defs}

\* What an id stands for in the document written so far.
Definition(d, id) == (CHOOSE def \in d.defs : def.id = id).content

Rendered(m) == \A i \in DOMAIN m.inside : m.inside[i] # "defs"

(* The commands, with the operands that decide what a handler does.        *)
WithoutOperands ==
  {"POLYLINE", "DISJOINT_POLYLINE", "POLYMARKER", "POLYGON", "POLYGON_SET",
   "RECTANGLE", "CIRCLE", "CIRCULAR_ARC_3_POINT", "CIRCULAR_ARC_3_POINT_CLOSE",
   "CIRCULAR_ARC_CENTRE", "CIRCULAR_ARC_CENTRE_REVERSED",
   "CIRCULAR_ARC_CENTRE_CLOSE", "ELLIPSE", "ELLIPTICAL_ARC",
   "ELLIPTICAL_ARC_CLOSE", "HYPERBOLIC_ARC", "PARABOLIC_ARC",
   "NON_UNIFORM_B_SPLINE", "NON_UNIFORM_RATIONAL_B_SPLINE", "POLYBEZIER",
   "BEGIN PICTURE", "BEGIN PICTURE BODY", "END PICTURE", "SEGMENT",
   "END PROTECTION REGION", "BEGIN FIGURE", "CONNECTING EDGE", "END FIGURE",
   "PATTERN SIZE", "FILL REFERENCE POINT", "TEXT COLOUR", "BEGIN APS BODY",
   "END APS"}

Words == {"none", "clipPath", "cgm-pattern-", "symbol-"} \cup Symbols \cup Names
Identifiers == Words \X Nat \X Nat

Commands ==
       [op : WithoutOperands]
  \cup [op : {"CLIP RECTANGLE"}, rect : Rects]
  \cup [op : {"CLIP INDICATOR"}, on : BOOLEAN]
  \cup [op : {"BEGIN PROTECTION REGION"}, rid : Regions]
  \cup [op : {"PROTECTION REGION INDICATOR"}, rid : Regions, on : BOOLEAN]
  \cup [op : {"INTERIOR STYLE"}, style : {"hollow", "solid", "pattern"}]
  \cup [op : {"PATTERN INDEX"}, index : Patterns]
  \cup [op : {"PATTERN TABLE"}, index : Patterns, valid : BOOLEAN]
  \cup [op : {"TEXT", "RESTRICTED TEXT", "APPEND TEXT"}, final : BOOLEAN]
  \cup [op : {"BEGIN APS"}, id : Identifiers]
  \cup [op : {"APS ATTRIBUTE"}, type : {"linkuri", "other"}]
  \cup [op : {"SYMBOL LIBRARY LIST"}, names : Seq(Symbols)]
  \cup [op : {"POLYSYMBOL"}, index : Int]
  \cup [op : {"BACKGROUND COLOUR"}, colour : Nat, quirk : BOOLEAN]
  \cup [op : {"COLOUR TABLE"}, colour : Nat]

ASSUME AlphabetAssumption == Alphabet \subseteq Commands
ASSUME BoundsAssumption == MaxRuns \in Nat
ASSUME FlagsAssumption == Compat \in BOOLEAN /\ Strict \in BOOLEAN
ASSUME IndexAssumption ==
  /\ Regions \subseteq Nat
  /\ Patterns \subseteq Nat /\ 1 \in Patterns

\* The id of a symbol begins with "cgm-symbol-", unlike those of clips, patterns
\* and placements.
ASSUME SymbolAssumption == Symbols \cap {"none", "clipPath", "cgm-pattern-", "symbol-"} = {}

VARIABLES
  phase,    \* "idle", "converting", "done" or "failed" (an exception left convert)
  runs,     \* conversions started
  file,     \* the commands read so far, by any conversion
  complete, \* whether a conversion has met the end of the file
  cursor,   \* current_command_index_ + 1: how many of them this one has read
  doc,      \* svg_output_ and defs_open_
  picture,  \* current_picture_index_ and the background colour
  clip,     \* CLIP RECTANGLE, CLIP INDICATOR and the clipPaths made for them
  region,   \* protection regions and the clipPaths made for them
  figure,   \* the open FIGURE
  fill,     \* interior style, pattern tables and the patterns made for them
  text,     \* pending text and the text colour
  aps,      \* open application structures
  symbols   \* symbol library, the symbols defined and how many were placed

vars == <<phase, runs, file, complete, cursor, doc, picture, clip, region,
          figure, fill, text, aps, symbols>>

NoRect == "no rectangle"

-----------------------------------------------------------------------------
(* What resetPictureState sets, by group.                                  *)

FreshClip(made) ==
  [rect |-> NoRect, enabled |-> FALSE, ref |-> NoId,
   cached |-> [r \in Rects |-> NoId], made |-> made]

\* Defect: the active region is reset to 0 instead of -1.
FreshRegionAtZero ==
  [capturing |-> FALSE, indicator |-> 1, active |-> 0, paths |-> <<>>,
   shapes |-> [r \in Regions |-> <<>>], cached |-> [r \in Regions |-> NoId]]

FreshRegion ==
  [capturing |-> FALSE, indicator |-> 1, active |-> -1, paths |-> <<>>,
   shapes |-> [r \in Regions |-> <<>>], cached |-> [r \in Regions |-> NoId]]

FreshFill(made) ==
  [style |-> "hollow", index |-> 1, last |-> 1,
   tables |-> [p \in Patterns |-> [at |-> 0, valid |-> TRUE]],
   sizes |-> [p \in Patterns |-> 0], activeSize |-> 0, reference |-> 0,
   cached |-> [p \in Patterns |-> NoId], made |-> made]

FreshText == [pending |-> <<>>, colour |-> 0]

NoFigure == [open |-> FALSE, subpaths |-> <<>>, connect |-> FALSE]

FreshAps(ids) == [stack |-> <<>>, attributes |-> {}, ids |-> ids]

NoSymbols == [libraries |-> <<>>, ids |-> [s \in Symbols |-> NoId],
              emitted |-> {}, placed |-> 0]

-----------------------------------------------------------------------------
(* Reading a command.                                                      *)

\* The loop of convert takes the next command of the file.
Reads(c) ==
  /\ phase = "converting"
  /\ cursor' = cursor + 1
  /\ IF cursor < Len(file)
     THEN c = file[cursor + 1] /\ UNCHANGED file
     ELSE ~complete /\ Follows(file, c) /\ file' = Append(file, c)
  /\ UNCHANGED complete

\* The command being processed, as the data it carries.
Here == cursor + 1

\* A handler returned: the conversion goes on.
Continues == UNCHANGED <<phase, runs>>

\* A handler threw: the exception leaves convert().
Throws == phase' = "failed" /\ UNCHANGED runs

-----------------------------------------------------------------------------
(* Pending text. Each segment remembers the colour in force when it was    *)
(* read; flushPendingText writes them without a clip-path.                 *)

Segment(at) == [at |-> at, colour |-> text.colour]

\* Defect: a segment takes the colour in force when it is flushed.
TextMarksInLastColour(segments) ==
  [i \in DOMAIN segments |->
     Mark(Here, <<segments[i].at>>, NoId, NoId, NoId, text.colour)]

TextMarks(segments) ==
  [i \in DOMAIN segments |->
     Mark(Here, <<segments[i].at>>, NoId, NoId, NoId, segments[i].colour)]

Flush(d) == Draw(d, TextMarks(text.pending))

NoPending == [text EXCEPT !.pending = <<>>]

\* processCommand: any command that is neither text nor an attribute first
\* flushes the pending text ...
FlushesText == doc' = Flush(doc) /\ text' = NoPending

\* ... and a graphical primitive other than text then closes <defs>.
PrimitiveDoc == CloseOpenDefs(Flush(doc))
=============================================================================
