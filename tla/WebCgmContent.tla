---------------------------- MODULE WebCgmContent ----------------------------
(***************************************************************************)
(* The passes of the WebCGM 2.1 validator over the metafile as a whole,    *)
(* over its text and its colours, and over regions, figures and splines.   *)
(* (profile_validator.cpp)                                                 *)
(*                                                                         *)
(* A pass takes the file f and the validator v, and gives the validator    *)
(* with the messages of the pass added. All but a few leave alone the      *)
(* picture index that the messages bear.                                   *)
(***************************************************************************)
EXTENDS ProfileCommands

CONSTANTS
  MaxText,         \* octets in a graphical text: 508 in the code
  MaxData,         \* octets in a message or an application datum: 2048
  MaxInRegion,     \* elements in a protection region: 128
  MaxInFigure,     \* primitives in a figure: 1024
  MaxControls      \* control points of a spline: 4096

ASSUME LimitsAssumption ==
  {MaxText, MaxData, MaxInRegion, MaxInFigure, MaxControls} \subseteq Nat

MaxRegions == 1

SegmentCodes == {BeginSegment, EndSegment} \cup {<<8, id>> : id \in 1..7}

IsElementAllowed(allowSegments, code) ==
  allowSegments \/ code \notin SegmentCodes

ValidateMetafileStructure(f, v) ==
  LET c == f.commands
      padded == {i \in DOMAIN c : \A j \in i..Len(c) : c[j].code = NoOp}
      last == IF Cardinality(padded) \in {0, Len(c)} THEN c[Len(c)] ELSE c[Min(padded) - 1]
  IN  Add(v, IF c = <<>> THEN Err("no commands")
             ELSE If(c[1].code # BeginMetafile, Err("no BEGIN METAFILE"))
                  \o If(last.code # EndMetafile, Warn("no END METAFILE")))

ValidatePictureCount(f, v) ==
  LET n == Len(All(BeginPicture, f.commands))
  IN  Add(v, CASE n = 0 -> Err("no pictures")
               [] n = 1 -> Tell("one picture")
               [] OTHER -> Err("pictures"))

VersionRemarks(c) == If(c.version \notin 1..4, Err("version")) \o If(c.version \in 3..4, Tell("version"))

ValidateVersionSupport(f, v) == Add(v, Each(VersionRemarks, All(MetafileVersion, f.commands)))

ValidateEncodingType(f, v) == Add(v, Tell("binary encoding"))

ProhibitedElements(commands, allowSegments) ==
  Each(LAMBDA c : If(~IsElementAllowed(allowSegments, c.code), Err("prohibited"))
                  \o If(c.code = Gdp, Err("GDP not allowed")),
       commands)

ValidateProhibitedElements(f, v) == Add(v, ProhibitedElements(f.commands, v.allowSegments))
-----------------------------------------------------------------------------
\* Text.

CheckTextCharacterRepertoire(text) ==
  If(text.length > 0,
     If(text.invalid, Err("UTF-8")) \o If(text.replaced, Warn("U+FFFD"))
     \o Times(text.c0 + text.c1, Err("control")))

TextRemarks(c) ==
  CASE c.code \in {Text, RestrictedText} ->
         If(c.text.length > MaxText, Err("long text")) \o CheckTextCharacterRepertoire(c.text)
    [] c.code = AppendText -> CheckTextCharacterRepertoire(c.text)
    [] OTHER -> <<>>

ValidateTextConstraints(f, v) == Add(v, Each(TextRemarks, f.commands))

MissingText == Err("APPEND TEXT missing")
MisplacedText == Err("APPEND TEXT out of place")

\* Mutant: other commands may come before the APPEND TEXT.
TextSequenceLater(s, c) ==
  LET text == c.code \in {Text, RestrictedText, AppendText}
  IN  [awaiting |-> IF text THEN ~c.final ELSE s.awaiting,
       said |-> s.said \o If(s.awaiting /\ text /\ c.code # AppendText, MissingText)
                \o If(c.code = AppendText /\ ~s.awaiting, MisplacedText)]

\* Whether an APPEND TEXT is awaited, and what has been said so far.
TextSequence(s, c) ==
  LET awaiting == s.awaiting /\ c.code = AppendText
  IN  [awaiting |-> c.code \in {Text, RestrictedText, AppendText} /\ ~c.final,
       said |-> s.said \o If(s.awaiting /\ ~awaiting, MissingText)
                \o If(c.code = AppendText /\ ~awaiting, MisplacedText)]

TextsOf(commands) ==
  LET end == Fold(TextSequence, [awaiting |-> FALSE, said |-> <<>>], commands)
  IN  end.said \o If(end.awaiting, MissingText)

ValidateTextSequencing(f, v) == Add(v, TextsOf(f.commands))

\* The control characters of an escape's data are not looked at.
DataRemarks(c) ==
  CASE c.code \in {Message, ApplicationData} ->
         If(c.text.length > MaxData, Err("long data")) \o CheckTextCharacterRepertoire(c.text)
    [] Class(c) = 6 -> If(c.text.length > MaxData, Err("long data"))
    [] OTHER -> <<>>

ValidateNonGraphicalText(f, v) == Add(v, Each(DataRemarks, f.commands))

ReportCharacterEncodingFindings(f, v) ==
  Add(v, Times(Len(f.unsupportedCharsets), Warn("unsupported designation"))
         \o If(f.illegalControls # {}, Warn("illegal controls")))
-----------------------------------------------------------------------------
\* Colours.

\* The number that the rule takes for that of COLOUR TABLE, which is 34.
PaletteElement == <<5, 33>>

IndicesOf(c) == c.start .. (c.start + c.colours - 1)

Palettes(commands) == Those(commands, LAMBDA c : c.code = PaletteElement /\ IsA(c, ColourTable))

BeyondRemarks(tables, last) ==
  Each(LAMBDA c : Times(Cardinality({n \in IndicesOf(c) : n > last}), Warn("beyond the maximum")), tables)

\* All or none of the indices up to the first maximum that is declared.
ValidateColorTable(f, v) ==
  LET maxima == All(MaximumColourIndex, f.commands)
      declared == maxima # <<>>
      last == maxima[1].maximum
      tables == Palettes(f.commands)
      defined == UNION {IndicesOf(tables[i]) : i \in DOMAIN tables}
  IN  Add(v, If(declared, Tell("maximum") \o BeyondRemarks(tables, last))
             \o IF ~declared \/ last < 0 THEN If(tables # <<>>, Warn("no maximum"))
                ELSE IF tables = <<>> THEN Tell("no palette")
                ELSE IF 0..last \subseteq defined THEN Tell("whole palette") ELSE Err("all or none"))

ColourCodes == {LineColour, FillColour, TextColour, EdgeColour}

Colourings(commands) == Those(commands, LAMBDA c : c.code \in ColourCodes)
Indexed(uses) == Those(uses, LAMBDA c : c.indexed)

ValidateEnhancedColor(f, v) ==
  LET uses == Colourings(f.commands)
      kinds == {uses[i].indexed : i \in DOMAIN uses}
  IN  Add(v, Times(Len(Indexed(uses)), Tell("indexed colour"))
             \o If(kinds = BOOLEAN, Warn("colours mixed")) \o If(uses # <<>>, Tell("colours")))
-----------------------------------------------------------------------------
\* Regions, figures, tiles and splines.

RegionElements(s, c) ==
  CASE c.code = BeginRegion ->
         [begun |-> s.begun + 1, inside |-> TRUE, elements |-> 0,
          said |-> s.said \o If(s.begun + 1 > MaxRegions, Err("regions")) \o If(c.region # 1, Err("region index"))]
    [] c.code = EndRegion ->
         [s EXCEPT !.inside = FALSE, !.elements = 0,
                   !.said = @ \o If(s.elements > MaxInRegion, Err("large region"))]
    [] OTHER -> IF s.inside /\ Class(c) # 0 THEN [s EXCEPT !.elements = @ + 1] ELSE s

RegionsOf(commands) ==
  Fold(RegionElements, [begun |-> 0, inside |-> FALSE, elements |-> 0, said |-> <<>>], commands).said

ValidateProtectionRegions(f, v) == Add(v, RegionsOf(f.commands))

\* Mutant: attributes count as primitives.
FigureElements(s, c) ==
  CASE c.code = BeginFigure -> [s EXCEPT !.inside = TRUE, !.primitives = 0]
    [] c.code = EndFigure ->
         [Add(s, If(s.primitives > MaxInFigure, Err("large figure"))) EXCEPT !.inside = FALSE]
    [] c.code = BeginPicture -> [s EXCEPT !.picture = @ + 1]
    [] OTHER -> IF s.inside /\ Class(c) \in 4..5 THEN [s EXCEPT !.primitives = @ + 1] ELSE s

\* Adds the pictures to the index an earlier pass has left.
FigurePrimitives(s, c) ==
  CASE c.code = BeginFigure -> [s EXCEPT !.inside = TRUE, !.primitives = 0]
    [] c.code = EndFigure ->
         [Add(s, If(s.primitives > MaxInFigure, Err("large figure"))) EXCEPT !.inside = FALSE]
    [] c.code = BeginPicture -> [s EXCEPT !.picture = @ + 1]
    [] OTHER -> IF s.inside /\ Class(c) = 4 THEN [s EXCEPT !.primitives = @ + 1] ELSE s

FiguresOf(commands, picture) ==
  Fold(FigurePrimitives, [messages |-> <<>>, picture |-> picture, inside |-> FALSE, primitives |-> 0], commands)

ValidateFigureComplexity(f, v) == AddAll(v, FiguresOf(f.commands, v.picture))

TileRemarks(c) ==
  If(c.code \in {BitonalTile, Tile} /\ c.compression \notin {5, 6, 7, 9},
     IF c.compression \in 0..2 THEN Warn("old compression") ELSE Err("compression"))

ValidateTileCompression(f, v) == Add(v, Each(TileRemarks, f.commands))

\* Knots are integers here: those the tolerance makes equal are equal.
KnotsInOrder(s) ==
  LET n == Len(s.knots)  lower == s.knots[s.order]  upper == s.knots[s.controls + 1]
  IN  /\ s.order > 0 /\ s.controls > 0 /\ n = s.order + s.controls
      /\ \A i \in 1..(n - 1) : s.knots[i] <= s.knots[i + 1]
      /\ \A i \in 1..(n - s.order) : s.knots[i] # s.knots[i + s.order]
      /\ lower < upper
      /\ s.from \in lower..upper /\ s.to \in lower..upper /\ s.from <= s.to

Clamped(s) ==
  LET n == Len(s.knots)
  IN  \A i \in 1..s.order : s.knots[i] = s.knots[1] /\ s.knots[n + 1 - i] = s.knots[n]

SplineRemarks(s) ==
  If(~KnotsInOrder(s), Err("knots")) \o If(s.order # 4, Warn("not cubic"))
  \o If(s.controls > MaxControls, Warn("control points"))
  \o If(s.order > 0 /\ Len(s.knots) >= 2 * s.order /\ ~Clamped(s), Warn("not clamped"))

ValidateNurbsKnotVectors(f, v) ==
  AddAt(v, f.commands, LAMBDA c : c.code \in {Spline, RationalSpline}, SplineRemarks)

ValidateConicArcFallback(f, v) ==
  Add(v, If(\E i \in DOMAIN f.commands : f.commands[i].code \in {HyperbolicArc, ParabolicArc},
            Tell("conic arcs")))

\* The picture index stays with the last GDP.
ValidateGeneralizedDrawingPrimitives(f, v) ==
  Add(AddAt(v, f.commands, LAMBDA c : c.code = Gdp, LAMBDA c : Err("GDP")),
      If(All(Gdp, f.commands) # <<>>, Tell("GDP ignored")))

ValidateExternalElements(f, v) ==
  Add(AddAt(v, f.commands, LAMBDA c : Class(c) = 7, LAMBDA c : Err("external")),
      If(\E i \in DOMAIN f.commands : Class(f.commands[i]) = 7, Tell("external ignored")))
=============================================================================
