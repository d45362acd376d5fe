-------------------------- MODULE DocumentMetrics --------------------------
(***************************************************************************)
(* SVGConverter::recomputeDocumentMetrics: before anything is drawn, the   *)
(* whole file is read for its extent, background and width modes, then for *)
(* the bounds of what it draws, then for a view the file asks for; from    *)
(* these follow the part of the sheet that is shown and the viewBox.       *)
(*                                                                         *)
(* Lengths and coordinates are integers in hundredths of a VDC unit, so    *)
(* that margins of two and eight percent and half widths are exact.  A     *)
(* command is a record with its kind and parameters; a colour is given by  *)
(* its red, green and blue or as the index of one.                         *)
(***************************************************************************)
EXTENDS Integers, Sequences, FiniteSetsExt

VARIABLES
  file,      \* commands, and how colours are kept
  plan,      \* the options of this conversion
  phase,     \* which walk over the commands is under way
  next,      \* the command it has come to
  metrics,   \* what the walks have settled
  scan       \* the attributes in force while bounds are measured

sheet == <<file, plan, phase, next, metrics, scan>>

Unit == 100
Ahead == next <= Len(file.commands)
Command == file.commands[next]
White == <<255, 255, 255>>
Black == <<0, 0, 0>>
Direct(rgb) == [indexed |-> FALSE, index |-> 0, rgb |-> rgb]
Indexed(i) == [indexed |-> TRUE, index |-> i, rgb |-> Black]
Abs(x) == IF x < 0 THEN -x ELSE x
Percent(p, length) == (p * length) \div 100

----------------------------------------------------------------------------
\* Boxes

Box(points) == [left |-> Min({p[1] : p \in points}), bottom |-> Min({p[2] : p \in points}),
                right |-> Max({p[1] : p \in points}), top |-> Max({p[2] : p \in points})]
Corners(box) == {<<box.left, box.bottom>>, <<box.right, box.top>>}
Join(b1, b2) == Box(Corners(b1) \cup Corners(b2))
Meet(b1, b2) == [left |-> Max({b1.left, b2.left}), bottom |-> Max({b1.bottom, b2.bottom}),
                 right |-> Min({b1.right, b2.right}), top |-> Min({b1.top, b2.top})]
Grown(box, x, y) == [left |-> box.left - x, bottom |-> box.bottom - y,
                     right |-> box.right + x, top |-> box.top + y]
Width(box) == box.right - box.left
Height(box) == box.top - box.bottom
Longest(box) == Max({Width(box), Height(box)})
Within(b1, b2) == /\ b2.left <= b1.left /\ b1.right <= b2.right
                  /\ b2.bottom <= b1.bottom /\ b1.top <= b2.top
Nowhere == Box({<<0, 0>>})

----------------------------------------------------------------------------
\* Pass 1: the picture descriptors, wherever they stand.

Undetermined ==
  [background |-> White, given |-> FALSE, extent |-> <<<<0, 0>>, <<32767 * Unit, 32767 * Unit>>>>,
   lineMode |-> "abs", edgeMode |-> "abs",
   drawn |-> FALSE, bounds |-> Nowhere, complete |-> TRUE,
   view |-> [active |-> FALSE, box |-> Nowhere], adopted |-> FALSE,
   fitted |-> FALSE, warned |-> FALSE, shown |-> Nowhere, viewBox |-> Nowhere]

ScanDescriptor ==
  /\ phase = "descriptors" /\ Ahead
  /\ metrics' = CASE Command.kind = "VdcExtent" -> [metrics EXCEPT !.extent = Command.corners]
                  [] Command.kind = "Background" -> [metrics EXCEPT !.background = Command.colour.rgb,
                                                                                !.given = TRUE]
                  [] Command.kind = "LineWidthMode" -> [metrics EXCEPT !.lineMode = Command.mode]
                  [] Command.kind = "EdgeWidthMode" -> [metrics EXCEPT !.edgeMode = Command.mode]
                  [] OTHER -> metrics
  /\ next' = next + 1
  /\ UNCHANGED <<file, plan, phase, scan>>

Picture == Box({metrics.extent[1], metrics.extent[2]})

InitialScan ==
  [line |-> Black, fill |-> Black, edge |-> Black, text |-> Black,
   interior |-> 0, edgeVisible |-> FALSE,
   palette |-> [i \in {0, 1} |-> IF i = 0 THEN metrics.background ELSE Black],
   lineWidth |-> Unit, edgeWidth |-> Unit, height |-> Percent(1, Longest(Picture)),
   align |-> 0, inTiles |-> FALSE, tilesMeasured |-> FALSE]

EndDescriptors ==
  /\ phase = "descriptors" /\ ~Ahead
  /\ phase' = "measure" /\ next' = 1 /\ scan' = InitialScan
  /\ UNCHANGED <<file, plan, metrics>>

----------------------------------------------------------------------------
\* Pass 2: the bounds of everything that leaves visible ink.

Resolve(palette, colour) == IF ~colour.indexed THEN colour.rgb
                            ELSE IF colour.index \in DOMAIN palette THEN palette[colour.index] ELSE Black
IsBackground(colour) == colour = metrics.background

NominalWidth == Max({Longest(Picture) \div 32768, Unit \div 10})
WidthInVdc(raw, mode) == IF mode = "abs" THEN Abs(raw) ELSE (Abs(raw) * NominalWidth) \div Unit

\* The kinds the code tells apart by element id.
Areas == {"Polygon", "Circle"}
Measured == {"Polyline", "Arc", "Text", "CellArray"} \cup Areas
Primitives == Measured \cup {"HyperbolicArc", "Symbol", "Tile", "BitonalTile"}

Filled == scan.interior \notin {0, 4} /\ ~IsBackground(scan.fill)
Edged == (scan.edgeVisible \/ scan.interior = 0) /\ ~IsBackground(scan.edge)
DrawsSomething(kind) == CASE kind = "Text" -> ~IsBackground(scan.text)
                          [] kind \in Areas -> Filled \/ Edged
                          [] kind = "CellArray" -> TRUE
                          [] OTHER -> ~IsBackground(scan.line)

\* Mutant: the outline of a hollow area is taken for none.
StrokePadOfEdges(kind) == CASE kind \in {"Text", "CellArray"} -> 0
                            [] kind \in Areas -> IF scan.edgeVisible THEN scan.edgeWidth \div 2 ELSE 0
                            [] OTHER -> scan.lineWidth \div 2
StrokePad(kind) == CASE kind \in {"Text", "CellArray"} -> 0
                     [] kind \in Areas -> IF scan.edgeVisible \/ scan.interior = 0
                                          THEN scan.edgeWidth \div 2 ELSE 0
                     [] OTHER -> scan.lineWidth \div 2

\* Text is estimated: 0.6 of its height for a character, to the side its
\* alignment says, and a fifth more than its height up and down.
TextBox(c) ==
  LET width == (6 * scan.height * c.characters) \div 10
      start == CASE scan.align = 2 -> -(width \div 2) [] scan.align = 3 -> -width [] OTHER -> 0
      side == IF metrics.extent[2][1] >= metrics.extent[1][1] THEN 1 ELSE -1
      tall == Percent(120, scan.height)
  IN Box({<<c.at[1] + side * start, c.at[2] - tall>>, <<c.at[1] + side * (start + width), c.at[2] + tall>>})

\* P and Q are opposite corners of a cell array, R is a third.
FourCorners(c) == {c.p, c.q, c.r, <<c.p[1] + c.q[1] - c.r[1], c.p[2] + c.q[2] - c.r[2]>>}
Around(c) == Grown(Box({c.centre}), c.radius, c.radius)

Extent(c) == CASE c.kind = "Text" -> TextBox(c)
               [] c.kind = "CellArray" -> Box(FourCorners(c))
               [] c.kind \in {"Circle", "Arc"} -> Around(c)
               [] OTHER -> Box({c.points[i] : i \in DOMAIN c.points})

\* updateBounds
UpdateBounds(box) == [metrics EXCEPT !.drawn = TRUE,
                                     !.bounds = IF metrics.drawn THEN Join(metrics.bounds, box) ELSE box]

Measuring(kinds) == phase = "measure" /\ Ahead /\ Command.kind \in kinds
Measures == next' = next + 1 /\ UNCHANGED <<file, plan, phase>>

MeasureSegmentCopy ==
  /\ Measuring({"CopySegment"})
  /\ metrics' = [metrics EXCEPT !.complete = FALSE]
  /\ Measures /\ UNCHANGED scan

LeaveTileArray ==
  /\ Measuring({"EndTileArray"})
  /\ scan' = [scan EXCEPT !.inTiles = FALSE]
  /\ Measures /\ UNCHANGED metrics

PathLength(c) == Abs(c.cellWidth) * Max({1, c.across}) * Max({1, c.cellsAcross})
LineLength(c) == Abs(c.cellHeight) * Max({1, c.down}) * Max({1, c.cellsDown})
Directions == <<<<1, 0>>, <<0, 1>>, <<-1, 0>>, <<0, -1>>>>
TileArrayBox(c) ==
  LET path == Directions[(c.path % 4) + 1]
  IN Box({<<c.at[1] + path[1] * along - path[2] * side, c.at[2] + path[2] * along + path[1] * side>> :
            along \in {0, PathLength(c)}, side \in {-LineLength(c), LineLength(c)}})

MeasureTileArray ==
  /\ Measuring({"BeginTileArray"})
  /\ LET measurable == PathLength(Command) > 0 /\ LineLength(Command) > 0
     IN /\ scan' = [scan EXCEPT !.inTiles = TRUE, !.tilesMeasured = measurable]
        /\ metrics' = IF measurable THEN UpdateBounds(TileArrayBox(Command))
                      ELSE [metrics EXCEPT !.complete = FALSE]
  /\ Measures

Attributes == {"LineColour", "FillColour", "EdgeColour", "TextColour", "InteriorStyle", "EdgeVisibility",
               "ColourTable", "CharacterHeight", "TextAlignment", "LineWidth", "EdgeWidth"}
WithEntry(palette, index, rgb) == [i \in DOMAIN palette \cup {index} |-> IF i = index THEN rgb ELSE palette[i]]
Set(style, c, lineMode, edgeMode) ==
  CASE c.kind = "LineColour" -> [style EXCEPT !.line = Resolve(style.palette, c.colour)]
    [] c.kind = "FillColour" -> [style EXCEPT !.fill = Resolve(style.palette, c.colour)]
    [] c.kind = "EdgeColour" -> [style EXCEPT !.edge = Resolve(style.palette, c.colour)]
    [] c.kind = "TextColour" -> [style EXCEPT !.text = Resolve(style.palette, c.colour)]
    [] c.kind = "InteriorStyle" -> [style EXCEPT !.interior = c.style]
    [] c.kind = "EdgeVisibility" -> [style EXCEPT !.edgeVisible = c.visible]
    [] c.kind = "ColourTable" -> [style EXCEPT !.palette = WithEntry(@, c.index, c.rgb)]
    [] c.kind = "CharacterHeight" -> [style EXCEPT !.height = Abs(c.height)]
    [] c.kind = "TextAlignment" -> [style EXCEPT !.align = c.align]
    [] c.kind = "LineWidth" -> [style EXCEPT !.lineWidth = WidthInVdc(c.width, lineMode)]
    [] OTHER -> [style EXCEPT !.edgeWidth = WidthInVdc(c.width, edgeMode)]

MeasureAttribute ==
  /\ Measuring(Attributes)
  /\ scan' = Set(scan, Command, metrics.lineMode, metrics.edgeMode)
  /\ Measures /\ UNCHANGED metrics

Counted == scan.inTiles /\ scan.tilesMeasured
MeasurePrimitive ==
  /\ Measuring(Primitives)
  /\ metrics' = IF Counted \/ ~DrawsSomething(Command.kind) THEN metrics
                ELSE IF Command.kind \in Measured
                     THEN UpdateBounds(Grown(Extent(Command), StrokePad(Command.kind), StrokePad(Command.kind)))
                     ELSE [metrics EXCEPT !.complete = FALSE]
  /\ Measures /\ UNCHANGED scan

PassOver ==
  /\ phase = "measure" /\ Ahead
  /\ Command.kind \notin Primitives \cup Attributes \cup {"CopySegment", "BeginTileArray", "EndTileArray"}
  /\ Measures /\ UNCHANGED <<metrics, scan>>

EndMeasure ==
  /\ phase = "measure" /\ ~Ahead
  /\ phase' = "views" /\ next' = 1
  /\ UNCHANGED <<file, plan, metrics, scan>>

----------------------------------------------------------------------------
\* Bounds without width or height are given one unit; an extent without
\* either is replaced by the bounds.
Widened(box) == [box EXCEPT !.right = IF Width(box) = 0 THEN @ + Unit ELSE @,
                            !.top = IF Height(box) = 0 THEN @ + Unit ELSE @]
Bounds == Widened(IF metrics.drawn THEN metrics.bounds ELSE Picture)
Page == IF Width(Picture) = 0 \/ Height(Picture) = 0 THEN Bounds ELSE Picture

\* Pass 3: the first view context of the file that can be used.

\* ApsGeometry: the part of the sheet the context asks for, if there is any.
Clamped(corners) == Meet(Box({corners[1], corners[2]}), Page)
Usable(corners) == Width(Clamped(corners)) > 0 /\ Height(Clamped(corners)) > 0

ReadViewContext ==
  /\ phase = "views" /\ Ahead /\ ~metrics.view.active
  /\ metrics' = IF Command.kind = "ViewContext" /\ Usable(Command.corners)
                THEN [metrics EXCEPT !.view = [active |-> TRUE, box |-> Clamped(Command.corners)]]
                ELSE metrics
  /\ next' = next + 1
  /\ UNCHANGED <<file, plan, phase, scan>>

----------------------------------------------------------------------------
\* The part of the sheet that is shown.

AllowAutofit == plan.profile # "WebCGM21"
Adopted == plan.adoptView /\ metrics.view.active
Sparse == /\ 0 < Width(Bounds) /\ 5 * Width(Bounds) < Width(Page)
          /\ 0 < Height(Bounds) /\ 5 * Height(Bounds) < Height(Page)
Autofits == AllowAutofit /\ metrics.drawn /\ metrics.complete /\ ~Adopted /\ Sparse
AskedFor == plan.fit = "yes" \/ (plan.fit = "default" /\ AllowAutofit)
FitsContent == AskedFor /\ metrics.drawn /\ metrics.complete /\ ~Adopted
Warns == AskedFor /\ metrics.drawn /\ ~metrics.complete /\ ~Adopted /\ plan.fit # "default"

LeastMargin == Max({Unit, Percent(2, Longest(Bounds))})
AutofitMargin(length) == Max({Percent(8, length), LeastMargin})
ContentMargin == Percent(2, Longest(Bounds))
Fitted == IF FitsContent THEN Grown(Bounds, ContentMargin, ContentMargin)
          ELSE Grown(Bounds, AutofitMargin(Width(Bounds)), AutofitMargin(Height(Bounds)))
Shown == IF Autofits \/ FitsContent THEN Meet(Fitted, Page) ELSE Page
\* In the picture's own units, from the top left corner.
ViewBox(part) == [left |-> part.left - Shown.left, bottom |-> Shown.top - part.top,
                  right |-> part.right - Shown.left, top |-> Shown.top - part.bottom]

FitPicture ==
  /\ phase = "views" /\ (~Ahead \/ metrics.view.active)
  /\ metrics' = [metrics EXCEPT !.adopted = Adopted, !.fitted = Autofits \/ FitsContent,
                                !.warned = @ \/ Warns,
                                !.shown = Shown, !.viewBox = ViewBox(IF Adopted THEN metrics.view.box ELSE Shown)]
  /\ phase' = "convert" /\ next' = 1
  /\ UNCHANGED <<file, plan, scan>>
=============================================================================
