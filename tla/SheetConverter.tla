--------------------------- MODULE SheetConverter ---------------------------
(***************************************************************************)
(* A converter takes a file to a sheet: its metrics are computed when      *)
(* something they depend on has changed, then the commands of the picture  *)
(* asked for are drawn, after all that comes before that picture. The      *)
(* same converter may convert again, with other options.                   *)
(***************************************************************************)
EXTENDS TileImages, Iteration

CONSTANTS
  Files,           \* the files there are
  PlansFor(_),     \* the options a file is converted with
  MaxRuns          \* how often a converter converts

VARIABLES
  drawing,         \* style, tile array and what has been written
  runs             \* conversions begun

vars == <<sheet, drawing, runs>>

\* SVGConverter's options, as far as a sheet depends on them.
Plan == [profile : {"WebCGM21", "S1000D", "S1000DLegacy", "ATA2200", "StandardSVG", "Custom"},
         fit : {"no", "yes", "default"}, adoptView : BOOLEAN, compat : BOOLEAN, picture : Int]
ASSUME PlansAssumption == \A f \in Files : PlansFor(f) \subseteq Plan
\* CGMFile keeps its commands in a vector.
ASSUME FilesAssumption ==
  \A f \in Files : f.commands \in Seq({f.commands[i] : i \in DOMAIN f.commands})

----------------------------------------------------------------------------
\* Which commands belong to the picture that was asked for

\* CGMFile::getPictureRanges: a picture that is begun and ended.
IsBegin(n) == file.commands[n].kind = "BeginPicture"
IsEnd(n) == file.commands[n].kind = "EndPicture"
Ends == {n \in DOMAIN file.commands :
           /\ IsEnd(n)
           /\ \E b \in 1 .. n - 1 : IsBegin(b) /\ \A e \in b .. n - 1 : ~IsEnd(e)}
EndOf(picture) == CHOOSE n \in Ends : Cardinality({e \in Ends : e < n}) = picture
StartOf(picture) == Max({b \in 1 .. EndOf(picture) : IsBegin(b)})

Selective == plan.picture >= 0
NoSuchPicture == Selective /\ plan.picture >= Cardinality(Ends)
Selected(n) == Selective => n <= EndOf(plan.picture)

----------------------------------------------------------------------------
\* The state drawing starts from, and what each command does to it

\* The default palette, as far as files here use it; compatibility mode
\* makes its red a grey.
DefaultPalette == [i \in 0 .. 4 |-> CASE i = 0 -> White [] i = 1 -> Black
                                      [] i = 2 -> IF plan.compat THEN <<48, 48, 48>> ELSE <<255, 0, 0>>
                                      [] i = 3 -> <<0, 255, 0>> [] OTHER -> <<0, 0, 255>>]
\* resetPictureState
InitialStyle == [line |-> Black, fill |-> Black, edge |-> Black, text |-> Black,
                 interior |-> 0, edgeVisible |-> FALSE, palette |-> DefaultPalette,
                 lineWidth |-> Unit, edgeWidth |-> Unit, height |-> 12 * Unit,
                 align |-> 0, explicit |-> {}]
Reset(d) == [d EXCEPT !.style = InitialStyle, !.tiles = NoTileArray]
Blank == [picture |-> -1, style |-> InitialStyle, tiles |-> NoTileArray, canvas |-> White,
          ink |-> <<>>, images |-> <<>>]

\* Mutant: a picture goes on with the style of the one before.
BegunUnreset(d) == IF d.picture >= 0 THEN [Blank EXCEPT !.picture = d.picture + 1, !.style = d.style]
                   ELSE [Reset(d) EXCEPT !.picture = 0]
\* From the second on, a picture starts the text anew.
BegunPicture(d) == IF d.picture >= 0 THEN [Blank EXCEPT !.picture = d.picture + 1]
                   ELSE [Reset(d) EXCEPT !.picture = 0]
EndedPicture(d) == [d EXCEPT !.tiles = NoTileArray]

\* refreshDefaultIndexedColors: a colour nobody has set is that of entry 1.
ColourKinds == {"LineColour", "FillColour", "EdgeColour", "TextColour"}
Refreshed(style) ==
  LET foreground(kind, rgb) == IF kind \in style.explicit THEN rgb ELSE style.palette[1]
  IN IF ~file.colours.indexed THEN style
     ELSE [style EXCEPT !.line = foreground("LineColour", @), !.fill = foreground("FillColour", @),
                        !.edge = foreground("EdgeColour", @), !.text = foreground("TextColour", @)]

\* With a background, the sheet is painted in the colour that entry 0 has by then.
BodyBegun(d) == [d EXCEPT !.style = Refreshed(@), !.canvas = IF metrics.given THEN d.style.palette[0] ELSE White]

Backgrounded(d, c) == [d EXCEPT !.style.palette = WithEntry(@, 0, c.colour.rgb)]
Styled(d, c) ==
  LET set == Set(d.style, c, metrics.lineMode, metrics.edgeMode)
  IN [d EXCEPT !.style = CASE c.kind \in ColourKinds -> [set EXCEPT !.explicit = @ \cup {c.kind}]
                           [] c.kind = "ColourTable" /\ c.index = 1 -> Refreshed(set)
                           [] OTHER -> set]

\* What a primitive leaves, and whether it can be seen on the canvas.
PaintsArea(style, canvas) == style.interior \notin {0, 4} /\ (style.interior = 2 \/ style.fill # canvas)
PaintsEdge(style, canvas) == (style.edgeVisible \/ style.interior = 0) /\ style.edge # canvas
Seen(d, kind) == CASE kind \in Areas -> PaintsArea(d.style, d.canvas) \/ PaintsEdge(d.style, d.canvas)
                   [] kind = "Text" -> d.style.text # d.canvas
                   [] kind = "Symbol" -> TRUE
                   [] OTHER -> d.style.line # d.canvas
HalfWidth(d, kind) == CASE kind \in Areas -> IF PaintsEdge(d.style, d.canvas) THEN d.style.edgeWidth \div 2 ELSE 0
                        [] kind \in {"Text", "Symbol"} -> 0
                        [] OTHER -> d.style.lineWidth \div 2
\* Of a text only the place it is written at.
InkBox(c) == IF c.kind = "Text" THEN Box({c.at}) ELSE Extent(c)
Drawn(d, c, n) ==
  [d EXCEPT !.ink = Append(@, [by |-> n, seen |-> Seen(d, c.kind),
                               box |-> Grown(InkBox(c), HalfWidth(d, c.kind), HalfWidth(d, c.kind))])]

Image(n, box, rows, inArray) == [by |-> n, box |-> box, rows |-> rows, inArray |-> inArray]
Placed(d, n, origin, geometry, rows) ==
  LET box == ImageBox(origin, geometry.along, geometry.down)
  IN IF Degenerate(box) THEN d
     ELSE [d EXCEPT !.images = Append(@, Image(n, box, rows, d.tiles.inArray))]
Passed(d) == [d EXCEPT !.tiles = AdvanceTileIndex(@)]

\* processTile: bitmaps are decoded, three other compressions handed on.
Opaque == <<"payload">>
PreferredOr(preferred, perTile) == Max({1, IF preferred > 0 THEN preferred ELSE perTile})
TileRows(d, c) == IF c.compression = 5
                  THEN BitmapRows(c, PreferredOr(c.width, d.tiles.cellsAcross),
                                  PreferredOr(c.height, d.tiles.cellsDown), d.style.palette)
                  ELSE Opaque
\* Mutant: a tile that cannot be drawn gives its place to the next.
TileDrawnOrDropped(d, c, n) ==
  IF c.data = <<>> \/ c.compression \notin {5, 6, 7, 9} \/ TileRows(d, c) = <<>> THEN d
  ELSE LET geometry == TileGeometry(d.tiles, c, FALSE)
       IN Passed(Placed(d, n, geometry.origin, geometry, TileRows(d, c)))
TileDrawn(d, c, n) ==
  IF c.data = <<>> \/ c.compression \notin {5, 6, 7, 9} \/ TileRows(d, c) = <<>> THEN Passed(d)
  ELSE LET geometry == TileGeometry(d.tiles, c, FALSE)
       IN Passed(Placed(d, n, geometry.origin, geometry, TileRows(d, c)))

BitonalTileRows(d, c) ==
  IF c.compression = 5
  THEN BitonalRows(c, Cells(d.tiles.imageAcross, c.width, d.tiles.cellsAcross),
                   Cells(d.tiles.imageDown, c.height, d.tiles.cellsDown),
                   Resolve(d.style.palette, c.background), Resolve(d.style.palette, c.foreground))
  ELSE Opaque
BitonalTileDrawn(d, c, n) ==
  IF c.data = <<>> \/ c.compression \notin {2, 5, 6, 7, 9} \/ BitonalTileRows(d, c) = <<>> THEN Passed(d)
  ELSE LET geometry == TileGeometry(d.tiles, c, TRUE)
       IN Passed(Placed(d, n, BitonalOrigin(d.tiles, geometry), geometry, BitonalTileRows(d, c)))

\* processCellArray
CellArrayDrawn(d, c, n) ==
  IF c.nx <= 0 \/ c.ny <= 0 \/ c.cells = <<>> \/ (~UsesMatrix(c) /\ Degenerate(CellBox(c))) THEN d
  ELSE [d EXCEPT !.images = Append(@, Image(n, CellBox(c), EncodeCellArray(c, d.style.palette), FALSE))]

\* processCommand. COPY SEGMENT is only taken note of, when segments are allowed.
Pictured == {"Tile", "BitonalTile", "CellArray"}
Effect(d, c, n) ==
  CASE c.kind = "BeginPicture" -> BegunPicture(d)
    [] c.kind = "BeginPictureBody" -> BodyBegun(d)
    [] c.kind = "EndPicture" -> EndedPicture(d)
    [] c.kind = "Background" -> Backgrounded(d, c)
    [] c.kind = "BeginTileArray" -> [d EXCEPT !.tiles = BeginTileArray(c)]
    [] c.kind = "EndTileArray" -> [d EXCEPT !.tiles = NoTileArray]
    [] c.kind = "Tile" -> TileDrawn(d, c, n)
    [] c.kind = "BitonalTile" -> BitonalTileDrawn(d, c, n)
    [] c.kind = "CellArray" -> CellArrayDrawn(d, c, n)
    [] c.kind \in Attributes -> Styled(d, c)
    [] c.kind \in Primitives \ Pictured -> Drawn(d, c, n)
    [] OTHER -> d
Performed(d, n) == Effect(d, file.commands[n], n)

----------------------------------------------------------------------------
\* A conversion

\* A new converter, whose metrics are out of date.
Init ==
  /\ file \in Files /\ plan \in PlansFor(file)
  /\ phase = "descriptors" /\ next = 1 /\ metrics = Undetermined /\ scan = <<>>
  /\ drawing = <<>> /\ runs = 1

ComputeMetrics ==
  /\ \/ ScanDescriptor \/ EndDescriptors
     \/ MeasureSegmentCopy \/ LeaveTileArray \/ MeasureTileArray
     \/ MeasureAttribute \/ MeasurePrimitive \/ PassOver \/ EndMeasure
     \/ ReadViewContext \/ FitPicture
  /\ UNCHANGED <<drawing, runs>>

StartDrawing ==
  /\ phase = "convert" /\ drawing = <<>>
  /\ drawing' = Blank
  /\ phase' = IF NoSuchPicture THEN "done" ELSE phase
  /\ UNCHANGED <<file, plan, next, metrics, scan, runs>>

Drawing == phase = "convert" /\ drawing # <<>> /\ Ahead
PerformCommand ==
  /\ Drawing /\ Selected(next)
  /\ drawing' = Performed(drawing, next) /\ next' = next + 1
  /\ UNCHANGED <<file, plan, phase, metrics, scan, runs>>
SkipCommand ==
  /\ Drawing /\ ~Selected(next)
  /\ next' = next + 1
  /\ UNCHANGED <<file, plan, phase, metrics, scan, drawing, runs>>

FinishConversion ==
  /\ phase = "convert" /\ drawing # <<>> /\ ~Ahead
  /\ phase' = "done"
  /\ UNCHANGED <<file, plan, next, metrics, scan, drawing, runs>>

\* Options set between two conversions: metrics are out of date when what
\* they depend on has changed; the warning about the fit was given once. A
\* difference in any option stands for the setters that set document_metrics_dirty_.
\* Mutant: a fit asked for between two conversions does not count.
OutdatesBarFit(p, q) == [p EXCEPT !.picture = 0, !.fit = "no"] # [q EXCEPT !.picture = 0, !.fit = "no"]
Outdates(p, q) == [p EXCEPT !.picture = 0] # [q EXCEPT !.picture = 0]
ConvertAgain ==
  /\ phase = "done" /\ runs < MaxRuns
  /\ plan' \in PlansFor(file) /\ plan' # plan
  /\ IF Outdates(plan, plan')
     THEN /\ phase' = "descriptors"
          /\ metrics' = [Undetermined EXCEPT !.warned = metrics.warned]
          /\ scan' = <<>>
     ELSE phase' = "convert" /\ UNCHANGED <<metrics, scan>>
  /\ next' = 1 /\ drawing' = <<>> /\ runs' = runs + 1
  /\ UNCHANGED file

Next == ComputeMetrics \/ StartDrawing \/ PerformCommand \/ SkipCommand \/ FinishConversion \/ ConvertAgain

Spec == Init /\ [][Next]_vars

----------------------------------------------------------------------------
\* What is required of a sheet

Done == phase = "done" /\ drawing # <<>>
IsTile(c) == c.kind \in {"Tile", "BitonalTile"}
Overlaps(b1, b2) == /\ Max({b1.left, b2.left}) < Min({b1.right, b2.right})
                    /\ Max({b1.bottom, b2.bottom}) < Min({b1.top, b2.top})

\* The files whose drawing the bounds cover: attributes are set in the picture
\* that uses them, colours are given or their index is, entries 0 and 1 stay
\* the background and black, no pattern is painted, and there is no tile array.
Defined(n, colour) == \/ ~colour.indexed \/ colour.index \in {0, 1}
                      \/ \E m \in 1 .. n : /\ file.commands[m].kind = "ColourTable"
                                           /\ file.commands[m].index = colour.index
Measurable ==
  \A n \in DOMAIN file.commands :
    LET c == file.commands[n]
    IN /\ c.kind # "BeginTileArray"
       /\ c.kind = "InteriorStyle" => c.style # 2
       /\ c.kind = "ColourTable" => c.index > 1 \/ (c.index = 1 /\ metrics.background # Black)
       /\ c.kind \in {"LineColour", "FillColour", "EdgeColour", "TextColour"} => Defined(n, c.colour)
       /\ c.kind = "BeginPicture" => \A m \in 1 .. n : file.commands[m].kind \notin Attributes

\* Cropping the sheet to its drawing cuts nothing off: all that can be seen
\* of a measurable file, as far as it lies on the page, lies in what is shown.
NothingCropped ==
  Done /\ Measurable =>
    \A i \in DOMAIN drawing.ink :
      LET mark == drawing.ink[i]
      IN mark.seen /\ Overlaps(mark.box, Page) => Within(Meet(mark.box, Page), metrics.shown)

\* What is shown is what the options now set ask for, also when the metrics
\* were computed for an earlier conversion; and a converter asked for a fit
\* that it cannot make has said so.
MetricsCurrent ==
  phase \in {"convert", "done"} =>
    /\ metrics.shown = Shown /\ metrics.adopted = Adopted
    /\ Warns => metrics.warned

\* A file draws only in its pictures. (What one drew before the first would be
\* kept for the first, and lost to the others.)
Draws(c) == c.kind \in Primitives \cup {"BeginPictureBody"}
DrawsInPictures(f) ==
  \A n \in DOMAIN f.commands : Draws(f.commands[n]) => \E b \in 1 .. n - 1 : f.commands[b].kind = "BeginPicture"

\* A picture taken from a file is drawn as if the pictures before it were
\* not there, although their commands are performed.
Alone(picture) ==
  LET first == Min({n \in DOMAIN file.commands : IsBegin(n)})
      start == StartOf(picture)
      own == [n \in 1 .. first + EndOf(picture) - start |-> IF n < first THEN n ELSE start + n - first]
  IN Fold(Performed, Blank, own)
SelectedAlone ==
  Done /\ Selective /\ ~NoSuchPicture =>
    \A alone \in {Alone(plan.picture)} : drawing.ink = alone.ink /\ drawing.images = alone.images

\* A tile takes its place whatever became of those before it: images of one
\* array lie as far from each other as the numbers of their tiles say.
ArrayOf(n) == Max({b \in 1 .. n : file.commands[b].kind = "BeginTileArray"})
NumberOf(n) == Cardinality({m \in ArrayOf(n) .. n - 1 : IsTile(file.commands[m])})
Alike(m, n) == /\ ArrayOf(m) = ArrayOf(n)
               /\ file.commands[m].kind = file.commands[n].kind
               /\ file.commands[m].width = file.commands[n].width
               /\ file.commands[m].height = file.commands[n].height
               /\ file.commands[n].kind = "Tile" \/ ~plan.compat
LengthAlong(d, box) == Abs(d[1]) * Width(box) + Abs(d[2]) * Height(box)
Moved(box, d, steps) == [left |-> box.left + d[1] * steps, right |-> box.right + d[1] * steps,
                         bottom |-> box.bottom + d[2] * steps, top |-> box.top + d[2] * steps]
TilesInPlace ==
  Done => \A i, j \in DOMAIN drawing.images :
    LET a == drawing.images[i]
        b == drawing.images[j]
    IN a.inArray /\ b.inArray /\ a.by < b.by /\ Alike(a.by, b.by) =>
       LET array == file.commands[ArrayOf(a.by)]
           across == Max({1, array.across})
           along == DirectionVector(array.path)
           down == DirectionVector(array.line)
           columns == (NumberOf(b.by) % across) - (NumberOf(a.by) % across)
           rows == (NumberOf(b.by) \div across) - (NumberOf(a.by) \div across)
       IN b.box = Moved(Moved(a.box, along, columns * LengthAlong(along, a.box)),
                        down, rows * LengthAlong(down, a.box))

\* A bitmap is seen as it was drawn, however its rows are packed and padded,
\* and one that is too short for its size is left out.
PixelsAsDrawn ==
  Done => \A n \in DOMAIN file.commands :
    LET c == file.commands[n]
        seen == {i \in DOMAIN drawing.images : drawing.images[i].by = n}
    IN IsTile(c) /\ c.compression = 5 =>
         /\ \A i \in seen : Displayed(drawing.images[i].rows) = c.drawn
         /\ c.drawn = <<>> => seen = {}

\* Tiles are seen where they belong and as they are (processTile,
\* advanceTileIndex, TileRasterDecoder).
TilesAsDrawn == TilesInPlace /\ PixelsAsDrawn

\* The first row of a cell array is seen first, along P and R.
CellsUpright ==
  Done => \A i \in DOMAIN drawing.images :
    LET c == file.commands[drawing.images[i].by]
    IN c.kind = "CellArray" => Displayed(drawing.images[i].rows) = CellRows(c, drawing.style.palette)
=============================================================================
