----------------------------- MODULE TileImages -----------------------------
(***************************************************************************)
(* The pictures inside a picture: where a tile lies (TileGeometryResolver),*)
(* what its bitmap holds (TileRasterDecoder), and a cell array             *)
(* (CellArrayPreparer).  The library reads bitmaps itself and passes every *)
(* other payload on; this is the build without the Windows codecs.         *)
(*                                                                         *)
(* A bitmap file keeps its rows from the bottom up: "rows" is what is      *)
(* stored, Displayed(rows) what is seen.                                   *)
(***************************************************************************)
EXTENDS DocumentMetrics

Displayed(rows) == [r \in DOMAIN rows |-> rows[Len(rows) + 1 - r]]

----------------------------------------------------------------------------
\* Where a tile lies

\* resetTileArrayState
NoTileArray == [inArray |-> FALSE, at |-> <<0, 0>>, path |-> 0, line |-> 90, across |-> 1, down |-> 1,
                cellsAcross |-> 1, cellsDown |-> 1, offsetAcross |-> 0, offsetDown |-> 0,
                imageAcross |-> 0, imageDown |-> 0, cellWidth |-> Unit, cellHeight |-> Unit, index |-> 0]

\* processBeginTileArray
BeginTileArray(c) ==
  [inArray |-> TRUE, at |-> c.at, path |-> c.path, line |-> c.line,
   across |-> Max({1, c.across}), down |-> Max({1, c.down}),
   cellsAcross |-> Max({1, c.cellsAcross}), cellsDown |-> Max({1, c.cellsDown}),
   offsetAcross |-> Max({0, c.offsetAcross}), offsetDown |-> Max({0, c.offsetDown}),
   imageAcross |-> c.imageAcross, imageDown |-> c.imageDown,
   cellWidth |-> c.cellWidth, cellHeight |-> c.cellHeight, index |-> 0]

AdvanceTileIndex(tiles) == [tiles EXCEPT !.index = IF tiles.inArray THEN @ + 1 ELSE @]

Cells(image, preferred, perTile) ==
  Max({1, IF image > 0 THEN image ELSE IF preferred > 0 THEN preferred ELSE perTile})

\* One direction of a tile: its cells, the length of one in hundredths and
\* whether that had to be guessed, from the picture's length ("reference").
Span(size, reference, cells, heuristic, share) ==
  LET unit == IF size = 0 THEN reference \div cells ELSE (Unit * Unit) \div Abs(size)
      tooSmall == heuristic /\ Unit * unit * cells < reference
  IN [cells |-> cells, guessed |-> size = 0 \/ tooSmall,
      unit |-> IF tooSmall THEN Percent(share, reference) \div cells ELSE unit]

\* The picture is drawn with its y axis turned over.
DirectionVector(direction) == LET d == Directions[(direction % 4) + 1] IN <<d[1], -d[2]>>
Shift(p, vector, length) == <<p[1] + vector[1] * length, p[2] + vector[2] * length>>

\* TileGeometryResolver::resolve: the origin and the two sides of a tile.
TileGeometry(tiles, c, heuristic) ==
  LET wide == Span(tiles.cellWidth, Width(metrics.shown),
                   Cells(tiles.imageAcross, c.width, tiles.cellsAcross), heuristic, 55)
      tall == Span(tiles.cellHeight, Height(metrics.shown),
                   Cells(tiles.imageDown, c.height, tiles.cellsDown), heuristic, 40)
      along == DirectionVector(tiles.path)
      down == DirectionVector(tiles.line)
      column == tiles.index % tiles.across
      row == tiles.index \div tiles.across
      start == Shift(Shift(tiles.at, along, wide.unit * (tiles.offsetAcross + column * wide.cells)),
                     down, tall.unit * (tiles.offsetDown + row * tall.cells))
  IN [origin |-> IF tiles.inArray THEN start ELSE <<0, 0>>, guessed |-> wide.guessed,
      along |-> Shift(<<0, 0>>, along, wide.unit * wide.cells),
      down |-> Shift(<<0, 0>>, down, tall.unit * tall.cells)]

\* A bitonal tile whose cell size makes no sense is put where such pictures
\* usually have one.
BitonalOrigin(tiles, geometry) ==
  IF geometry.guessed /\ plan.compat /\ tiles.inArray
  THEN <<Percent(30, Width(metrics.shown)), Percent(65, Height(metrics.shown))>>
  ELSE geometry.origin

\* emitTileImage: the upright rectangle around the tile.
ImageBox(origin, along, down) ==
  Box({origin, Shift(origin, along, 1), Shift(origin, down, 1), Shift(Shift(origin, along, 1), down, 1)})
Degenerate(box) == Width(box) = 0 \/ Height(box) = 0

----------------------------------------------------------------------------
\* What a bitmap holds

\* resolveSourceRowBytes: rows may be padded, evenly; 0 where they do not fit.
\* Mutant: rows are never padded.
PackedRowBytes(data, height, least) == IF Len(data) < least * height THEN 0 ELSE least
SourceRowBytes(data, height, least) ==
  LET even == Len(data) % height = 0 /\ Len(data) \div height >= least
      bytes == IF even THEN Len(data) \div height ELSE least
  IN IF Len(data) < bytes * height THEN 0 ELSE bytes

\* BitReader: the most significant bit of a byte comes first.
Bit(data, n) == (data[(n \div 8) + 1] \div 2^(7 - (n % 8))) % 2
ReadBits(data, at, count) ==
  MapThenSumSet(LAMBDA k : Bit(data, at + k) * 2^(count - 1 - k), 0 .. count - 1)
ScaleToByte(value, bits) == LET most == 2^bits - 1 IN (value * 255 + most \div 2) \div most

\* cmykToRgb
Ink(part, black) == 255 - Min({255, part + black})

DirectColour(data, at, model, bits) ==
  LET part(i) == ScaleToByte(ReadBits(data, at + (i - 1) * bits, bits), bits)
  IN IF model = "cmyk" THEN [i \in 1 .. 3 |-> Ink(part(i), part(4))] ELSE [i \in 1 .. 3 |-> part(i)]

Precision(c) == IF c.precision > 0 THEN c.precision
                ELSE IF file.colours.indexed THEN file.colours.indexPrecision ELSE file.colours.precision
Components == IF file.colours.indexed THEN 1 ELSE IF file.colours.model = "cmyk" THEN 4 ELSE 3

Pixel(c, at, palette) ==
  IF file.colours.indexed THEN Resolve(palette, Indexed(ReadBits(c.data, at, Precision(c))))
  ELSE DirectColour(c.data, at, file.colours.model, Precision(c))

\* TileRasterDecoder::decodeBitmapToBmp: no rows where the source is too short.
BitmapRows(c, width, height, palette) ==
  LET bits == Precision(c) * Components
      bytes == SourceRowBytes(c.data, height, (width * bits + 7) \div 8)
  IN IF Precision(c) \notin 1 .. 32 \/ bytes = 0 THEN <<>>
     ELSE [r \in 1 .. height |-> [x \in 1 .. width |->
             Pixel(c, (height - r) * bytes * 8 + (x - 1) * bits, palette)]]

\* TileRasterDecoder::buildBitonalBmp: a row is copied, the palette tells
\* background from foreground.
BitonalRows(c, width, height, background, foreground) ==
  LET bytes == SourceRowBytes(c.data, height, (width + 7) \div 8)
  IN IF bytes = 0 THEN <<>>
     ELSE [r \in 1 .. height |-> [x \in 1 .. width |->
             IF Bit(c.data, (height - r) * bytes * 8 + x - 1) = 1 THEN foreground ELSE background]]

----------------------------------------------------------------------------
\* Cell arrays

\* preparePixels: cells that are missing are white.
CellRows(c, palette) ==
  [y \in 1 .. c.ny |-> [x \in 1 .. c.nx |->
     IF y \in DOMAIN c.cells /\ x \in DOMAIN c.cells[y] THEN Resolve(palette, c.cells[y][x]) ELSE White]]
\* encodeCellArrayToBmp writes the rows in their order.
EncodeCellArray(c, palette) == CellRows(c, palette)

\* resolvePlacement: along the row and the column where both have a length,
\* in the rectangle around the corners where only one has.
RowVector(c) == <<c.r[1] - c.p[1], c.r[2] - c.p[2]>>
ColumnVector(c) == <<c.q[1] - c.r[1], c.q[2] - c.r[2]>>
UsesMatrix(c) == RowVector(c) # <<0, 0>> /\ ColumnVector(c) # <<0, 0>>
CellBox(c) == ImageBox(c.p, RowVector(c), ColumnVector(c))
=============================================================================
