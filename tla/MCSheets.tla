------------------------------ MODULE MCSheets ------------------------------
(***************************************************************************)
(* Instances of SheetConverter: files that are fitted to their content,    *)
(* files of several pictures, tile arrays, bitmaps and cell arrays, each   *)
(* with the options that matter to it.                                     *)
(***************************************************************************)
EXTENDS SheetConverter, SequencesExt

U(n) == n * Unit
P(x, y) == <<U(x), U(y)>>
Red == <<255, 0, 0>>
Grey == <<85, 85, 85>>

Of(kind) == [kind |-> kind]
Begin == Of("BeginPicture")
End == Of("EndPicture")
Body == Of("BeginPictureBody")
APicture(header, body) == <<Begin>> \o header \o <<Body>> \o body \o <<End>>
Page1 == [kind |-> "VdcExtent", corners |-> <<P(0, 0), P(200, 100)>>]
Reversed == [kind |-> "VdcExtent", corners |-> <<P(200, 0), P(0, 100)>>]
Flat == [kind |-> "VdcExtent", corners |-> <<P(0, 0), P(0, 100)>>]
Mode(kind, mode) == [kind |-> kind, mode |-> mode]
Colour(kind, colour) == [kind |-> kind, colour |-> colour]
Entry(i, rgb) == [kind |-> "ColourTable", index |-> i, rgb |-> rgb]
Style(s) == [kind |-> "InteriorStyle", style |-> s]
Edges == [kind |-> "EdgeVisibility", visible |-> TRUE]
Thick(kind, width) == [kind |-> kind, width |-> width]
Tall == [kind |-> "CharacterHeight", height |-> U(10)]
Aligned(a) == [kind |-> "TextAlignment", align |-> a]
Points(kind, s) == [kind |-> kind, points |-> s]
View(p, q) == [kind |-> "ViewContext", corners |-> <<p, q>>]
Cells2x2(rows) == [kind |-> "CellArray", p |-> P(50, 50), q |-> P(60, 40), r |-> P(60, 50),
                   nx |-> 2, ny |-> 2, cells |-> rows]

Rgb == [indexed |-> FALSE, model |-> "rgb", precision |-> 2, indexPrecision |-> 2]
Cmyk == [Rgb EXCEPT !.model = "cmyk"]
Pens == [Rgb EXCEPT !.indexed = TRUE]
AFile(commands) == [commands |-> commands, colours |-> Rgb]

DefaultPlan == [profile |-> "S1000D", fit |-> "default", adoptView |-> FALSE, compat |-> FALSE, picture |-> -1]

----------------------------------------------------------------------------
\* Fitting: a line, then a primitive drawn with at most two attributes.

Line == Points("Polyline", <<P(50, 50), P(54, 53)>>)
Figures == {Points("Polygon", <<P(20, 20), P(26, 20), P(26, 26)>>),
            [kind |-> "Circle", centre |-> P(58, 50), radius |-> U(4)],
            [kind |-> "Arc", centre |-> P(198, 50), radius |-> U(4)],
            [kind |-> "Text", at |-> P(52, 52), characters |-> 3],
            Points("HyperbolicArc", <<P(150, 90), P(152, 92)>>),
            Points("Symbol", <<P(150, 90)>>), Points("CopySegment", <<P(150, 90), P(152, 92)>>),
            Cells2x2(<<<<Indexed(1)>>>>)}
Styles == {Thick("LineWidth", U(4)), Colour("LineColour", Indexed(0)), Entry(1, White),
           Colour("FillColour", Indexed(0)), Style(1), Edges, Thick("EdgeWidth", U(6)),
           Aligned(2), Tall}
UpTo2(S) == {<<>>} \cup {<<s>> : s \in S} \cup {<<s, t>> : s, t \in S}
Fitting == {[AFile(APicture(<<Page1>>, styles \o <<Line, figure>>)) EXCEPT !.colours = Pens] :
              styles \in UpTo2(Styles), figure \in Figures}

Header == {<<Page1>>, <<Reversed>>, <<Flat>>, <<>>, <<Page1, Colour("Background", Direct(Red))>>,
           <<Page1, Mode("LineWidthMode", "scaled"), Mode("EdgeWidthMode", "scaled")>>}
Views == {<<>>, <<View(P(40, 40), P(90, 60))>>, <<View(P(300, 10), P(310, 20)), View(P(10, 10), P(0, 0))>>}
Headed == {AFile(APicture(header, styles \o <<Line>> \o view)) : header \in Header, view \in Views,
             styles \in {<<>>, <<Thick("LineWidth", U(2)), Colour("LineColour", Direct(Red))>>, <<Thick("LineWidth", U(3))>>}}
Fits == Fitting \cup Headed

FitPlans == {[DefaultPlan EXCEPT !.fit = fit, !.profile = profile] :
               fit \in {"default", "yes"}, profile \in {"S1000D", "WebCGM21"}}
            \cup {[DefaultPlan EXCEPT !.adoptView = TRUE], [DefaultPlan EXCEPT !.fit = "no"]}

----------------------------------------------------------------------------
\* Pictures: two of them, the first leaving all kinds of things behind.

Array(path, line, across, size) ==
  [kind |-> "BeginTileArray", at |-> P(10, 80), path |-> path, line |-> line, across |-> across, down |-> 2,
   cellsAcross |-> 2, cellsDown |-> 2, offsetAcross |-> 1, offsetDown |-> 0, imageAcross |-> 0, imageDown |-> 0,
   cellWidth |-> size, cellHeight |-> size]
ATile(data, drawn) == [kind |-> "Tile", compression |-> 5, data |-> data, width |-> 2, height |-> 2,
                       precision |-> 2, drawn |-> drawn]
GoodTile == ATile(<<252, 0, 3, 240>>, <<<<White, Black>>, <<Black, White>>>>)
OwnWays == {Colour("LineColour", Direct(White)), Edges, Entry(1, Red), Thick("LineWidth", U(8)),
            Array(0, 3, 2, 100), Style(4), Colour("Background", Direct(Red))}
Shapes == {Line, [kind |-> "Circle", centre |-> P(58, 50), radius |-> U(4)], GoodTile,
           Cells2x2(<<<<Indexed(1)>>>>)}
Pictures == {[AFile(before \o APicture(<<Page1>>, first) \o between \o APicture(<<>>, <<shape>>))
                EXCEPT !.colours = IF shape = GoodTile THEN Rgb ELSE Pens] :
               before \in {<<>>, <<Edges>>}, first \in UpTo2(OwnWays \cup {Line}),
               between \in {<<>>, <<Array(0, 3, 2, 100), Edges>>}, shape \in Shapes}
PicturePlans == {[DefaultPlan EXCEPT !.picture = p] : p \in {-1, 0, 1, 2}}

----------------------------------------------------------------------------
\* Tiles: some are good, some empty, of an unknown kind or too short.

ABitonalTile == [kind |-> "BitonalTile", compression |-> 5, data |-> <<128, 64>>, width |-> 2, height |-> 2,
                 precision |-> 1, background |-> Indexed(0), foreground |-> Direct(Red),
                 drawn |-> <<<<Red, White>>, <<White, Red>>>>]
TileKinds == {GoodTile, [GoodTile EXCEPT !.data = <<>>, !.drawn = <<>>], [GoodTile EXCEPT !.compression = 3],
              [GoodTile EXCEPT !.compression = 7], ATile(<<252>>, <<>>), ABitonalTile,
              [ABitonalTile EXCEPT !.data = <<128>>, !.drawn = <<>>]}
Arrays == {Array(path, 3, across, size) : path \in {0, 2}, across \in {0, 2}, size \in {0, 50, 200}}
          \cup {Array(1, 0, 2, 100)}
TileArrays == {AFile(APicture(<<Page1>>, <<array, t, u, v>>)) :
                 array \in Arrays, t, u \in TileKinds, v \in {GoodTile, ABitonalTile}}
TilePlans == {DefaultPlan, [DefaultPlan EXCEPT !.compat = TRUE]}

----------------------------------------------------------------------------
\* Bitmaps: a row of the given samples, most significant bits first, padded
\* with so many bytes; a pixel is what the file keeps and what it stands for.

SampleBits(row, bits) ==
  FlattenSeq([k \in DOMAIN row |-> FlattenSeq([i \in DOMAIN row[k].kept |->
    [b \in 1 .. bits |-> (row[k].kept[i] \div 2^(bits - b)) % 2]])])
RowBytes(row, bits, padding) ==
  LET all == SampleBits(row, bits)
      bit(n) == IF n \in DOMAIN all THEN all[n] ELSE 0
  IN [k \in 1 .. (Len(all) + 7) \div 8 + padding |->
        MapThenSumSet(LAMBDA b : bit(8 * (k - 1) + b) * 2^(8 - b), 1 .. 8)]
Bitmap(rows, bits, local, padding, missing) ==
  LET whole == FlattenSeq([r \in DOMAIN rows |-> RowBytes(rows[r], bits, padding)])
  IN [ATile(SubSeq(whole, 1, Len(whole) - missing),
            IF missing > 0 THEN <<>> ELSE [r \in DOMAIN rows |-> [x \in DOMAIN rows[r] |-> rows[r][x].means]])
      EXCEPT !.precision = IF local THEN bits ELSE 0, !.width = Len(rows[1]), !.height = Len(rows)]

Means(kept, rgb) == [kept |-> kept, means |-> rgb]
RgbPixels(most) == {Means(<<most, 0, 0>>, Red), Means(<<0, 0, most>>, <<0, 0, 255>>)}
CmykPixels(most) == {Means(<<most, 0, 0, 0>>, <<0, 255, 255>>), Means(<<most, 0, 0, most>>, Black)}
PenPixels == {Means(<<3>>, <<0, 255, 0>>), Means(<<4>>, <<0, 0, 255>>)}
RowsOf(pixels) == {<<<<a, b, c>>, <<b, a, a>>>> : a, b, c \in pixels} \cup {<<<<a>>, <<b>>, <<b>>>> : a, b \in pixels}

BitmapFile(colours, bits, tile) ==
  [AFile(APicture(<<Page1>>, <<Array(0, 3, 2, 200), tile>>))
     EXCEPT !.colours = [colours EXCEPT !.precision = bits, !.indexPrecision = bits]]
Bitmaps ==
  UNION {{BitmapFile(Rgb, IF local THEN 7 ELSE bits, Bitmap(rows, bits, local, padding, missing)) :
            rows \in RowsOf(RgbPixels(2^bits - 1)), local \in BOOLEAN, padding \in {0, 1, 2}, missing \in {0, 7}} :
         bits \in {1, 2, 5, 8}}
  \cup UNION {{BitmapFile(Cmyk, bits, Bitmap(rows, bits, FALSE, padding, 0)) :
            rows \in RowsOf(CmykPixels(2^bits - 1)), padding \in {0, 1}} : bits \in {1, 4, 8}}
  \cup UNION {{BitmapFile(Pens, bits, Bitmap(rows, bits, FALSE, padding, 0)) :
            rows \in RowsOf(PenPixels), padding \in {0, 1}} : bits \in {3, 4, 8}}

----------------------------------------------------------------------------
\* Cell arrays, with and without an area to fill, and with cells missing

CellArrays ==
  {AFile(APicture(<<Page1>>, <<[Cells2x2(rows) EXCEPT !.p = p, !.q = q, !.nx = nx]>>)) :
     rows \in {<<>>, <<<<Direct(Red)>>>>, <<<<Direct(Red), Direct(White)>>, <<Direct(Black), Direct(Red)>>>>},
     p \in {P(50, 50), P(60, 50)}, q \in {P(60, 40), P(60, 50)}, nx \in {0, 2}}

----------------------------------------------------------------------------

AllFiles == Fits \cup Pictures \cup TileArrays \cup Bitmaps \cup CellArrays
ASSUME PicturesAssumption == \A f \in AllFiles : DrawsInPictures(f)
Has(f, kinds) == \E n \in DOMAIN f.commands : f.commands[n].kind \in kinds
AllPlans(f) == IF Cardinality({n \in DOMAIN f.commands : f.commands[n].kind = "BeginPicture"}) > 1 THEN PicturePlans
               ELSE IF Has(f, {"BeginTileArray"}) THEN TilePlans ELSE FitPlans
=============================================================================
