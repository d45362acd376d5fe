----------------------------- MODULE SheetProofs -----------------------------
(***************************************************************************)
(* What a converter shows is what its options ask for, also when it        *)
(* converts again without computing its metrics anew; and a picture taken  *)
(* from a file is drawn as if those before it were not there.              *)
(***************************************************************************)
EXTENDS SheetConverter, FiniteSetTheorems, WellFoundedInduction, TLAPS

\* What the shown part is computed from, and what is computed.
Fields == {"drawn", "bounds", "complete", "extent", "view", "adopted", "fitted", "warned", "shown", "viewBox"}
Computed == phase \in {"convert", "done"}

\* The options are options for this file; metrics always have their fields.
SheetInv ==
  /\ file \in Files /\ plan \in PlansFor(file)
  /\ phase \in {"descriptors", "measure", "views", "convert", "done"}
  /\ Fields \subseteq DOMAIN metrics
  /\ MetricsCurrent

LEMMA NewMetrics == Fields \subseteq DOMAIN Undetermined
  BY DEF Fields, Undetermined

\* The part that is shown depends on nothing but the fields it is computed from.
LEMMA ShownFromFields ==
  ASSUME plan'.profile = plan.profile, plan'.fit = plan.fit, plan'.adoptView = plan.adoptView,
         metrics'.drawn = metrics.drawn, metrics'.bounds = metrics.bounds,
         metrics'.complete = metrics.complete, metrics'.extent = metrics.extent,
         metrics'.view = metrics.view
  PROVE  Shown' = Shown /\ Adopted' = Adopted /\ Warns' = Warns
<1>1. Picture' = Picture
  BY DEF Picture
<1>2. Bounds' = Bounds
  BY <1>1 DEF Bounds
<1>3. Page' = Page
  BY <1>1, <1>2 DEF Page
<1>4. Adopted' = Adopted /\ AllowAutofit' = AllowAutofit /\ Sparse' = Sparse
  BY <1>2, <1>3 DEF Adopted, AllowAutofit, Sparse
<1>5. AskedFor' = AskedFor
  BY <1>4 DEF AskedFor
<1>6. Autofits' = Autofits /\ FitsContent' = FitsContent /\ Warns' = Warns
  BY <1>4, <1>5 DEF Autofits, FitsContent, Warns
<1>7. Fitted' = Fitted
  BY <1>2, <1>6 DEF Fitted, ContentMargin, AutofitMargin, LeastMargin
<1> QED
  BY <1>3, <1>4, <1>6, <1>7 DEF Shown

\* Fitting fixes what is shown, and none of what that was computed from.
LEMMA FitFixesShown ==
  ASSUME SheetInv, FitPicture
  PROVE  SheetInv'
<1>1. /\ DOMAIN metrics' = DOMAIN metrics
      /\ metrics'.drawn = metrics.drawn /\ metrics'.bounds = metrics.bounds
      /\ metrics'.complete = metrics.complete /\ metrics'.extent = metrics.extent
      /\ metrics'.view = metrics.view
      /\ metrics'.shown = Shown /\ metrics'.adopted = Adopted /\ metrics'.warned = (metrics.warned \/ Warns)
  <2> DEFINE s == Shown  a == Adopted  w == metrics.warned \/ Warns  f == Autofits \/ FitsContent
             v == ViewBox(IF Adopted THEN metrics.view.box ELSE Shown)
  <2>1. metrics' = [metrics EXCEPT !.adopted = a, !.fitted = f, !.warned = w, !.shown = s, !.viewBox = v]
    BY DEF FitPicture
  <2>2. Fields \subseteq DOMAIN metrics
    BY DEF SheetInv
  <2> HIDE DEF s, a, w, f, v
  <2>3. /\ DOMAIN metrics' = DOMAIN metrics
        /\ metrics'.drawn = metrics.drawn /\ metrics'.bounds = metrics.bounds
        /\ metrics'.complete = metrics.complete /\ metrics'.extent = metrics.extent
        /\ metrics'.view = metrics.view
        /\ metrics'.shown = s /\ metrics'.adopted = a /\ metrics'.warned = w
    BY <2>1, <2>2 DEF Fields
  <2> QED BY <2>3 DEF s, a, w
<1>2. plan' = plan /\ file' = file /\ phase' = "convert"
  BY DEF FitPicture
<1>3. Shown' = Shown /\ Adopted' = Adopted /\ Warns' = Warns
  BY <1>1, <1>2, ShownFromFields
<1> QED
  BY <1>1, <1>2, <1>3 DEF SheetInv, MetricsCurrent

\* The walks before it only fill in fields.
LEMMA WalksKeepFields ==
  ASSUME SheetInv,
         \/ ScanDescriptor \/ EndDescriptors
         \/ MeasureSegmentCopy \/ LeaveTileArray \/ MeasureTileArray
         \/ MeasureAttribute \/ MeasurePrimitive \/ PassOver \/ EndMeasure
         \/ ReadViewContext
  PROVE  SheetInv'
<1>1. file' = file /\ plan' = plan /\ phase' \in {"descriptors", "measure", "views"}
  BY DEF ScanDescriptor, EndDescriptors, MeasureSegmentCopy, LeaveTileArray, MeasureTileArray, MeasureAttribute,
         MeasurePrimitive, PassOver, EndMeasure, ReadViewContext, Measures, Measuring
<1>2. DOMAIN metrics' = DOMAIN metrics
  BY DEF ScanDescriptor, EndDescriptors, MeasureSegmentCopy, LeaveTileArray, MeasureTileArray, MeasureAttribute,
         MeasurePrimitive, PassOver, EndMeasure, ReadViewContext, UpdateBounds
<1> QED
  BY <1>1, <1>2 DEF SheetInv, MetricsCurrent

\* Options that leave the metrics as they are leave what is shown.
LEMMA SamePlanSameSheet ==
  ASSUME SheetInv, ConvertAgain
  PROVE  SheetInv'
<1>1. file' = file /\ plan' \in PlansFor(file)
  BY DEF ConvertAgain
<1>2. CASE Outdates(plan, plan')
  BY <1>1, <1>2, NewMetrics DEF SheetInv, MetricsCurrent, ConvertAgain
<1>3. CASE ~Outdates(plan, plan')
  <2>1. phase' = "convert" /\ metrics' = metrics
    BY <1>3 DEF ConvertAgain
  <2>2. plan \in Plan /\ plan' \in Plan
    BY <1>1, PlansAssumption DEF SheetInv
  <2>3. [plan EXCEPT !.picture = 0] = [plan' EXCEPT !.picture = 0]
    BY <1>3 DEF Outdates
  <2>4. plan'.profile = plan.profile /\ plan'.fit = plan.fit /\ plan'.adoptView = plan.adoptView
    <3>1. /\ plan.profile = [plan EXCEPT !.picture = 0].profile
          /\ plan.fit = [plan EXCEPT !.picture = 0].fit
          /\ plan.adoptView = [plan EXCEPT !.picture = 0].adoptView
      BY <2>2 DEF Plan
    <3>2. /\ plan'.profile = [plan' EXCEPT !.picture = 0].profile
          /\ plan'.fit = [plan' EXCEPT !.picture = 0].fit
          /\ plan'.adoptView = [plan' EXCEPT !.picture = 0].adoptView
      BY <2>2 DEF Plan
    <3> QED BY <3>1, <3>2, <2>3
  <2>5. Shown' = Shown /\ Adopted' = Adopted /\ Warns' = Warns
    BY <2>1, <2>4, ShownFromFields
  <2>6. phase = "done"
    BY DEF ConvertAgain
  <2> QED
    BY <1>1, <2>1, <2>5, <2>6 DEF SheetInv, MetricsCurrent
<1> QED
  BY <1>2, <1>3

\* Drawing changes none of it.
LEMMA DrawingKeepsMetrics ==
  ASSUME SheetInv, StartDrawing \/ PerformCommand \/ SkipCommand \/ FinishConversion \/ UNCHANGED vars
  PROVE  SheetInv'
<1>1. file' = file /\ plan' = plan /\ metrics' = metrics
  BY DEF StartDrawing, PerformCommand, SkipCommand, FinishConversion, vars, sheet
<1>2. \/ phase' = phase
      \/ phase = "convert" /\ phase' = "done"
  BY DEF StartDrawing, PerformCommand, SkipCommand, FinishConversion, vars, sheet
<1>3. Shown' = Shown /\ Adopted' = Adopted /\ Warns' = Warns
  BY <1>1, ShownFromFields
<1> QED
  BY <1>1, <1>2, <1>3 DEF SheetInv, MetricsCurrent

LEMMA SheetKept ==
  ASSUME SheetInv, [Next]_vars
  PROVE  SheetInv'
<1>1. CASE ComputeMetrics
  BY <1>1, WalksKeepFields, FitFixesShown DEF ComputeMetrics
<1>2. CASE ConvertAgain
  BY <1>2, SamePlanSameSheet
<1>3. CASE StartDrawing \/ PerformCommand \/ SkipCommand \/ FinishConversion \/ UNCHANGED vars
  BY <1>3, DrawingKeepsMetrics
<1> QED
  BY <1>1, <1>2, <1>3 DEF Next

\* What is shown is what the options now set ask for, in whatever order files
\* are converted and options set; and a fit that cannot be made was warned of.
THEOREM MetricsStayCurrent == Spec => []MetricsCurrent
<1>1. Init => SheetInv
  BY NewMetrics DEF Init, SheetInv, MetricsCurrent
<1>2. SheetInv /\ [Next]_vars => SheetInv'
  BY SheetKept
<1>3. SheetInv => MetricsCurrent
  BY DEF SheetInv
<1> QED
  BY <1>1, <1>2, <1>3, PTL DEF Spec

----------------------------------------------------------------------------
\* Counting

\* Of natural numbers there is a smallest.
LEMMA SmallestOf ==
  ASSUME NEW S, S \subseteq Nat, S # {}
  PROVE  Min(S) \in S /\ \A y \in S : Min(S) <= y
<1> DEFINE R == {ss \in Nat \X Nat : ss[1] < ss[2]}
<1>1. IsWellFoundedOn(R, Nat)
  BY NatLessThanWellFounded, Zenon DEF OpToRel
<1> HIDE DEF R
<1>2. PICK x \in S : \A y \in S : ~(<<y, x>> \in R)
  BY <1>1, WFMin
<1>3. \A y \in S : x <= y
  <2>1. SUFFICES ASSUME NEW y \in S, ~(x <= y) PROVE FALSE
    OBVIOUS
  <2>2. <<y, x>> \in R
    BY <2>1 DEF R
  <2> QED
    BY <1>2, <2>2
<1> QED
  BY <1>2, <1>3 DEF Min

\* Of numbers that have a bound there is a largest.
LEMMA LargestOf ==
  ASSUME NEW n \in Nat, NEW S, S \subseteq 1 .. n, S # {}
  PROVE  Max(S) \in S /\ \A y \in S : y <= Max(S)
<1>1. PICK T : T = {n - y : y \in S}
  OBVIOUS
<1>a. \A y \in S : y \in Int /\ 1 <= y /\ y <= n
  OBVIOUS
<1>2. T \subseteq Nat /\ T # {}
  <2>1. \A y \in S : n - y \in Nat
    BY <1>a
  <2> QED
    BY <1>1, <2>1
<1>3. PICK t \in T : \A y \in T : t <= y
  BY <1>2, SmallestOf
<1>4. PICK x \in S : t = n - x
  BY <1>1, <1>3
<1>5. \A y \in S : x >= y
  <2>1. SUFFICES ASSUME NEW y \in S PROVE x >= y
    OBVIOUS
  <2>2. n - y \in T
    BY <1>1
  <2>3. t <= n - y
    BY <1>3, <2>2
  <2> QED
    BY <1>4, <2>3
<1> QED
  BY <1>4, <1>5 DEF Max

\* What holds at first and is kept by each of n turns holds throughout.
LEMMA HoldsThroughout ==
  ASSUME NEW n \in Nat, NEW G, 0 \in G, \A i \in 1 .. n : i - 1 \in G => i \in G
  PROVE  0 .. n \subseteq G
<1> DEFINE Bad == {i \in 0 .. n : i \notin G}
<1>1. SUFFICES ASSUME Bad # {} PROVE FALSE
  OBVIOUS
<1>2. Bad \subseteq Nat
  OBVIOUS
<1>3. PICK m \in Bad : \A y \in Bad : m <= y
  BY <1>1, <1>2, SmallestOf
<1>4. m \in 1 .. n /\ m - 1 \in 0 .. n /\ m - 1 \notin Bad
  BY <1>3
<1> QED
  BY <1>3, <1>4

\* Of a finite number of things, numbered in any way, each that is not the
\* last has its place in the order: k of them come before one of them.
Earlier(E, e) == {y \in E : y < e}

LEMMA PlaceOf ==
  ASSUME NEW n \in Nat, NEW E, E \subseteq 1 .. n, NEW k \in Nat, k < Cardinality(E)
  PROVE  \E e \in E : Cardinality(Earlier(E, e)) = k
<1> DEFINE Before(m) == {y \in E : y <= m}
<1>a. \A y \in E : y \in Int /\ 1 <= y /\ y <= n
  OBVIOUS
<1>1. ASSUME NEW m \in 0 .. n
      PROVE  IsFiniteSet(Before(m)) /\ Cardinality(Before(m)) \in Nat
  <2>1. IsFiniteSet(1 .. n)
    BY FS_Interval
  <2>2. Before(m) \subseteq 1 .. n
    OBVIOUS
  <2>3. IsFiniteSet(Before(m))
    BY <2>1, <2>2, FS_Subset
  <2> QED
    BY <2>3, FS_CardinalityType
<1>2. PICK B : B = {m \in 0 .. n : Cardinality(Before(m)) > k}
  OBVIOUS
<1>3. n \in B
  <2>1. Before(n) = E
    BY <1>a
  <2>2. n \in 0 .. n /\ Cardinality(Before(n)) \in Nat
    BY <1>1
  <2> HIDE DEF Before
  <2> QED
    BY <1>2, <2>1, <2>2
<1>4. PICK e \in B : \A y \in B : e <= y
  <2>1. B \subseteq Nat /\ B # {}
    BY <1>2, <1>3
  <2> QED
    BY <2>1, SmallestOf
<1>5. e # 0
  <2>1. Before(0) = {}
    <3>1. \A y \in E : ~(y <= 0)
      BY <1>a
    <3> QED
      BY <3>1
  <2>2. Cardinality({}) = 0
    BY FS_EmptySet
  <2> HIDE DEF Before
  <2> QED
    BY <1>2, <1>4, <2>1, <2>2
<1>6. e \in 1 .. n /\ e - 1 \in 0 .. n /\ e - 1 \notin B
  <2>1. e \in 0 .. n
    BY <1>2, <1>4
  <2>2. e \in 1 .. n /\ e - 1 \in 0 .. n /\ ~(e <= e - 1)
    BY <1>5, <2>1
  <2> QED
    BY <1>4, <2>2
<1>7. PICK l : l = e - 1 /\ l \in 0 .. n /\ e = l + 1
  BY <1>6
<1>8. ~(Cardinality(Before(l)) > k) /\ Cardinality(Before(l)) \in Nat /\ Cardinality(Before(e)) \in Nat
      /\ Cardinality(Before(e)) > k
  <2> HIDE DEF Before
  <2> QED
    BY <1>1, <1>2, <1>4, <1>6, <1>7
<1>9. e \in E
  <2>1. SUFFICES ASSUME e \notin E PROVE FALSE
    OBVIOUS
  <2>2. Before(e) = Before(l)
    <3>1. \A y \in E : y <= e <=> y <= l
      BY <1>a, <1>7, <2>1
    <3> QED
      BY <3>1
  <2> HIDE DEF Before
  <2> QED
    BY <1>8, <2>2
<1>10. Before(e) = Before(l) \cup {e} /\ e \notin Before(l) /\ Before(l) = {y \in E : y < e}
  <2>1. \A y \in E : (y <= e <=> y <= l \/ y = e) /\ (y <= l <=> y < e)
    BY <1>a, <1>7
  <2>2. ~(e <= l) /\ e <= e
    BY <1>7
  <2> QED
    BY <1>9, <2>1, <2>2
<1>11. Cardinality(Before(e)) = Cardinality(Before(l)) + 1
  <2>1. IsFiniteSet(Before(l))
    BY <1>1, <1>7
  <2> HIDE DEF Before
  <2> QED
    BY <1>10, <2>1, FS_AddElement
<1>12. Cardinality(Before(l)) = k
  <2> HIDE DEF Before
  <2> QED
    BY <1>8, <1>11
<1> QED
  <2>1. Earlier(E, e) = Before(l)
    BY <1>10 DEF Earlier
  <2> HIDE DEF Before
  <2> QED
    BY <1>9, <1>12, <2>1

----------------------------------------------------------------------------
\* The effect of a command depends on nothing a conversion changes.

Constant == file' = file /\ plan' = plan /\ metrics' = metrics /\ scan' = scan

LEMMA StyleConstant ==
  ASSUME Constant, NEW CONSTANT d, NEW CONSTANT c
  PROVE  /\ DefaultPalette' = DefaultPalette /\ InitialStyle' = InitialStyle /\ Blank' = Blank
         /\ Reset(d)' = Reset(d) /\ BegunPicture(d)' = BegunPicture(d)
         /\ BodyBegun(d)' = BodyBegun(d) /\ Styled(d, c)' = Styled(d, c)
<1>1. DefaultPalette' = DefaultPalette
  BY DEF DefaultPalette, Constant
<1>2. InitialStyle' = InitialStyle
  BY <1>1 DEF InitialStyle
<1>3. Blank' = Blank
  BY <1>2 DEF Blank
<1>4. Reset(d)' = Reset(d)
  BY <1>2 DEF Reset
<1>5. BegunPicture(d)' = BegunPicture(d)
  BY <1>3, <1>4 DEF BegunPicture
<1>6. ASSUME NEW CONSTANT s PROVE Refreshed(s)' = Refreshed(s)
  BY DEF Refreshed, Constant
<1>7. BodyBegun(d)' = BodyBegun(d)
  BY <1>6 DEF BodyBegun, Constant
<1>8. Styled(d, c)' = Styled(d, c)
  <2>1. Set(d.style, c, metrics.lineMode, metrics.edgeMode)' = Set(d.style, c, metrics.lineMode, metrics.edgeMode)
    <3>1. NominalWidth' = NominalWidth
      BY DEF NominalWidth, Picture, Constant
    <3> QED
      BY <3>1 DEF Set, WidthInVdc, Constant
  <2> QED
    BY <1>6, <2>1 DEF Styled
<1> QED
  BY <1>1, <1>2, <1>3, <1>4, <1>5, <1>7, <1>8

LEMMA PixelsConstant ==
  ASSUME Constant, NEW CONSTANT c, NEW CONSTANT w, NEW CONSTANT h, NEW CONSTANT p, NEW CONSTANT q
  PROVE  BitmapRows(c, w, h, p)' = BitmapRows(c, w, h, p) /\ BitonalRows(c, w, h, p, q)' = BitonalRows(c, w, h, p, q)
<1>1. Precision(c)' = Precision(c) /\ Components' = Components
  BY DEF Precision, Components, Constant
<1>2. ASSUME NEW CONSTANT at PROVE Pixel(c, at, p)' = Pixel(c, at, p)
  BY <1>1 DEF Pixel, Constant
<1>3. BitmapRows(c, w, h, p)' = BitmapRows(c, w, h, p)
  BY <1>1, <1>2 DEF BitmapRows
<1>4. BitonalRows(c, w, h, p, q)' = BitonalRows(c, w, h, p, q)
  BY DEF BitonalRows
<1> QED
  BY <1>3, <1>4

LEMMA PlacesConstant ==
  ASSUME Constant, NEW CONSTANT tiles, NEW CONSTANT c, NEW CONSTANT guess, NEW CONSTANT g
  PROVE  /\ TileGeometry(tiles, c, guess)' = TileGeometry(tiles, c, guess)
         /\ BitonalOrigin(tiles, g)' = BitonalOrigin(tiles, g)
<1>1. TileGeometry(tiles, c, guess)' = TileGeometry(tiles, c, guess)
  BY DEF TileGeometry, Constant
<1>2. BitonalOrigin(tiles, g)' = BitonalOrigin(tiles, g)
  BY DEF BitonalOrigin, Constant
<1> QED
  BY <1>1, <1>2

LEMMA ImagesConstant ==
  ASSUME Constant, NEW CONSTANT d, NEW CONSTANT c, NEW CONSTANT n
  PROVE  /\ TileDrawn(d, c, n)' = TileDrawn(d, c, n)
         /\ BitonalTileDrawn(d, c, n)' = BitonalTileDrawn(d, c, n)
         /\ CellArrayDrawn(d, c, n)' = CellArrayDrawn(d, c, n)
         /\ Drawn(d, c, n)' = Drawn(d, c, n)
<1>1. TileRows(d, c)' = TileRows(d, c)
  BY PixelsConstant DEF TileRows
<1>2. BitonalTileRows(d, c)' = BitonalTileRows(d, c)
  BY PixelsConstant DEF BitonalTileRows
<1>3. TileDrawn(d, c, n)' = TileDrawn(d, c, n)
  BY <1>1, PlacesConstant DEF TileDrawn
<1>4. BitonalTileDrawn(d, c, n)' = BitonalTileDrawn(d, c, n)
  BY <1>2, PlacesConstant DEF BitonalTileDrawn
<1>5. CellArrayDrawn(d, c, n)' = CellArrayDrawn(d, c, n)
  BY DEF CellArrayDrawn
<1>6. Drawn(d, c, n)' = Drawn(d, c, n)
  <2>1. TextBox(c)' = TextBox(c)
    BY DEF TextBox, Constant
  <2>2. Extent(c)' = Extent(c)
    BY <2>1 DEF Extent
  <2>3. InkBox(c)' = InkBox(c)
    BY <2>2 DEF InkBox
  <2> QED
    BY <2>3 DEF Drawn
<1> QED
  BY <1>3, <1>4, <1>5, <1>6

\* What a command does to a drawing stays the same while there is drawn.
LEMMA EffectConstant ==
  ASSUME Constant, NEW CONSTANT d, NEW CONSTANT c, NEW CONSTANT n
  PROVE  Effect(d, c, n)' = Effect(d, c, n)
BY StyleConstant, ImagesConstant DEF Effect, EndedPicture, Backgrounded

----------------------------------------------------------------------------
\* Two drawings that only differ in which picture they take theirs for

Drawings(d, p, s, t, v, k, m) ==
  d = [picture |-> p, style |-> s, tiles |-> t, canvas |-> v, ink |-> k, images |-> m]
IsDrawing(d) == Drawings(d, d.picture, d.style, d.tiles, d.canvas, d.ink, d.images)
Like(d, e) == /\ d.style = e.style /\ d.tiles = e.tiles /\ d.canvas = e.canvas
              /\ d.ink = e.ink /\ d.images = e.images
Pair(d, e) == IsDrawing(d) /\ IsDrawing(e) /\ Like(d, e)
\* x and y come from d and e.
From(d, e, x, y) == Pair(x, y) /\ x.picture = d.picture /\ y.picture = e.picture

LEMMA Changes ==
  ASSUME NEW d, IsDrawing(d), NEW v, NEW w
  PROVE  /\ Drawings([d EXCEPT !.style = v], d.picture, v, d.tiles, d.canvas, d.ink, d.images)
         /\ Drawings([d EXCEPT !.style = v, !.canvas = w], d.picture, v, d.tiles, w, d.ink, d.images)
         /\ Drawings([d EXCEPT !.style = v, !.tiles = w], d.picture, v, w, d.canvas, d.ink, d.images)
         /\ Drawings([d EXCEPT !.style.palette = v], d.picture, [d.style EXCEPT !.palette = v], d.tiles, d.canvas, d.ink, d.images)
         /\ Drawings([d EXCEPT !.tiles = v], d.picture, d.style, v, d.canvas, d.ink, d.images)
         /\ Drawings([d EXCEPT !.ink = v], d.picture, d.style, d.tiles, d.canvas, v, d.images)
         /\ Drawings([d EXCEPT !.images = v], d.picture, d.style, d.tiles, d.canvas, d.ink, v)
         /\ Drawings([d EXCEPT !.picture = v], v, d.style, d.tiles, d.canvas, d.ink, d.images)
<1>1. PICK p, s, t, b, k, m : d = [picture |-> p, style |-> s, tiles |-> t, canvas |-> b, ink |-> k, images |-> m]
  BY DEF IsDrawing, Drawings
<1>2. d.picture = p /\ d.style = s /\ d.tiles = t /\ d.canvas = b /\ d.ink = k /\ d.images = m
  BY <1>1
<1>3. Drawings([d EXCEPT !.style = v], p, v, t, b, k, m)
  BY <1>1 DEF Drawings
<1>4. Drawings([d EXCEPT !.style = v, !.canvas = w], p, v, t, w, k, m)
  <2>1. [d EXCEPT !.style = v, !.canvas = w] = [[d EXCEPT !.style = v] EXCEPT !.canvas = w]
    BY <1>1
  <2>2. PICK x : x = [d EXCEPT !.style = v]
    OBVIOUS
  <2>3. x = [picture |-> p, style |-> v, tiles |-> t, canvas |-> b, ink |-> k, images |-> m]
    BY <1>1, <2>2
  <2>4. Drawings([x EXCEPT !.canvas = w], p, v, t, w, k, m)
    BY <2>3 DEF Drawings
  <2> QED
    BY <2>1, <2>2, <2>4
<1>5. Drawings([d EXCEPT !.style = v, !.tiles = w], p, v, w, b, k, m)
  <2>1. [d EXCEPT !.style = v, !.tiles = w] = [[d EXCEPT !.style = v] EXCEPT !.tiles = w]
    BY <1>1
  <2>2. PICK x : x = [d EXCEPT !.style = v]
    OBVIOUS
  <2>3. x = [picture |-> p, style |-> v, tiles |-> t, canvas |-> b, ink |-> k, images |-> m]
    BY <1>1, <2>2
  <2>4. Drawings([x EXCEPT !.tiles = w], p, v, w, b, k, m)
    BY <2>3 DEF Drawings
  <2> QED
    BY <2>1, <2>2, <2>4
<1>6. Drawings([d EXCEPT !.style.palette = v], p, [s EXCEPT !.palette = v], t, b, k, m)
  BY <1>1 DEF Drawings
<1>7. Drawings([d EXCEPT !.tiles = v], p, s, v, b, k, m)
  BY <1>1 DEF Drawings
<1>8. Drawings([d EXCEPT !.ink = v], p, s, t, b, v, m)
  BY <1>1 DEF Drawings
<1>9. Drawings([d EXCEPT !.images = v], p, s, t, b, k, v)
  BY <1>1 DEF Drawings
<1>10. Drawings([d EXCEPT !.picture = v], v, s, t, b, k, m)
  BY <1>1 DEF Drawings
<1> QED
  BY <1>2, <1>3, <1>4, <1>5, <1>6, <1>7, <1>8, <1>9, <1>10

LEMMA DrawingsAre ==
  ASSUME NEW d, NEW p, NEW s, NEW t, NEW v, NEW k, NEW m, Drawings(d, p, s, t, v, k, m)
  PROVE  /\ IsDrawing(d) /\ d.picture = p /\ d.style = s /\ d.tiles = t /\ d.canvas = v /\ d.ink = k /\ d.images = m
BY DEF Drawings, IsDrawing

LEMMA SamePair ==
  ASSUME NEW d, NEW e, Pair(d, e)
  PROVE  From(d, e, d, e)
BY DEF From

LEMMA FromFrom ==
  ASSUME NEW d, NEW e, NEW x, NEW y, From(d, e, x, y), NEW u, NEW v, From(x, y, u, v)
  PROVE  From(d, e, u, v)
BY DEF From

LEMMA PassedPair ==
  ASSUME NEW d, NEW e, Pair(d, e)
  PROVE  From(d, e, Passed(d), Passed(e))
<1>1. PICK t : t = AdvanceTileIndex(d.tiles)
  OBVIOUS
<1>2. t = AdvanceTileIndex(e.tiles)
  BY <1>1 DEF Pair, Like
<1>3. PICK x, y : x = [d EXCEPT !.tiles = t] /\ y = [e EXCEPT !.tiles = t]
  OBVIOUS
<1>4. IsDrawing(d) /\ IsDrawing(e)
  BY DEF Pair
<1>5. Passed(d) = x /\ Passed(e) = y
  <2>1. Passed(d) = [d EXCEPT !.tiles = AdvanceTileIndex(d.tiles)]
    BY <1>4 DEF Passed, IsDrawing, Drawings
  <2>2. Passed(e) = [e EXCEPT !.tiles = AdvanceTileIndex(e.tiles)]
    BY <1>4 DEF Passed, IsDrawing, Drawings
  <2> QED
    BY <1>1, <1>2, <1>3, <2>1, <2>2
<1>6. /\ Drawings(x, d.picture, d.style, t, d.canvas, d.ink, d.images)
      /\ Drawings(y, e.picture, e.style, t, e.canvas, e.ink, e.images)
  BY <1>3, <1>4, Changes
<1> QED
  BY <1>5, <1>6, DrawingsAre DEF Pair, From, Like

LEMMA PlacedPair ==
  ASSUME NEW d, NEW e, Pair(d, e), NEW n, NEW origin, NEW geometry, NEW rows
  PROVE  From(d, e, Placed(d, n, origin, geometry, rows), Placed(e, n, origin, geometry, rows))
<1>1. PICK box : box = ImageBox(origin, geometry.along, geometry.down)
  OBVIOUS
<1>2. IsDrawing(d) /\ IsDrawing(e)
  BY DEF Pair
<1>3. CASE Degenerate(box)
  <2>1. Placed(d, n, origin, geometry, rows) = d /\ Placed(e, n, origin, geometry, rows) = e
    BY <1>1, <1>3 DEF Placed
  <2> QED
    BY <2>1, SamePair
<1>4. CASE ~Degenerate(box)
  <2>1. PICK m : m = Append(d.images, Image(n, box, rows, d.tiles.inArray))
    OBVIOUS
  <2>2. m = Append(e.images, Image(n, box, rows, e.tiles.inArray))
    BY <2>1 DEF Pair, Like
  <2>3. PICK x, y : x = [d EXCEPT !.images = m] /\ y = [e EXCEPT !.images = m]
    OBVIOUS
  <2>4. Placed(d, n, origin, geometry, rows) = x
    <3>1. Placed(d, n, origin, geometry, rows) = [d EXCEPT !.images = Append(d.images, Image(n, box, rows, d.tiles.inArray))]
      BY <1>1, <1>2, <1>4 DEF Placed, IsDrawing, Drawings
    <3> QED
      BY <2>1, <2>3, <3>1
  <2>5. Placed(e, n, origin, geometry, rows) = y
    <3>1. Placed(e, n, origin, geometry, rows) = [e EXCEPT !.images = Append(e.images, Image(n, box, rows, e.tiles.inArray))]
      BY <1>1, <1>2, <1>4 DEF Placed, IsDrawing, Drawings
    <3> QED
      BY <2>2, <2>3, <3>1
  <2>6. /\ Drawings(x, d.picture, d.style, d.tiles, d.canvas, d.ink, m)
        /\ Drawings(y, e.picture, e.style, e.tiles, e.canvas, e.ink, m)
    BY <1>2, <2>3, Changes
  <2> QED
    BY <2>4, <2>5, <2>6, DrawingsAre DEF Pair, From, Like
<1> QED
  BY <1>3, <1>4

\* One field set to the same value.
LEMMA SetPair ==
  ASSUME NEW d, NEW e, Pair(d, e), NEW v, NEW w
  PROVE  /\ From(d, e, [d EXCEPT !.style = v], [e EXCEPT !.style = v])
         /\ From(d, e, [d EXCEPT !.style = v, !.canvas = w], [e EXCEPT !.style = v, !.canvas = w])
         /\ From(d, e, [d EXCEPT !.style.palette = v], [e EXCEPT !.style.palette = v])
         /\ From(d, e, [d EXCEPT !.tiles = v], [e EXCEPT !.tiles = v])
         /\ From(d, e, [d EXCEPT !.ink = v], [e EXCEPT !.ink = v])
         /\ From(d, e, [d EXCEPT !.images = v], [e EXCEPT !.images = v])
<1>1. IsDrawing(d) /\ IsDrawing(e) /\ Like(d, e)
  BY DEF Pair
<1>2. ASSUME NEW x, NEW y, NEW s, NEW t, NEW b, NEW k, NEW m,
             Drawings(x, d.picture, s, t, b, k, m), Drawings(y, e.picture, s, t, b, k, m)
      PROVE  From(d, e, x, y)
  BY <1>2, DrawingsAre DEF From, Pair, Like
<1>3. From(d, e, [d EXCEPT !.style = v], [e EXCEPT !.style = v])
  <2>1. PICK x, y : x = [d EXCEPT !.style = v] /\ y = [e EXCEPT !.style = v]
    OBVIOUS
  <2>2. Drawings(x, d.picture, v, d.tiles, d.canvas, d.ink, d.images) /\ Drawings(y, e.picture, v, e.tiles, e.canvas, e.ink, e.images)
    BY <1>1, <2>1, Changes
  <2> QED
    BY <1>1, <1>2, <2>1, <2>2 DEF Like
<1>4. From(d, e, [d EXCEPT !.style = v, !.canvas = w], [e EXCEPT !.style = v, !.canvas = w])
  <2>1. PICK x, y : x = [d EXCEPT !.style = v, !.canvas = w] /\ y = [e EXCEPT !.style = v, !.canvas = w]
    OBVIOUS
  <2>2. Drawings(x, d.picture, v, d.tiles, w, d.ink, d.images) /\ Drawings(y, e.picture, v, e.tiles, w, e.ink, e.images)
    BY <1>1, <2>1, Changes
  <2> QED
    BY <1>1, <1>2, <2>1, <2>2 DEF Like
<1>5. From(d, e, [d EXCEPT !.style.palette = v], [e EXCEPT !.style.palette = v])
  <2>1. PICK x, y : x = [d EXCEPT !.style.palette = v] /\ y = [e EXCEPT !.style.palette = v]
    OBVIOUS
  <2>2. /\ Drawings(x, d.picture, [d.style EXCEPT !.palette = v], d.tiles, d.canvas, d.ink, d.images)
        /\ Drawings(y, e.picture, [e.style EXCEPT !.palette = v], e.tiles, e.canvas, e.ink, e.images)
    BY <1>1, <2>1, Changes
  <2> QED
    BY <1>1, <1>2, <2>1, <2>2 DEF Like
<1>6. From(d, e, [d EXCEPT !.tiles = v], [e EXCEPT !.tiles = v])
  <2>1. PICK x, y : x = [d EXCEPT !.tiles = v] /\ y = [e EXCEPT !.tiles = v]
    OBVIOUS
  <2>2. Drawings(x, d.picture, d.style, v, d.canvas, d.ink, d.images) /\ Drawings(y, e.picture, e.style, v, e.canvas, e.ink, e.images)
    BY <1>1, <2>1, Changes
  <2> QED
    BY <1>1, <1>2, <2>1, <2>2 DEF Like
<1>7. From(d, e, [d EXCEPT !.ink = v], [e EXCEPT !.ink = v])
  <2>1. PICK x, y : x = [d EXCEPT !.ink = v] /\ y = [e EXCEPT !.ink = v]
    OBVIOUS
  <2>2. Drawings(x, d.picture, d.style, d.tiles, d.canvas, v, d.images) /\ Drawings(y, e.picture, e.style, e.tiles, e.canvas, v, e.images)
    BY <1>1, <2>1, Changes
  <2> QED
    BY <1>1, <1>2, <2>1, <2>2 DEF Like
<1>8. From(d, e, [d EXCEPT !.images = v], [e EXCEPT !.images = v])
  <2>1. PICK x, y : x = [d EXCEPT !.images = v] /\ y = [e EXCEPT !.images = v]
    OBVIOUS
  <2>2. Drawings(x, d.picture, d.style, d.tiles, d.canvas, d.ink, v) /\ Drawings(y, e.picture, e.style, e.tiles, e.canvas, e.ink, v)
    BY <1>1, <2>1, Changes
  <2> QED
    BY <1>1, <1>2, <2>1, <2>2 DEF Like
<1> QED
  BY <1>3, <1>4, <1>5, <1>6, <1>7, <1>8

\* A drawing's field, changed by what it was.
LEMMA FieldsChange ==
  ASSUME NEW d, IsDrawing(d), NEW c, NEW n
  PROVE  /\ Passed(d) = [d EXCEPT !.tiles = AdvanceTileIndex(d.tiles)]
         /\ Backgrounded(d, c) = [d EXCEPT !.style.palette = WithEntry(d.style.palette, 0, c.colour.rgb)]
         /\ BodyBegun(d) = [d EXCEPT !.style = Refreshed(d.style),
                                     !.canvas = IF metrics.given THEN d.style.palette[0] ELSE White]
<1>1. PICK p, s, t, b, k, m : d = [picture |-> p, style |-> s, tiles |-> t, canvas |-> b, ink |-> k, images |-> m]
  BY DEF IsDrawing, Drawings
<1>2. Passed(d) = [d EXCEPT !.tiles = AdvanceTileIndex(d.tiles)]
  BY <1>1 DEF Passed
<1>3. Backgrounded(d, c) = [d EXCEPT !.style.palette = WithEntry(d.style.palette, 0, c.colour.rgb)]
  BY <1>1 DEF Backgrounded
<1>4. BodyBegun(d) = [d EXCEPT !.style = Refreshed(d.style),
                              !.canvas = IF metrics.given THEN d.style.palette[0] ELSE White]
  BY <1>1 DEF BodyBegun
<1> QED
  BY <1>2, <1>3, <1>4

LEMMA TilePair ==
  ASSUME NEW d, NEW e, Pair(d, e), NEW c, NEW n
  PROVE  From(d, e, TileDrawn(d, c, n), TileDrawn(e, c, n))
<1>1. PICK rows, g : rows = TileRows(d, c) /\ g = TileGeometry(d.tiles, c, FALSE)
  OBVIOUS
<1>2. rows = TileRows(e, c) /\ g = TileGeometry(e.tiles, c, FALSE)
  BY <1>1 DEF Pair, Like, TileRows
<1>3. From(d, e, Passed(d), Passed(e))
  BY PassedPair
<1>4. PICK x, y : x = Placed(d, n, g.origin, g, rows) /\ y = Placed(e, n, g.origin, g, rows)
  OBVIOUS
<1>5. From(d, e, x, y)
  BY <1>4, PlacedPair
<1>6. From(d, e, Passed(x), Passed(y))
  BY <1>5, PassedPair, FromFrom DEF From
<1>7. PICK none : none <=> (c.data = <<>> \/ c.compression \notin {5, 6, 7, 9} \/ rows = <<>>)
  OBVIOUS
<1>8. TileDrawn(d, c, n) = (IF none THEN Passed(d) ELSE Passed(x))
  BY <1>1, <1>4, <1>7 DEF TileDrawn
<1>9. TileDrawn(e, c, n) = (IF none THEN Passed(e) ELSE Passed(y))
  BY <1>2, <1>4, <1>7 DEF TileDrawn
<1> QED
  BY <1>3, <1>6, <1>8, <1>9

LEMMA BitonalTilePair ==
  ASSUME NEW d, NEW e, Pair(d, e), NEW c, NEW n
  PROVE  From(d, e, BitonalTileDrawn(d, c, n), BitonalTileDrawn(e, c, n))
<1>1. PICK rows, g, o : rows = BitonalTileRows(d, c) /\ g = TileGeometry(d.tiles, c, TRUE) /\ o = BitonalOrigin(d.tiles, g)
  OBVIOUS
<1>2. rows = BitonalTileRows(e, c) /\ g = TileGeometry(e.tiles, c, TRUE) /\ o = BitonalOrigin(e.tiles, g)
  BY <1>1 DEF Pair, Like, BitonalTileRows
<1>3. From(d, e, Passed(d), Passed(e))
  BY PassedPair
<1>4. PICK x, y : x = Placed(d, n, o, g, rows) /\ y = Placed(e, n, o, g, rows)
  OBVIOUS
<1>5. From(d, e, x, y)
  BY <1>4, PlacedPair
<1>6. From(d, e, Passed(x), Passed(y))
  BY <1>5, PassedPair, FromFrom DEF From
<1>7. PICK none : none <=> (c.data = <<>> \/ c.compression \notin {2, 5, 6, 7, 9} \/ rows = <<>>)
  OBVIOUS
<1>8. BitonalTileDrawn(d, c, n) = (IF none THEN Passed(d) ELSE Passed(x))
  BY <1>1, <1>4, <1>7 DEF BitonalTileDrawn
<1>9. BitonalTileDrawn(e, c, n) = (IF none THEN Passed(e) ELSE Passed(y))
  BY <1>2, <1>4, <1>7 DEF BitonalTileDrawn
<1> QED
  BY <1>3, <1>6, <1>8, <1>9

LEMMA CellArrayPair ==
  ASSUME NEW d, NEW e, Pair(d, e), NEW c, NEW n
  PROVE  From(d, e, CellArrayDrawn(d, c, n), CellArrayDrawn(e, c, n))
<1>1. PICK i : i = Image(n, CellBox(c), EncodeCellArray(c, d.style.palette), FALSE)
  OBVIOUS
<1>2. i = Image(n, CellBox(c), EncodeCellArray(c, e.style.palette), FALSE) /\ d.images = e.images
  BY <1>1 DEF Pair, Like
<1>3. PICK none : none <=> (c.nx <= 0 \/ c.ny <= 0 \/ c.cells = <<>> \/ (~UsesMatrix(c) /\ Degenerate(CellBox(c))))
  OBVIOUS
<1>4. PICK m : m = Append(d.images, i)
  OBVIOUS
<1>5. [d EXCEPT !.images = Append(@, i)] = [d EXCEPT !.images = m] /\ [e EXCEPT !.images = Append(@, i)] = [e EXCEPT !.images = m]
  BY <1>2, <1>4 DEF Pair, IsDrawing, Drawings
<1>6. CellArrayDrawn(d, c, n) = (IF none THEN d ELSE [d EXCEPT !.images = Append(@, i)])
  BY <1>1, <1>3 DEF CellArrayDrawn
<1>7. CellArrayDrawn(e, c, n) = (IF none THEN e ELSE [e EXCEPT !.images = Append(@, i)])
  BY <1>2, <1>3 DEF CellArrayDrawn
<1>8. CellArrayDrawn(d, c, n) = (IF none THEN d ELSE [d EXCEPT !.images = m])
  BY <1>5, <1>6
<1>9. CellArrayDrawn(e, c, n) = (IF none THEN e ELSE [e EXCEPT !.images = m])
  BY <1>5, <1>7
<1>10. From(d, e, [d EXCEPT !.images = m], [e EXCEPT !.images = m])
  BY SetPair
<1> QED
  BY <1>8, <1>9, <1>10, SamePair

LEMMA DrawnPair ==
  ASSUME NEW d, NEW e, Pair(d, e), NEW c, NEW n
  PROVE  From(d, e, Drawn(d, c, n), Drawn(e, c, n))
<1>1. PICK i : i = [by |-> n, seen |-> Seen(d, c.kind), box |-> Grown(InkBox(c), HalfWidth(d, c.kind), HalfWidth(d, c.kind))]
  OBVIOUS
<1>2. Seen(d, c.kind) = Seen(e, c.kind) /\ HalfWidth(d, c.kind) = HalfWidth(e, c.kind)
  BY DEF Pair, Like, Seen, HalfWidth
<1>3. i = [by |-> n, seen |-> Seen(e, c.kind), box |-> Grown(InkBox(c), HalfWidth(e, c.kind), HalfWidth(e, c.kind))]
  BY <1>1, <1>2
<1>4. PICK m : m = Append(d.ink, i)
  OBVIOUS
<1>5. m = Append(e.ink, i)
  BY <1>4 DEF Pair, Like
<1>6. Drawn(d, c, n) = [d EXCEPT !.ink = Append(@, i)]
  BY <1>1 DEF Drawn
<1>7. Drawn(e, c, n) = [e EXCEPT !.ink = Append(@, i)]
  BY <1>3 DEF Drawn
<1>8. [d EXCEPT !.ink = Append(@, i)] = [d EXCEPT !.ink = m] /\ [e EXCEPT !.ink = Append(@, i)] = [e EXCEPT !.ink = m]
  BY <1>4, <1>5 DEF Pair, IsDrawing, Drawings
<1>9. From(d, e, [d EXCEPT !.ink = m], [e EXCEPT !.ink = m])
  BY SetPair
<1> QED
  BY <1>6, <1>7, <1>8, <1>9

LEMMA StyledPair ==
  ASSUME NEW d, NEW e, Pair(d, e), NEW c
  PROVE  From(d, e, Styled(d, c), Styled(e, c))
<1>1. PICK set : set = Set(d.style, c, metrics.lineMode, metrics.edgeMode)
  OBVIOUS
<1>2. set = Set(e.style, c, metrics.lineMode, metrics.edgeMode)
  BY <1>1 DEF Pair, Like
<1>3. PICK v : v = CASE c.kind \in ColourKinds -> [set EXCEPT !.explicit = @ \cup {c.kind}]
                     [] c.kind = "ColourTable" /\ c.index = 1 -> Refreshed(set)
                     [] OTHER -> set
  OBVIOUS
<1>4. Styled(d, c) = [d EXCEPT !.style = v]
  BY <1>1, <1>3 DEF Styled
<1>5. Styled(e, c) = [e EXCEPT !.style = v]
  BY <1>2, <1>3 DEF Styled
<1>6. From(d, e, [d EXCEPT !.style = v], [e EXCEPT !.style = v])
  BY SetPair
<1> QED
  BY <1>4, <1>5, <1>6

\* Commands within a picture treat both alike.
LEMMA EffectPair ==
  ASSUME NEW d, NEW e, Pair(d, e), NEW c, NEW n, c.kind # "BeginPicture"
  PROVE  From(d, e, Effect(d, c, n), Effect(e, c, n))
<1>1. IsDrawing(d) /\ IsDrawing(e) /\ d.style = e.style
  BY DEF Pair, Like
<1>2. CASE c.kind = "BeginPictureBody"
  <2>1. PICK v, w : v = Refreshed(d.style) /\ w = IF metrics.given THEN d.style.palette[0] ELSE White
    OBVIOUS
  <2>2. BodyBegun(d) = [d EXCEPT !.style = v, !.canvas = w] /\ BodyBegun(e) = [e EXCEPT !.style = v, !.canvas = w]
    BY <1>1, <2>1, FieldsChange
  <2>3. From(d, e, BodyBegun(d), BodyBegun(e))
    <3>1. From(d, e, [d EXCEPT !.style = v, !.canvas = w], [e EXCEPT !.style = v, !.canvas = w])
      BY SetPair
    <3> QED
      BY <2>2, <3>1
  <2> QED
    BY <1>2, <2>3 DEF Effect, Attributes, Primitives, Measured, Areas, Pictured
<1>3. CASE c.kind = "EndPicture"
  <2>1. From(d, e, EndedPicture(d), EndedPicture(e))
    BY SetPair DEF EndedPicture
  <2> QED
    BY <1>3, <2>1 DEF Effect, Attributes, Primitives, Measured, Areas, Pictured
<1>4. CASE c.kind = "Background"
  <2>1. PICK v : v = WithEntry(d.style.palette, 0, c.colour.rgb)
    OBVIOUS
  <2>2. Backgrounded(d, c) = [d EXCEPT !.style.palette = v] /\ Backgrounded(e, c) = [e EXCEPT !.style.palette = v]
    <3>1. Backgrounded(d, c) = [d EXCEPT !.style.palette = WithEntry(d.style.palette, 0, c.colour.rgb)]
      BY <1>1, FieldsChange
    <3>2. Backgrounded(e, c) = [e EXCEPT !.style.palette = WithEntry(e.style.palette, 0, c.colour.rgb)]
      BY <1>1, FieldsChange
    <3> QED
      BY <1>1, <2>1, <3>1, <3>2
  <2>3. From(d, e, Backgrounded(d, c), Backgrounded(e, c))
    <3>1. From(d, e, [d EXCEPT !.style.palette = v], [e EXCEPT !.style.palette = v])
      BY SetPair
    <3> QED
      BY <2>2, <3>1
  <2> QED
    BY <1>4, <2>3 DEF Effect, Attributes, Primitives, Measured, Areas, Pictured
<1>5. CASE c.kind = "BeginTileArray"
  <2>1. From(d, e, [d EXCEPT !.tiles = BeginTileArray(c)], [e EXCEPT !.tiles = BeginTileArray(c)])
    BY SetPair
  <2> QED
    BY <1>5, <2>1 DEF Effect, Attributes, Primitives, Measured, Areas, Pictured
<1>6. CASE c.kind = "EndTileArray"
  <2>1. From(d, e, [d EXCEPT !.tiles = NoTileArray], [e EXCEPT !.tiles = NoTileArray])
    BY SetPair
  <2> QED
    BY <1>6, <2>1 DEF Effect, Attributes, Primitives, Measured, Areas, Pictured
<1>7. CASE c.kind = "Tile"
  BY <1>7, TilePair DEF Effect, Attributes, Primitives, Measured, Areas, Pictured
<1>8. CASE c.kind = "BitonalTile"
  BY <1>8, BitonalTilePair DEF Effect, Attributes, Primitives, Measured, Areas, Pictured
<1>9. CASE c.kind = "CellArray"
  BY <1>9, CellArrayPair DEF Effect, Attributes, Primitives, Measured, Areas, Pictured
<1>10. CASE c.kind \in Attributes
  BY <1>10, StyledPair DEF Effect, Attributes, Primitives, Measured, Areas, Pictured
<1>11. CASE c.kind \in Primitives \ Pictured
  BY <1>11, DrawnPair DEF Effect, Attributes, Primitives, Measured, Areas, Pictured
<1>12. CASE /\ c.kind \notin Attributes \cup Primitives
            /\ c.kind \notin {"BeginPictureBody", "EndPicture", "Background", "BeginTileArray", "EndTileArray"}
  BY <1>12, SamePair DEF Effect, Attributes, Primitives, Measured, Areas, Pictured
<1> QED
  BY <1>2, <1>3, <1>4, <1>5, <1>6, <1>7, <1>8, <1>9, <1>10, <1>11, <1>12 DEF Pictured

----------------------------------------------------------------------------
\* A run of commands

\* The drawings on the way, from the blank one on.
Steps(b, s, n) == b[0] = Blank /\ \A i \in 1 .. n : b[i] = Performed(b[i - 1], s[i])

LEMMA FoldSteps ==
  ASSUME NEW n \in Nat, NEW s, Len(s) = n
  PROVE  \E b : Steps(b, s, n) /\ Fold(Performed, Blank, s) = b[n]
<1> DEFINE G == {m \in 0 .. n : \E h : \A i \in 0 .. m : h[i] = IF i = 0 THEN Blank ELSE Performed(h[i - 1], s[i])}
<1>1. 0 \in G
  <2>1. PICK h : h = [i \in 0 .. 0 |-> Blank]
    OBVIOUS
  <2>2. \A i \in 0 .. 0 : h[i] = IF i = 0 THEN Blank ELSE Performed(h[i - 1], s[i])
    BY <2>1
  <2> QED
    BY <2>2
<1>2. ASSUME NEW i \in 1 .. n, i - 1 \in G PROVE i \in G
  <2>1. PICK k : k = i - 1 /\ k \in Nat /\ i = k + 1 /\ k \in G
    BY <1>2
  <2>2. PICK h : \A j \in 0 .. k : h[j] = IF j = 0 THEN Blank ELSE Performed(h[j - 1], s[j])
    BY <2>1
  <2>3. PICK y : y = Performed(h[k], s[i])
    OBVIOUS
  <2>4. PICK l : l = [j \in 0 .. i |-> IF j = i THEN y ELSE h[j]]
    OBVIOUS
  <2>5. l[i] = y /\ \A j \in 0 .. k : l[j] = h[j]
    BY <2>1, <2>4
  <2>6. ASSUME NEW j \in 0 .. i PROVE l[j] = IF j = 0 THEN Blank ELSE Performed(l[j - 1], s[j])
    <3>1. CASE j = i
      BY <2>1, <2>3, <2>5, <3>1
    <3>2. CASE j # i
      <4>1. j \in 0 .. k /\ (j # 0 => j - 1 \in 0 .. k)
        BY <2>1, <3>2
      <4> QED
        BY <2>2, <2>5, <4>1
    <3> QED
      BY <3>1, <3>2
  <2> QED
    BY <2>6
<1>3. n \in G
  <2>1. 0 .. n \subseteq G
    <3> HIDE DEF G
    <3> QED
      BY <1>1, <1>2, HoldsThroughout
  <2> QED
    BY <2>1
<1>4. PICK h : \A i \in 0 .. n : h[i] = IF i = 0 THEN Blank ELSE Performed(h[i - 1], s[i])
  BY <1>3
<1>5. PICK a : a = [i \in 0 .. n |-> h[i]]
  OBVIOUS
<1>6. ASSUME NEW i \in 0 .. n PROVE a[i] = IF i = 0 THEN Blank ELSE Performed(a[i - 1], s[i])
  <2>1. a[i] = h[i] /\ (i # 0 => i - 1 \in 0 .. n /\ a[i - 1] = h[i - 1])
    BY <1>5
  <2> QED
    BY <1>4, <2>1
<1>7. a = [i \in 0 .. n |-> IF i = 0 THEN Blank ELSE Performed(a[i - 1], s[i])]
  BY <1>5, <1>6
<1>8. PICK b : /\ b = CHOOSE g : g = [i \in 0 .. n |-> IF i = 0 THEN Blank ELSE Performed(g[i - 1], s[i])]
               /\ b = [i \in 0 .. n |-> IF i = 0 THEN Blank ELSE Performed(b[i - 1], s[i])]
  BY <1>7
<1>9. Fold(Performed, Blank, s) = b[n]
  BY <1>8 DEF Fold
<1>10. b[0] = Blank /\ \A i \in 1 .. n : b[i] = Performed(b[i - 1], s[i])
  <2> DEFINE B(i) == IF i = 0 THEN Blank ELSE Performed(b[i - 1], s[i])
  <2>1. b = [i \in 0 .. n |-> B(i)]
    BY <1>8
  <2>2. \A i \in 0 .. n : b[i] = B(i)
    <3> HIDE DEF B
    <3> QED
      BY <2>1
  <2> QED
    BY <2>2
<1> QED
  BY <1>9, <1>10 DEF Steps

----------------------------------------------------------------------------
\* Beginning a picture

LEMMA BlankIs == Drawings(Blank, -1, InitialStyle, NoTileArray, White, <<>>, <<>>)
  BY DEF Blank, Drawings

\* Nothing has been drawn, and no picture begun.
Bare(d) == IsDrawing(d) /\ d.picture = -1 /\ d.canvas = White /\ d.ink = <<>> /\ d.images = <<>>

\* What stands before the pictures and does not draw leaves a drawing bare.
LEMMA BareStays ==
  ASSUME NEW d, Bare(d), NEW c, NEW n, ~Draws(c), c.kind # "BeginPicture"
  PROVE  Bare(Effect(d, c, n))
<1>1. IsDrawing(d)
  BY DEF Bare
<1>2. ASSUME NEW x, NEW v, NEW w, Drawings(x, d.picture, v, w, d.canvas, d.ink, d.images) PROVE Bare(x)
  BY <1>2, DrawingsAre DEF Bare
<1>3. c.kind \notin Primitives /\ c.kind # "BeginPictureBody"
  BY DEF Draws
<1>4. ASSUME NEW v PROVE Bare([d EXCEPT !.tiles = v]) /\ Bare([d EXCEPT !.style = v]) /\ Bare([d EXCEPT !.style.palette = v])
  BY <1>1, <1>2, Changes
<1>5. CASE c.kind = "EndPicture"
  BY <1>4, <1>5 DEF EndedPicture, Effect, Attributes, Primitives, Measured, Areas, Pictured
<1>6. CASE c.kind = "Background"
  <2>1. Backgrounded(d, c) = [d EXCEPT !.style.palette = WithEntry(d.style.palette, 0, c.colour.rgb)]
    BY <1>1, FieldsChange
  <2>2. Bare(Backgrounded(d, c))
    BY <1>4, <2>1
  <2> QED
    BY <1>6, <2>2 DEF Effect, Attributes, Primitives, Measured, Areas, Pictured
<1>7. CASE c.kind = "BeginTileArray"
  BY <1>4, <1>7 DEF Effect, Attributes, Primitives, Measured, Areas, Pictured
<1>8. CASE c.kind = "EndTileArray"
  BY <1>4, <1>8 DEF Effect, Attributes, Primitives, Measured, Areas, Pictured
<1>9. CASE c.kind \in Attributes
  <2>1. PICK v : Styled(d, c) = [d EXCEPT !.style = v]
    BY DEF Styled
  <2>2. Bare(Styled(d, c))
    BY <1>4, <2>1
  <2> QED
    BY <1>9, <2>2 DEF Effect, Attributes, Primitives, Measured, Areas, Pictured
<1>10. CASE c.kind \notin Attributes \cup {"EndPicture", "Background", "BeginTileArray", "EndTileArray"}
  BY <1>3, <1>10 DEF Effect, Attributes, Primitives, Measured, Areas, Pictured
<1> QED
  BY <1>5, <1>6, <1>7, <1>8, <1>9, <1>10

\* A picture begins alike whatever was drawn before it, and also as the
\* first one of a bare drawing.
LEMMA BegunAlike ==
  ASSUME NEW d, IsDrawing(d), NEW e, IsDrawing(e), d.picture \in Nat, e.picture \in Nat \/ Bare(e)
  PROVE  Pair(BegunPicture(d), BegunPicture(e))
<1> DEFINE New(x) == \E p : Drawings(x, p, InitialStyle, NoTileArray, White, <<>>, <<>>)
<1>1. ASSUME NEW x, x.picture \in Nat PROVE New(BegunPicture(x))
  <2>1. IsDrawing(Blank) /\ Blank.style = InitialStyle /\ Blank.tiles = NoTileArray /\ Blank.canvas = White
        /\ Blank.ink = <<>> /\ Blank.images = <<>>
    BY BlankIs, DrawingsAre
  <2>2. PICK q : q = x.picture + 1
    OBVIOUS
  <2>3. Drawings([Blank EXCEPT !.picture = q], q, InitialStyle, NoTileArray, White, <<>>, <<>>)
    <3>1. PICK z : z = Blank
      OBVIOUS
    <3>2. Drawings([z EXCEPT !.picture = q], q, z.style, z.tiles, z.canvas, z.ink, z.images)
      BY <2>1, <3>1, Changes
    <3> QED
      BY <2>1, <3>1, <3>2
  <2>4. BegunPicture(x) = [Blank EXCEPT !.picture = q]
    BY <1>1, <2>2 DEF BegunPicture
  <2> QED
    BY <2>3, <2>4
<1>2. ASSUME NEW x, Bare(x) PROVE New(BegunPicture(x))
  <2>1. IsDrawing(x) /\ x.picture = -1 /\ x.canvas = White /\ x.ink = <<>> /\ x.images = <<>>
    BY <1>2 DEF Bare
  <2>2. PICK y : y = [x EXCEPT !.style = InitialStyle, !.tiles = NoTileArray]
    OBVIOUS
  <2>3. Drawings(y, -1, InitialStyle, NoTileArray, White, <<>>, <<>>)
    <3>1. Drawings(y, x.picture, InitialStyle, NoTileArray, x.canvas, x.ink, x.images)
      BY <2>1, <2>2, Changes
    <3> QED
      BY <2>1, <3>1
  <2>4. BegunPicture(x) = [y EXCEPT !.picture = 0]
    BY <2>1, <2>2 DEF BegunPicture, Reset
  <2>5. IsDrawing(y) /\ y.style = InitialStyle /\ y.tiles = NoTileArray /\ y.canvas = White /\ y.ink = <<>> /\ y.images = <<>>
    BY <2>3, DrawingsAre
  <2>6. Drawings([y EXCEPT !.picture = 0], 0, y.style, y.tiles, y.canvas, y.ink, y.images)
    BY <2>5, Changes
  <2> QED
    BY <2>4, <2>5, <2>6
<1>3. New(BegunPicture(d)) /\ New(BegunPicture(e))
  <2> HIDE DEF New
  <2> QED
    BY <1>1, <1>2
<1> QED
  BY <1>3, DrawingsAre DEF Pair, Like

LEMMA BegunIs ==
  ASSUME NEW d, IsDrawing(d), d.picture \in Nat \/ d.picture = -1
  PROVE  IsDrawing(BegunPicture(d)) /\ BegunPicture(d).picture \in Nat
<1>1. CASE d.picture \in Nat
  <2>1. PICK z, q : z = Blank /\ q = d.picture + 1 /\ q \in Nat
    BY <1>1
  <2>2. IsDrawing(z)
    BY <2>1, BlankIs, DrawingsAre
  <2>3. Drawings([z EXCEPT !.picture = q], q, z.style, z.tiles, z.canvas, z.ink, z.images)
    BY <2>2, Changes
  <2>4. BegunPicture(d) = [z EXCEPT !.picture = q]
    BY <1>1, <2>1 DEF BegunPicture
  <2> QED
    BY <2>1, <2>3, <2>4, DrawingsAre
<1>2. CASE d.picture = -1
  <2>1. PICK y : y = [d EXCEPT !.style = InitialStyle, !.tiles = NoTileArray]
    OBVIOUS
  <2>2. Drawings(y, d.picture, InitialStyle, NoTileArray, d.canvas, d.ink, d.images)
    BY <2>1, Changes
  <2>3. IsDrawing(y)
    BY <2>2, DrawingsAre
  <2>4. Drawings([y EXCEPT !.picture = 0], 0, y.style, y.tiles, y.canvas, y.ink, y.images)
    BY <2>3, Changes
  <2>5. BegunPicture(d) = [y EXCEPT !.picture = 0]
    BY <1>2, <2>1 DEF BegunPicture, Reset
  <2> QED
    BY <2>4, <2>5, DrawingsAre
<1> QED
  BY <1>1, <1>2

\* A drawing whose picture has a number, or none yet.
Numbered(d) == IsDrawing(d) /\ (d.picture \in Nat \/ d.picture = -1)

LEMMA EffectNumbered ==
  ASSUME NEW d, Numbered(d), NEW c, NEW n
  PROVE  /\ Numbered(Effect(d, c, n))
         /\ d.picture \in Nat \/ c.kind = "BeginPicture" => Effect(d, c, n).picture \in Nat
<1>1. CASE c.kind = "BeginPicture"
  <2>1. IsDrawing(BegunPicture(d)) /\ BegunPicture(d).picture \in Nat
    BY BegunIs DEF Numbered
  <2>2. Effect(d, c, n) = BegunPicture(d)
    BY <1>1 DEF Effect, Attributes, Primitives, Measured, Areas, Pictured
  <2> QED
    BY <2>1, <2>2 DEF Numbered
<1>2. CASE c.kind # "BeginPicture"
  <2>1. Pair(d, d)
    BY DEF Numbered, Pair, Like
  <2>2. From(d, d, Effect(d, c, n), Effect(d, c, n))
    BY <1>2, <2>1, EffectPair
  <2> QED
    BY <1>2, <2>2 DEF From, Pair, Numbered
<1> QED
  BY <1>1, <1>2

\* All commands from the first on, m of them.
InOrder(a, m) == a[0] = Blank /\ \A i \in 1 .. m : a[i] = Performed(a[i - 1], i)

LEMMA OrderNumbered ==
  ASSUME NEW m \in Nat, NEW a, InOrder(a, m)
  PROVE  /\ \A i \in 0 .. m : Numbered(a[i])
         /\ \A f \in 1 .. m : file.commands[f].kind = "BeginPicture" => \A i \in f .. m : a[i].picture \in Nat
<1> DEFINE G == {i \in 0 .. m : Numbered(a[i]) /\ \A f \in 1 .. i : file.commands[f].kind = "BeginPicture" => a[i].picture \in Nat}
<1>1. 0 \in G
  <2>1. a[0] = Blank
    BY DEF InOrder
  <2>2. Numbered(Blank)
    BY BlankIs, DrawingsAre DEF Numbered
  <2>3. 1 .. 0 = {}
    OBVIOUS
  <2> QED
    BY <2>1, <2>2, <2>3
<1>2. ASSUME NEW i \in 1 .. m, i - 1 \in G PROVE i \in G
  <2>1. PICK d, c : d = a[i - 1] /\ c = file.commands[i]
    OBVIOUS
  <2>2. a[i] = Effect(d, c, i)
    BY <2>1 DEF InOrder, Performed
  <2>3. Numbered(d) /\ \A f \in 1 .. i - 1 : file.commands[f].kind = "BeginPicture" => d.picture \in Nat
    BY <1>2, <2>1
  <2>4. Numbered(a[i]) /\ (d.picture \in Nat \/ c.kind = "BeginPicture" => a[i].picture \in Nat)
    BY <2>2, <2>3, EffectNumbered
  <2>5. ASSUME NEW f \in 1 .. i, file.commands[f].kind = "BeginPicture" PROVE a[i].picture \in Nat
    <3>1. f = i \/ f \in 1 .. i - 1
      OBVIOUS
    <3> QED
      BY <2>1, <2>3, <2>4, <2>5, <3>1
  <2> QED
    BY <2>4, <2>5
<1>3. 0 .. m \subseteq G
  <2> HIDE DEF G
  <2> QED
    BY <1>1, <1>2, HoldsThroughout
<1>4. ASSUME NEW f \in 1 .. m, file.commands[f].kind = "BeginPicture", NEW i \in f .. m PROVE a[i].picture \in Nat
  <2>1. i \in 0 .. m /\ f \in 1 .. i
    OBVIOUS
  <2> QED
    BY <1>3, <1>4, <2>1
<1> QED
  BY <1>3, <1>4

----------------------------------------------------------------------------
\* The picture asked for

LEMMA EndIsThere ==
  ASSUME NEW n \in Nat, DOMAIN file.commands = 1 .. n, NEW k \in Nat, k < Cardinality(Ends)
  PROVE  EndOf(k) \in Ends
<1>1. PICK E : E = Ends
  OBVIOUS
<1>2. E \subseteq 1 .. n
  BY <1>1 DEF Ends
<1>3. \E e \in E : Cardinality({y \in E : y < e}) = k
  <2>1. k < Cardinality(E)
    BY <1>1
  <2>2. PICK e \in E : Cardinality(Earlier(E, e)) = k
    BY <1>2, <2>1, PlaceOf
  <2> QED
    BY <2>2 DEF Earlier
<1> QED
  BY <1>1, <1>3 DEF EndOf

LEMMA StartIsThere ==
  ASSUME NEW n \in Nat, DOMAIN file.commands = 1 .. n, NEW k \in Nat, EndOf(k) \in Ends
  PROVE  /\ EndOf(k) \in 1 .. n /\ StartOf(k) \in 1 .. EndOf(k) /\ IsBegin(StartOf(k))
         /\ \A b \in 1 .. EndOf(k) : IsBegin(b) => b <= StartOf(k)
<1>1. PICK e : e = EndOf(k)
  OBVIOUS
<1>2. e \in 1 .. n /\ \E b \in 1 .. e - 1 : IsBegin(b)
  BY <1>1 DEF Ends
<1>3. PICK S : S = {b \in 1 .. e : IsBegin(b)}
  OBVIOUS
<1>4. S \subseteq 1 .. e /\ S # {} /\ e \in Nat
  <2>1. PICK b \in 1 .. e - 1 : IsBegin(b)
    BY <1>2
  <2>2. b \in 1 .. e /\ e \in Nat
    BY <1>2
  <2> QED
    BY <1>3, <2>1, <2>2
<1>5. Max(S) \in S /\ \A y \in S : y <= Max(S)
  BY <1>4, LargestOf
<1>6. StartOf(k) = Max(S)
  BY <1>1, <1>3 DEF StartOf
<1> QED
  BY <1>1, <1>2, <1>3, <1>5, <1>6

\* The picture asked for ends up as it does alone.
LEMMA AloneAlike ==
  ASSUME NEW n \in Nat, DOMAIN file.commands = 1 .. n, DrawsInPictures(file),
         NEW k \in Nat, k < Cardinality(Ends), NEW a, InOrder(a, EndOf(k))
  PROVE  a[EndOf(k)].ink = Alone(k).ink /\ a[EndOf(k)].images = Alone(k).images
<1>1. PICK last, start : last = EndOf(k) /\ start = StartOf(k)
  OBVIOUS
<1>2. last \in 1 .. n /\ start \in 1 .. last /\ IsBegin(start) /\ \A b \in 1 .. last : IsBegin(b) => b <= start
  <2>1. EndOf(k) \in Ends
    BY EndIsThere
  <2> QED
    BY <1>1, <2>1, StartIsThere
<1>3. PICK first : /\ first = Min({m \in DOMAIN file.commands : IsBegin(m)})
                   /\ first \in 1 .. start /\ IsBegin(first) /\ \A b \in 1 .. n : IsBegin(b) => first <= b
  <2>1. PICK S : S = {m \in DOMAIN file.commands : IsBegin(m)}
    OBVIOUS
  <2>2. S \subseteq Nat /\ start \in S
    BY <1>2, <2>1
  <2>3. Min(S) \in S /\ \A y \in S : Min(S) <= y
    BY <2>2, SmallestOf
  <2>4. PICK f : f = Min(S)
    OBVIOUS
  <2>5. f \in DOMAIN file.commands /\ IsBegin(f) /\ f <= start
    BY <2>1, <2>2, <2>3, <2>4
  <2>6. f \in 1 .. start
    BY <1>2, <2>5
  <2>7. \A b \in 1 .. n : IsBegin(b) => f <= b
    BY <2>1, <2>3, <2>4
  <2>8. f = Min({m \in DOMAIN file.commands : IsBegin(m)})
    BY <2>1, <2>4
  <2> QED
    BY <2>5, <2>6, <2>7, <2>8
<1>a. n \in Nat /\ last \in Nat /\ start \in Nat /\ first \in Nat /\ 1 <= first /\ first <= start /\ start <= last /\ last <= n
  BY <1>2, <1>3
<1>4. PICK size : size = first + last - start /\ size \in Nat /\ first <= size
  <2>1. first + last - start \in Nat /\ first <= first + last - start
    BY <1>a
  <2> QED
    BY <2>1
<1>5. PICK own : own = [j \in 1 .. size |-> IF j < first THEN j ELSE start + j - first]
  OBVIOUS
<1>6. Len(own) = size /\ \A j \in 1 .. size : own[j] = IF j < first THEN j ELSE start + j - first
  <2>1. \A j \in 1 .. size : (IF j < first THEN j ELSE start + j - first) \in Int
    BY <1>2, <1>3, <1>4
  <2>2. own \in [1 .. size -> Int]
    BY <1>5, <2>1
  <2>3. own \in Seq(Int) /\ DOMAIN own = 1 .. size
    BY <1>4, <2>2
  <2>4. Len(own) = size
    BY <1>4, <2>3
  <2> QED
    BY <1>5, <2>4
<1>7. PICK b : Steps(b, own, size) /\ Fold(Performed, Blank, own) = b[size]
  BY <1>4, <1>6, FoldSteps
<1>8. Alone(k) = b[size]
  <2>1. Alone(k) = Fold(Performed, Blank, [j \in 1 .. first + last - start |-> IF j < first THEN j ELSE start + j - first])
    BY <1>1, <1>3 DEF Alone
  <2> QED
    BY <1>4, <1>5, <1>7, <2>1
<1>9. b[0] = Blank /\ \A j \in 1 .. size : b[j] = Performed(b[j - 1], own[j])
  BY <1>7 DEF Steps
<1>10. a[0] = Blank /\ \A j \in 1 .. last : a[j] = Performed(a[j - 1], j)
  BY <1>1 DEF InOrder
<1>11. /\ \A i \in 0 .. last : Numbered(a[i])
       /\ \A i \in first .. last : a[i].picture \in Nat
  <2>1. last \in Nat /\ InOrder(a, last) /\ first \in 1 .. last
    BY <1>1, <1>2, <1>3
  <2>2. file.commands[first].kind = "BeginPicture"
    BY <1>3 DEF IsBegin
  <2> QED
    BY <2>1, <2>2, OrderNumbered
\* Before the pictures, both do the same.
<1>12. \A i \in 0 .. first - 1 : Bare(a[i]) /\ a[i] = b[i]
  <2> DEFINE G == {i \in 0 .. first - 1 : Bare(a[i]) /\ a[i] = b[i]}
  <2>1. 0 \in G
    <3>1. Bare(Blank)
      BY BlankIs, DrawingsAre DEF Bare
    <3>2. 0 \in 0 .. first - 1
      BY <1>3
    <3> QED
      BY <1>9, <1>10, <3>1, <3>2
  <2>2. ASSUME NEW i \in 1 .. first - 1, i - 1 \in G PROVE i \in G
    <3>1. i \in 1 .. last /\ i \in 1 .. size /\ i < first /\ i \in 1 .. n
      BY <1>2, <1>3, <1>4
    <3>2. own[i] = i
      BY <1>6, <3>1
    <3>3. PICK d, c : d = a[i - 1] /\ d = b[i - 1] /\ Bare(d) /\ c = file.commands[i]
      BY <2>2
    <3>4. a[i] = Effect(d, c, i) /\ b[i] = Effect(d, c, i)
      BY <1>9, <1>10, <3>1, <3>2, <3>3 DEF Performed
    <3>5. \A m \in 1 .. i : ~IsBegin(m)
      <4>1. SUFFICES ASSUME NEW m \in 1 .. i, IsBegin(m) PROVE FALSE
        OBVIOUS
      <4>2. m \in 1 .. n /\ ~(first <= m)
        BY <1>3, <3>1
      <4> QED
        BY <1>3, <4>1, <4>2
    <3>6. c.kind # "BeginPicture" /\ ~Draws(c)
      <4>1. \A m \in 1 .. i : file.commands[m].kind # "BeginPicture"
        BY <3>5 DEF IsBegin
      <4>2. i \in 1 .. i /\ \A m \in 1 .. i - 1 : m \in 1 .. i
        BY <3>1
      <4>3. Draws(c) => \E m \in 1 .. i - 1 : file.commands[m].kind = "BeginPicture"
        BY <3>1, <3>3 DEF DrawsInPictures
      <4> QED
        BY <3>3, <4>1, <4>2, <4>3
    <3>7. Bare(a[i])
      BY <3>3, <3>4, <3>6, BareStays
    <3> QED
      BY <3>4, <3>7
  <2>3. first - 1 \in Nat
    BY <1>3
  <2>4. 0 .. first - 1 \subseteq G
    <3> HIDE DEF G
    <3> QED
      BY <2>1, <2>2, <2>3, HoldsThroughout
  <2> QED
    BY <2>4
\* Then it begins alike,
<1>13. Pair(a[start], b[first])
  <2>1. first \in 1 .. size /\ own[first] = start /\ first - 1 \in 0 .. first - 1
    <3>1. first \in 1 .. size /\ ~(first < first) /\ start + first - first = start
      BY <1>2, <1>3, <1>4
    <3> QED
      BY <1>3, <1>6, <3>1
  <2>2. PICK d, e, c : d = a[start - 1] /\ e = b[first - 1] /\ c = file.commands[start]
    OBVIOUS
  <2>3. c.kind = "BeginPicture"
    BY <1>2, <2>2 DEF IsBegin
  <2>4. a[start] = Effect(d, c, start) /\ b[first] = Effect(e, c, start)
    BY <1>2, <1>9, <1>10, <2>1, <2>2 DEF Performed
  <2>5. a[start] = BegunPicture(d) /\ b[first] = BegunPicture(e)
    BY <2>3, <2>4 DEF Effect, Attributes, Primitives, Measured, Areas, Pictured
  <2>6. Bare(e) /\ IsDrawing(e)
    BY <1>12, <2>1, <2>2 DEF Bare
  <2>7. CASE start = first
    <3>1. d = e
      BY <1>12, <2>1, <2>2, <2>7
    <3>2. IsDrawing(a[start])
      BY <2>5, <2>6, <3>1, BegunIs DEF Bare
    <3> QED
      BY <2>5, <3>1, <3>2 DEF Pair, Like
  <2>8. CASE start # first
    <3>1. start - 1 \in first .. last /\ start - 1 \in 0 .. last
      BY <1>2, <1>3, <2>8
    <3>2. d.picture \in Nat /\ IsDrawing(d)
      BY <1>11, <2>2, <3>1 DEF Numbered
    <3> QED
      BY <2>5, <2>6, <3>2, BegunAlike
  <2> QED
    BY <2>7, <2>8
\* and goes on alike.
<1>14. \A i \in 0 .. last - start : Pair(a[start + i], b[first + i])
  <2> DEFINE G == {i \in 0 .. last - start : Pair(a[start + i], b[first + i])}
  <2>1. 0 \in G
    BY <1>2, <1>3, <1>13, start + 0 = start, first + 0 = first
  <2>2. ASSUME NEW i \in 1 .. last - start, i - 1 \in G PROVE i \in G
    <3>1. PICK p, q : p = start + i /\ q = first + i
      OBVIOUS
    <3>2. /\ p \in 1 .. last /\ q \in 1 .. size /\ p > start /\ ~(q < first) /\ start + q - first = p
          /\ p - 1 = start + (i - 1) /\ q - 1 = first + (i - 1)
      BY <1>a, <1>4, <3>1
    <3>3. own[q] = p
      BY <1>6, <3>2
    <3>4. PICK d, e, c : d = a[p - 1] /\ e = b[q - 1] /\ c = file.commands[p]
      OBVIOUS
    <3>5. Pair(d, e)
      BY <2>2, <3>2, <3>4
    <3>6. c.kind # "BeginPicture"
      <4>1. ~(p <= start)
        BY <1>2, <3>2
      <4> QED
        BY <1>2, <3>2, <3>4, <4>1 DEF IsBegin
    <3>7. a[p] = Effect(d, c, p) /\ b[q] = Effect(e, c, p)
      BY <1>9, <1>10, <3>2, <3>3, <3>4 DEF Performed
    <3>8. Pair(a[p], b[q])
      BY <3>5, <3>6, <3>7, EffectPair DEF From
    <3> QED
      BY <3>1, <3>8
  <2>3. last - start \in Nat
    BY <1>2
  <2>4. 0 .. last - start \subseteq G
    <3> HIDE DEF G
    <3> QED
      BY <2>1, <2>2, <2>3, HoldsThroughout
  <2> QED
    BY <2>4
<1>15. Pair(a[last], b[size])
  <2>1. last - start \in 0 .. last - start /\ start + (last - start) = last /\ first + (last - start) = size
    BY <1>2, <1>3, <1>4
  <2>2. PICK i : i = last - start
    OBVIOUS
  <2>3. Pair(a[start + i], b[first + i])
    BY <1>14, <2>1, <2>2
  <2> QED
    BY <2>1, <2>2, <2>3
<1> QED
  BY <1>1, <1>8, <1>15 DEF Pair, Like

LEMMA PerformedConstant ==
  ASSUME Constant, NEW CONSTANT d, NEW CONSTANT n
  PROVE  Performed(d, n)' = Performed(d, n)
<1>1. PICK c : c = file.commands[n]
  OBVIOUS
<1>2. c = file.commands[n]'
  BY <1>1 DEF Constant
<1>3. Effect(d, c, n)' = Effect(d, c, n)
  BY EffectConstant
<1>4. Performed(d, n)' = Effect(d, c, n)'
  BY <1>2 DEF Performed
<1> QED
  BY <1>1, <1>3, <1>4 DEF Performed

LEMMA OrderConstant ==
  ASSUME Constant, NEW CONSTANT a, NEW CONSTANT m, InOrder(a, m)
  PROVE  InOrder(a, m)'
<1>1. Blank' = Blank
  <2>1. ASSUME NEW CONSTANT d PROVE Blank' = Blank
    BY StyleConstant
  <2> QED
    BY <2>1
<1>2. \A d, i : Performed(d, i)' = Performed(d, i)
  BY PerformedConstant
<1> QED
  BY <1>1, <1>2 DEF InOrder

OneAskedFor == Selective /\ ~NoSuchPicture
LEMMA PicturesConstant ==
  ASSUME Constant
  PROVE  /\ EndOf(plan.picture)' = EndOf(plan.picture)
         /\ OneAskedFor' => OneAskedFor
<1>1. Ends' = Ends
  BY DEF Ends, IsBegin, IsEnd, Constant
<1>2. EndOf(plan.picture)' = EndOf(plan.picture)
  BY <1>1 DEF EndOf, Constant
<1>3. OneAskedFor' => OneAskedFor
  BY <1>1 DEF OneAskedFor, NoSuchPicture, Selective, Constant
<1> QED
  BY <1>2, <1>3

----------------------------------------------------------------------------
\* While a picture is taken from a file, what is drawn comes from the
\* commands up to the end of that picture.

Reaches(m, to) ==
  /\ m \in Nat /\ m <= to
  /\ phase = "convert" => m = next - 1 \/ (m = to /\ m < next)
  /\ phase = "done" => m = to
DrawingInv ==
  /\ next \in Nat /\ next # 0
  /\ phase \notin {"convert", "done"} => drawing = <<>>
  /\ phase = "convert" /\ drawing = <<>> => next = 1
  /\ drawing # <<>> => Numbered(drawing)
  /\ drawing # <<>> /\ OneAskedFor =>
       \E m, a : Reaches(m, EndOf(plan.picture)) /\ InOrder(a, m) /\ drawing = a[m]

LEMMA DrawingsAreSome ==
  ASSUME NEW d, IsDrawing(d)
  PROVE  d # <<>>
<1>1. "picture" \in DOMAIN d
  BY DEF IsDrawing, Drawings
<1>2. DOMAIN <<>> = {}
  OBVIOUS
<1> QED
  BY <1>1, <1>2

\* Files are sequences of commands, and the picture asked for ends in one.
LEMMA FilesAre ==
  ASSUME SheetInv
  PROVE  /\ Len(file.commands) \in Nat /\ DOMAIN file.commands = 1 .. Len(file.commands)
         /\ plan.picture \in Int
         /\ OneAskedFor => /\ plan.picture \in Nat /\ plan.picture < Cardinality(Ends)
                           /\ EndOf(plan.picture) \in 1 .. Len(file.commands)
<1>1. Len(file.commands) \in Nat /\ DOMAIN file.commands = 1 .. Len(file.commands)
  <2>1. file.commands \in Seq({file.commands[i] : i \in DOMAIN file.commands})
    BY FilesAssumption DEF SheetInv
  <2> QED
    BY <2>1
<1>2. plan.picture \in Int
  BY PlansAssumption DEF SheetInv, Plan
<1>3. ASSUME OneAskedFor PROVE plan.picture \in Nat /\ plan.picture < Cardinality(Ends) /\ EndOf(plan.picture) \in 1 .. Len(file.commands)
  <2>1. PICK k, n : k = plan.picture /\ n = Len(file.commands)
    OBVIOUS
  <2>2. PICK E : E = Ends
    OBVIOUS
  <2>3. Cardinality(E) \in Nat
    <3>1. E \subseteq 1 .. n /\ n \in Nat
      BY <1>1, <2>1, <2>2 DEF Ends
    <3>2. IsFiniteSet(1 .. n)
      BY <3>1, FS_Interval
    <3>3. IsFiniteSet(E)
      BY <3>1, <3>2, FS_Subset
    <3> QED
      BY <3>3, FS_CardinalityType
  <2>4. k \in Nat /\ k < Cardinality(E)
    BY <1>2, <1>3, <2>1, <2>2, <2>3 DEF OneAskedFor, Selective, NoSuchPicture
  <2>5. EndOf(k) \in Ends
    BY <1>1, <2>1, <2>2, <2>4, EndIsThere
  <2> QED
    BY <1>1, <2>1, <2>2, <2>4, <2>5 DEF Ends
<1> QED
  BY <1>1, <1>2, <1>3

LEMMA DrawingStarts ==
  ASSUME SheetInv, DrawingInv, StartDrawing
  PROVE  DrawingInv'
<1>1. /\ phase = "convert" /\ drawing = <<>> /\ next = 1 /\ Constant /\ next' = 1
      /\ drawing' = Blank /\ phase' = IF NoSuchPicture THEN "done" ELSE phase
  BY DEF StartDrawing, DrawingInv, Constant
<1>2. Numbered(drawing')
  <2>1. Numbered(Blank)
    BY BlankIs, DrawingsAre DEF Numbered
  <2> QED
    BY <1>1, <2>1
<1>3. drawing' # <<>>
  BY <1>2, DrawingsAreSome DEF Numbered
<1>4. phase' \in {"convert", "done"}
  BY <1>1
<1>5. ASSUME OneAskedFor' PROVE \E m, a : Reaches(m, EndOf(plan.picture))' /\ InOrder(a, m)' /\ drawing' = a[m]
  <2>1. OneAskedFor /\ EndOf(plan.picture)' = EndOf(plan.picture)
    BY <1>1, <1>5, PicturesConstant
  <2>2. PICK to : to = EndOf(plan.picture) /\ to \in Nat
    BY <2>1, FilesAre
  <2>3. phase' = "convert"
    BY <1>1, <2>1 DEF OneAskedFor
  <2>4. PICK a : a = [i \in 0 .. 0 |-> Blank]
    OBVIOUS
  <2>5. InOrder(a, 0) /\ a[0] = Blank
    <3>1. 1 .. 0 = {} /\ a[0] = Blank
      BY <2>4
    <3> QED
      BY <3>1 DEF InOrder
  <2>6. InOrder(a, 0)'
    BY <1>1, <2>5, OrderConstant
  <2>7. Reaches(0, EndOf(plan.picture))'
    BY <1>1, <2>1, <2>2, <2>3 DEF Reaches
  <2> QED
    BY <1>1, <2>5, <2>6, <2>7
<1> QED
  BY <1>1, <1>2, <1>3, <1>4, <1>5 DEF DrawingInv

LEMMA DrawingGoesOn ==
  ASSUME SheetInv, DrawingInv, PerformCommand
  PROVE  DrawingInv'
<1>1. /\ phase = "convert" /\ drawing # <<>> /\ Selected(next) /\ Constant
      /\ next' = next + 1 /\ phase' = phase /\ drawing' = Performed(drawing, next)
  BY DEF PerformCommand, Drawing, Constant
<1>2. next \in Nat /\ next # 0 /\ next' \in Nat /\ next' # 0
  BY <1>1 DEF DrawingInv
<1>3. Numbered(drawing')
  BY <1>1, EffectNumbered DEF DrawingInv, Performed
<1>4. drawing' # <<>>
  BY <1>3, DrawingsAreSome DEF Numbered
<1>5. ASSUME OneAskedFor' PROVE \E m, a : Reaches(m, EndOf(plan.picture))' /\ InOrder(a, m)' /\ drawing' = a[m]
  <2>1. OneAskedFor /\ EndOf(plan.picture)' = EndOf(plan.picture)
    BY <1>1, <1>5, PicturesConstant
  <2>2. PICK to : to = EndOf(plan.picture) /\ to \in Nat
    BY <2>1, FilesAre
  <2>3. PICK m, a : Reaches(m, to) /\ InOrder(a, m) /\ drawing = a[m]
    BY <1>1, <2>1, <2>2 DEF DrawingInv
  <2>4. next <= to
    BY <1>1, <2>1, <2>2 DEF Selected, OneAskedFor
  <2>5. m \in Nat /\ m = next - 1 /\ m + 1 = next
    BY <1>1, <1>2, <2>2, <2>3, <2>4 DEF Reaches
  <2>6. PICK b : b = [i \in 0 .. next |-> IF i = next THEN drawing' ELSE a[i]]
    OBVIOUS
  <2>7. b[next] = drawing' /\ \A i \in 0 .. m : b[i] = a[i]
    BY <1>2, <2>5, <2>6
  <2>8. ASSUME NEW i \in 1 .. next PROVE b[i] = Performed(b[i - 1], i)
    <3>1. CASE i = next
      <4>1. i - 1 = m /\ m \in 0 .. m
        BY <2>5, <3>1
      <4> QED
        BY <1>1, <2>3, <2>7, <3>1, <4>1
    <3>2. CASE i # next
      <4>1. i \in 1 .. m /\ i \in 0 .. m /\ i - 1 \in 0 .. m
        BY <1>2, <2>5, <3>2
      <4>2. a[i] = Performed(a[i - 1], i)
        BY <2>3, <4>1 DEF InOrder
      <4> QED
        BY <2>7, <4>1, <4>2
    <3> QED
      BY <3>1, <3>2
  <2>9. InOrder(b, next)
    <3>1. 0 \in 0 .. m
      BY <2>5
    <3>2. b[0] = Blank
      BY <2>3, <2>7, <3>1 DEF InOrder
    <3> QED
      BY <2>8, <3>2 DEF InOrder
  <2>10. PICK k : k = next
    OBVIOUS
  <2>11. InOrder(b, k)'
    BY <1>1, <2>9, <2>10, OrderConstant
  <2>12. Reaches(k, EndOf(plan.picture))'
    BY <1>1, <1>2, <2>1, <2>2, <2>4, <2>10 DEF Reaches
  <2> QED
    BY <2>7, <2>10, <2>11, <2>12
<1> QED
  BY <1>1, <1>2, <1>3, <1>4, <1>5 DEF DrawingInv

LEMMA DrawingPasses ==
  ASSUME SheetInv, DrawingInv, SkipCommand \/ FinishConversion
  PROVE  DrawingInv'
<1>1. /\ phase = "convert" /\ drawing # <<>> /\ Constant /\ drawing' = drawing
      /\ \/ ~Selected(next) /\ next' = next + 1 /\ phase' = phase
         \/ ~Ahead /\ next' = next /\ phase' = "done"
  BY DEF SkipCommand, FinishConversion, Drawing, Constant
<1>2. next \in Nat /\ next # 0 /\ next' \in Nat /\ next' # 0 /\ Numbered(drawing')
  BY <1>1 DEF DrawingInv
<1>3. ASSUME OneAskedFor' PROVE \E m, a : Reaches(m, EndOf(plan.picture))' /\ InOrder(a, m)' /\ drawing' = a[m]
  <2>1. OneAskedFor /\ EndOf(plan.picture)' = EndOf(plan.picture)
    BY <1>1, <1>3, PicturesConstant
  <2>2. PICK to, n : /\ to = EndOf(plan.picture) /\ to \in Nat /\ n = Len(file.commands) /\ n \in Nat /\ to <= n
    BY <2>1, FilesAre
  <2>3. PICK m, a : Reaches(m, to) /\ InOrder(a, m) /\ drawing = a[m]
    BY <1>1, <2>1, <2>2 DEF DrawingInv
  <2>4. m \in Nat /\ m <= to /\ (m = next - 1 \/ (m = to /\ m < next))
    BY <1>1, <2>3 DEF Reaches
  <2>5. InOrder(a, m)'
    BY <1>1, <2>3, OrderConstant
  <2>6. Reaches(m, EndOf(plan.picture))'
    <3>1. CASE ~Selected(next) /\ next' = next + 1 /\ phase' = phase
      <4>1. ~(next <= to)
        BY <2>1, <2>2, <3>1 DEF Selected, OneAskedFor
      <4>2. m = to /\ m < next'
        BY <1>2, <2>2, <2>4, <3>1, <4>1
      <4> QED
        BY <1>1, <2>1, <2>2, <2>4, <3>1, <4>2 DEF Reaches
    <3>2. CASE ~Ahead /\ next' = next /\ phase' = "done"
      <4>1. ~(next <= n)
        BY <2>2, <3>2 DEF Ahead
      <4>2. m = to
        BY <1>2, <2>2, <2>4, <4>1
      <4> QED
        BY <2>1, <2>2, <2>4, <3>2, <4>2 DEF Reaches
    <3> QED
      BY <1>1, <3>1, <3>2
  <2> QED
    BY <1>1, <2>3, <2>5, <2>6
<1>4. phase' \in {"convert", "done"}
  BY <1>1
<1> QED
  BY <1>1, <1>2, <1>3, <1>4 DEF DrawingInv

\* While there is measured, and when a conversion begins, nothing is drawn.
LEMMA NothingDrawnYet ==
  ASSUME SheetInv, DrawingInv, ComputeMetrics \/ ConvertAgain
  PROVE  DrawingInv'
<1>1. CASE ConvertAgain
  BY <1>1 DEF ConvertAgain, DrawingInv
<1>2. CASE ComputeMetrics
  <2>1. drawing' = drawing /\ phase \in {"descriptors", "measure", "views"}
    BY <1>2 DEF ComputeMetrics, ScanDescriptor, EndDescriptors, MeasureSegmentCopy, LeaveTileArray, MeasureTileArray,
       MeasureAttribute, MeasurePrimitive, PassOver, EndMeasure, ReadViewContext, FitPicture, Measuring
  <2>2. /\ next' = next + 1 \/ next' = 1
        /\ phase' = "convert" => next' = 1
    BY <1>2 DEF ComputeMetrics, ScanDescriptor, EndDescriptors, MeasureSegmentCopy, LeaveTileArray, MeasureTileArray,
       MeasureAttribute, MeasurePrimitive, PassOver, EndMeasure, ReadViewContext, FitPicture, Measuring, Measures
  <2>3. drawing' = <<>> /\ next' \in Nat /\ next' # 0
    BY <2>1, <2>2 DEF DrawingInv
  <2> QED
    BY <2>2, <2>3 DEF DrawingInv
<1> QED
  BY <1>1, <1>2

LEMMA DrawingStutters ==
  ASSUME SheetInv, DrawingInv, UNCHANGED vars
  PROVE  DrawingInv'
<1>1. Constant /\ drawing' = drawing /\ next' = next /\ phase' = phase
  BY DEF vars, sheet, Constant
<1>2. ASSUME OneAskedFor', drawing # <<>>
      PROVE  \E m, a : Reaches(m, EndOf(plan.picture))' /\ InOrder(a, m)' /\ drawing' = a[m]
  <2>1. OneAskedFor /\ EndOf(plan.picture)' = EndOf(plan.picture)
    BY <1>1, <1>2, PicturesConstant
  <2>2. PICK m, a : Reaches(m, EndOf(plan.picture)) /\ InOrder(a, m) /\ drawing = a[m]
    BY <1>2, <2>1 DEF DrawingInv
  <2>3. InOrder(a, m)'
    BY <1>1, <2>2, OrderConstant
  <2>4. Reaches(m, EndOf(plan.picture))'
    BY <1>1, <2>1, <2>2 DEF Reaches
  <2> QED
    BY <1>1, <2>2, <2>3, <2>4
<1> QED
  BY <1>1, <1>2 DEF DrawingInv

\* Where the files draw within their pictures, a picture taken from one is
\* drawn as if those before it were not there, with whatever options.
THEOREM PicturesStandAlone ==
  ASSUME \A f \in Files : DrawsInPictures(f)
  PROVE  Spec => []SelectedAlone
<1>1. Init => SheetInv /\ DrawingInv
  BY NewMetrics DEF Init, SheetInv, MetricsCurrent, DrawingInv
<1>2. SheetInv /\ [Next]_vars => SheetInv'
  BY SheetKept
<1>3. SheetInv /\ DrawingInv /\ [Next]_vars => DrawingInv'
  BY DrawingStarts, DrawingGoesOn, DrawingPasses, NothingDrawnYet, DrawingStutters DEF Next
<1>4. SheetInv /\ DrawingInv => SelectedAlone
  <2> SUFFICES ASSUME SheetInv, DrawingInv, Done, OneAskedFor
               PROVE  drawing.ink = Alone(plan.picture).ink /\ drawing.images = Alone(plan.picture).images
    BY DEF SelectedAlone, OneAskedFor
  <2>1. PICK k, n : k = plan.picture /\ n = Len(file.commands)
    OBVIOUS
  <2>2. n \in Nat /\ DOMAIN file.commands = 1 .. n /\ k \in Nat /\ k < Cardinality(Ends)
    BY <2>1, FilesAre
  <2>3. PICK m, a : Reaches(m, EndOf(k)) /\ InOrder(a, m) /\ drawing = a[m]
    BY <2>1 DEF Done, DrawingInv
  <2>4. m = EndOf(k)
    BY <2>3 DEF Done, Reaches
  <2>5. DrawsInPictures(file)
    BY DEF SheetInv
  <2>6. InOrder(a, EndOf(k)) /\ drawing = a[EndOf(k)]
    BY <2>3, <2>4
  <2> QED
    BY <2>1, <2>2, <2>5, <2>6, AloneAlike
<1> QED
  BY <1>1, <1>2, <1>3, <1>4, PTL DEF Spec
=============================================================================
