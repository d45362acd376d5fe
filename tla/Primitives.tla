----------------------------- MODULE Primitives -----------------------------
(***************************************************************************)
(* The graphical primitives other than text, symbols and rasters, and the  *)
(* FIGURE that collects them. What a handler does with a primitive depends *)
(* on which primitive it is; Traits has a row for each handler. A list of  *)
(* points has the points the primitive needs: handlers leave early when    *)
(* some are missing, which is not modelled.                                *)
(***************************************************************************)
EXTENDS PatternFills

\* captured: where the handler puts the geometry instead of drawing it (an
\* open figure is looked at before a protection region); clipped: it copies
\* clip_path_attribute_; filled: it asks for the current fill.
Handler(captured, clipped, filled) ==
  [captured |-> captured, clipped |-> clipped, filled |-> filled]

Both == {"figure", "region"}

Polyline                 == Handler(Both, TRUE, FALSE)
DisjointPolyline         == Handler({"figure"}, TRUE, FALSE)
Polymarker               == Handler({}, FALSE, FALSE)
Polygon                  == Handler(Both, TRUE, TRUE)
PolygonSet               == Handler({}, TRUE, TRUE)
Rectangle                == Handler({"figure"}, TRUE, TRUE)
Circle                   == Handler(Both, TRUE, TRUE)
CircularArc3Point        == Handler({"figure"}, FALSE, FALSE)
CircularArc3PointClose   == Handler({}, FALSE, TRUE)
CircularArcCentre        == Handler({"figure"}, FALSE, FALSE)
CircularArcReversed      == Handler({"figure"}, FALSE, FALSE)
CircularArcCentreClose   == Handler({}, FALSE, TRUE)
Ellipse                  == Handler({"figure"}, TRUE, TRUE)
EllipticalArc            == Handler({"figure"}, FALSE, FALSE)
EllipticalArcClose       == Handler({}, FALSE, TRUE)
HyperbolicArc            == Handler({}, FALSE, FALSE)
ParabolicArc             == Handler({}, FALSE, FALSE)
NonUniformBSpline        == Handler({"figure"}, FALSE, FALSE)
NonUniformRationalBSpline == Handler({"figure"}, FALSE, FALSE)
PolyBezier               == Handler({"figure"}, FALSE, FALSE)

Traits ==
  [POLYLINE |-> Polyline, DISJOINT_POLYLINE |-> DisjointPolyline,
   POLYMARKER |-> Polymarker, POLYGON |-> Polygon, POLYGON_SET |-> PolygonSet,
   RECTANGLE |-> Rectangle, CIRCLE |-> Circle,
   CIRCULAR_ARC_3_POINT |-> CircularArc3Point,
   CIRCULAR_ARC_3_POINT_CLOSE |-> CircularArc3PointClose,
   CIRCULAR_ARC_CENTRE |-> CircularArcCentre,
   CIRCULAR_ARC_CENTRE_REVERSED |-> CircularArcReversed,
   CIRCULAR_ARC_CENTRE_CLOSE |-> CircularArcCentreClose,
   ELLIPSE |-> Ellipse, ELLIPTICAL_ARC |-> EllipticalArc,
   ELLIPTICAL_ARC_CLOSE |-> EllipticalArcClose,
   HYPERBOLIC_ARC |-> HyperbolicArc, PARABOLIC_ARC |-> ParabolicArc,
   NON_UNIFORM_B_SPLINE |-> NonUniformBSpline,
   NON_UNIFORM_RATIONAL_B_SPLINE |-> NonUniformRationalBSpline,
   POLYBEZIER |-> PolyBezier]

IsPrimitive(c) == c.op \in DOMAIN Traits

IntoFigure(c) == figure.open /\ "figure" \in Traits[c.op].captured
IntoRegion(c) ==
  ~IntoFigure(c) /\ region.capturing /\ "region" \in Traits[c.op].captured
Drawn(c) == ~IntoFigure(c) /\ ~IntoRegion(c)

-----------------------------------------------------------------------------
\* Defect: the handler forgets to return once the figure has the geometry.
PrimitiveIntoFigureAndDrawn ==
  \E c \in Alphabet :
    /\ IsPrimitive(c) /\ IntoFigure(c)
    /\ Reads(c)
    /\ figure' = [figure EXCEPT
                    !.subpaths = Append(@, [at |-> Here, joined |-> figure.connect]),
                    !.connect = FALSE]
    /\ doc' = Draw(PrimitiveDoc, <<Mark(Here, <<Here>>, clip.ref, NoId, NoId, 0)>>)
    /\ text' = NoPending
    /\ Continues
    /\ UNCHANGED <<picture, clip, region, fill, aps, symbols>>

PrimitiveIntoFigure ==
  \E c \in Alphabet :
    /\ IsPrimitive(c) /\ IntoFigure(c)
    /\ Reads(c)
    /\ figure' = [figure EXCEPT
                    !.subpaths = Append(@, [at |-> Here, joined |-> figure.connect]),
                    !.connect = FALSE]
    /\ doc' = PrimitiveDoc /\ text' = NoPending
    /\ Continues
    /\ UNCHANGED <<picture, clip, region, fill, aps, symbols>>

PrimitiveIntoRegion ==
  \E c \in Alphabet :
    /\ IsPrimitive(c) /\ IntoRegion(c)
    /\ Reads(c)
    /\ region' = [region EXCEPT !.paths = Append(@, <<Here>>)]
    /\ doc' = PrimitiveDoc /\ text' = NoPending
    /\ Continues
    /\ UNCHANGED <<picture, clip, figure, fill, aps, symbols>>

ClipOf(c) == IF Traits[c.op].clipped THEN clip.ref ELSE NoId

DrawStroked ==
  \E c \in Alphabet :
    /\ IsPrimitive(c) /\ Drawn(c) /\ ~Traits[c.op].filled
    /\ Reads(c)
    /\ doc' = Draw(PrimitiveDoc, <<Mark(Here, <<Here>>, ClipOf(c), NoId, NoId, 0)>>)
    /\ text' = NoPending
    /\ Continues
    /\ UNCHANGED <<picture, clip, region, figure, fill, aps, symbols>>

\* Defect: <defs> is not closed after the fill is resolved.
DrawFilledInDefs ==
  \E c \in Alphabet :
    /\ IsPrimitive(c) /\ Drawn(c) /\ Traits[c.op].filled /\ ~FillFails
    /\ Reads(c)
    /\ fill' = EnsuredFill
    /\ doc' = Draw(EnsuredFillDoc(PrimitiveDoc),
                   <<Mark(Here, <<Here>>, ClipOf(c), FillId, NoId, 0)>>)
    /\ text' = NoPending
    /\ Continues
    /\ UNCHANGED <<picture, clip, region, figure, aps, symbols>>

\* Resolving the fill may open <defs>, so it is closed a second time.
DrawFilled ==
  \E c \in Alphabet :
    /\ IsPrimitive(c) /\ Drawn(c) /\ Traits[c.op].filled /\ ~FillFails
    /\ Reads(c)
    /\ fill' = EnsuredFill
    /\ doc' = Draw(CloseOpenDefs(EnsuredFillDoc(PrimitiveDoc)),
                   <<Mark(Here, <<Here>>, ClipOf(c), FillId, NoId, 0)>>)
    /\ text' = NoPending
    /\ Continues
    /\ UNCHANGED <<picture, clip, region, figure, aps, symbols>>

FailFilled ==
  \E c \in Alphabet :
    /\ IsPrimitive(c) /\ Drawn(c) /\ Traits[c.op].filled /\ FillFails
    /\ Reads(c)
    /\ doc' = PrimitiveDoc /\ text' = NoPending
    /\ Throws
    /\ UNCHANGED <<picture, clip, region, figure, fill, aps, symbols>>

-----------------------------------------------------------------------------
BeginFigure ==
  \E c \in Alphabet :
    /\ c.op = "BEGIN FIGURE"
    /\ Reads(c)
    /\ figure' = [NoFigure EXCEPT !.open = TRUE]
    /\ FlushesText
    /\ Continues
    /\ UNCHANGED <<picture, clip, region, fill, aps, symbols>>

ConnectingEdge ==
  \E c \in Alphabet :
    /\ c.op = "CONNECTING EDGE"
    /\ Reads(c)
    /\ figure' = [figure EXCEPT !.connect = @ \/ figure.open]
    /\ doc' = PrimitiveDoc /\ text' = NoPending
    /\ Continues
    /\ UNCHANGED <<picture, clip, region, fill, aps, symbols>>

\* renderFigure: nothing to render, a path of a protection region, or one
\* filled path (outlines of its subpaths are part of the same mark).
FigurePath == [i \in DOMAIN figure.subpaths |-> figure.subpaths[i].at]

\* Defect: the subpaths outlive the figure.
ClosedFigureWithSubpaths == [figure EXCEPT !.open = FALSE]

ClosedFigure == [figure EXCEPT !.open = FALSE, !.subpaths = <<>>]

EndFigure ==
  \E c \in Alphabet :
    /\ c.op = "END FIGURE"
    /\ ~figure.open \/ figure.subpaths = <<>>
    /\ Reads(c)
    /\ figure' = IF figure.open THEN ClosedFigure ELSE figure
    /\ FlushesText
    /\ Continues
    /\ UNCHANGED <<picture, clip, region, fill, aps, symbols>>

\* Defect: a figure inside a region is dropped.
EndFigureForgotten ==
  \E c \in Alphabet :
    /\ c.op = "END FIGURE"
    /\ figure.open /\ figure.subpaths # <<>> /\ region.capturing
    /\ Reads(c)
    /\ figure' = ClosedFigure
    /\ doc' = PrimitiveDoc /\ text' = NoPending
    /\ Continues
    /\ UNCHANGED <<picture, clip, region, fill, aps, symbols>>

EndFigureIntoRegion ==
  \E c \in Alphabet :
    /\ c.op = "END FIGURE"
    /\ figure.open /\ figure.subpaths # <<>> /\ region.capturing
    /\ Reads(c)
    /\ region' = [region EXCEPT !.paths = Append(@, FigurePath)]
    /\ figure' = ClosedFigure
    /\ doc' = PrimitiveDoc /\ text' = NoPending
    /\ Continues
    /\ UNCHANGED <<picture, clip, fill, aps, symbols>>

DrawFigure ==
  \E c \in Alphabet :
    /\ c.op = "END FIGURE"
    /\ figure.open /\ figure.subpaths # <<>> /\ ~region.capturing
    /\ Reads(c)
    /\ IF FillFails
       THEN /\ Throws
            /\ doc' = PrimitiveDoc
            /\ UNCHANGED <<figure, fill>>
       ELSE /\ Continues
            /\ fill' = EnsuredFill
            /\ doc' = Draw(CloseOpenDefs(EnsuredFillDoc(PrimitiveDoc)),
                           <<Mark(Here, FigurePath, clip.ref, FillId, NoId, 0)>>)
            /\ figure' = ClosedFigure
    /\ text' = NoPending
    /\ UNCHANGED <<picture, clip, region, aps, symbols>>

(***************************************************************************)
(* POLYSYMBOL: the symbol's definition, a <g> in <defs> written the first  *)
(* time the symbol is placed, and the <use> that places it.                *)
(***************************************************************************)

SymbolLibraryList ==
  \E c \in Alphabet :
    /\ c.op = "SYMBOL LIBRARY LIST"
    /\ Reads(c)
    /\ symbols' = [symbols EXCEPT !.libraries = c.names,
                                  !.ids = [s \in Symbols |-> NoId]]
    /\ FlushesText
    /\ Continues
    /\ UNCHANGED <<picture, clip, region, figure, fill, aps>>

\* The library an index names: counted from 0 or, failing that, from 1.
Libraries == symbols.libraries
Resolved(index) == index \in 0 .. Len(Libraries) /\ Libraries # <<>>
Name(index) ==
  IF index < Len(Libraries) THEN Libraries[index + 1] ELSE Libraries[index]

\* A new id for a symbol: the first suffix nobody has been given.
SymbolId(s) ==
  LET free(k) == <<s, k, 0>> \notin symbols.emitted
  IN  <<s, CHOOSE k \in 0 .. Cardinality(symbols.emitted) :
             free(k) /\ \A j \in 0 .. k - 1 : ~free(j), 0>>

\* The group of a placement has an id of its own, that nothing refers to.
PlacementId == <<"symbol-", symbols.placed + 1, 0>>

DrawSymbol(d, id) ==
  Draw(WriteId(Open(d, "g"), PlacementId), <<Mark(Here, <<Here>>, NoId, NoId, id, 0)>>)

\* ensureSymbolDefinition may open <defs>; the placement follows without
\* closing it. An index no library has is drawn as a marker.
PolySymbol ==
  \E c \in Alphabet :
    /\ c.op = "POLYSYMBOL"
    /\ Reads(c)
    /\ LET s    == Name(c.index)
           old  == symbols.ids[s]
           new  == SymbolId(s)
           draws(d, id) == doc' = Close(DrawSymbol(d, id), "g")
       IN \/ /\ ~Resolved(c.index)
             /\ draws(PrimitiveDoc, NoId)
             /\ symbols' = [symbols EXCEPT !.placed = @ + 1]
          \/ /\ Resolved(c.index) /\ old # NoId
             /\ draws(PrimitiveDoc, old)
             /\ symbols' = [symbols EXCEPT !.placed = @ + 1]
          \/ /\ Resolved(c.index) /\ old = NoId
             /\ draws(Define(PrimitiveDoc, new, [symbol |-> s]), new)
             /\ symbols' = [symbols EXCEPT !.ids[s] = new, !.emitted = @ \cup {new}, !.placed = @ + 1]
    /\ text' = NoPending
    /\ Continues
    /\ UNCHANGED <<picture, clip, region, figure, fill, aps>>
=============================================================================
