---------------------------- MODULE SvgRendering ----------------------------
(***************************************************************************)
(* What a conversion promises of clips and patterns, with no document: no  *)
(* ids, no definitions and no caches. Elements are painted on a canvas     *)
(* and show, for good, the clip shape and the pattern in force when they   *)
(* were painted.                                                           *)
(***************************************************************************)
EXTENDS Naturals, Sequences

CONSTANTS Rects, Degenerate, Regions

VARIABLES
  rect,     \* the last CLIP RECTANGLE, if any
  enabled,  \* CLIP INDICATOR
  shapes,   \* the paths of every protection region
  shape,    \* the clip shape in force
  pattern,  \* the pattern in force
  canvas    \* the elements painted: [of, clip, fill]

surface == <<rect, enabled, shapes, shape, pattern, canvas>>

NoRect == "no rectangle"
NoShape == [none |-> TRUE]
RectShape(r) == [rect |-> r]
PathShape(paths) == [paths |-> paths]
NoShapes == [r \in Regions |-> <<>>]

RectangleShape(r, on) ==
  IF on /\ r # NoRect /\ r \notin Degenerate THEN RectShape(r) ELSE NoShape

Blank ==
  rect = NoRect /\ enabled = FALSE /\ shapes = NoShapes /\ shape = NoShape

Init == Blank /\ canvas = <<>>

-----------------------------------------------------------------------------
\* What is painted stays; what is added shows the clip and pattern in force,
\* or none (text, and the primitives that are never clipped or filled).
Paints ==
  /\ Len(canvas') >= Len(canvas)
  /\ SubSeq(canvas', 1, Len(canvas)) = canvas
  /\ \A i \in Len(canvas) + 1 .. Len(canvas') :
       /\ canvas'[i].clip \in {NoShape, shape}
       /\ canvas'[i].fill \in {NoShape, pattern}

SetRectangle ==
  /\ rect' \in Rects
  /\ shape' = IF enabled THEN RectangleShape(rect', TRUE) ELSE shape
  /\ UNCHANGED <<enabled, shapes>>

SetIndicator ==
  /\ enabled' \in BOOLEAN
  /\ shape' = RectangleShape(rect, enabled')
  /\ UNCHANGED <<rect, shapes>>

GrowRegion ==
  /\ \E r \in Regions :
       /\ shapes' = [shapes EXCEPT ![r] = shapes'[r]]
       /\ Len(shapes'[r]) > Len(shapes[r])
       /\ SubSeq(shapes'[r], 1, Len(shapes[r])) = shapes[r]
  /\ UNCHANGED <<rect, enabled, shape>>

ClipToRegion ==
  /\ \E r \in Regions : shapes[r] # <<>> /\ shape' = PathShape(shapes[r])
  /\ UNCHANGED <<rect, enabled, shapes>>

ClipToRectangle ==
  /\ shape' = RectangleShape(rect, enabled)
  /\ UNCHANGED <<rect, enabled, shapes>>

EndClipping ==
  /\ enabled' = FALSE /\ shape' = NoShape /\ shapes' = NoShapes
  /\ UNCHANGED rect

ClipStep ==
  \/ SetRectangle \/ SetIndicator \/ GrowRegion \/ ClipToRegion
  \/ ClipToRectangle \/ EndClipping \/ Blank'
  \/ UNCHANGED <<rect, enabled, shapes, shape>>

\* A new picture or conversion starts on a clean canvas.
Clear == Blank' /\ canvas' = <<>>

Next == Clear \/ (ClipStep /\ Paints)

Spec == Init /\ [][Next]_surface
=============================================================================
