--------------------------- MODULE ClipAndRegions ---------------------------
(***************************************************************************)
(* The clip of the converter: CLIP RECTANGLE and CLIP INDICATOR, the       *)
(* protection regions that can replace it, and the clipPath definitions    *)
(* written for both. clip.ref is the id in clip_path_attribute_, which     *)
(* every clipped primitive copies.                                         *)
(***************************************************************************)
EXTENDS ConverterState

RectShape(r) == [rect |-> r]
PathShape(paths) == [paths |-> paths]

ClipPathId(n) == <<"clipPath", n, 0>>

\* updateClipPathDefinition: what the clip becomes, and the document with
\* the clipPath it may have had to define. c is the clip with its rectangle
\* and indicator already updated.
RectangleInForce(c) == c.enabled /\ c.rect # NoRect /\ c.rect \notin Degenerate

UpdatedClip(c) ==
  IF ~RectangleInForce(c) THEN [c EXCEPT !.ref = NoId]
  ELSE IF c.cached[c.rect] # NoId THEN [c EXCEPT !.ref = c.cached[c.rect]]
  ELSE [c EXCEPT !.made = @ + 1, !.ref = ClipPathId(c.made + 1),
                 !.cached[c.rect] = ClipPathId(c.made + 1)]

UpdatedClipDoc(c, d) ==
  IF RectangleInForce(c) /\ c.cached[c.rect] = NoId
  THEN Define(d, ClipPathId(c.made + 1), RectShape(c.rect))
  ELSE d

UpdatesClip(c) ==
  /\ clip' = UpdatedClip(c)
  /\ doc' = UpdatedClipDoc(c, Flush(doc))

ClipRectangle ==
  \E c \in Alphabet :
    /\ c.op = "CLIP RECTANGLE"
    /\ Reads(c)
    /\ IF clip.enabled
       THEN UpdatesClip([clip EXCEPT !.rect = c.rect])
       ELSE clip' = [clip EXCEPT !.rect = c.rect] /\ doc' = Flush(doc)
    /\ text' = NoPending
    /\ Continues
    /\ UNCHANGED <<picture, region, figure, fill, aps, symbols>>

ClipIndicator ==
  \E c \in Alphabet :
    /\ c.op = "CLIP INDICATOR"
    /\ Reads(c)
    /\ IF c.on /\ clip.rect # NoRect
       THEN UpdatesClip([clip EXCEPT !.enabled = TRUE])
       ELSE /\ clip' = [clip EXCEPT !.enabled = c.on, !.ref = NoId]
            /\ doc' = Flush(doc)
    /\ text' = NoPending
    /\ Continues
    /\ UNCHANGED <<picture, region, figure, fill, aps, symbols>>

-----------------------------------------------------------------------------
BeginProtectionRegion ==
  \E c \in Alphabet :
    /\ c.op = "BEGIN PROTECTION REGION"
    /\ Reads(c)
    /\ region' = [region EXCEPT !.capturing = TRUE, !.paths = <<>>, !.active = c.rid]
    /\ FlushesText
    /\ Continues
    /\ UNCHANGED <<picture, clip, figure, fill, aps, symbols>>

\* Defect: the cached clipPath of an extended region is kept.
EndRegionKeepingId ==
  \E c \in Alphabet :
    /\ c.op = "END PROTECTION REGION"
    /\ Reads(c)
    /\ region' =
         IF region.capturing /\ region.active >= 0 /\ region.paths # <<>>
         THEN [region EXCEPT !.capturing = FALSE, !.paths = <<>>,
                             !.shapes[region.active] = @ \o region.paths]
         ELSE [region EXCEPT !.capturing = FALSE, !.paths = <<>>]
    /\ FlushesText
    /\ Continues
    /\ UNCHANGED <<picture, clip, figure, fill, aps, symbols>>

\* The captured paths are added to the region that is active now; its cached
\* clipPath, if any, is out of date from here on.
EndProtectionRegion ==
  \E c \in Alphabet :
    /\ c.op = "END PROTECTION REGION"
    /\ Reads(c)
    /\ region' =
         IF region.capturing /\ region.active >= 0 /\ region.paths # <<>>
         THEN [region EXCEPT !.capturing = FALSE, !.paths = <<>>,
                             !.shapes[region.active] = @ \o region.paths,
                             !.cached[region.active] = NoId]
         ELSE [region EXCEPT !.capturing = FALSE, !.paths = <<>>]
    /\ FlushesText
    /\ Continues
    /\ UNCHANGED <<picture, clip, figure, fill, aps, symbols>>

\* PROTECTION REGION INDICATOR = CLIP with a region whose clipPath exists,
\* with one whose shape is known, and with one that was never captured (the
\* clip stays what it was).
ClipToRegion(c) ==
  LET id == ClipPathId(clip.made + 1) IN
  \/ /\ region.cached[c.rid] # NoId
     /\ clip' = [clip EXCEPT !.ref = region.cached[c.rid]]
     /\ region' = [region EXCEPT !.indicator = 2, !.active = c.rid]
     /\ doc' = Flush(doc)
  \/ /\ region.cached[c.rid] = NoId /\ region.shapes[c.rid] # <<>>
     /\ clip' = [clip EXCEPT !.made = @ + 1, !.ref = id]
     /\ region' = [region EXCEPT !.indicator = 2, !.active = c.rid, !.cached[c.rid] = id]
     /\ doc' = Define(Flush(doc), id, PathShape(region.shapes[c.rid]))
  \/ /\ region.cached[c.rid] = NoId /\ region.shapes[c.rid] = <<>>
     /\ region' = [region EXCEPT !.indicator = 2, !.active = c.rid]
     /\ UNCHANGED clip
     /\ doc' = Flush(doc)

ProtectionRegionIndicator ==
  \E c \in Alphabet :
    /\ c.op = "PROTECTION REGION INDICATOR"
    /\ Reads(c)
    /\ IF c.on
       THEN ClipToRegion(c)
       ELSE /\ region' = [region EXCEPT !.indicator = 1, !.active = c.rid]
            /\ UpdatesClip(clip)
    /\ text' = NoPending
    /\ Continues
    /\ UNCHANGED <<picture, figure, fill, aps, symbols>>
=============================================================================
