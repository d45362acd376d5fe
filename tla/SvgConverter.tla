---------------------------- MODULE SvgConverter ----------------------------
(***************************************************************************)
(* SVGConverter::convert(): the conversion of a CGM metafile to SVG, one   *)
(* action for each command processCommand dispatches. The components it    *)
(* composes have modules of their own; this one adds the conversion, the   *)
(* pictures and the segment policy.                                        *)
(***************************************************************************)
EXTENDS ClipAndRegions, Primitives, TextRuns, ApsGroups

FreshPicture(index, explicit) ==
  [index |-> index, explicit |-> explicit, zero |-> 0]

\* The scan of the whole file before the first conversion already notes
\* whether a BACKGROUND COLOUR occurs in it.
DeclaresBackground == \E c \in Alphabet : c.op = "BACKGROUND COLOUR"

Init ==
  /\ phase = "idle" /\ runs = 0 /\ file = <<>> /\ complete = FALSE /\ cursor = 0
  /\ doc = FreshDoc(FALSE)
  /\ picture \in {FreshPicture(-1, e) : e \in {FALSE, DeclaresBackground}}
  /\ clip = FreshClip(0) /\ region = FreshRegion /\ figure = NoFigure
  /\ fill = FreshFill(0) /\ text = FreshText
  /\ aps = FreshAps({}) /\ symbols = NoSymbols

\* Defects: the cache of clipPaths, the clip-path in force, the number of
\* patterns of the document are not what a new picture needs.
ResetKeepingCache(clipsMade, patternsMade) ==
  /\ clip' = [FreshClip(clipsMade) EXCEPT !.cached = clip.cached]
  /\ region' = FreshRegion /\ fill' = FreshFill(patternsMade) /\ text' = FreshText

ResetKeepingClip(clipsMade, patternsMade) ==
  /\ clip' = [FreshClip(clipsMade) EXCEPT !.ref = clip.ref]
  /\ region' = FreshRegion /\ fill' = FreshFill(patternsMade) /\ text' = FreshText

ResetCounting(clipsMade, patternsMade) ==
  /\ clip' = FreshClip(clipsMade)
  /\ region' = FreshRegion /\ fill' = FreshFill(0) /\ text' = FreshText

\* resetPictureState: what every picture and every conversion starts from.
\* made counts the patterns of the document, not of the picture.
ResetPictureState(clipsMade, patternsMade) ==
  /\ clip' = FreshClip(clipsMade)
  /\ region' = FreshRegion
  /\ fill' = FreshFill(patternsMade)
  /\ text' = FreshText

-----------------------------------------------------------------------------
(* Conversions.                                                            *)

\* Defect: a conversion starts with the clips and patterns of the last one.
ConvertWithoutReset ==
  /\ phase # "converting" /\ runs < MaxRuns
  /\ phase' = "converting" /\ runs' = runs + 1 /\ cursor' = 0
  /\ doc' = FreshDoc(doc.defsOpen)
  /\ picture' = FreshPicture(-1, picture.explicit)
  /\ aps' = [aps EXCEPT !.ids = {}]
  /\ UNCHANGED <<file, complete, clip, region, fill, text, figure, symbols>>

\* The open figure, the stack of structures, the symbol ids and the number
\* of patterns survive from an earlier conversion.
Convert ==
  /\ phase # "converting" /\ runs < MaxRuns
  /\ phase' = "converting" /\ runs' = runs + 1 /\ cursor' = 0
  /\ doc' = FreshDoc(doc.defsOpen)
  /\ picture' = FreshPicture(-1, picture.explicit)
  /\ ResetPictureState(0, fill.made)
  /\ aps' = [aps EXCEPT !.ids = {}]
  /\ UNCHANGED <<file, complete, figure, symbols>>

\* The last command has been processed: the pending text and the footer.
EndOfFile ==
  /\ phase = "converting"
  /\ cursor = Len(file)
  /\ picture.explicit => \E i \in DOMAIN file : file[i].op = "BACKGROUND COLOUR"
  /\ phase' = "done" /\ complete' = TRUE
  /\ doc' = Close(CloseOpenDefs(Flush(doc)), "svg")
  /\ text' = NoPending
  /\ UNCHANGED <<runs, file, cursor, picture, clip, region, figure, fill, aps, symbols>>

-----------------------------------------------------------------------------
(* Pictures.                                                               *)

\* Defect: the symbols of the last picture count as defined in the next.
BeginPictureWithSymbols ==
  \E c \in Alphabet :
    /\ c.op = "BEGIN PICTURE"
    /\ Reads(c)
    /\ picture' = FreshPicture(picture.index + 1, picture.explicit)
    /\ doc' = IF picture.index + 1 > 0 THEN FreshDoc(FALSE) ELSE Flush(doc)
    /\ ResetPictureState(clip.made, fill.made)
    /\ Continues
    /\ UNCHANGED <<figure, aps, symbols>>

\* Every picture but the first of a conversion starts the document again.
BeginPicture ==
  \E c \in Alphabet :
    /\ c.op = "BEGIN PICTURE"
    /\ Reads(c)
    /\ picture' = FreshPicture(picture.index + 1, picture.explicit)
    /\ IF picture.index + 1 > 0
       THEN /\ doc' = FreshDoc(FALSE)
            /\ ResetPictureState(0, 0)
            /\ aps' = [aps EXCEPT !.ids = {}]
            /\ symbols' = [symbols EXCEPT !.ids = [s \in Symbols |-> NoId], !.emitted = {}, !.placed = 0]
       ELSE /\ doc' = Flush(doc)
            /\ ResetPictureState(clip.made, fill.made)
            /\ UNCHANGED <<aps, symbols>>
    /\ Continues
    /\ UNCHANGED figure

\* The canvas is painted with colour 0 if the metafile declares a background
\* and colour 0 is not white (0).
BeginPictureBody ==
  \E c \in Alphabet :
    /\ c.op = "BEGIN PICTURE BODY"
    /\ Reads(c)
    /\ doc' = IF picture.explicit /\ picture.zero # 0
              THEN Draw(Flush(doc), <<Mark(Here, <<Here>>, NoId, NoId, NoId, picture.zero)>>)
              ELSE Flush(doc)
    /\ text' = NoPending
    /\ Continues
    /\ UNCHANGED <<picture, clip, region, figure, fill, aps, symbols>>

EndPicture ==
  \E c \in Alphabet :
    /\ c.op = "END PICTURE"
    /\ Reads(c)
    /\ region' = [FreshRegion EXCEPT !.indicator = region.indicator, !.active = region.active]
    /\ clip' = [clip EXCEPT !.enabled = FALSE, !.ref = NoId]
    /\ FlushesText
    /\ Continues
    /\ UNCHANGED <<picture, figure, fill, aps, symbols>>

\* The scan has seen it coming. A dark colour of more than 8 bits without a
\* value extent is taken for an authoring quirk and colour 0 left alone.
BackgroundColour ==
  \E c \in Alphabet :
    /\ c.op = "BACKGROUND COLOUR"
    /\ picture.explicit
    /\ Reads(c)
    /\ picture' = [picture EXCEPT !.zero = IF c.quirk THEN @ ELSE c.colour]
    /\ FlushesText
    /\ Continues
    /\ UNCHANGED <<clip, region, figure, fill, aps, symbols>>

\* COLOUR TABLE with an entry for index 0.
ColourTable ==
  \E c \in Alphabet :
    /\ c.op = "COLOUR TABLE"
    /\ Reads(c)
    /\ picture' = [picture EXCEPT !.zero = c.colour]
    /\ Continues
    /\ UNCHANGED <<doc, clip, region, figure, fill, text, aps, symbols>>

\* Segments are ignored, without even flushing the text, or refused.
SegmentElement ==
  \E c \in Alphabet :
    /\ c.op = "SEGMENT"
    /\ Reads(c)
    /\ IF Strict THEN Throws ELSE Continues
    /\ UNCHANGED <<doc, picture, clip, region, figure, fill, text, aps, symbols>>

-----------------------------------------------------------------------------
Conversion == Convert \/ EndOfFile

Pictures ==
  \/ BeginPicture \/ BeginPictureBody \/ EndPicture
  \/ BackgroundColour \/ ColourTable \/ SegmentElement

Clipping ==
  \/ ClipRectangle \/ ClipIndicator
  \/ BeginProtectionRegion \/ EndProtectionRegion \/ ProtectionRegionIndicator

Drawing ==
  \/ PrimitiveIntoFigure \/ PrimitiveIntoRegion
  \/ DrawStroked \/ DrawFilled \/ FailFilled
  \/ BeginFigure \/ ConnectingEdge
  \/ EndFigure \/ EndFigureIntoRegion \/ DrawFigure

Filling ==
  \/ InteriorStyle \/ PatternIndex \/ PatternTable \/ PatternSize
  \/ FillReferencePoint

Texting == TextColour \/ Text \/ RestrictedText \/ AppendText

Structuring ==
  \/ BeginApplicationStructure \/ ApplicationStructureAttribute
  \/ BeginApplicationStructureBody \/ EndApplicationStructure

Symbolising == SymbolLibraryList \/ PolySymbol

Next ==
  \/ Conversion \/ Pictures \/ Clipping \/ Drawing
  \/ Filling \/ Texting \/ Structuring \/ Symbolising

Spec == Init /\ [][Next]_vars
=============================================================================
