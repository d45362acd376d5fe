-------------------------- MODULE SvgRenderingProofs --------------------------
(***************************************************************************)
(* The converter implements SvgRendering: ids, definitions and caches are  *)
(* an implementation detail. What has to be known for that is that every   *)
(* id stands for one definition, which stays, and that every id in a cache *)
(* stands for what the cache has it for. The last two parts are about      *)
(* where shapes are written and what symbols refer to.                     *)
(***************************************************************************)
EXTENDS SvgContentProofs

-----------------------------------------------------------------------------
(* Definitions and what they mean.                                         *)

\* The ids given so far, by the counters of clips and patterns and the set
\* of the symbols emitted.
GivenBy(id, clips, patterns, emitted) ==
  \/ id[1] = "clipPath" /\ id[2] \in 1 .. clips
  \/ id[1] = "cgm-pattern-" /\ id[2] \in 1 .. patterns
  \/ id \in emitted

\* Every id defined stands for one definition and was given.
Sound(d, clips, patterns, emitted) ==
  /\ \A e, f \in d.defs : e.id = f.id => e = f
  /\ \A e \in d.defs : GivenBy(e.id, clips, patterns, emitted)
  /\ \A id \in emitted : id[1] \in Symbols

ClipsMean(d, cached) ==
  \A r \in Rects : cached[r] # NoId => Definition(d, cached[r]) = RectShape(r)

RegionsMean(d, shapes, cached) ==
  \A r \in Regions :
    cached[r] # NoId =>
      shapes[r] # <<>> /\ Definition(d, cached[r]) = PathShape(shapes[r])

PatternsMean(d, f) ==
  \A p \in Patterns : f.cached[p] # NoId => Definition(d, f.cached[p]) = PatternValue(f, p)

Meant ==
  /\ Sound(doc, clip.made, fill.made, symbols.emitted)
  /\ ClipsMean(doc, clip.cached)
  /\ RegionsMean(doc, region.shapes, region.cached)
  /\ PatternsMean(doc, fill)

\* What an id stands for in a document.
ValueIn(d, id) ==
  IF id = NoId THEN [none |-> TRUE]
  ELSE IF id \in DefinedIds(d) THEN Definition(d, id) ELSE [missing |-> id]

LEMMA ValueIsIn == \A id : Value(id) = ValueIn(doc, id)
BY DEF Value, ValueIn

LEMMA SameDefs ==
  ASSUME NEW d, NEW e, e.defs = d.defs
  PROVE  \A id : Definition(e, id) = Definition(d, id) /\ ValueIn(e, id) = ValueIn(d, id)
BY DEF Definition, ValueIn, DefinedIds

\* An id that stands for one definition stands for that.
LEMMA Stands ==
  ASSUME NEW d, NEW clips, NEW patterns, NEW emitted, Sound(d, clips, patterns, emitted),
         NEW e \in d.defs
  PROVE  Definition(d, e.id) = e.content
<1>1. \A f \in d.defs : f.id = e.id => f = e
  BY DEF Sound
<1>2. (CHOOSE f \in d.defs : f.id = e.id) = e
  BY <1>1
<1> QED
  BY <1>2 DEF Definition

\* What was defined stays so.
LEMMA StillStands ==
  ASSUME NEW d, NEW e, NEW clips, NEW patterns, NEW emitted,
         Sound(e, clips, patterns, emitted), d.defs \subseteq e.defs,
         NEW id \in DefinedIds(d)
  PROVE  id \in DefinedIds(e) /\ Definition(e, id) = Definition(d, id)
<1>1. PICK f \in d.defs : f.id = id
  BY DEF DefinedIds
<1>2. Definition(e, id) = f.content
  BY <1>1, Stands
<1>3. \A g \in d.defs : g.id = id => g = f
  BY <1>1 DEF Sound
<1>4. (CHOOSE g \in d.defs : g.id = id) = f
  BY <1>1, <1>3
<1> QED
  BY <1>1, <1>2, <1>4 DEF Definition, DefinedIds

LEMMA StillValue ==
  ASSUME NEW d, NEW e, NEW clips, NEW patterns, NEW emitted,
         Sound(e, clips, patterns, emitted), d.defs \subseteq e.defs,
         NEW id, Resolves(d, id)
  PROVE  ValueIn(e, id) = ValueIn(d, id)
<1>1. CASE id = NoId
  BY <1>1 DEF ValueIn
<1>2. CASE id # NoId
  BY <1>2, StillStands DEF Resolves, ValueIn
<1> QED
  BY <1>1, <1>2

\* Giving more ids does no harm.
LEMMA SoundOn ==
  ASSUME NEW d, NEW e, NEW clips \in Nat, NEW patterns \in Nat, NEW emitted,
         NEW clips2 \in Nat, NEW patterns2 \in Nat, NEW emitted2,
         Sound(d, clips, patterns, emitted), e.defs = d.defs,
         clips <= clips2, patterns <= patterns2, emitted \subseteq emitted2,
         \A id \in emitted2 : id[1] \in Symbols
  PROVE  Sound(e, clips2, patterns2, emitted2)
BY DEF Sound, GivenBy

\* A definition with a new id.
LEMMA NewDefinition ==
  ASSUME NEW d, NEW e, NEW id, NEW content, NEW clips \in Nat, NEW patterns \in Nat, NEW emitted,
         Sound(d, clips, patterns, emitted), Defines(e, d, id, content),
         id \notin DefinedIds(d), GivenBy(id, clips, patterns, emitted)
  PROVE  /\ Sound(e, clips, patterns, emitted) /\ d.defs \subseteq e.defs
         /\ Definition(e, id) = content /\ (id # NoId => ValueIn(e, id) = content)
<1> DEFINE new == [id |-> id, content |-> content]
<1>1. e.defs = d.defs \cup {new} /\ new.id = id /\ new.content = content
  BY DEF Defines
<1> HIDE DEF new
<1>2. \A f \in d.defs : f.id # id
  BY DEF DefinedIds
<1>3. Sound(e, clips, patterns, emitted)
  BY <1>1, <1>2 DEF Sound
<1>4. Definition(e, id) = content
  BY <1>1, <1>3, Stands
<1> QED
  BY <1>1, <1>3, <1>4 DEF ValueIn, DefinedIds

\* The ids the counters are about to give are new.
LEMMA NewIds ==
  ASSUME NEW d, NEW clips \in Nat, NEW patterns \in Nat, NEW emitted,
         Sound(d, clips, patterns, emitted)
  PROVE  /\ ClipPathId(clips + 1) \notin DefinedIds(d) /\ ClipPathId(clips + 1) # NoId
         /\ PatternId(patterns + 1) \notin DefinedIds(d) /\ PatternId(patterns + 1) # NoId
         /\ \A id : id[1] \in Symbols /\ id \notin emitted => id \notin DefinedIds(d)
<1>1. /\ ClipPathId(clips + 1)[1] = "clipPath" /\ ClipPathId(clips + 1)[2] = clips + 1
      /\ PatternId(patterns + 1)[1] = "cgm-pattern-" /\ PatternId(patterns + 1)[2] = patterns + 1
  BY DEF ClipPathId, PatternId
<1>2. ClipPathId(clips + 1) # NoId /\ PatternId(patterns + 1) # NoId
  BY DEF ClipPathId, PatternId, NoId
<1>3. "clipPath" \notin Symbols /\ "cgm-pattern-" \notin Symbols
  BY SymbolAssumption
<1>4. \A e \in d.defs :
        /\ e.id[1] = "clipPath" => e.id[2] # clips + 1
        /\ e.id[1] = "cgm-pattern-" => e.id[2] # patterns + 1
        /\ e.id[1] \in Symbols => e.id \in emitted
  BY <1>3 DEF Sound, GivenBy
<1> QED
  BY <1>1, <1>2, <1>4 DEF DefinedIds

\* Caches keep their meaning while the document grows.
LEMMA StillMean ==
  ASSUME NEW d, NEW e, NEW clips, NEW patterns, NEW emitted,
         Sound(e, clips, patterns, emitted), d.defs \subseteq e.defs
  PROVE  /\ \A cached : (\A r \in Rects : Resolves(d, cached[r])) =>
              (ClipsMean(d, cached) => ClipsMean(e, cached))
         /\ \A shapes, cached : (\A r \in Regions : Resolves(d, cached[r])) =>
              (RegionsMean(d, shapes, cached) => RegionsMean(e, shapes, cached))
         /\ \A f : (\A p \in Patterns : Resolves(d, f.cached[p])) =>
              (PatternsMean(d, f) => PatternsMean(e, f))
<1>1. \A id : Resolves(d, id) /\ id # NoId => Definition(e, id) = Definition(d, id)
  BY StillStands DEF Resolves
<1> QED
  BY <1>1 DEF ClipsMean, RegionsMean, PatternsMean
-----------------------------------------------------------------------------
(* Steps that leave the clip alone.                                        *)

\* What the step did to clips, regions and definitions is a step of the
\* rendering, and what had been defined stays.
Shows == Meant' /\ doc.defs \subseteq doc'.defs /\ Rendering!ClipStep

ClipAlone == UNCHANGED clip /\ region'.shapes = region.shapes /\ region'.cached = region.cached

\* The numbers the state counts with.
LEMMA Counters ==
  ASSUME Inv
  PROVE  /\ clip.made \in Nat /\ fill.made \in Nat /\ doc \in Documents
         /\ clip \in Clips /\ region \in RegionStates /\ fill \in Fills
         /\ Resolves(doc, clip.ref)
         /\ \A r \in Rects : Resolves(doc, clip.cached[r])
         /\ \A r \in Regions : Resolves(doc, region.cached[r])
         /\ \A p \in Patterns : Resolves(doc, fill.cached[p])
         /\ clip.made + 1 \in Nat /\ fill.made + 1 \in Nat
BY DEF Inv, DocOK, ClipOK, RegionOK, FillOK, Clips, Fills

\* The clip shape in force stays when nothing touches it.
LEMMA ShapeStays ==
  ASSUME Inv, Meant', doc.defs \subseteq doc'.defs
  PROVE  ValueIn(doc', clip.ref) = ValueIn(doc, clip.ref)
BY Counters, StillValue DEF Meant

LEMMA ClipStays ==
  ASSUME Inv, Meant', doc.defs \subseteq doc'.defs, ClipAlone
  PROVE  Shows
<1>1. Value(clip.ref)' = Value(clip.ref)
  BY ShapeStays, ValueIsIn DEF ClipAlone, Value, ValueIn
<1>2. Rendering!ClipStep
  BY <1>1 DEF ClipAlone, Rendering!ClipStep
<1> QED
  BY <1>2 DEF Shows

\* Nothing is defined, and no cache changes.
LEMMA NothingDefined ==
  ASSUME Inv, Meant, ClipAlone, UNCHANGED fill, symbols'.emitted = symbols.emitted,
         doc'.defs = doc.defs
  PROVE  Shows
<1>1. Sound(doc', clip'.made, fill'.made, symbols'.emitted)
  BY Counters, SoundOn DEF Meant, ClipAlone, Sound
<1>2. \A id : Definition(doc', id) = Definition(doc, id)
  BY SameDefs
<1>3. /\ ClipsMean(doc', clip'.cached) /\ PatternsMean(doc', fill')
      /\ RegionsMean(doc', region'.shapes, region'.cached)
  BY <1>2 DEF Meant, ClipAlone, ClipsMean, RegionsMean, PatternsMean
<1> QED
  BY <1>1, <1>3, ClipStays DEF Meant

\* The documents handlers start from define what there was.
LEMMA DefsKept ==
  ASSUME Inv, Here \in Nat
  PROVE  /\ Flush(doc).defs = doc.defs /\ PrimitiveDoc.defs = doc.defs
         /\ CloseOpenDefs(doc).defs = doc.defs
         /\ Flush(CloseOpenDefs(doc)).defs = doc.defs
         /\ Flush(doc) \in Documents /\ PrimitiveDoc \in Documents
         /\ CloseOpenDefs(doc) \in Documents /\ Flush(CloseOpenDefs(doc)) \in Documents
<1>1. doc \in Documents /\ text \in Texts
  BY DEF Inv, DocOK
<1>2. CloseOpenDefs(doc) \in Documents
  BY <1>1, CloseOpenDefsType
<1> QED
  BY <1>1, <1>2, FlushEffect, FlushExtends, CloseOpenDefsType DEF SameCore, PrimitiveDoc, Extends

LEMMA HereNat ==
  ASSUME Inv
  PROVE  Here \in Nat
BY DEF Inv, ControlOK, Here

\* Drawing defines nothing.
LEMMA DrawDefinesNothing == \A d \in Documents : \A ms : Draw(d, ms).defs = d.defs
BY DEF Draw, Documents

-----------------------------------------------------------------------------
\* The rectangle as a clip.
LEMMA RectangleClip ==
  ASSUME NEW c
  PROVE  Rendering!RectangleShape(c.rect, c.enabled) =
           IF RectangleInForce(c) THEN RectShape(c.rect) ELSE [none |-> TRUE]
BY DEF Rendering!RectangleShape, Rendering!NoRect, Rendering!NoShape, Rendering!RectShape,
       RectangleInForce, RectShape, NoRect

\* updateClipPathDefinition makes the id stand for the rectangle.
LEMMA UpdatedClipMeans ==
  ASSUME NEW d \in Documents, NEW c \in Clips, NEW patterns \in Nat, NEW emitted,
         Sound(d, c.made, patterns, emitted), ClipsMean(d, c.cached),
         \A r \in Rects : Resolves(d, c.cached[r])
  PROVE  LET e == UpdatedClipDoc(c, d)
             u == UpdatedClip(c)
         IN  /\ Sound(e, u.made, patterns, emitted) /\ ClipsMean(e, u.cached)
             /\ d.defs \subseteq e.defs /\ u.rect = c.rect /\ u.enabled = c.enabled
             /\ ValueIn(e, u.ref) = IF RectangleInForce(c) THEN RectShape(c.rect)
                                    ELSE [none |-> TRUE]
<1> DEFINE e == UpdatedClipDoc(c, d)
           u == UpdatedClip(c)
           id == ClipPathId(c.made + 1)
<1>1. c.made \in Nat /\ c.made + 1 \in Nat /\ c.cached \in [Rects -> Identifiers]
  BY DEF Clips
<1>2. CASE ~RectangleInForce(c)
  <2>1. e = d /\ u = [c EXCEPT !.ref = NoId]
    BY <1>2 DEF UpdatedClipDoc, UpdatedClip
  <2>2. u.ref = NoId /\ u.made = c.made /\ u.cached = c.cached /\ u.rect = c.rect /\ u.enabled = c.enabled
    BY <2>1 DEF Clips
  <2> HIDE DEF e, u
  <2> QED
    BY <1>2, <2>1, <2>2 DEF ValueIn, e, u
<1>3. CASE RectangleInForce(c) /\ c.cached[c.rect] # NoId
  <2>1. e = d /\ u = [c EXCEPT !.ref = c.cached[c.rect]]
    BY <1>3 DEF UpdatedClipDoc, UpdatedClip
  <2>2. /\ u.ref = c.cached[c.rect] /\ u.made = c.made /\ u.cached = c.cached
        /\ u.rect = c.rect /\ u.enabled = c.enabled
    BY <2>1 DEF Clips
  <2>3. c.rect \in Rects
    BY <1>3 DEF RectangleInForce, Clips
  <2>4. ValueIn(d, c.cached[c.rect]) = RectShape(c.rect)
    BY <1>3, <2>3 DEF ValueIn, ClipsMean, Resolves
  <2> HIDE DEF e, u
  <2> QED
    BY <1>3, <2>1, <2>2, <2>4 DEF e, u
<1>4. CASE RectangleInForce(c) /\ c.cached[c.rect] = NoId
  <2>1. c.rect \in Rects
    BY <1>4 DEF RectangleInForce, Clips
  <2>2. e = Define(d, id, RectShape(c.rect))
    BY <1>4 DEF UpdatedClipDoc
  <2>3. u = [c EXCEPT !.made = c.made + 1, !.ref = id, !.cached = [c.cached EXCEPT ![c.rect] = id]]
    BY <1>4 DEF UpdatedClip
  <2>4. /\ u.ref = id /\ u.made = c.made + 1 /\ u.rect = c.rect /\ u.enabled = c.enabled
        /\ u.cached = [c.cached EXCEPT ![c.rect] = id]
    BY <2>3 DEF Clips
  <2>5. id \in Identifiers /\ RectShape(c.rect) \in Contents
    BY <1>1, <2>1, OwnIds DEF RectShape, Contents
  <2>6. Defines(e, d, id, RectShape(c.rect))
    BY <2>2, <2>5, DefineEffect
  <2>7. id \notin DefinedIds(d) /\ id # NoId
    BY <1>1, NewIds
  <2>8. /\ Sound(d, c.made + 1, patterns, emitted)
        /\ GivenBy(id, c.made + 1, patterns, emitted)
    <3>1. \A x \in emitted : x[1] \in Symbols
      BY DEF Sound
    <3>2. c.made <= c.made + 1 /\ c.made + 1 \in 1 .. c.made + 1
      BY <1>1
    <3>3. Sound(d, c.made + 1, patterns, emitted)
      <4> DEFINE m == c.made
                 n == c.made + 1
      <4>1. m \in Nat /\ n \in Nat /\ m <= n /\ patterns <= patterns
        BY <1>1
      <4> HIDE DEF m, n
      <4>2. Sound(d, m, patterns, emitted)
        BY DEF m
      <4>3. d.defs = d.defs /\ emitted \subseteq emitted
        OBVIOUS
      <4>4. Sound(d, n, patterns, emitted)
        BY <3>1, <4>1, <4>2, <4>3, SoundOn
      <4> QED
        BY <4>4 DEF n
    <3> QED
      BY <3>2, <3>3 DEF GivenBy, ClipPathId
  <2> HIDE DEF e, u, id
  <2>9. /\ Sound(e, c.made + 1, patterns, emitted) /\ d.defs \subseteq e.defs
        /\ Definition(e, id) = RectShape(c.rect) /\ ValueIn(e, id) = RectShape(c.rect)
    BY <1>1, <2>6, <2>7, <2>8, NewDefinition
  <2>10. ClipsMean(e, c.cached)
    BY <2>9, StillMean
  <2>11. ClipsMean(e, u.cached)
    BY <1>1, <2>1, <2>4, <2>9, <2>10 DEF ClipsMean
  <2> QED
    BY <1>4, <2>4, <2>9, <2>11 DEF e, u
<1> QED
  BY <1>2, <1>3, <1>4
-----------------------------------------------------------------------------
(* The steps that define nothing.                                          *)

LEMMA StructuresShow ==
  /\ Inv /\ Meant /\ BeginApplicationStructure => Shows
  /\ Inv /\ Meant /\ ApplicationStructureAttribute => Shows
  /\ Inv /\ Meant /\ BeginApplicationStructureBody => Shows
  /\ Inv /\ Meant /\ EndApplicationStructure => Shows
<1>1. ASSUME Inv, Meant, UNCHANGED <<clip, region, fill, symbols>>, doc'.defs = doc.defs
      PROVE  Shows
  BY <1>1, NothingDefined DEF ClipAlone
<1>2. Inv /\ Meant /\ BeginApplicationStructure => Shows
  BY <1>1, HereNat, DefsKept DEF BeginApplicationStructure, FlushesText
<1>3. Inv /\ Meant /\ ApplicationStructureAttribute => Shows
  BY <1>1, HereNat, DefsKept DEF ApplicationStructureAttribute, FlushesText
<1>4. ASSUME Inv, Meant, BeginApplicationStructureBody PROVE Shows
  <2>1. CASE aps.stack = <<>>
    BY <1>1, <1>4, <2>1, HereNat, DefsKept DEF BeginApplicationStructureBody
  <2>2. CASE aps.stack # <<>>
    <3> DEFINE linked == "linkuri" \in aps.attributes
    <3>1. doc' = OpenGroup(Flush(doc), Top.id, linked)
      BY <1>4, <2>2 DEF BeginApplicationStructureBody
    <3>2. linked \in BOOLEAN
      OBVIOUS
    <3> HIDE DEF linked
    <3>3. Flush(doc) \in Documents /\ Flush(doc).defs = doc.defs /\ Top.id \in Identifiers
      BY <1>4, <2>2, HereNat, DefsKept, TopFound
    <3>4. doc'.defs = doc.defs
      BY <3>1, <3>2, <3>3, OpenGroupEffect
    <3> QED
      BY <1>1, <1>4, <3>4 DEF BeginApplicationStructureBody
  <2> QED
    BY <2>1, <2>2
<1>5. ASSUME Inv, Meant, EndApplicationStructure PROVE Shows
  <2>1. CASE aps.stack = <<>>
    BY <1>1, <1>5, <2>1, HereNat, DefsKept DEF EndApplicationStructure
  <2>2. CASE aps.stack # <<>>
    <3>1. CloseGroup(Flush(doc), Top.anchor).defs = doc.defs
      BY <1>5, <2>2, HereNat, DefsKept, TopFound, CloseGroupEffect DEF SameCore
    <3> QED
      BY <1>1, <1>5, <2>2, <3>1 DEF EndApplicationStructure
  <2> QED
    BY <2>1, <2>2
<1> QED
  BY <1>2, <1>3, <1>4, <1>5

LEMMA TextShows ==
  /\ Inv /\ Meant /\ TextColour => Shows
  /\ Inv /\ Meant /\ Text => Shows
  /\ Inv /\ Meant /\ RestrictedText => Shows
  /\ Inv /\ Meant /\ AppendText => Shows
<1>1. ASSUME Inv, Meant, UNCHANGED <<clip, region, fill, symbols>>,
             \/ doc' = doc
             \/ \E d \in {CloseOpenDefs(doc), Flush(CloseOpenDefs(doc))} : \E ms :
                  doc' = d \/ doc' = Draw(d, ms)
      PROVE  Shows
  <2>1. doc'.defs = doc.defs
    BY <1>1, HereNat, DefsKept, DrawDefinesNothing
  <2> QED
    BY <1>1, <2>1, NothingDefined DEF ClipAlone
<1>2. Inv /\ Meant /\ TextColour => Shows
  BY <1>1 DEF TextColour
<1>3. Inv /\ Meant /\ Text => Shows
  BY <1>1 DEF Text, Pends
<1>4. Inv /\ Meant /\ RestrictedText => Shows
  BY <1>1 DEF RestrictedText, Pends
<1>5. Inv /\ Meant /\ AppendText => Shows
  BY <1>1 DEF AppendText, Pends
<1> QED
  BY <1>2, <1>3, <1>4, <1>5

\* Attributes of the fill: whatever changes a pattern drops its id.
LEMMA AttributesShow == Inv /\ Meant /\ Filling => Shows
<1> SUFFICES ASSUME Inv, Meant, Filling PROVE Shows
  OBVIOUS
<1>1. fill \in Fills
  BY Counters
<1>2. ASSUME Attribute, fill'.made = fill.made,
             \A p \in Patterns :
               \/ fill'.cached[p] = NoId
               \/ /\ fill'.cached[p] = fill.cached[p]
                  /\ PatternValue(fill', p) = PatternValue(fill, p)
      PROVE  Shows
  <2>1. UNCHANGED <<doc, clip, region, symbols>>
    BY <1>2 DEF Attribute
  <2>2. PatternsMean(doc', fill')
    BY <1>2, <2>1 DEF Meant, PatternsMean
  <2>3. Meant'
    BY <1>2, <2>1, <2>2 DEF Meant
  <2> QED
    BY <2>1, <2>3, ClipStays DEF ClipAlone
<1>3. CASE InteriorStyle
  <2>1. PICK c \in Alphabet : InteriorStyle!(c)
    BY <1>3 DEF InteriorStyle
  <2>2. /\ fill'.made = fill.made /\ fill'.cached = fill.cached /\ fill'.tables = fill.tables
        /\ fill'.sizes = fill.sizes /\ fill'.reference = fill.reference
    BY <1>1, <2>1 DEF Fills
  <2> QED
    BY <1>2, <2>1, <2>2 DEF PatternValue
<1>4. CASE PatternIndex
  <2>1. PICK c \in Alphabet : PatternIndex!(c)
    BY <1>4 DEF PatternIndex
  <2>2. /\ fill'.made = fill.made /\ fill'.cached = fill.cached /\ fill'.tables = fill.tables
        /\ fill'.sizes = fill.sizes /\ fill'.reference = fill.reference
    BY <1>1, <2>1 DEF Fills
  <2> QED
    BY <1>2, <2>1, <2>2 DEF PatternValue
<1>5. CASE PatternTable
  <2>1. PICK c \in Alphabet : PatternTable!(c)
    BY <1>5 DEF PatternTable
  <2>2. /\ fill'.made = fill.made /\ fill'.reference = fill.reference
        /\ \A p \in Patterns : IF p = c.index THEN fill'.cached[p] = NoId
             ELSE /\ fill'.cached[p] = fill.cached[p] /\ fill'.tables[p] = fill.tables[p]
                  /\ fill'.sizes[p] = fill.sizes[p]
    BY <1>1, <2>1 DEF Fills
  <2> QED
    BY <1>2, <2>1, <2>2 DEF PatternValue
<1>6. CASE PatternSize
  <2>1. PICK c \in Alphabet : PatternSize!(c)
    BY <1>6 DEF PatternSize
  <2> DEFINE bound == {p \in Patterns : \/ p = fill.last
                                        \/ fill.tables[p].at # 0 /\ fill.sizes[p] = 0}
             sizes == [p \in Patterns |-> IF p \in bound THEN Here ELSE fill.sizes[p]]
             cached == [p \in Patterns |-> IF p \in bound THEN NoId ELSE fill.cached[p]]
  <2>2. fill' = [fill EXCEPT !.sizes = sizes, !.cached = cached, !.activeSize = Here]
    BY <2>1
  <2> HIDE DEF bound
  <2>3. \A p \in Patterns : IF p \in bound THEN cached[p] = NoId
                            ELSE cached[p] = fill.cached[p] /\ sizes[p] = fill.sizes[p]
    OBVIOUS
  <2> HIDE DEF sizes, cached
  <2>4. /\ fill'.made = fill.made /\ fill'.reference = fill.reference
        /\ fill'.tables = fill.tables /\ fill'.sizes = sizes /\ fill'.cached = cached
    BY <1>1, <2>2 DEF Fills
  <2> QED
    BY <1>2, <2>1, <2>3, <2>4 DEF PatternValue
<1>7. CASE FillReferencePoint
  <2>1. PICK c \in Alphabet : FillReferencePoint!(c)
    BY <1>7 DEF FillReferencePoint
  <2>2. fill'.made = fill.made /\ \A p \in Patterns : fill'.cached[p] = NoId
    BY <1>1, <2>1 DEF Fills
  <2> QED
    BY <1>2, <2>1, <2>2
<1> QED
  BY <1>3, <1>4, <1>5, <1>6, <1>7 DEF Filling

LEMMA PlainDrawingShows ==
  /\ Inv /\ Meant /\ PrimitiveIntoFigure => Shows
  /\ Inv /\ Meant /\ PrimitiveIntoRegion => Shows
  /\ Inv /\ Meant /\ DrawStroked => Shows
  /\ Inv /\ Meant /\ FailFilled => Shows
  /\ Inv /\ Meant /\ BeginFigure => Shows
  /\ Inv /\ Meant /\ ConnectingEdge => Shows
  /\ Inv /\ Meant /\ EndFigure => Shows
  /\ Inv /\ Meant /\ EndFigureIntoRegion => Shows
<1>1. ASSUME Inv, Meant, UNCHANGED <<clip, fill, symbols>>,
             region'.shapes = region.shapes, region'.cached = region.cached,
             \E d \in {Flush(doc), PrimitiveDoc} : \E ms : doc' = d \/ doc' = Draw(d, ms)
      PROVE  Shows
  <2>1. doc'.defs = doc.defs
    BY <1>1, HereNat, DefsKept, DrawDefinesNothing
  <2> QED
    BY <1>1, <2>1, NothingDefined DEF ClipAlone
<1>2. Inv => region \in RegionStates
  BY Counters
<1>3. Inv /\ Meant /\ PrimitiveIntoFigure => Shows
  BY <1>1 DEF PrimitiveIntoFigure
<1>4. ASSUME Inv, Meant, PrimitiveIntoRegion PROVE Shows
  <2>1. region'.shapes = region.shapes /\ region'.cached = region.cached
    BY <1>2, <1>4 DEF PrimitiveIntoRegion, RegionStates
  <2> QED
    BY <1>1, <1>4, <2>1 DEF PrimitiveIntoRegion
<1>5. Inv /\ Meant /\ DrawStroked => Shows
  BY <1>1 DEF DrawStroked
<1>6. Inv /\ Meant /\ FailFilled => Shows
  BY <1>1 DEF FailFilled
<1>7. Inv /\ Meant /\ BeginFigure => Shows
  BY <1>1 DEF BeginFigure, FlushesText
<1>8. Inv /\ Meant /\ ConnectingEdge => Shows
  BY <1>1 DEF ConnectingEdge
<1>9. Inv /\ Meant /\ EndFigure => Shows
  BY <1>1 DEF EndFigure, FlushesText
<1>10. ASSUME Inv, Meant, EndFigureIntoRegion PROVE Shows
  <2>1. region'.shapes = region.shapes /\ region'.cached = region.cached
    BY <1>2, <1>10 DEF EndFigureIntoRegion, RegionStates
  <2> QED
    BY <1>1, <1>10, <2>1 DEF EndFigureIntoRegion
<1> QED
  BY <1>3, <1>4, <1>5, <1>6, <1>7, <1>8, <1>9, <1>10

LEMMA PicturesShow ==
  /\ Inv /\ Meant /\ BeginPictureBody => Shows
  /\ Inv /\ Meant /\ BackgroundColour => Shows
  /\ Inv /\ Meant /\ ColourTable => Shows
  /\ Inv /\ Meant /\ SegmentElement => Shows
  /\ Inv /\ Meant /\ EndOfFile => Shows
  /\ Inv /\ Meant /\ SymbolLibraryList => Shows
<1>1. ASSUME Inv, Meant, UNCHANGED <<clip, region, fill>>, symbols'.emitted = symbols.emitted,
             doc' = doc \/ \E ms : doc' = Flush(doc) \/ doc' = Draw(Flush(doc), ms)
      PROVE  Shows
  <2>1. doc'.defs = doc.defs
    BY <1>1, HereNat, DefsKept, DrawDefinesNothing
  <2> QED
    BY <1>1, <2>1, NothingDefined DEF ClipAlone
<1>2. Inv /\ Meant /\ BeginPictureBody => Shows
  BY <1>1 DEF BeginPictureBody
<1>3. Inv /\ Meant /\ BackgroundColour => Shows
  BY <1>1 DEF BackgroundColour, FlushesText
<1>4. Inv /\ Meant /\ ColourTable => Shows
  BY <1>1 DEF ColourTable
<1>5. Inv /\ Meant /\ SegmentElement => Shows
  BY <1>1 DEF SegmentElement
<1>6. ASSUME Inv, Meant, EndOfFile PROVE Shows
  BY <1>6, EndOfFileEffect, NothingDefined DEF EndOfFile, SameCore, ClipAlone
<1>7. ASSUME Inv, Meant, SymbolLibraryList PROVE Shows
  <2>1. symbols \in SymbolStates
    BY <1>7 DEF Inv, SymbolsOK
  <2>2. symbols'.emitted = symbols.emitted
    BY <1>7, <2>1 DEF SymbolLibraryList, SymbolStates
  <2> QED
    BY <1>1, <1>7, <2>2 DEF SymbolLibraryList, FlushesText
<1> QED
  BY <1>2, <1>3, <1>4, <1>5, <1>6, <1>7
-----------------------------------------------------------------------------
(* Filling.                                                                *)

\* The same pattern with another id.
LEMMA OtherId ==
  ASSUME NEW f \in Fills, NEW g, g.tables = f.tables, g.sizes = f.sizes,
         g.reference = f.reference
  PROVE  \A p : PatternValue(g, p) = PatternValue(f, p)
BY DEF PatternValue

\* ensurePatternFill: the id of a pattern stands for its value.
LEMMA EnsuredFillMeans ==
  ASSUME Inv, Meant, NEW d \in Documents, d.defs = doc.defs
  PROVE  /\ Sound(EnsuredFillDoc(d), clip.made, EnsuredFill.made, symbols.emitted)
         /\ doc.defs \subseteq EnsuredFillDoc(d).defs
         /\ PatternsMean(EnsuredFillDoc(d), EnsuredFill)
<1>1. /\ fill \in Fills /\ fill.made \in Nat /\ fill.made + 1 \in Nat /\ clip.made \in Nat
      /\ fill.index \in Patterns /\ fill.cached \in [Patterns -> Identifiers]
      /\ \A p \in Patterns : Resolves(d, fill.cached[p])
  BY Counters DEF Fills, Resolves, DefinedIds
<1>2. Sound(d, clip.made, fill.made, symbols.emitted) /\ PatternsMean(d, fill)
  BY SameDefs DEF Meant, Sound, PatternsMean
<1>3. CASE ~Tiled
  <2>1. EnsuredFillDoc(d) = d /\ EnsuredFill = fill
    BY <1>3 DEF EnsuredFillDoc, EnsuredFill
  <2> QED
    BY <1>2, <2>1
<1>4. CASE Tiled /\ Defined
  <2>1. EnsuredFillDoc(d) = d /\ EnsuredFill = fill
    BY <1>4 DEF EnsuredFillDoc, EnsuredFill
  <2> QED
    BY <1>2, <2>1
<1>5. CASE Tiled /\ ~Defined
  <2> DEFINE value == PatternValue(fill, fill.index)
             id == FillId
             e == EnsuredFillDoc(d)
             g == EnsuredFill
             n == fill.made + 1
  <2>1. e = Define(d, id, value) /\ id = PatternId(n)
    BY <1>5 DEF EnsuredFillDoc, FillId
  <2>2. g = [fill EXCEPT !.made = n, !.cached = [fill.cached EXCEPT ![fill.index] = id]]
    BY <1>5 DEF EnsuredFill
  <2>3. id \in Identifiers /\ value \in Contents
    BY <1>1, <2>1, OwnIds, PatternValueType
  <2>4. Defines(e, d, id, value)
    BY <2>1, <2>3, DefineEffect
  <2>5. /\ g.made = n /\ g.cached = [fill.cached EXCEPT ![fill.index] = id]
        /\ g.tables = fill.tables /\ g.sizes = fill.sizes /\ g.reference = fill.reference
    BY <1>1, <2>2 DEF Fills
  <2>6. id \notin DefinedIds(d) /\ id # NoId
    BY <1>1, <1>2, <2>1, NewIds
  <2>7. Sound(d, clip.made, n, symbols.emitted)
    <3>1. \A x \in symbols.emitted : x[1] \in Symbols
      BY <1>2 DEF Sound
    <3> DEFINE k == clip.made
               m == fill.made
    <3>2. k \in Nat /\ m \in Nat /\ n \in Nat /\ m <= n /\ k <= k
      BY <1>1
    <3>3. Sound(d, k, m, symbols.emitted)
      BY <1>2
    <3> HIDE DEF k, m, n
    <3>4. d.defs = d.defs /\ symbols.emitted \subseteq symbols.emitted
      OBVIOUS
    <3>5. Sound(d, k, n, symbols.emitted)
      BY <3>1, <3>2, <3>3, <3>4, SoundOn
    <3> QED
      BY <3>5 DEF k
  <2>8. GivenBy(id, clip.made, n, symbols.emitted)
    <3>1. n \in 1 .. n
      BY <1>1
    <3> QED
      BY <2>1, <3>1 DEF GivenBy, PatternId
  <2>9. n \in Nat
    BY <1>1
  <2>10. value = PatternValue(fill, fill.index)
    OBVIOUS
  <2> HIDE DEF value, id, e, g, n
  <2>11. /\ Sound(e, clip.made, n, symbols.emitted) /\ d.defs \subseteq e.defs
         /\ Definition(e, id) = value /\ ValueIn(e, id) = value
    BY <1>1, <2>4, <2>6, <2>7, <2>8, <2>9, NewDefinition
  <2>12. PatternsMean(e, fill)
    BY <1>1, <1>2, <2>11, StillMean
  <2>13. PatternsMean(e, g)
    BY <1>1, <2>5, <2>10, <2>11, <2>12, OtherId DEF PatternsMean
  <2> QED
    BY <2>5, <2>11, <2>13 DEF e, g
<1> QED
  BY <1>3, <1>4, <1>5

\* A drawing of something filled.
LEMMA FilledShows ==
  ASSUME Inv, Meant, UNCHANGED <<clip, region, symbols>>, fill' = EnsuredFill, NEW ms,
         doc' = Draw(CloseOpenDefs(EnsuredFillDoc(PrimitiveDoc)), ms)
  PROVE  Shows
<1> DEFINE e == EnsuredFillDoc(PrimitiveDoc)
<1>1. PrimitiveDoc \in Documents /\ PrimitiveDoc.defs = doc.defs
  BY HereNat, DefsKept
<1>2. /\ Sound(e, clip.made, EnsuredFill.made, symbols.emitted) /\ doc.defs \subseteq e.defs
      /\ PatternsMean(e, EnsuredFill)
  BY <1>1, EnsuredFillMeans
<1>3. e \in Documents
  <2>1. \A p \in Patterns : Resolves(PrimitiveDoc, fill.cached[p])
    BY <1>1, Counters DEF Resolves, DefinedIds
  <2> QED
    BY <1>1, <2>1, Counters, EnsuredFillSound
<1>4. doc' = Draw(CloseOpenDefs(e), ms)
  OBVIOUS
<1> HIDE DEF e
<1>5. doc'.defs = e.defs
  BY <1>3, <1>4, CloseOpenDefsType, DrawDefinesNothing
<1>6. Sound(doc', clip'.made, fill'.made, symbols'.emitted)
  BY <1>2, <1>5 DEF Sound
<1>7. \A id : Definition(doc', id) = Definition(e, id)
  BY <1>5, SameDefs
<1>8. PatternsMean(doc', fill')
  BY <1>2, <1>7 DEF PatternsMean
<1>9. ClipsMean(doc', clip'.cached) /\ RegionsMean(doc', region'.shapes, region'.cached)
  <2>1. ClipsMean(e, clip.cached) /\ RegionsMean(e, region.shapes, region.cached)
    BY <1>2, Counters, StillMean DEF Meant
  <2> QED
    BY <1>7, <2>1 DEF ClipsMean, RegionsMean
<1>10. Meant'
  BY <1>6, <1>8, <1>9 DEF Meant
<1> QED
  BY <1>2, <1>5, <1>7, <1>10, ClipStays DEF ClipAlone

LEMMA FilledDrawingShows ==
  /\ Inv /\ Meant /\ DrawFilled => Shows
  /\ Inv /\ Meant /\ DrawFigure => Shows
<1>1. Inv /\ Meant /\ DrawFilled => Shows
  BY FilledShows DEF DrawFilled
<1>2. ASSUME Inv, Meant, DrawFigure PROVE Shows
  <2>1. CASE FillFails
    <3>1. doc'.defs = doc.defs
      BY <1>2, <2>1, HereNat, DefsKept DEF DrawFigure
    <3> QED
      BY <1>2, <2>1, <3>1, NothingDefined DEF DrawFigure, ClipAlone
  <2>2. CASE ~FillFails
    BY <1>2, <2>2, FilledShows DEF DrawFigure
  <2> QED
    BY <2>1, <2>2
<1> QED
  BY <1>1, <1>2
-----------------------------------------------------------------------------
(* Symbols and clips.                                                      *)

LEMMA PolySymbolShows == Inv /\ Meant /\ PolySymbol => Shows
<1> SUFFICES ASSUME Inv, Meant, PolySymbol PROVE Shows
  OBVIOUS
<1>1. PICK c \in Alphabet : PolySymbol!(c)
  BY DEF PolySymbol
<1>2. /\ PrimitiveDoc \in Documents /\ PrimitiveDoc.defs = doc.defs /\ NoId \in Identifiers
      /\ SymbolsOK
  BY HereNat, DefsKept, OwnIds DEF Inv
<1>3. ASSUME NEW id \in Identifiers, doc' = Close(DrawSymbol(PrimitiveDoc, id), "g"),
             symbols' = [symbols EXCEPT !.placed = @ + 1]
      PROVE  Shows
  <2>1. doc'.defs = doc.defs /\ symbols'.emitted = symbols.emitted
    BY <1>2, <1>3, HereNat, DrawSymbolEffect, PlacedType
  <2> QED
    BY <1>1, <1>3, <2>1, NothingDefined DEF ClipAlone
<1> DEFINE s == Name(c.index)
           id == SymbolId(s)
           content == [symbol |-> s]
           emitted == symbols.emitted \cup {id}
<1>4. ASSUME s \in Symbols, id \in Identifiers, id \notin symbols.emitted,
             content \in Contents,
             doc' = Close(DrawSymbol(Define(PrimitiveDoc, id, content), id), "g"),
             symbols'.emitted = emitted
      PROVE  Shows
  <2> DEFINE e == Define(PrimitiveDoc, id, content)
  <2>1. e \in Documents /\ Defines(e, PrimitiveDoc, id, content)
    BY <1>2, <1>4, DefineType, DefineEffect
  <2>2. id[1] = s
    BY DEF SymbolId
  <2>3. \A x \in emitted : x[1] \in Symbols
    BY <1>4, <2>2 DEF Meant, Sound
  <2>4. clip.made \in Nat /\ fill.made \in Nat
    BY Counters
  <2>5. Sound(PrimitiveDoc, clip.made, fill.made, symbols.emitted)
    BY <1>2 DEF Meant, Sound
  <2>6. Sound(PrimitiveDoc, clip.made, fill.made, emitted)
    <3> DEFINE k == clip.made
               m == fill.made
    <3>1. k \in Nat /\ m \in Nat /\ k <= k /\ m <= m
      BY <2>4
    <3>2. symbols.emitted \subseteq emitted
      OBVIOUS
    <3>3. Sound(PrimitiveDoc, k, m, symbols.emitted) /\ PrimitiveDoc.defs = PrimitiveDoc.defs
      BY <2>5
    <3> HIDE DEF k, m, emitted
    <3>4. Sound(PrimitiveDoc, k, m, emitted)
      BY <2>3, <3>1, <3>2, <3>3, SoundOn
    <3> QED
      BY <3>4 DEF k, m
  <2>7. id \notin DefinedIds(PrimitiveDoc)
    BY <1>4, <2>2, <2>4, <2>5, NewIds
  <2>8. GivenBy(id, clip.made, fill.made, emitted)
    BY DEF GivenBy
  <2>9. doc' = Close(DrawSymbol(e, id), "g")
    BY <1>4
  <2> HIDE DEF s, id, content, emitted, e
  <2>10. Sound(e, clip.made, fill.made, emitted) /\ PrimitiveDoc.defs \subseteq e.defs
    BY <2>1, <2>4, <2>6, <2>7, <2>8, NewDefinition
  <2>11. doc'.defs = e.defs
    BY <1>2, <1>4, <2>1, <2>9, HereNat, DrawSymbolEffect
  <2>12. UNCHANGED <<clip, region, fill>>
    BY <1>1
  <2>13. Sound(doc', clip'.made, fill'.made, symbols'.emitted) /\ doc.defs \subseteq doc'.defs
    BY <1>2, <1>4, <2>10, <2>11, <2>12 DEF Sound
  <2>14. /\ ClipsMean(doc', clip.cached) /\ RegionsMean(doc', region.shapes, region.cached)
         /\ PatternsMean(doc', fill)
    BY <2>13, Counters, StillMean DEF Meant
  <2>15. Meant'
    BY <2>12, <2>13, <2>14 DEF Meant
  <2> QED
    BY <2>12, <2>13, <2>15, ClipStays DEF ClipAlone
<1>5. PlacesSymbol(c)
  BY <1>1, SymbolPlaced
<1>6. symbols \in SymbolStates
  BY DEF Inv, SymbolsOK
<1>7. CASE /\ s \in Symbols /\ id \in Identifiers /\ id \notin symbols.emitted
           /\ content \in Contents
           /\ doc' = Close(DrawSymbol(Define(PrimitiveDoc, id, content), id), "g")
           /\ symbols' = [symbols EXCEPT !.ids = [symbols.ids EXCEPT ![s] = id],
                                         !.emitted = emitted, !.placed = @ + 1]
  <2> HIDE DEF s, id, content, emitted
  <2>1. symbols'.emitted = emitted
    BY <1>6, <1>7 DEF SymbolStates
  <2> QED
    BY <1>4, <1>7, <2>1
<1> QED
  BY <1>2, <1>3, <1>5, <1>7 DEF PlacesSymbol

\* What updateClipPathDefinition leaves: the shape in force is the rectangle's.
LEMMA ClipUpdateShows ==
  ASSUME Inv, Meant, NEW c \in Clips, c.made = clip.made, c.cached = clip.cached,
         UpdatesClip(c), UNCHANGED <<fill, symbols>>,
         region'.shapes = region.shapes, region'.cached = region.cached
  PROVE  /\ Meant' /\ doc.defs \subseteq doc'.defs
         /\ clip'.rect = c.rect /\ clip'.enabled = c.enabled
         /\ Value(clip.ref)' = Rendering!RectangleShape(c.rect, c.enabled)
<1> DEFINE d == Flush(doc)
<1>1. d \in Documents /\ d.defs = doc.defs
  BY HereNat, DefsKept
<1>2. \A r \in Rects : Resolves(d, c.cached[r])
  BY <1>1, Counters DEF Resolves, DefinedIds
<1>3. Sound(d, c.made, fill.made, symbols.emitted) /\ ClipsMean(d, c.cached)
  BY <1>1, SameDefs DEF Meant, Sound, ClipsMean
<1>4. doc' = UpdatedClipDoc(c, d) /\ clip' = UpdatedClip(c) /\ fill.made \in Nat
  BY Counters DEF UpdatesClip
<1> HIDE DEF d
<1>5. /\ Sound(doc', clip'.made, fill.made, symbols.emitted) /\ ClipsMean(doc', clip'.cached)
      /\ d.defs \subseteq doc'.defs /\ clip'.rect = c.rect /\ clip'.enabled = c.enabled
      /\ ValueIn(doc', clip'.ref) = IF RectangleInForce(c) THEN RectShape(c.rect)
                                    ELSE [none |-> TRUE]
  BY <1>1, <1>2, <1>3, <1>4, UpdatedClipMeans
<1>6. RegionsMean(doc', region.shapes, region.cached) /\ PatternsMean(doc', fill)
  BY <1>1, <1>5, Counters, StillMean DEF Meant
<1>7. Meant'
  BY <1>5, <1>6 DEF Meant, RegionsMean
<1>8. Value(clip.ref)' = ValueIn(doc', clip'.ref)
  BY DEF Value, ValueIn
<1> QED
  BY <1>1, <1>5, <1>7, <1>8, RectangleClip

\* Steps that define nothing and leave the caches of clips alone.
LEMMA ClipMovesShow ==
  ASSUME Inv, Meant, UNCHANGED <<region, fill, symbols>>, doc'.defs = doc.defs,
         clip'.made = clip.made, clip'.cached = clip.cached
  PROVE  Meant' /\ doc.defs \subseteq doc'.defs
<1>1. \A id : Definition(doc', id) = Definition(doc, id)
  BY SameDefs
<1> QED
  BY <1>1 DEF Meant, Sound, ClipsMean, RegionsMean, PatternsMean

LEMMA RectangleShows ==
  /\ Inv /\ Meant /\ ClipRectangle => Shows
  /\ Inv /\ Meant /\ ClipIndicator => Shows
<1>1. ASSUME Inv, Meant, ClipRectangle PROVE Shows
  <2>1. PICK c \in Alphabet : ClipRectangle!(c)
    BY <1>1 DEF ClipRectangle
  <2> DEFINE d == [clip EXCEPT !.rect = c.rect]
  <2>2. c.rect \in Rects /\ clip \in Clips
    BY <1>1, <2>1, Operands, Counters
  <2>3. /\ d \in Clips /\ d.made = clip.made /\ d.cached = clip.cached /\ d.rect = c.rect
        /\ d.enabled = clip.enabled /\ d.ref = clip.ref
    BY <2>2 DEF Clips
  <2>4. CASE clip.enabled
    <3>1. UpdatesClip(d) /\ UNCHANGED <<fill, symbols, region>>
      BY <2>1, <2>4
    <3> HIDE DEF d
    <3>2. /\ Meant' /\ doc.defs \subseteq doc'.defs
          /\ clip'.rect = d.rect /\ clip'.enabled = d.enabled
          /\ Value(clip.ref)' = Rendering!RectangleShape(d.rect, d.enabled)
      BY <1>1, <2>3, <3>1, ClipUpdateShows
    <3>3. Rendering!SetRectangle
      BY <2>2, <2>3, <2>4, <3>1, <3>2 DEF Rendering!SetRectangle, Rendering!RectangleShape
    <3> QED
      BY <3>2, <3>3 DEF Shows, Rendering!ClipStep
  <2>5. CASE ~clip.enabled
    <3>1. clip' = d /\ doc' = Flush(doc) /\ UNCHANGED <<fill, symbols, region>>
      BY <2>1, <2>5
    <3> HIDE DEF d
    <3>2. doc'.defs = doc.defs
      BY <1>1, <3>1, HereNat, DefsKept
    <3>3. Meant' /\ doc.defs \subseteq doc'.defs
      BY <1>1, <2>3, <3>1, <3>2, ClipMovesShow
    <3>4. Value(clip.ref)' = Value(clip.ref)
      BY <2>3, <3>1, <3>2, SameDefs, ValueIsIn DEF Value, ValueIn, DefinedIds, Definition
    <3>5. Rendering!SetRectangle
      BY <2>2, <2>3, <2>5, <3>1, <3>4 DEF Rendering!SetRectangle
    <3> QED
      BY <3>3, <3>5 DEF Shows, Rendering!ClipStep
  <2> QED
    BY <2>4, <2>5
<1>2. ASSUME Inv, Meant, ClipIndicator PROVE Shows
  <2>1. PICK c \in Alphabet : ClipIndicator!(c)
    BY <1>2 DEF ClipIndicator
  <2> DEFINE d == [clip EXCEPT !.enabled = TRUE]
             f == [clip EXCEPT !.enabled = c.on, !.ref = NoId]
  <2>2. c.on \in BOOLEAN /\ clip \in Clips /\ NoId \in Identifiers
    BY <1>2, <2>1, Operands, Counters, OwnIds
  <2>3. CASE c.on /\ clip.rect # NoRect
    <3>1. /\ d \in Clips /\ d.made = clip.made /\ d.cached = clip.cached
          /\ d.rect = clip.rect /\ d.enabled = TRUE
      BY <2>2 DEF Clips
    <3>2. UpdatesClip(d) /\ UNCHANGED <<fill, symbols, region>>
      BY <2>1, <2>3
    <3> HIDE DEF d
    <3>3. /\ Meant' /\ doc.defs \subseteq doc'.defs
          /\ clip'.rect = d.rect /\ clip'.enabled = d.enabled
          /\ Value(clip.ref)' = Rendering!RectangleShape(d.rect, d.enabled)
      BY <1>2, <3>1, <3>2, ClipUpdateShows
    <3>4. Rendering!SetIndicator
      BY <3>1, <3>2, <3>3 DEF Rendering!SetIndicator
    <3> QED
      BY <3>3, <3>4 DEF Shows, Rendering!ClipStep
  <2>4. CASE ~(c.on /\ clip.rect # NoRect)
    <3>1. clip' = f /\ doc' = Flush(doc) /\ UNCHANGED <<fill, symbols, region>>
      BY <2>1, <2>4
    <3>2. /\ f.made = clip.made /\ f.cached = clip.cached /\ f.rect = clip.rect
          /\ f.enabled = c.on /\ f.ref = NoId
      BY <2>2 DEF Clips
    <3> HIDE DEF f
    <3>3. doc'.defs = doc.defs
      BY <1>2, <3>1, HereNat, DefsKept
    <3>4. Meant' /\ doc.defs \subseteq doc'.defs
      BY <1>2, <3>1, <3>2, <3>3, ClipMovesShow
    <3>5. Value(clip.ref)' = [none |-> TRUE]
      BY <3>1, <3>2 DEF Value
    <3>6. Rendering!RectangleShape(clip.rect, c.on) = [none |-> TRUE]
      BY <2>2, <2>4 DEF Rendering!RectangleShape, Rendering!NoRect, Rendering!NoShape, NoRect
    <3>7. Rendering!SetIndicator
      BY <2>2, <3>1, <3>2, <3>5, <3>6 DEF Rendering!SetIndicator
    <3> QED
      BY <3>4, <3>7 DEF Shows, Rendering!ClipStep
  <2> QED
    BY <2>3, <2>4
<1> QED
  BY <1>1, <1>2
LEMMA RegionIndicatorShows == Inv /\ Meant /\ ProtectionRegionIndicator => Shows
<1> SUFFICES ASSUME Inv, Meant, ProtectionRegionIndicator PROVE Shows
  OBVIOUS
<1>1. PICK c \in Alphabet : ProtectionRegionIndicator!(c)
  BY DEF ProtectionRegionIndicator
<1>2. /\ c.rid \in Regions /\ clip \in Clips /\ region \in RegionStates
      /\ UNCHANGED <<fill, symbols>>
  BY <1>1, Operands, Counters
<1> DEFINE id == ClipPathId(clip.made + 1)
           content == PathShape(region.shapes[c.rid])
<1>3. Flush(doc) \in Documents /\ Flush(doc).defs = doc.defs
  BY HereNat, DefsKept
<1>4. CASE ~c.on
  <2>1. region'.shapes = region.shapes /\ region'.cached = region.cached
    BY <1>1, <1>2, <1>4 DEF RegionStates
  <2>2. UpdatesClip(clip)
    BY <1>1, <1>4
  <2>3. /\ Meant' /\ doc.defs \subseteq doc'.defs
        /\ clip'.rect = clip.rect /\ clip'.enabled = clip.enabled
        /\ Value(clip.ref)' = Rendering!RectangleShape(clip.rect, clip.enabled)
    BY <1>2, <2>1, <2>2, ClipUpdateShows
  <2>4. Rendering!ClipToRectangle
    BY <2>1, <2>3 DEF Rendering!ClipToRectangle
  <2> QED
    BY <2>3, <2>4 DEF Shows, Rendering!ClipStep
<1>5. ASSUME region.cached[c.rid] # NoId, doc' = Flush(doc),
             clip' = [clip EXCEPT !.ref = region.cached[c.rid]],
             region' = [region EXCEPT !.indicator = 2, !.active = c.rid]
      PROVE  Shows
  <2>1. /\ clip'.made = clip.made /\ clip'.cached = clip.cached /\ clip'.rect = clip.rect
        /\ clip'.enabled = clip.enabled /\ clip'.ref = region.cached[c.rid]
        /\ region'.shapes = region.shapes /\ region'.cached = region.cached
    BY <1>2, <1>5 DEF Clips, RegionStates
  <2>2. doc'.defs = doc.defs
    BY <1>3, <1>5
  <2>3. \A x : Definition(doc', x) = Definition(doc, x) /\ ValueIn(doc', x) = ValueIn(doc, x)
    BY <2>2, SameDefs
  <2>4. Meant'
    BY <1>2, <2>1, <2>2, <2>3 DEF Meant, Sound, ClipsMean, RegionsMean, PatternsMean
  <2>5. region.shapes[c.rid] # <<>> /\ Definition(doc, region.cached[c.rid]) = content
    BY <1>2, <1>5 DEF Meant, RegionsMean
  <2>6. region.cached[c.rid] \in DefinedIds(doc)
    BY <1>2, <1>5, Counters DEF Resolves
  <2>7. ValueIn(doc', region.cached[c.rid]) = content
    BY <1>5, <2>3, <2>5, <2>6 DEF ValueIn
  <2>8. Value(clip.ref)' = content
    BY <2>1, <2>7 DEF Value, ValueIn
  <2>9. Rendering!ClipToRegion
    BY <1>2, <2>1, <2>5, <2>8 DEF Rendering!ClipToRegion, Rendering!PathShape, PathShape
  <2> QED
    BY <2>2, <2>4, <2>9 DEF Shows, Rendering!ClipStep
<1>6. ASSUME region.cached[c.rid] = NoId, region.shapes[c.rid] # <<>>,
             clip' = [clip EXCEPT !.made = @ + 1, !.ref = id],
             region' = [region EXCEPT !.indicator = 2, !.active = c.rid, !.cached[c.rid] = id],
             doc' = Define(Flush(doc), id, content)
      PROVE  Shows
  <2> DEFINE d == Flush(doc)
             n == clip.made + 1
  <2>1. /\ clip'.made = n /\ clip'.cached = clip.cached /\ clip'.rect = clip.rect
        /\ clip'.enabled = clip.enabled /\ clip'.ref = id
        /\ region'.shapes = region.shapes
        /\ region'.cached = [region.cached EXCEPT ![c.rid] = id]
        /\ region.cached \in [Regions -> Identifiers]
    BY <1>2, <1>6 DEF Clips, RegionStates
  <2>2. clip.made \in Nat /\ n \in Nat /\ fill.made \in Nat /\ clip.made <= n /\ n \in 1 .. n
    BY Counters
  <2>3. id \in Identifiers /\ content \in Contents
    BY <1>2, <2>2, OwnIds DEF PathShape, Contents, RegionStates
  <2>4. Defines(doc', d, id, content)
    BY <1>3, <1>6, <2>3, DefineEffect
  <2>5. Sound(d, clip.made, fill.made, symbols.emitted)
    BY <1>3 DEF Meant, Sound
  <2>6. id \notin DefinedIds(d) /\ id # NoId
    BY <2>2, <2>5, NewIds
  <2>7. Sound(d, n, fill.made, symbols.emitted)
    <3> DEFINE k == clip.made
               m == fill.made
    <3>1. k \in Nat /\ m \in Nat /\ n \in Nat /\ k <= n /\ m <= m
      BY <2>2
    <3>2. /\ Sound(d, k, m, symbols.emitted) /\ d.defs = d.defs
          /\ symbols.emitted \subseteq symbols.emitted
          /\ \A x \in symbols.emitted : x[1] \in Symbols
      BY <2>5 DEF Sound
    <3> HIDE DEF k, m, n, d
    <3>3. Sound(d, n, m, symbols.emitted)
      BY <3>1, <3>2, SoundOn
    <3> QED
      BY <3>3 DEF m
  <2>8. GivenBy(id, n, fill.made, symbols.emitted)
    BY <2>2 DEF GivenBy, ClipPathId
  <2>9. d.defs = doc.defs /\ content = PathShape(region.shapes[c.rid])
    BY <1>3
  <2> HIDE DEF id, content, n, d
  <2>10. /\ Sound(doc', n, fill.made, symbols.emitted) /\ d.defs \subseteq doc'.defs
         /\ Definition(doc', id) = content /\ ValueIn(doc', id) = content
    BY <2>2, <2>4, <2>6, <2>7, <2>8, NewDefinition
  <2>11. doc.defs \subseteq doc'.defs
    BY <2>9, <2>10
  <2>12. /\ ClipsMean(doc', clip.cached) /\ RegionsMean(doc', region.shapes, region.cached)
         /\ PatternsMean(doc', fill)
    BY <2>10, <2>11, Counters, StillMean DEF Meant
  <2>13. RegionsMean(doc', region'.shapes, region'.cached)
    BY <1>2, <1>6, <2>1, <2>9, <2>10, <2>12 DEF RegionsMean
  <2>14. Meant'
    BY <1>2, <2>1, <2>10, <2>12, <2>13 DEF Meant
  <2>15. Value(clip.ref)' = content
    BY <2>1, <2>10 DEF Value, ValueIn
  <2>16. Rendering!ClipToRegion
    BY <1>2, <1>6, <2>1, <2>9, <2>15 DEF Rendering!ClipToRegion, Rendering!PathShape, PathShape
  <2> QED
    BY <2>11, <2>14, <2>16 DEF Shows, Rendering!ClipStep
<1>7. ASSUME region' = [region EXCEPT !.indicator = 2, !.active = c.rid], UNCHANGED clip,
             doc' = Flush(doc)
      PROVE  Shows
  <2>1. region'.shapes = region.shapes /\ region'.cached = region.cached
    BY <1>2, <1>7 DEF RegionStates
  <2> QED
    BY <1>2, <1>3, <1>7, <2>1, NothingDefined DEF ClipAlone
<1>8. CASE c.on
  <2>1. ClipToRegion(c)
    BY <1>1, <1>8
  <2> QED
    BY <1>5, <1>6, <1>7, <2>1 DEF ClipToRegion
<1> QED
  BY <1>4, <1>8

\* A region that grows loses the id of the clip it was.
LEMMA RegionsShow ==
  /\ Inv /\ Meant /\ BeginProtectionRegion => Shows
  /\ Inv /\ Meant /\ EndProtectionRegion => Shows
<1>1. ASSUME Inv, Meant PROVE Flush(doc).defs = doc.defs /\ region \in RegionStates
  BY <1>1, HereNat, DefsKept, Counters
<1>2. ASSUME Inv, Meant, BeginProtectionRegion PROVE Shows
  <2>1. region'.shapes = region.shapes /\ region'.cached = region.cached
    BY <1>1, <1>2 DEF BeginProtectionRegion, RegionStates
  <2> QED
    BY <1>1, <1>2, <2>1, NothingDefined DEF BeginProtectionRegion, FlushesText, ClipAlone
<1>3. ASSUME Inv, Meant, EndProtectionRegion PROVE Shows
  <2>1. doc'.defs = doc.defs /\ UNCHANGED <<clip, fill, symbols>>
    BY <1>1, <1>3 DEF EndProtectionRegion, FlushesText
  <2>2. CASE ~(region.active >= 0 /\ region.paths # <<>>) \/ ~region.capturing
    <3>1. region'.shapes = region.shapes /\ region'.cached = region.cached
      BY <1>1, <1>3, <2>2 DEF EndProtectionRegion, RegionStates
    <3> QED
      BY <1>3, <2>1, <3>1, NothingDefined DEF ClipAlone
  <2>3. CASE region.capturing /\ region.active >= 0 /\ region.paths # <<>>
    <3> DEFINE r == region.active
               old == region.shapes[r]
               new == old \o region.paths
    <3>1. r \in Regions
      BY <1>1, <1>3, <2>3 DEF RegionStates
    <3>2. /\ region'.shapes = [region.shapes EXCEPT ![r] = new]
          /\ region'.cached = [region.cached EXCEPT ![r] = NoId]
          /\ region.shapes \in [Regions -> Paths] /\ region.cached \in [Regions -> Identifiers]
          /\ old \in Paths /\ region.paths \in Paths
      BY <1>1, <1>3, <2>3, <3>1 DEF EndProtectionRegion, RegionStates
    <3>3. Len(new) > Len(old) /\ SubSeq(new, 1, Len(old)) = old
      <4> DEFINE P == Seq(Nat)
      <4>1. old \in Seq(P) /\ region.paths \in Seq(P) /\ region.paths # <<>>
        BY <2>3, <3>2 DEF Paths
      <4> HIDE DEF P, old
      <4> QED
        BY <4>1
    <3>4. region'.shapes[r] = new
      BY <3>1, <3>2
    <3> HIDE DEF new, old, r
    <3>5. \A id : Definition(doc', id) = Definition(doc, id)
      BY <2>1, SameDefs
    <3>6. RegionsMean(doc', region'.shapes, region'.cached)
      BY <1>3, <3>1, <3>2, <3>5 DEF Meant, RegionsMean
    <3>7. Meant'
      BY <1>3, <2>1, <3>5, <3>6 DEF Meant, Sound, ClipsMean, PatternsMean
    <3>8. Value(clip.ref)' = Value(clip.ref)
      BY <2>1 DEF Value, Definition, DefinedIds
    <3>9. Rendering!GrowRegion
      BY <2>1, <3>1, <3>2, <3>3, <3>4, <3>8 DEF Rendering!GrowRegion, old
    <3> QED
      BY <2>1, <3>7, <3>9 DEF Shows, Rendering!ClipStep
  <2> QED
    BY <2>2, <2>3
<1> QED
  BY <1>2, <1>3

\* Ends and beginnings of pictures that keep the document.
LEMMA TurningShows ==
  /\ Inv /\ Meant /\ EndPicture => Shows
  /\ Inv /\ Meant /\ BeginPicture /\ ~(picture.index + 1 > 0) => Shows
<1>1. ASSUME Inv, Meant
      PROVE  Flush(doc).defs = doc.defs /\ region \in RegionStates /\ clip \in Clips
  BY <1>1, HereNat, DefsKept, Counters
<1>2. ASSUME Inv, Meant, EndPicture PROVE Shows
  <2>1. /\ clip'.made = clip.made /\ clip'.cached = clip.cached /\ clip'.rect = clip.rect
        /\ clip'.enabled = FALSE /\ clip'.ref = NoId
        /\ region'.shapes = [r \in Regions |-> <<>>] /\ region'.cached = [r \in Regions |-> NoId]
        /\ doc'.defs = doc.defs /\ UNCHANGED <<fill, symbols>>
    BY <1>1, <1>2 DEF EndPicture, FreshRegion, FlushesText, Clips
  <2>2. \A id : Definition(doc', id) = Definition(doc, id)
    BY <2>1, SameDefs
  <2>3. Meant'
    BY <1>2, <2>1, <2>2 DEF Meant, Sound, ClipsMean, PatternsMean, RegionsMean
  <2>4. Value(clip.ref)' = [none |-> TRUE]
    BY <2>1 DEF Value
  <2>5. Rendering!EndClipping
    BY <2>1, <2>4 DEF Rendering!EndClipping, Rendering!NoShape, Rendering!NoShapes
  <2> QED
    BY <2>1, <2>3, <2>5 DEF Shows, Rendering!ClipStep
<1>3. ASSUME Inv, Meant, BeginPicture, ~(picture.index + 1 > 0) PROVE Shows
  <2>1. doc' = Flush(doc) /\ ResetPictureState(clip.made, fill.made) /\ UNCHANGED symbols
    BY <1>3 DEF BeginPicture
  <2>2. /\ clip'.made = clip.made /\ clip'.cached = [r \in Rects |-> NoId]
        /\ clip'.rect = NoRect /\ clip'.enabled = FALSE /\ clip'.ref = NoId
        /\ region'.shapes = [r \in Regions |-> <<>>] /\ region'.cached = [r \in Regions |-> NoId]
        /\ fill'.made = fill.made /\ fill'.cached = [p \in Patterns |-> NoId]
    BY <2>1 DEF ResetPictureState, FreshClip, FreshRegion, FreshFill
  <2>3. doc'.defs = doc.defs
    BY <1>1, <1>3, <2>1
  <2>4. Meant'
    BY <1>3, <2>1, <2>2, <2>3 DEF Meant, Sound, ClipsMean, PatternsMean, RegionsMean
  <2>5. Value(clip.ref)' = [none |-> TRUE]
    BY <2>2 DEF Value
  <2>6. Rendering!Blank'
    BY <2>2, <2>5 DEF Rendering!Blank, Rendering!NoShape, Rendering!NoShapes, Rendering!NoRect, NoRect
  <2> QED
    BY <2>3, <2>4, <2>6 DEF Shows, Rendering!ClipStep
<1> QED
  BY <1>2, <1>3
-----------------------------------------------------------------------------
(* Every step.                                                             *)

\* A document that starts again defines nothing, and nothing is cached.
LEMMA FreshMeans ==
  /\ Inv /\ Meant /\ Convert => Meant'
  /\ Inv /\ Meant /\ BeginPicture /\ picture.index + 1 > 0 => Meant'
<1>1. ASSUME Meant, NEW open, doc' = FreshDoc(open), NEW k, NEW m, ResetPictureState(k, m),
             symbols'.emitted \subseteq symbols.emitted
      PROVE  Meant'
  <2>1. /\ clip'.cached = [r \in Rects |-> NoId] /\ region'.cached = [r \in Regions |-> NoId]
        /\ fill'.cached = [p \in Patterns |-> NoId] /\ doc'.defs = {}
    BY <1>1 DEF ResetPictureState, FreshClip, FreshRegion, FreshFill, FreshDoc
  <2>2. Sound(doc', clip'.made, fill'.made, symbols'.emitted)
    BY <1>1, <2>1 DEF Meant, Sound
  <2> QED
    BY <2>1, <2>2 DEF Meant, ClipsMean, RegionsMean, PatternsMean
<1>2. Inv /\ Meant /\ Convert => Meant'
  BY <1>1 DEF Convert
<1>3. ASSUME Inv, Meant, BeginPicture, picture.index + 1 > 0 PROVE Meant'
  <2>1. symbols'.emitted = {}
    <3>1. symbols \in SymbolStates
      BY <1>3 DEF Inv, SymbolsOK
    <3> QED
      BY <1>3, <3>1 DEF BeginPicture, SymbolStates
  <2> QED
    BY <1>1, <1>3, <2>1 DEF BeginPicture
<1> QED
  BY <1>2, <1>3

\* A document that starts again is a blank canvas.
LEMMA BlankClears == Blank => Rendering!Clear
<1> SUFFICES ASSUME Blank PROVE Rendering!Clear
  OBVIOUS
<1>1. /\ clip'.rect = NoRect /\ clip'.enabled = FALSE /\ clip'.ref = NoId
      /\ region'.shapes = [r \in Regions |-> <<>>] /\ Written(doc') = <<>>
  BY DEF Blank, FreshClip
<1>2. Value(clip.ref)' = [none |-> TRUE]
  BY <1>1 DEF Value
<1>3. DOMAIN doc'.marks = {}
  BY <1>1 DEF Written
<1>4. [i \in DOMAIN doc.marks |-> Seen(doc.marks[i])]' = <<>>
  BY <1>3
<1> QED
  BY <1>1, <1>2, <1>4 DEF Rendering!Clear, Rendering!Blank, Rendering!NoShape,
     Rendering!NoShapes, Rendering!NoRect, NoRect

LEMMA StepShows == Inv /\ Meant /\ Next => Meant' /\ (Shows \/ Rendering!Clear)
<1> SUFFICES ASSUME Inv, Meant, Next PROVE Meant' /\ (Shows \/ Rendering!Clear)
  OBVIOUS
<1>1. Shows => Meant'
  BY DEF Shows
<1>2. CASE Conversion
  BY <1>1, <1>2, PicturesShow, FreshMeans, ConvertEffect, BlankClears DEF Conversion
<1>3. CASE BeginPicture /\ picture.index + 1 > 0
  <2>1. Meant'
    BY <1>3, FreshMeans
  <2>2. Written(doc') = <<>>
    BY <1>3, NothingFresh DEF BeginPicture
  <2>3. /\ clip' = FreshClip(0) /\ region' = FreshRegion
    BY <1>3 DEF BeginPicture, ResetPictureState
  <2>4. /\ clip'.rect = NoRect /\ clip'.enabled = FALSE /\ clip'.ref = NoId
        /\ region'.shapes = [r \in Regions |-> <<>>]
    BY <2>3 DEF FreshClip, FreshRegion
  <2>5. Value(clip.ref)' = [none |-> TRUE]
    BY <2>4 DEF Value
  <2>6. DOMAIN doc'.marks = {}
    BY <2>2 DEF Written
  <2>7. [i \in DOMAIN doc.marks |-> Seen(doc.marks[i])]' = <<>>
    BY <2>6
  <2>8. Rendering!Clear
    BY <2>4, <2>5, <2>7 DEF Rendering!Clear, Rendering!Blank, Rendering!NoShape,
       Rendering!NoShapes, Rendering!NoRect, NoRect
  <2> QED
    BY <2>1, <2>8
<1>4. CASE Pictures /\ ~(BeginPicture /\ picture.index + 1 > 0)
  BY <1>1, <1>4, PicturesShow, TurningShows DEF Pictures
<1>5. CASE Clipping
  BY <1>1, <1>5, RectangleShows, RegionIndicatorShows, RegionsShow DEF Clipping
<1>6. CASE Drawing
  BY <1>1, <1>6, PlainDrawingShows, FilledDrawingShows DEF Drawing
<1>7. CASE Filling
  BY <1>1, <1>7, AttributesShow
<1>8. CASE Texting
  BY <1>1, <1>8, TextShows DEF Texting
<1>9. CASE Structuring
  BY <1>1, <1>9, StructuresShow DEF Structuring
<1>10. CASE Symbolising
  BY <1>1, <1>10, PicturesShow, PolySymbolShows DEF Symbolising
<1> QED
  BY <1>2, <1>3, <1>4, <1>5, <1>6, <1>7, <1>8, <1>9, <1>10 DEF Next

LEMMA InitMeans == Init => Meant
<1> SUFFICES ASSUME Init PROVE Meant
  OBVIOUS
<1>1. /\ clip.cached = [r \in Rects |-> NoId] /\ region.cached = [r \in Regions |-> NoId]
      /\ fill.cached = [p \in Patterns |-> NoId] /\ doc.defs = {} /\ symbols.emitted = {}
  BY DEF Init, FreshClip, FreshRegion, FreshFill, FreshDoc, NoSymbols
<1> QED
  BY <1>1 DEF Meant, Sound, ClipsMean, RegionsMean, PatternsMean

LEMMA AlwaysMeant == Spec => []Meant
<1>1. Inv /\ Meant /\ [Next]_vars => Meant'
  <2>1. ASSUME Meant, UNCHANGED vars PROVE Meant'
    BY <2>1 DEF vars, Meant, Sound, ClipsMean, RegionsMean, PatternsMean
  <2> QED
    BY <2>1, StepShows
<1> QED
  BY <1>1, InitMeans, Invariant, PTL DEF Spec

\* A pattern that needs no new definition is defined as the table, the size
\* and the reference point in force say (ensurePatternFill).
THEOREM PatternsStayCurrent == Spec => []PatternsCurrent
<1>1. Meant => PatternsCurrent
  BY DEF Meant, PatternsMean, PatternsCurrent
<1> QED
  BY <1>1, AlwaysMeant, PTL
-----------------------------------------------------------------------------
(* What is painted.                                                        *)

\* The pattern in force, and what a filled element is painted with.
Pattern == IF Tiled THEN PatternValue(fill, fill.index) ELSE [none |-> TRUE]

LEMMA FilledValue ==
  ASSUME Inv, Inv', Meant', fill' = EnsuredFill
  PROVE  ValueIn(doc', FillId) = Pattern
<1>1. fill \in Fills /\ fill.index \in Patterns /\ fill.cached \in [Patterns -> Identifiers]
  BY Counters DEF Fills
<1>2. CASE ~Tiled
  BY <1>2 DEF FillId, ValueIn, Pattern
<1>3. CASE Tiled
  <2>1. /\ fill'.cached[fill.index] = FillId /\ FillId # NoId
        /\ fill'.tables = fill.tables /\ fill'.sizes = fill.sizes
        /\ fill'.reference = fill.reference
    <3>1. CASE Defined
      BY <1>3, <3>1 DEF EnsuredFill, FillId, Defined
    <3>2. CASE ~Defined
      <4>1. FillId = PatternId(fill.made + 1) /\ FillId # NoId
        BY <1>3, <3>2 DEF FillId, PatternId, NoId
      <4>2. fill' = [fill EXCEPT !.made = fill.made + 1,
                                 !.cached = [fill.cached EXCEPT ![fill.index] = FillId]]
        BY <1>3, <3>2 DEF EnsuredFill
      <4> QED
        BY <1>1, <4>1, <4>2 DEF Fills
    <3> QED
      BY <3>1, <3>2
  <2>2. FillId \in DefinedIds(doc')
    <3>1. \A p \in Patterns : Resolves(doc', fill'.cached[p])
      BY DEF Inv, FillOK
    <3> QED
      BY <1>1, <2>1, <3>1 DEF Resolves
  <2>3. Definition(doc', FillId) = PatternValue(fill', fill.index)
    BY <1>1, <2>1 DEF Meant, PatternsMean
  <2> QED
    BY <1>1, <1>3, <2>1, <2>2, <2>3, OtherId DEF ValueIn, Pattern
<1> QED
  BY <1>2, <1>3

\* The canvas of a document.
Canvas(d) ==
  [i \in 1 .. Len(d.marks) |->
     [of |-> d.marks[i].of, clip |-> ValueIn(d, d.marks[i].clip),
      fill |-> ValueIn(d, d.marks[i].fill)]]

\* Marks written behind those there are, that refer to what is in force.
Painted(d, m) ==
  m.clip \in {NoId, clip.ref} /\ ValueIn(d, m.fill) \in {[none |-> TRUE], Pattern}

LEMMA PaintedOn ==
  ASSUME Inv, Inv', Meant', doc.defs \subseteq doc'.defs, NEW ms \in Seq(Marks),
         Written(doc') = Written(doc) \o ms, \A i \in DOMAIN ms : Painted(doc', ms[i])
  PROVE  Rendering!Paints
<1> DEFINE n == Len(doc.marks)
           k == Len(doc'.marks)
<1>1. /\ doc \in Documents /\ doc' \in Documents /\ MarksResolve(doc)
      /\ n \in Nat /\ k \in Nat /\ DOMAIN doc.marks = 1 .. n /\ DOMAIN doc'.marks = 1 .. k
      /\ \A i \in 1 .. n : doc.marks[i] \in Marks
      /\ \A i \in 1 .. k : doc'.marks[i] \in Marks
  BY DocumentFields DEF Inv, DocOK
<1>2. /\ [i \in DOMAIN doc.marks |-> Seen(doc.marks[i])] = Canvas(doc)
      /\ [i \in DOMAIN doc.marks |-> Seen(doc.marks[i])]' = Canvas(doc')
  BY <1>1 DEF Seen, Value, ValueIn, Canvas
<1>3. /\ Written(doc) \in Seq(Marks) /\ Len(Written(doc)) = n
      /\ Written(doc') \in Seq(Marks) /\ Len(Written(doc')) = k
      /\ \A i \in 1 .. n : Written(doc)[i] = Bare(doc.marks[i])
      /\ \A i \in 1 .. k : Written(doc')[i] = Bare(doc'.marks[i])
  BY <1>1, WrittenType DEF Written
<1>4. \A m \in Marks : Bare(m).of = m.of /\ Bare(m).clip = m.clip /\ Bare(m).fill = m.fill
  BY DEF Bare, Marks
<1> HIDE DEF n, k
<1>5. /\ k >= n /\ k = n + Len(ms) /\ Len(ms) \in Nat
      /\ \A i \in 1 .. n : Written(doc')[i] = Written(doc)[i]
      /\ \A i \in 1 .. Len(ms) : Written(doc')[n + i] = ms[i]
  BY <1>1, <1>3, MarksBehindMarks
<1>6. \A id : Resolves(doc, id) => ValueIn(doc', id) = ValueIn(doc, id)
  BY StillValue DEF Meant
<1>7. \A i \in 1 .. n : Canvas(doc')[i] = Canvas(doc)[i]
  <2> SUFFICES ASSUME NEW i \in 1 .. n PROVE Canvas(doc')[i] = Canvas(doc)[i]
    OBVIOUS
  <2>1. i \in 1 .. k
    BY <1>1, <1>5
  <2>2. /\ doc'.marks[i].of = doc.marks[i].of /\ doc'.marks[i].clip = doc.marks[i].clip
        /\ doc'.marks[i].fill = doc.marks[i].fill
    <3>1. Bare(doc'.marks[i]) = Bare(doc.marks[i])
      BY <1>3, <1>5, <2>1
    <3>2. doc'.marks[i] \in Marks /\ doc.marks[i] \in Marks
      BY <1>1, <2>1 DEF n, k
    <3> QED
      BY <1>4, <3>1, <3>2
  <2>3. Resolves(doc, doc.marks[i].clip) /\ Resolves(doc, doc.marks[i].fill)
    BY <1>1 DEF MarksResolve
  <2> QED
    BY <1>1, <1>6, <2>1, <2>2, <2>3 DEF Canvas, n, k
<1>8. \A i \in n + 1 .. k : /\ Canvas(doc')[i].clip \in {[none |-> TRUE], Value(clip.ref)}
                           /\ Canvas(doc')[i].fill \in {[none |-> TRUE], Pattern}
  <2> SUFFICES ASSUME NEW i \in n + 1 .. k
               PROVE  /\ Canvas(doc')[i].clip \in {[none |-> TRUE], Value(clip.ref)}
                      /\ Canvas(doc')[i].fill \in {[none |-> TRUE], Pattern}
    OBVIOUS
  <2>1. i \in 1 .. k /\ \E j \in 1 .. Len(ms) : i = n + j
    <3>1. n \in Nat /\ k \in Nat
      BY <1>1 DEF n, k
    <3>2. i \in 1 .. k /\ i - n \in 1 .. Len(ms) /\ i = n + (i - n)
      BY <1>5, <3>1
    <3> QED
      BY <3>2
  <2>2. PICK j \in 1 .. Len(ms) : i = n + j
    BY <2>1
  <2>3. Painted(doc', doc'.marks[i])
    <3>1. Written(doc')[i] = ms[j]
      BY <1>5, <2>2
    <3>2. DOMAIN ms = 1 .. Len(ms)
      OBVIOUS
    <3>3. Painted(doc', ms[j])
      BY <3>2
    <3>4. Written(doc')[i] = Bare(doc'.marks[i])
      BY <1>3, <2>1
    <3>5. Bare(doc'.marks[i]) = ms[j]
      BY <3>1, <3>4
    <3>6. doc'.marks[i] \in Marks
      BY <1>1, <2>1 DEF k
    <3>7. doc'.marks[i].clip = ms[j].clip /\ doc'.marks[i].fill = ms[j].fill
      BY <1>4, <3>5, <3>6
    <3> QED
      BY <3>3, <3>7 DEF Painted
  <2>4. /\ Canvas(doc')[i].clip = ValueIn(doc', doc'.marks[i].clip)
        /\ Canvas(doc')[i].fill = ValueIn(doc', doc'.marks[i].fill)
    BY <2>1 DEF Canvas, k
  <2>5. ValueIn(doc', NoId) = [none |-> TRUE]
    BY DEF ValueIn
  <2>6. ValueIn(doc', clip.ref) = Value(clip.ref)
    BY ShapeStays, ValueIsIn
  <2> QED
    BY <2>3, <2>4, <2>5, <2>6 DEF Painted
<1>9. Len(Canvas(doc)) = n /\ Len(Canvas(doc')) = k
  BY <1>1 DEF Canvas, n, k
<1>10. SubSeq(Canvas(doc'), 1, n) = Canvas(doc)
  <2>1. SubSeq(Canvas(doc'), 1, n) = [i \in 1 .. n |-> Canvas(doc')[i]]
    BY <1>1, <1>5, <1>9
  <2>2. Canvas(doc) = [i \in 1 .. n |-> Canvas(doc)[i]]
    BY DEF Canvas, n
  <2> QED
    BY <1>7, <2>1, <2>2
<1> QED
  BY <1>2, <1>5, <1>8, <1>9, <1>10 DEF Rendering!Paints, Rendering!NoShape, Pattern
\* The step from one canvas to the next.
LEMMA FlowPaints ==
  ASSUME Inv, Inv', Meant', doc.defs \subseteq doc'.defs, Here \in Nat,
         Flow \/ EndOfFile
  PROVE  Rendering!Paints \/ Rendering!Clear
<1> DEFINE ts == TextMarks(text.pending)
           ws == Written(doc)
<1>1. /\ ts \in Seq(Marks) /\ \A i \in DOMAIN ts : ts[i].clip = NoId /\ ts[i].fill = NoId
  <2>1. text.pending \in Seq([at : Nat, colour : Nat])
    BY DEF Inv, Texts
  <2> QED
    BY <2>1, TextMarksType
<1>2. Flushed = ws \o ts /\ ws \in Seq(Marks)
  BY WrittenType DEF Flushed, Inv, DocOK
<1>3. ValueIn(doc', NoId) = [none |-> TRUE]
  BY DEF ValueIn
<1> HIDE DEF ts, ws
<1>4. Written(doc') = ws => Rendering!Paints
  <2>1. <<>> \in Seq(Marks) /\ ws = ws \o <<>> /\ DOMAIN <<>> = {}
    BY <1>2
  <2> QED
    BY <2>1, PaintedOn DEF ws
<1>5. Written(doc') = Flushed => Rendering!Paints
  <2>1. \A i \in DOMAIN ts : Painted(doc', ts[i])
    BY <1>1, <1>3 DEF Painted
  <2> QED
    BY <1>1, <1>2, <2>1, PaintedOn DEF ws
<1>6. ASSUME NEW m \in Marks, Painted(doc', m), Written(doc') = Flushed \o <<m>>
      PROVE  Rendering!Paints
  <2> DEFINE ms == ts \o <<m>>
  <2>1. ms \in Seq(Marks) /\ (ws \o ts) \o <<m>> = ws \o ms
    BY <1>1, <1>2
  <2>2. \A i \in DOMAIN ms : (i \in DOMAIN ts /\ ms[i] = ts[i]) \/ ms[i] = m
    <3>1. <<m>> \in Seq(Marks) /\ DOMAIN <<m>> = {1} /\ <<m>>[1] = m
      OBVIOUS
    <3>2. /\ \A i \in DOMAIN ts : i \in DOMAIN (ts \o <<m>>) /\ (ts \o <<m>>)[i] = ts[i]
          /\ \A j \in DOMAIN <<m>> : (ts \o <<m>>)[Len(ts) + j] = <<m>>[j]
          /\ \A i \in DOMAIN (ts \o <<m>>) :
               i \in DOMAIN ts \/ \E j \in DOMAIN <<m>> : i = Len(ts) + j
      BY <1>1, <3>1, ConcatSplit
    <3> QED
      BY <3>1, <3>2
  <2>3. \A i \in DOMAIN ms : Painted(doc', ms[i])
    BY <1>1, <1>3, <1>6, <2>2 DEF Painted
  <2>4. Written(doc') = ws \o ms
    BY <1>2, <1>6, <2>1
  <2> HIDE DEF ms
  <2> QED
    BY <2>1, <2>3, <2>4, PaintedOn DEF ws
<1>7. CASE EndOfFile
  BY <1>5, <1>7, EndOfFileEffect DEF Flushes
<1>8. CASE Flow
  <2>1. PICK c \in Alphabet : Moves(c)
    BY <1>8 DEF Flow
  <2>2. CASE Keeps(c) \/ Joins(c)
    BY <1>4, <2>2 DEF Keeps, Joins, ws
  <2>3. CASE Forgets(c) \/ Starts(c) \/ Collects(c) \/ Captures(c) \/ Encloses(c) \/ Closes(c)
    BY <1>5, <2>3 DEF Forgets, Starts, Collects, Captures, Encloses, Closes, Flushes
  <2>4. CASE TurnsPage(c)
    BY <2>4, BlankClears DEF TurnsPage
  <2>5. CASE Draws(c)
    <3>1. PICK m \in Marks :
            /\ Written(doc') = Flushed \o <<m>>
            /\ m.clip \in {NoId, clip.ref}
            /\ m.fill = NoId \/ (m.fill = FillId /\ fill' = EnsuredFill)
      BY <2>5 DEF Draws
    <3>2. Painted(doc', m)
      BY <1>3, <3>1, FilledValue DEF Painted
    <3> QED
      BY <1>6, <3>1, <3>2
  <2>6. CASE DrawsFigure(c)
    <3>1. PICK m \in Marks :
            Written(doc') = Flushed \o <<m>> /\ m.clip = clip.ref /\ m.fill = FillId
      BY <2>6 DEF DrawsFigure
    <3>2. Painted(doc', m)
      BY <2>6, <3>1, FilledValue DEF Painted, DrawsFigure
    <3> QED
      BY <1>6, <3>1, <3>2
  <2> QED
    BY <2>1, <2>2, <2>3, <2>4, <2>5, <2>6 DEF Moves
<1> QED
  BY <1>7, <1>8

LEMMA RenderingStep ==
  Inv /\ Inv' /\ Captured /\ Meant /\ [Next]_vars => [Rendering!Next]_(Rendering!surface)
<1> SUFFICES ASSUME Inv, Inv', Captured, Meant, [Next]_vars
             PROVE  Rendering!Next \/ UNCHANGED Rendering!surface
  OBVIOUS
<1>1. CASE UNCHANGED vars
  BY <1>1 DEF vars, Rendering!surface, Value, DefinedIds, Definition, Tiled, PatternValue, Seen
<1>2. CASE Next
  <2>1. Convert \/ EndOfFile \/ Flow
    BY <1>2, EveryStep
  <2>2. Meant' /\ (Shows \/ Rendering!Clear)
    BY <1>2, StepShows
  <2>3. CASE Convert
    BY <2>3, ConvertEffect, BlankClears DEF Rendering!Next
  <2>4. CASE Shows /\ (Flow \/ EndOfFile)
    <3>1. Rendering!Paints \/ Rendering!Clear
      BY <2>2, <2>4, HereNat, FlowPaints DEF Shows
    <3> QED
      BY <2>4, <3>1 DEF Shows, Rendering!Next
  <2> QED
    BY <2>1, <2>2, <2>3, <2>4 DEF Rendering!Next
<1> QED
  BY <1>1, <1>2

LEMMA RenderingInit == Init => Rendering!Init
<1> SUFFICES ASSUME Init PROVE Rendering!Init
  OBVIOUS
<1>1. /\ clip.rect = NoRect /\ clip.enabled = FALSE /\ clip.ref = NoId
      /\ region.shapes = [r \in Regions |-> <<>>] /\ doc.marks = <<>>
  BY DEF Init, FreshClip, FreshRegion, FreshDoc
<1>2. Value(clip.ref) = [none |-> TRUE]
  BY <1>1 DEF Value
<1>3. [i \in DOMAIN doc.marks |-> Seen(doc.marks[i])] = <<>>
  BY <1>1
<1> QED
  BY <1>1, <1>2, <1>3 DEF Rendering!Init, Rendering!Blank, Rendering!NoShapes, Rendering!NoRect,
     Rendering!NoShape, NoRect

\* Definitions, ids and caches are an implementation detail: every element
\* is seen with the clip shape and the pattern the commands had put in force
\* when it was drawn, and later commands do not change what is seen.
THEOREM RenderingImplemented == Spec => ImplementsRendering
<1>1. Init => Captured
  BY DEF Init, FreshRegion, Captured
<1>2. Spec => []Captured
  BY <1>1, CapturedStep, Invariant, PTL DEF Spec
<1> QED
  BY <1>2, RenderingInit, RenderingStep, AlwaysMeant, Invariant, PTL
     DEF Spec, ImplementsRendering, Rendering!Spec
-----------------------------------------------------------------------------
(* Where shapes are written. An open <defs> is the innermost element, the  *)
(* converter knows of it, and text is not pending while it is open.        *)

NoDefs(d) == \A i \in DOMAIN d.tags : d.tags[i] # "defs"

DefsLast(d) ==
  \A i \in DOMAIN d.tags : d.tags[i] = "defs" => d.defsOpen /\ i = Len(d.tags)

Clean(d) == d \in Documents /\ NoDefs(d) /\ ~d.defsOpen
Tidy(d) == d \in Documents /\ DefsLast(d)

\* The marks that may be written inside <defs>.
Exempt == {"POLYSYMBOL", "BEGIN PICTURE BODY"}

Excused(m, f) == m.of # <<>> /\ m.of[1] \in DOMAIN f /\ f[m.of[1]].op \in Exempt

\* A mark outside <defs> that places no symbol.
Plain(m) == Rendered(m) /\ m.href = NoId

InView(d, f) == \A i \in DOMAIN d.marks : Plain(d.marks[i]) \/ Excused(d.marks[i], f)

Unlinked(ms) == \A i \in DOMAIN ms : ms[i].href = NoId

\* The marks e has more than d are plain.
Shapes(e, d) ==
  \A i \in DOMAIN e.marks :
    Plain(e.marks[i]) \/ \E j \in DOMAIN d.marks : e.marks[i] = d.marks[j]

ShapesOK ==
  /\ DefsLast(doc) /\ InView(doc, file)
  /\ text.pending # <<>> => ~doc.defsOpen

LEMMA ShapesSame ==
  ASSUME NEW d, NEW e, e.marks = d.marks
  PROVE  Shapes(e, d)
BY DEF Shapes

LEMMA ShapesTransitive ==
  ASSUME NEW d, NEW e, NEW f, Shapes(f, e), Shapes(e, d)
  PROVE  Shapes(f, d)
BY DEF Shapes

LEMMA CleanIsTidy == \A d : Clean(d) => Tidy(d) /\ NoDefs(d)
BY DEF Clean, Tidy, NoDefs, DefsLast

\* Start and end tags of other elements.
LEMMA TagsKeepOrder ==
  ASSUME NEW d \in Documents, NEW tag \in {"g", "a", "svg"}
  PROVE  /\ Clean(d) => Clean(Open(d, tag)) /\ Shapes(Open(d, tag), d)
         /\ Clean(d) => Clean(Close(d, tag))
         /\ Tidy(d) => Tidy(Close(d, tag)) /\ Shapes(Close(d, tag), d)
<1>1. tag \in Tags /\ tag # "defs"
  BY DEF Tags
<1>2. /\ d.tags \in Seq(Tags) /\ Len(d.tags) \in Nat /\ DOMAIN d.tags = 1 .. Len(d.tags)
      /\ Open(d, tag) \in Documents /\ Close(d, tag) \in Documents
      /\ Open(d, tag).marks = d.marks /\ Close(d, tag).marks = d.marks
  BY <1>1, DocumentFields, OpenType, CloseType
<1>3. Clean(d) => Clean(Open(d, tag))
  <2>1. Open(d, tag).tags = Append(d.tags, tag) /\ Open(d, tag).defsOpen = d.defsOpen
    BY DEF Open, Documents
  <2>2. /\ DOMAIN Append(d.tags, tag) = 1 .. Len(d.tags) + 1
        /\ \A i \in 1 .. Len(d.tags) : Append(d.tags, tag)[i] = d.tags[i]
        /\ Append(d.tags, tag)[Len(d.tags) + 1] = tag
    BY <1>2, AppendProperties
  <2> QED
    BY <1>1, <1>2, <2>1, <2>2 DEF Clean, NoDefs
<1>4. ASSUME Tidy(d) PROVE Tidy(Close(d, tag)) /\ (Clean(d) => Clean(Close(d, tag)))
  <2>1. Close(d, tag).defsOpen = d.defsOpen
    BY DEF Close, Documents
  <2>2. CASE d.tags # <<>> /\ d.tags[Len(d.tags)] = tag
    <3>1. Close(d, tag).tags = SubSeq(d.tags, 1, Len(d.tags) - 1)
      BY <2>2 DEF Close, Documents
    <3>2. NoDefs(Close(d, tag))
      <4>1. Len(d.tags) >= 1
        BY <1>2, <2>2
      <4>2. /\ DOMAIN SubSeq(d.tags, 1, Len(d.tags) - 1) = 1 .. Len(d.tags) - 1
            /\ \A i \in 1 .. Len(d.tags) - 1 :
                 SubSeq(d.tags, 1, Len(d.tags) - 1)[i] = d.tags[i]
        BY <1>2, <4>1
      <4>3. \A i \in 1 .. Len(d.tags) - 1 : i \in DOMAIN d.tags /\ i # Len(d.tags)
        BY <1>2
      <4> QED
        BY <1>4, <3>1, <4>2, <4>3 DEF Tidy, DefsLast, NoDefs
    <3> QED
      BY <1>2, <2>1, <3>2 DEF Tidy, Clean, NoDefs, DefsLast
  <2>3. CASE ~(d.tags # <<>> /\ d.tags[Len(d.tags)] = tag)
    <3>1. Close(d, tag).tags = d.tags
      BY <2>3 DEF Close, Documents
    <3> QED
      BY <1>2, <1>4, <2>1, <3>1 DEF Tidy, Clean, NoDefs, DefsLast
  <2> QED
    BY <2>2, <2>3
<1> QED
  BY <1>2, <1>3, <1>4, ShapesSame, CleanIsTidy

\* closeOpenDefs leaves nothing open but groups.
LEMMA CloseOpenDefsCleans ==
  ASSUME NEW d, Tidy(d)
  PROVE  Clean(CloseOpenDefs(d)) /\ Shapes(CloseOpenDefs(d), d)
<1>1. d \in Documents /\ DefsLast(d)
  BY DEF Tidy
<1>2. /\ CloseOpenDefs(d) \in Documents /\ CloseOpenDefs(d).marks = d.marks
      /\ d.tags \in Seq(Tags) /\ Len(d.tags) \in Nat /\ DOMAIN d.tags = 1 .. Len(d.tags)
  BY <1>1, CloseOpenDefsType, DocumentFields
<1>3. CASE ~d.defsOpen
  BY <1>1, <1>2, <1>3, ShapesSame DEF CloseOpenDefs, Clean, NoDefs, DefsLast
<1>4. CASE d.defsOpen
  <2>1. ~CloseOpenDefs(d).defsOpen /\ CloseOpenDefs(d).tags = Close(d, "defs").tags
    <3>1. Close(d, "defs") \in Documents
      BY <1>1, CloseType DEF Tags
    <3> QED
      BY <1>4, <3>1 DEF CloseOpenDefs, Documents
  <2>2. CASE d.tags # <<>> /\ d.tags[Len(d.tags)] = "defs"
    <3>1. Close(d, "defs").tags = SubSeq(d.tags, 1, Len(d.tags) - 1)
      BY <1>1, <2>2 DEF Close, Documents
    <3>2. Len(d.tags) >= 1
      BY <1>2, <2>2
    <3>3. /\ DOMAIN SubSeq(d.tags, 1, Len(d.tags) - 1) = 1 .. Len(d.tags) - 1
          /\ \A i \in 1 .. Len(d.tags) - 1 :
               SubSeq(d.tags, 1, Len(d.tags) - 1)[i] = d.tags[i]
      BY <1>2, <3>2
    <3>4. \A i \in 1 .. Len(d.tags) - 1 : i \in DOMAIN d.tags /\ i # Len(d.tags)
      BY <1>2
    <3> QED
      BY <1>1, <1>2, <2>1, <3>1, <3>3, <3>4, ShapesSame DEF Clean, NoDefs, DefsLast
  <2>3. CASE ~(d.tags # <<>> /\ d.tags[Len(d.tags)] = "defs")
    <3>1. Close(d, "defs").tags = d.tags
      BY <1>1, <2>3 DEF Close, Documents
    <3>2. NoDefs(d)
      BY <1>1, <1>2, <2>3 DEF DefsLast, NoDefs
    <3> QED
      BY <1>2, <2>1, <3>1, <3>2, ShapesSame DEF Clean, NoDefs
  <2> QED
    BY <2>2, <2>3
<1> QED
  BY <1>3, <1>4

\* A definition leaves <defs> open and last.
LEMMA DefineTidies ==
  ASSUME NEW d, Tidy(d), NEW id \in Identifiers, NEW content \in Contents
  PROVE  Tidy(Define(d, id, content)) /\ Shapes(Define(d, id, content), d)
<1>1. d \in Documents /\ DefsLast(d)
  BY DEF Tidy
<1>2. Define(d, id, content) \in Documents /\ Define(d, id, content).marks = d.marks
  BY <1>1, DefineType
<1>3. /\ OpenDefs(d) \in Documents
      /\ d.tags \in Seq(Tags) /\ Len(d.tags) \in Nat /\ DOMAIN d.tags = 1 .. Len(d.tags)
  BY <1>1, OpenDefsType, DocumentFields
<1>4. /\ Define(d, id, content).tags = OpenDefs(d).tags
      /\ Define(d, id, content).defsOpen = OpenDefs(d).defsOpen
  BY <1>3 DEF Define, WriteId, Documents
<1>5. DefsLast(OpenDefs(d))
  <2>1. CASE d.defsOpen
    BY <1>1, <2>1 DEF OpenDefs
  <2>2. CASE ~d.defsOpen
    <3>1. Open(d, "defs").tags = Append(d.tags, "defs") /\ Open(d, "defs") \in Documents
      BY <1>1, OpenType DEF Open, Documents, Tags
    <3>2. OpenDefs(d).tags = Append(d.tags, "defs") /\ OpenDefs(d).defsOpen
      BY <2>2, <3>1 DEF OpenDefs, Documents
    <3>3. /\ DOMAIN Append(d.tags, "defs") = 1 .. Len(d.tags) + 1
          /\ Len(Append(d.tags, "defs")) = Len(d.tags) + 1
          /\ \A i \in 1 .. Len(d.tags) : Append(d.tags, "defs")[i] = d.tags[i]
      <4>1. "defs" \in Tags
        BY DEF Tags
      <4> QED
        BY <1>3, <4>1, AppendProperties
    <3>4. \A i \in 1 .. Len(d.tags) : d.tags[i] # "defs"
      BY <1>1, <1>3, <2>2 DEF DefsLast
    <3> QED
      BY <1>3, <3>2, <3>3, <3>4 DEF DefsLast
  <2> QED
    BY <2>1, <2>2
<1> QED
  BY <1>2, <1>4, <1>5, ShapesSame DEF Tidy, DefsLast

\* What is drawn outside <defs> is rendered.
LEMMA DrawInView ==
  ASSUME NEW d \in Documents, NEW ms \in Seq(Marks)
  PROVE  /\ Draw(d, ms) \in Documents
         /\ Draw(d, ms).tags = d.tags /\ Draw(d, ms).defsOpen = d.defsOpen
         /\ (NoDefs(d) /\ Unlinked(ms)) \/ ms = <<>> => Shapes(Draw(d, ms), d)
         /\ \A f : InView(d, f) /\ (\A i \in DOMAIN ms : Excused(ms[i], f)) => InView(Draw(d, ms), f)
<1> DEFINE e == Draw(d, ms)
           here(m) == [m EXCEPT !.inside = d.tags]
<1>1. /\ e \in Documents
      /\ Len(e.marks) = Len(d.marks) + Len(ms)
      /\ \A i \in DOMAIN d.marks : e.marks[i] = d.marks[i]
      /\ \A i \in DOMAIN ms : e.marks[Len(d.marks) + i] = here(ms[i])
  BY DrawType
<1>2. e.tags = d.tags /\ e.defsOpen = d.defsOpen
  BY DEF Draw, Documents
<1> HIDE DEF e
<1>3. /\ Len(d.marks) \in Nat /\ Len(ms) \in Nat /\ Len(e.marks) \in Nat
      /\ DOMAIN d.marks = 1 .. Len(d.marks) /\ DOMAIN ms = 1 .. Len(ms)
      /\ DOMAIN e.marks = 1 .. Len(e.marks) /\ \A i \in DOMAIN ms : ms[i] \in Marks
  BY <1>1, DocumentFields
<1>4. ASSUME NEW i \in DOMAIN e.marks
      PROVE  \/ i \in DOMAIN d.marks /\ e.marks[i] = d.marks[i]
             \/ \E j \in DOMAIN ms : e.marks[i] = here(ms[j])
  <2>1. CASE i \in 1 .. Len(d.marks)
    BY <1>1, <1>3, <2>1
  <2>2. CASE i \notin 1 .. Len(d.marks)
    <3>1. i - Len(d.marks) \in 1 .. Len(ms) /\ i = Len(d.marks) + (i - Len(d.marks))
      BY <1>1, <1>3, <2>2
    <3>2. PICK j \in 1 .. Len(ms) : i = Len(d.marks) + j
      BY <3>1
    <3> QED
      BY <1>1, <1>3, <3>2
  <2> QED
    BY <2>1, <2>2
<1>5. ASSUME NEW m \in Marks
      PROVE  here(m).of = m.of /\ (NoDefs(d) /\ m.href = NoId => Plain(here(m)))
  BY DEF Marks, NoDefs, Rendered, Plain
<1> HIDE DEF here
<1>6. NoDefs(d) /\ Unlinked(ms) => Shapes(e, d)
  BY <1>3, <1>4, <1>5 DEF Shapes, Unlinked
<1>7. ms = <<>> => Shapes(e, d)
  BY <1>3, <1>4 DEF Shapes
<1>8. \A f : InView(d, f) /\ (\A i \in DOMAIN ms : Excused(ms[i], f)) => InView(e, f)
  BY <1>3, <1>4, <1>5 DEF InView, Excused
<1> QED
  BY <1>1, <1>2, <1>6, <1>7, <1>8 DEF e

\* What is in view stays in view.
LEMMA StaysInView ==
  ASSUME NEW d, NEW e, NEW f, InView(d, f), Shapes(e, d)
  PROVE  InView(e, f)
BY DEF InView, Shapes

LEMMA OldInView ==
  ASSUME Inv, ShapesOK, NEW c \in Alphabet, Reads(c)
  PROVE  InView(doc, file')
<1>1. /\ DOMAIN file = 1 .. Len(file) /\ DOMAIN file' = 1 .. Len(file')
      /\ Len(file) \in Nat /\ Len(file') \in Nat /\ Len(file) <= Len(file')
      /\ \A k \in 1 .. Len(file) : file'[k] = file[k]
  <2>1. ControlOK /\ file \in Seq(Alphabet)
    BY DEF Inv, ControlOK
  <2>2. file' \in Seq(Alphabet)
    BY <2>1 DEF Reads
  <2> QED
    BY <2>1, <2>2, ReadsFile
<1>2. \A m : Excused(m, file) => Excused(m, file')
  BY <1>1 DEF Excused
<1> QED
  BY <1>2 DEF ShapesOK, InView

\* What handlers start from.
LEMMA TextUnlinked == \A segments : Unlinked(TextMarks(segments))
BY DEF Unlinked, TextMarks, Mark

LEMMA OneUnlinked ==
  \A at, of, ref, paint, colour : Unlinked(<<Mark(at, of, ref, paint, NoId, colour)>>)
BY DEF Unlinked, Mark

LEMMA StartsTidy ==
  ASSUME Inv, ShapesOK, Here \in Nat
  PROVE  /\ Tidy(doc) /\ Shapes(doc, doc)
         /\ Tidy(Flush(doc)) /\ Shapes(Flush(doc), doc)
         /\ Clean(PrimitiveDoc) /\ Shapes(PrimitiveDoc, doc)
         /\ Clean(CloseOpenDefs(doc)) /\ Shapes(CloseOpenDefs(doc), doc)
         /\ Clean(Flush(CloseOpenDefs(doc))) /\ Shapes(Flush(CloseOpenDefs(doc)), doc)
         /\ NoPending.pending = <<>>
<1>1. /\ doc \in Documents /\ text \in Texts /\ Tidy(doc)
      /\ text.pending \in Seq([at : Nat, colour : Nat])
  BY DEF Inv, DocOK, ShapesOK, Tidy, Texts
<1>2. TextMarks(text.pending) \in Seq(Marks) /\ Unlinked(TextMarks(text.pending))
  BY <1>1, TextMarksType, TextUnlinked
<1>3. ASSUME NEW d, Tidy(d), NoDefs(d) \/ text.pending = <<>>
      PROVE  Tidy(Flush(d)) /\ Shapes(Flush(d), d) /\ (Clean(d) => Clean(Flush(d)))
  <2>1. text.pending = <<>> => TextMarks(text.pending) = <<>>
    BY DEF TextMarks
  <2> QED
    BY <1>2, <1>3, <2>1, DrawInView DEF Flush, Tidy, Clean, NoDefs, DefsLast
<1>4. NoDefs(doc) \/ text.pending = <<>>
  BY DEF ShapesOK, DefsLast, NoDefs
<1>5. Tidy(Flush(doc)) /\ Shapes(Flush(doc), doc)
  BY <1>1, <1>3, <1>4
<1>6. Clean(PrimitiveDoc) /\ Shapes(PrimitiveDoc, doc)
  BY <1>5, CloseOpenDefsCleans, ShapesTransitive DEF PrimitiveDoc
<1>7. Clean(CloseOpenDefs(doc)) /\ Shapes(CloseOpenDefs(doc), doc)
  BY <1>1, CloseOpenDefsCleans
<1>8. Clean(Flush(CloseOpenDefs(doc))) /\ Shapes(Flush(CloseOpenDefs(doc)), doc)
  BY <1>3, <1>7, CleanIsTidy, ShapesTransitive
<1> QED
  BY <1>1, <1>5, <1>6, <1>7, <1>8, ShapesSame, FlushEffect

\* Reading a command that writes what it should.
LEMMA StepInView ==
  ASSUME Inv, ShapesOK, NEW c \in Alphabet, Reads(c),
         NEW d, doc' = d, Tidy(d), Shapes(d, doc), text'.pending # <<>> => ~d.defsOpen
  PROVE  ShapesOK' /\ Shapes(doc', doc)
BY OldInView, StaysInView DEF ShapesOK, Tidy

LEMMA FlushInView ==
  ASSUME Inv, ShapesOK, NEW c \in Alphabet, Reads(c), text' = NoPending,
         doc' = Flush(doc) \/ doc' = PrimitiveDoc
  PROVE  ShapesOK' /\ Shapes(doc', doc)
BY HereNat, StartsTidy, CleanIsTidy, StepInView

\* Clips.
LEMMA ClippingInView == Inv /\ ShapesOK /\ Clipping => ShapesOK' /\ Shapes(doc', doc)
<1> SUFFICES ASSUME Inv, ShapesOK, Clipping PROVE ShapesOK' /\ Shapes(doc', doc)
  OBVIOUS
<1>1. /\ clip \in Clips /\ region \in RegionStates /\ clip.made + 1 \in Nat
      /\ Tidy(Flush(doc)) /\ Shapes(Flush(doc), doc) /\ NoPending.pending = <<>>
  BY Counters, HereNat, StartsTidy
<1>2. ASSUME NEW c \in Alphabet, Reads(c), text' = NoPending, NEW id \in Identifiers,
             NEW content \in Contents,
             doc' = Flush(doc) \/ doc' = Define(Flush(doc), id, content)
      PROVE  ShapesOK' /\ Shapes(doc', doc)
  <2>1. Tidy(doc') /\ Shapes(doc', doc)
    BY <1>1, <1>2, DefineTidies, ShapesTransitive
  <2> QED
    BY <1>1, <1>2, <2>1, StepInView
<1>3. ASSUME NEW c \in Alphabet, Reads(c), text' = NoPending, NEW k \in Clips, UpdatesClip(k)
      PROVE  ShapesOK' /\ Shapes(doc', doc)
  <2>1. CASE RectangleInForce(k) /\ k.cached[k.rect] = NoId
    <3>1. k.rect \in Rects /\ k.made + 1 \in Nat
      BY <2>1 DEF RectangleInForce, Clips
    <3>2. RectShape(k.rect) \in Contents /\ ClipPathId(k.made + 1) \in Identifiers
      BY <3>1, OwnIds DEF RectShape, Contents
    <3>3. doc' = Define(Flush(doc), ClipPathId(k.made + 1), RectShape(k.rect))
      BY <1>3, <2>1 DEF UpdatesClip, UpdatedClipDoc
    <3> QED
      BY <1>2, <1>3, <3>2, <3>3
  <2>2. CASE ~(RectangleInForce(k) /\ k.cached[k.rect] = NoId)
    BY <1>3, <2>2, FlushInView DEF UpdatesClip, UpdatedClipDoc
  <2> QED
    BY <2>1, <2>2
<1>4. CASE ClipRectangle
  <2>1. PICK c \in Alphabet : ClipRectangle!(c)
    BY <1>4 DEF ClipRectangle
  <2>2. [clip EXCEPT !.rect = c.rect] \in Clips
    BY <1>1, <2>1, Operands DEF Clips
  <2> QED
    BY <1>3, <2>1, <2>2, FlushInView
<1>5. CASE ClipIndicator
  <2>1. PICK c \in Alphabet : ClipIndicator!(c)
    BY <1>5 DEF ClipIndicator
  <2>2. [clip EXCEPT !.enabled = TRUE] \in Clips
    BY <1>1 DEF Clips
  <2> QED
    BY <1>3, <2>1, <2>2, FlushInView
<1>6. CASE BeginProtectionRegion
  BY <1>6, FlushInView DEF BeginProtectionRegion, FlushesText
<1>7. CASE EndProtectionRegion
  BY <1>7, FlushInView DEF EndProtectionRegion, FlushesText
<1>8. CASE ProtectionRegionIndicator
  <2>1. PICK c \in Alphabet : ProtectionRegionIndicator!(c)
    BY <1>8 DEF ProtectionRegionIndicator
  <2>2. c.rid \in Regions
    BY <2>1, Operands
  <2>3. PathShape(region.shapes[c.rid]) \in Contents /\ ClipPathId(clip.made + 1) \in Identifiers
    BY <1>1, <2>2, OwnIds DEF PathShape, Contents, RegionStates
  <2>4. CASE ~c.on
    BY <1>1, <1>3, <2>1, <2>4
  <2>5. CASE c.on
    BY <1>2, <2>1, <2>3, <2>5 DEF ClipToRegion
  <2> QED
    BY <2>4, <2>5
<1> QED
  BY <1>4, <1>5, <1>6, <1>7, <1>8 DEF Clipping

\* Primitives and figures.
LEMMA DrawingInView == Inv /\ ShapesOK /\ Drawing => ShapesOK' /\ Shapes(doc', doc)
<1> SUFFICES ASSUME Inv, ShapesOK, Drawing PROVE ShapesOK' /\ Shapes(doc', doc)
  OBVIOUS
<1>1. /\ Here \in Nat /\ Clean(PrimitiveDoc) /\ Shapes(PrimitiveDoc, doc)
      /\ NoPending.pending = <<>> /\ 0 \in Nat /\ NoId \in Identifiers
      /\ <<Here>> \in Seq(Nat) /\ clip.ref \in Identifiers
  <2>1. clip \in Clips
    BY Counters
  <2> QED
    BY <2>1, HereNat, StartsTidy, OwnIds DEF Clips
<1>2. ASSUME NEW c \in Alphabet, Reads(c), text' = NoPending, NEW d, Clean(d), Shapes(d, doc),
             NEW ms \in Seq(Marks), Unlinked(ms), doc' = Draw(d, ms)
      PROVE  ShapesOK' /\ Shapes(doc', doc)
  <2>1. Tidy(Draw(d, ms)) /\ Shapes(Draw(d, ms), d)
    BY <1>2, DrawInView DEF Clean, Tidy, NoDefs, DefsLast
  <2> QED
    BY <1>1, <1>2, <2>1, ShapesTransitive, StepInView
<1>3. ASSUME NEW c \in Alphabet, Reads(c), text' = NoPending, NEW of \in Seq(Nat),
             NEW ref \in Identifiers,
             doc' = Draw(CloseOpenDefs(EnsuredFillDoc(PrimitiveDoc)),
                         <<Mark(Here, of, ref, FillId, NoId, 0)>>)
      PROVE  ShapesOK' /\ Shapes(doc', doc)
  <2> DEFINE e == EnsuredFillDoc(PrimitiveDoc)
             m == Mark(Here, of, ref, FillId, NoId, 0)
  <2>1. /\ fill \in Fills /\ PrimitiveDoc.defs = doc.defs /\ PrimitiveDoc \in Documents
        /\ \A p \in Patterns : Resolves(PrimitiveDoc, fill.cached[p])
    BY <1>1, Counters, DefsKept DEF Resolves, DefinedIds
  <2>2. FillId \in Identifiers
    BY <2>1, EnsuredFillSound
  <2>3. Tidy(e) /\ Shapes(e, PrimitiveDoc)
    <3>1. PatternValue(fill, fill.index) \in Contents
      BY <2>1, PatternValueType DEF Fills
    <3> QED
      BY <1>1, <2>2, <3>1, CleanIsTidy, DefineTidies, ShapesSame DEF EnsuredFillDoc
  <2> HIDE DEF e
  <2>4. Clean(CloseOpenDefs(e)) /\ Shapes(CloseOpenDefs(e), doc)
    BY <1>1, <2>3, CloseOpenDefsCleans, ShapesTransitive
  <2>5. <<m>> \in Seq(Marks) /\ Unlinked(<<m>>)
    BY <1>1, <2>2, MarkType, OneUnlinked
  <2>6. doc' = Draw(CloseOpenDefs(e), <<m>>)
    BY <1>3 DEF e
  <2> HIDE DEF m
  <2> QED
    BY <1>2, <1>3, <2>4, <2>5, <2>6
<1>4. CASE DrawStroked
  <2>1. PICK c \in Alphabet : DrawStroked!(c)
    BY <1>4 DEF DrawStroked
  <2> DEFINE m == Mark(Here, <<Here>>, ClipOf(c), NoId, NoId, 0)
  <2>2. <<m>> \in Seq(Marks) /\ Unlinked(<<m>>)
    BY <1>1, MarkType, OneUnlinked DEF ClipOf
  <2>3. doc' = Draw(PrimitiveDoc, <<m>>)
    BY <2>1
  <2> HIDE DEF m
  <2> QED
    BY <1>1, <1>2, <2>1, <2>2, <2>3
<1>5. CASE DrawFilled
  <2>1. PICK c \in Alphabet : DrawFilled!(c)
    BY <1>5 DEF DrawFilled
  <2>2. ClipOf(c) \in Identifiers
    BY <1>1 DEF ClipOf
  <2> QED
    BY <1>1, <1>3, <2>1, <2>2
<1>6. CASE DrawFigure
  <2>1. PICK c \in Alphabet : DrawFigure!(c)
    BY <1>6 DEF DrawFigure
  <2>2. FigurePath \in Seq(Nat)
    BY FigureType DEF Inv
  <2>3. CASE FillFails
    BY <2>1, <2>3, FlushInView
  <2>4. CASE ~FillFails
    BY <1>1, <1>3, <2>1, <2>2, <2>4
  <2> QED
    BY <2>3, <2>4
<1>7. CASE PrimitiveIntoFigure \/ PrimitiveIntoRegion
  BY <1>7, FlushInView DEF PrimitiveIntoFigure, PrimitiveIntoRegion
<1>8. CASE FailFilled \/ ConnectingEdge \/ EndFigureIntoRegion
  BY <1>8, FlushInView DEF FailFilled, ConnectingEdge, EndFigureIntoRegion
<1>9. CASE BeginFigure \/ EndFigure
  BY <1>9, FlushInView DEF BeginFigure, EndFigure, FlushesText
<1> QED
  BY <1>4, <1>5, <1>6, <1>7, <1>8, <1>9 DEF Drawing
\* Marks that may be written inside <defs>.
LEMMA ExcusedInView ==
  ASSUME Inv, ShapesOK, NEW c \in Alphabet, Reads(c), c.op \in Exempt, text' = NoPending,
         NEW d \in Documents, Shapes(d, doc), NEW m, m \in Marks, m.of = <<Here>>,
         doc'.marks = Draw(d, <<m>>).marks, Tidy(doc')
  PROVE  ShapesOK'
<1>1. Excused(m, file')
  <2>1. ControlOK
    BY DEF Inv
  <2>2. file'[Here] = c /\ Here \in 1 .. Len(file') /\ file' \in Seq(Alphabet)
    <3>1. file' \in Seq(Alphabet) /\ cursor \in Nat
      BY <2>1 DEF Reads, ControlOK
    <3> QED
      BY <2>1, <3>1, ReadsFile DEF Here
  <2> QED
    BY <2>2 DEF Excused
<1>2. InView(d, file')
  BY OldInView, StaysInView
<1>3. <<m>> \in Seq(Marks) /\ \A i \in DOMAIN <<m>> : Excused(<<m>>[i], file')
  BY <1>1
<1>4. InView(Draw(d, <<m>>), file')
  BY <1>2, <1>3, DrawInView
<1> QED
  BY <1>4, HereNat, StartsTidy DEF ShapesOK, InView, Tidy

\* Attributes write nothing.
LEMMA FillingInView == Inv /\ ShapesOK /\ Filling => ShapesOK' /\ Shapes(doc', doc)
<1> SUFFICES ASSUME Inv, ShapesOK, Filling PROVE ShapesOK' /\ Shapes(doc', doc)
  OBVIOUS
<1>1. (\E c \in Alphabet : Reads(c)) /\ doc' = doc /\ text' = text
  BY DEF Filling, InteriorStyle, PatternIndex, PatternTable, PatternSize, FillReferencePoint,
         Attribute
<1>2. Tidy(doc) /\ Shapes(doc, doc) /\ (text.pending # <<>> => ~doc.defsOpen)
  BY HereNat, StartsTidy DEF ShapesOK
<1> QED
  BY <1>1, <1>2, StepInView

\* Text.
LEMMA PendsInView ==
  ASSUME Inv, ShapesOK, NEW c \in Alphabet, Reads(c),
         NEW d, Clean(d), Shapes(d, doc),
         NEW segments \in Seq([at : Nat, colour : Nat]), NEW final, Pends(d, segments, final)
  PROVE  ShapesOK' /\ Shapes(doc', doc)
<1>1. NoPending.pending = <<>> /\ text \in Texts /\ Tidy(d) /\ NoDefs(d) /\ d \in Documents
  BY HereNat, StartsTidy, CleanIsTidy DEF Inv, Clean
<1>2. CASE final
  <2> DEFINE ms == TextMarks(segments)
  <2>1. ms \in Seq(Marks) /\ Unlinked(ms)
    BY HereNat, TextMarksType, TextUnlinked
  <2>2. doc' = Draw(d, ms) /\ text' = NoPending
    BY <1>2 DEF Pends
  <2> HIDE DEF ms
  <2>3. Tidy(Draw(d, ms)) /\ Shapes(Draw(d, ms), d)
    BY <1>1, <2>1, DrawInView DEF Tidy, NoDefs, DefsLast
  <2> QED
    BY <1>1, <2>2, <2>3, ShapesTransitive, StepInView
<1>3. CASE ~final
  <2>1. doc' = d /\ ~d.defsOpen
    BY <1>3 DEF Pends, Clean
  <2> QED
    BY <1>1, <2>1, StepInView
<1> QED
  BY <1>2, <1>3

LEMMA TextingInView == Inv /\ ShapesOK /\ Texting => ShapesOK' /\ Shapes(doc', doc)
<1> SUFFICES ASSUME Inv, ShapesOK, Texting PROVE ShapesOK' /\ Shapes(doc', doc)
  OBVIOUS
<1>1. /\ Here \in Nat /\ text \in Texts /\ clip.ref \in Identifiers /\ NoId \in Identifiers
      /\ text.colour \in Nat /\ text.pending \in Seq([at : Nat, colour : Nat])
      /\ Tidy(doc) /\ Shapes(doc, doc) /\ NoPending.pending = <<>>
  <2>1. clip \in Clips /\ text \in Texts
    BY Counters DEF Inv
  <2> QED
    BY <2>1, HereNat, StartsTidy, OwnIds DEF Clips, Texts
<1> DEFINE d == Flush(CloseOpenDefs(doc))
           e == CloseOpenDefs(doc)
<1>2. Clean(d) /\ Shapes(d, doc) /\ Clean(e) /\ Shapes(e, doc)
  BY <1>1, StartsTidy
<1>3. Segment(Here) \in [at : Nat, colour : Nat] /\ <<Segment(Here)>> \in Seq([at : Nat, colour : Nat])
      /\ Append(text.pending, Segment(Here)) \in Seq([at : Nat, colour : Nat])
  <2>1. Segment(Here) \in [at : Nat, colour : Nat]
    BY <1>1 DEF Segment
  <2> QED
    BY <1>1, <2>1
<1>4. CASE TextColour
  <2>1. PICK c \in Alphabet : TextColour!(c)
    BY <1>4 DEF TextColour
  <2>2. text'.pending = text.pending
    BY <1>1, <2>1 DEF Texts
  <2> QED
    BY <1>1, <2>1, <2>2, StepInView DEF ShapesOK
<1> HIDE DEF d, e
<1>5. CASE Text
  <2>1. PICK c \in Alphabet : Reads(c) /\ Pends(d, <<Segment(Here)>>, c.final)
    BY <1>5 DEF Text, d
  <2> QED
    BY <1>2, <1>3, <2>1, PendsInView
<1>6. CASE RestrictedText
  <2> DEFINE m == Mark(Here, <<Here>>, clip.ref, NoId, NoId, text.colour)
  <2>1. PICK c \in Alphabet :
          /\ Reads(c)
          /\ IF c.final THEN doc' = Draw(d, <<m>>) /\ text' = NoPending
             ELSE Pends(d, <<Segment(Here)>>, FALSE)
    BY <1>6 DEF RestrictedText, d
  <2>2. <<m>> \in Seq(Marks) /\ Unlinked(<<m>>)
    <3>1. <<Here>> \in Seq(Nat)
      BY <1>1
    <3> QED
      BY <1>1, <3>1, MarkType, OneUnlinked
  <2> HIDE DEF m
  <2>3. CASE c.final
    <3>1. Tidy(Draw(d, <<m>>)) /\ Shapes(Draw(d, <<m>>), d)
      BY <1>2, <2>2, DrawInView DEF Clean, Tidy, NoDefs, DefsLast
    <3> QED
      BY <1>1, <1>2, <2>1, <2>3, <3>1, ShapesTransitive, StepInView
  <2>4. CASE ~c.final
    BY <1>2, <1>3, <2>1, <2>4, PendsInView
  <2> QED
    BY <2>3, <2>4
<1>7. CASE AppendText
  <2>1. PICK c \in Alphabet : Reads(c) /\ Pends(e, Append(text.pending, Segment(Here)), c.final)
    BY <1>7 DEF AppendText, e
  <2> QED
    BY <1>2, <1>3, <2>1, PendsInView
<1> QED
  BY <1>4, <1>5, <1>6, <1>7 DEF Texting
\* The group of an application structure.
LEMMA OpenGroupClean ==
  ASSUME NEW d, Tidy(d), NEW id \in Identifiers, NEW linked \in BOOLEAN
  PROVE  Clean(OpenGroup(d, id, linked)) /\ Shapes(OpenGroup(d, id, linked), d)
<1> DEFINE e == Open(CloseOpenDefs(d), "g")
           g == WriteId(e, id)
<1>1. Clean(CloseOpenDefs(d)) /\ Shapes(CloseOpenDefs(d), d)
  BY CloseOpenDefsCleans
<1>2. Clean(e) /\ Shapes(e, d)
  <2>1. CloseOpenDefs(d) \in Documents
    BY <1>1 DEF Clean
  <2> QED
    BY <1>1, <2>1, TagsKeepOrder, ShapesTransitive
<1> HIDE DEF e
<1>3. Clean(g) /\ Shapes(g, d)
  <2>1. e \in Documents
    BY <1>2 DEF Clean
  <2>2. g \in Documents /\ g.marks = e.marks
    BY <2>1, WriteIdType
  <2>3. g.tags = e.tags /\ g.defsOpen = e.defsOpen
    BY <2>1 DEF WriteId, Documents
  <2> QED
    BY <1>2, <2>2, <2>3 DEF Clean, NoDefs, Shapes
<1> HIDE DEF g
<1>4. Clean(Open(g, "a")) /\ Shapes(Open(g, "a"), d)
  <2>1. g \in Documents
    BY <1>3 DEF Clean
  <2> QED
    BY <1>3, <2>1, TagsKeepOrder, ShapesTransitive
<1> QED
  BY <1>3, <1>4 DEF OpenGroup, e, g

LEMMA CloseGroupTidy ==
  ASSUME NEW d, Tidy(d), NEW linked \in BOOLEAN
  PROVE  Tidy(CloseGroup(d, linked)) /\ Shapes(CloseGroup(d, linked), d)
<1>1. d \in Documents
  BY DEF Tidy
<1>2. Tidy(Close(d, "a")) /\ Shapes(Close(d, "a"), d) /\ Close(d, "a") \in Documents
  BY <1>1, TagsKeepOrder DEF Tidy
<1> DEFINE e == IF linked THEN Close(d, "a") ELSE d
<1>3. Tidy(e) /\ Shapes(e, d) /\ e \in Documents
  BY <1>1, <1>2, ShapesSame
<1>4. CloseGroup(d, linked) = Close(e, "g")
  BY DEF CloseGroup
<1> HIDE DEF e
<1> QED
  BY <1>3, <1>4, TagsKeepOrder, ShapesTransitive

LEMMA StructuringInView == Inv /\ ShapesOK /\ Structuring => ShapesOK' /\ Shapes(doc', doc)
<1> SUFFICES ASSUME Inv, ShapesOK, Structuring PROVE ShapesOK' /\ Shapes(doc', doc)
  OBVIOUS
<1>1. Tidy(Flush(doc)) /\ Shapes(Flush(doc), doc) /\ NoPending.pending = <<>>
  BY HereNat, StartsTidy
<1>2. CASE BeginApplicationStructure \/ ApplicationStructureAttribute
  BY <1>2, FlushInView DEF BeginApplicationStructure, ApplicationStructureAttribute, FlushesText
<1> DEFINE linked == "linkuri" \in aps.attributes
<1>3. CASE BeginApplicationStructureBody
  <2>1. PICK c \in Alphabet :
          /\ Reads(c) /\ text' = NoPending
          /\ IF aps.stack = <<>> THEN doc' = Flush(doc)
             ELSE doc' = OpenGroup(Flush(doc), Top.id, linked)
    BY <1>3 DEF BeginApplicationStructureBody
  <2>2. CASE aps.stack = <<>>
    BY <2>1, <2>2, FlushInView
  <2>3. CASE aps.stack # <<>>
    <3>1. Top.id \in Identifiers /\ linked \in BOOLEAN
      BY <2>3, TopFound
    <3> HIDE DEF linked
    <3>2. Clean(doc') /\ Shapes(doc', doc)
      BY <1>1, <2>1, <2>3, <3>1, OpenGroupClean, ShapesTransitive
    <3> QED
      BY <1>1, <2>1, <3>2, CleanIsTidy, StepInView
  <2> QED
    BY <2>2, <2>3
<1>4. CASE EndApplicationStructure
  <2>1. PICK c \in Alphabet :
          /\ Reads(c) /\ text' = NoPending
          /\ IF aps.stack = <<>> THEN doc' = Flush(doc)
             ELSE doc' = CloseGroup(Flush(doc), Top.anchor)
    BY <1>4 DEF EndApplicationStructure
  <2>2. CASE aps.stack = <<>>
    BY <2>1, <2>2, FlushInView
  <2>3. CASE aps.stack # <<>>
    <3>1. Top.anchor \in BOOLEAN
      BY <2>3, TopFound
    <3>2. Tidy(doc') /\ Shapes(doc', doc)
      BY <1>1, <2>1, <2>3, <3>1, CloseGroupTidy, ShapesTransitive
    <3> QED
      BY <1>1, <2>1, <3>2, StepInView
  <2> QED
    BY <2>2, <2>3
<1> QED
  BY <1>2, <1>3, <1>4 DEF Structuring

\* Symbols. The group of a symbol leaves the tags as they were.
LEMMA GroupAround ==
  ASSUME NEW d, Tidy(d), NEW ms \in Seq(Marks), SymbolsOK
  PROVE  /\ Tidy(Close(Draw(PlacementGroup(d), ms), "g"))
         /\ Close(Draw(PlacementGroup(d), ms), "g").marks = Draw(PlacementGroup(d), ms).marks
         /\ PlacementGroup(d) \in Documents /\ Shapes(PlacementGroup(d), d)
<1> DEFINE e == PlacementGroup(d)
           f == Draw(e, ms)
<1>1. d \in Documents /\ DefsLast(d) /\ "g" \in Tags
  BY DEF Tidy, Tags
<1>2. e \in Documents /\ Shapes(e, d) /\ f \in Documents
  BY <1>1, PlacementGroupType, DrawInView, ShapesSame
<1>3. /\ f.tags = Append(d.tags, "g") /\ f.defsOpen = d.defsOpen
      /\ d.tags \in Seq(Tags) /\ Len(d.tags) \in Nat /\ DOMAIN d.tags = 1 .. Len(d.tags)
  <2>1. f.tags = e.tags /\ f.defsOpen = e.defsOpen
    BY <1>2, DrawInView
  <2> QED
    <3>1. e.tags = Append(d.tags, "g") /\ e.defsOpen = d.defsOpen
      BY <1>1, PlacementGroupType
    <3>2. d.tags \in Seq(Tags) /\ Len(d.tags) \in Nat /\ DOMAIN d.tags = 1 .. Len(d.tags)
      BY <1>1, DocumentFields
    <3> QED
      BY <2>1, <3>1, <3>2
<1> HIDE DEF e, f
<1>4. Close(f, "g") \in Documents /\ Close(f, "g").marks = f.marks
  BY <1>1, <1>2, CloseType
<1>5. /\ f.tags # <<>> /\ Len(f.tags) = Len(d.tags) + 1 /\ f.tags[Len(f.tags)] = "g"
      /\ f.tags \in Seq(Tags) /\ \A i \in 1 .. Len(d.tags) : f.tags[i] = d.tags[i]
  BY <1>1, <1>3, AppendProperties
<1>6. Close(f, "g").tags = SubSeq(f.tags, 1, Len(f.tags) - 1) /\ Close(f, "g").defsOpen = d.defsOpen
  BY <1>2, <1>3, <1>5 DEF Close, Documents
<1>7. /\ DOMAIN Close(f, "g").tags = 1 .. Len(d.tags) /\ Len(Close(f, "g").tags) = Len(d.tags)
      /\ \A i \in 1 .. Len(d.tags) : Close(f, "g").tags[i] = d.tags[i]
  <2>1. Len(f.tags) - 1 = Len(d.tags) /\ Len(d.tags) \in 0 .. Len(f.tags)
    BY <1>3, <1>5
  <2> QED
    BY <1>3, <1>5, <1>6, <2>1
<1>8. DefsLast(Close(f, "g"))
  BY <1>1, <1>3, <1>6, <1>7 DEF DefsLast
<1> QED
  BY <1>2, <1>4, <1>8 DEF Tidy, e, f

LEMMA SymbolisingInView == Inv /\ ShapesOK /\ Symbolising => ShapesOK'
<1> SUFFICES ASSUME Inv, ShapesOK, Symbolising PROVE ShapesOK'
  OBVIOUS
<1>1. /\ Here \in Nat /\ Clean(PrimitiveDoc) /\ Shapes(PrimitiveDoc, doc)
      /\ NoId \in Identifiers /\ <<Here>> \in Seq(Nat) /\ 0 \in Nat /\ SymbolsOK
  BY HereNat, StartsTidy, OwnIds DEF Inv
<1>2. ASSUME NEW c \in Alphabet, Reads(c), c.op = "POLYSYMBOL", text' = NoPending,
             NEW d, Tidy(d), Shapes(d, doc), NEW id \in Identifiers,
             doc' = Close(DrawSymbol(d, id), "g")
      PROVE  ShapesOK'
  <2> DEFINE m == Mark(Here, <<Here>>, NoId, NoId, id, 0)
             e == PlacementGroup(d)
  <2>1. m \in Marks /\ <<m>> \in Seq(Marks) /\ m.of = <<Here>>
    BY <1>1, MarkType DEF Mark
  <2>2. doc' = Close(Draw(e, <<m>>), "g")
    BY <1>2 DEF DrawSymbol, PlacementGroup
  <2> HIDE DEF m
  <2>3. Tidy(doc') /\ doc'.marks = Draw(e, <<m>>).marks /\ e \in Documents /\ Shapes(e, doc)
    BY <1>1, <1>2, <2>1, <2>2, GroupAround, ShapesTransitive
  <2> HIDE DEF e
  <2>4. c.op \in Exempt
    BY <1>2 DEF Exempt
  <2> QED
    BY <1>2, <2>1, <2>3, <2>4, ExcusedInView
<1>3. CASE SymbolLibraryList
  BY <1>3, FlushInView DEF SymbolLibraryList, FlushesText
<1>4. CASE PolySymbol
  <2>1. PICK c \in Alphabet : PolySymbol!(c)
    BY <1>4 DEF PolySymbol
  <2>2. PlacesSymbol(c) /\ Reads(c) /\ c.op = "POLYSYMBOL" /\ text' = NoPending
    BY <2>1, SymbolPlaced
  <2>3. Tidy(PrimitiveDoc)
    BY <1>1, CleanIsTidy
  <2>4. CASE doc' = Close(DrawSymbol(PrimitiveDoc, NoId), "g")
    BY <1>1, <1>2, <2>2, <2>3, <2>4
  <2> DEFINE s == Name(c.index)
             new == SymbolId(s)
  <2>5. CASE s \in Symbols /\ symbols.ids[s] \in Identifiers
             /\ doc' = Close(DrawSymbol(PrimitiveDoc, symbols.ids[s]), "g")
    BY <1>1, <1>2, <2>2, <2>3, <2>5
  <2>6. CASE /\ new \in Identifiers /\ [symbol |-> s] \in Contents
             /\ doc' = Close(DrawSymbol(Define(PrimitiveDoc, new, [symbol |-> s]), new), "g")
    <3> DEFINE d == Define(PrimitiveDoc, new, [symbol |-> s])
    <3>1. Tidy(d) /\ Shapes(d, doc)
      BY <1>1, <2>3, <2>6, DefineTidies, ShapesTransitive
    <3> HIDE DEF d
    <3>2. doc' = Close(DrawSymbol(d, new), "g") /\ new \in Identifiers
      BY <2>6 DEF d
    <3> QED
      BY <1>2, <2>2, <3>1, <3>2
  <2> QED
    BY <2>2, <2>4, <2>5, <2>6 DEF PlacesSymbol
<1> QED
  BY <1>3, <1>4 DEF Symbolising

\* Pictures.
LEMMA FreshTidy ==
  ASSUME NEW open \in BOOLEAN
  PROVE  Tidy(FreshDoc(open)) /\ FreshDoc(open).marks = <<>> /\ FreshDoc(open).defsOpen = open
<1>1. FreshDoc(open) \in Documents
  BY FreshDocType
<1> QED
  BY <1>1 DEF FreshDoc, Tidy, DefsLast

LEMMA FreshFalse == Tidy(FreshDoc(FALSE)) /\ FreshDoc(FALSE).marks = <<>>
<1>1. FALSE \in BOOLEAN
  OBVIOUS
<1> QED
  BY <1>1, FreshTidy, Zenon

LEMMA PicturesInView == Inv /\ ShapesOK /\ Pictures => ShapesOK'
<1> SUFFICES ASSUME Inv, ShapesOK, Pictures PROVE ShapesOK'
  OBVIOUS
<1>1. /\ Here \in Nat /\ Tidy(Flush(doc)) /\ Shapes(Flush(doc), doc) /\ NoPending.pending = <<>>
      /\ Tidy(doc) /\ Shapes(doc, doc)
  BY HereNat, StartsTidy
<1>2. CASE EndPicture \/ BackgroundColour
  BY <1>2, FlushInView DEF EndPicture, BackgroundColour, FlushesText
<1>3. CASE ColourTable \/ SegmentElement
  <2>1. (\E c \in Alphabet : Reads(c)) /\ doc' = doc /\ text' = text
    BY <1>3 DEF ColourTable, SegmentElement
  <2> QED
    BY <1>1, <2>1, StepInView DEF ShapesOK
<1>4. CASE BeginPicture
  <2>1. PICK c \in Alphabet :
          /\ Reads(c) /\ text' = FreshText
          /\ doc' = FreshDoc(FALSE) \/ doc' = Flush(doc)
    BY <1>4 DEF BeginPicture, ResetPictureState
  <2>2. text'.pending = <<>>
    BY <2>1 DEF FreshText
  <2>3. CASE doc' = FreshDoc(FALSE)
    <3>1. Tidy(doc') /\ doc'.marks = <<>>
      BY <2>3, FreshFalse
    <3> QED
      BY <2>2, <3>1 DEF ShapesOK, Tidy, InView
  <2>4. CASE doc' = Flush(doc)
    BY <1>1, <2>1, <2>2, <2>4, StepInView
  <2> QED
    BY <2>1, <2>3, <2>4
<1>5. CASE BeginPictureBody
  <2> DEFINE m == Mark(Here, <<Here>>, NoId, NoId, NoId, picture.zero)
             d == Flush(doc)
  <2>1. PICK c \in Alphabet :
          /\ c.op = "BEGIN PICTURE BODY" /\ Reads(c) /\ text' = NoPending
          /\ doc' = Draw(d, <<m>>) \/ doc' = d
    BY <1>5 DEF BeginPictureBody
  <2>2. m \in Marks /\ <<m>> \in Seq(Marks) /\ m.of = <<Here>>
    <3>1. NoId \in Identifiers /\ <<Here>> \in Seq(Nat) /\ picture.zero \in Nat
      BY <1>1, OwnIds DEF Inv, PictureStates
    <3> QED
      BY <1>1, <3>1, MarkType DEF Mark
  <2> HIDE DEF m
  <2>3. CASE doc' = d
    BY <2>1, <2>3, FlushInView
  <2>4. CASE doc' = Draw(d, <<m>>)
    <3>1. d \in Documents /\ Tidy(d) /\ Shapes(d, doc)
      BY <1>1 DEF Tidy
    <3> HIDE DEF d
    <3>2. Tidy(Draw(d, <<m>>))
      BY <2>2, <3>1, DrawInView DEF Tidy, DefsLast
    <3>3. c.op \in Exempt
      BY <2>1 DEF Exempt
    <3> QED
      BY <2>1, <2>2, <2>4, <3>1, <3>2, <3>3, ExcusedInView
  <2> QED
    BY <2>1, <2>3, <2>4
<1> QED
  BY <1>2, <1>3, <1>4, <1>5 DEF Pictures

\* Conversions.
LEMMA ConversionInView == Inv /\ ShapesOK /\ Conversion => ShapesOK'
<1> SUFFICES ASSUME Inv, ShapesOK, Conversion PROVE ShapesOK'
  OBVIOUS
<1>1. CASE Convert
  <2>1. doc' = FreshDoc(doc.defsOpen) /\ text'.pending = <<>> /\ doc.defsOpen \in BOOLEAN
    BY <1>1 DEF Convert, ResetPictureState, FreshText, Inv, DocOK, Documents
  <2> QED
    BY <2>1, FreshTidy DEF ShapesOK, Tidy, InView
<1>2. CASE EndOfFile
  <2>1. /\ Clean(PrimitiveDoc) /\ Shapes(PrimitiveDoc, doc) /\ NoPending.pending = <<>>
    BY HereNat, StartsTidy
  <2>2. doc' = Close(PrimitiveDoc, "svg") /\ text' = NoPending /\ file' = file
    BY <1>2 DEF EndOfFile, PrimitiveDoc
  <2>3. Tidy(doc') /\ Shapes(doc', doc)
    BY <2>1, <2>2, CleanIsTidy, TagsKeepOrder, ShapesTransitive DEF Clean
  <2> QED
    BY <2>1, <2>2, <2>3, StaysInView DEF ShapesOK, Tidy
<1> QED
  BY <1>1, <1>2 DEF Conversion

LEMMA ShapesStep == Inv /\ ShapesOK /\ [Next]_vars => ShapesOK'
<1>1. ASSUME ShapesOK, UNCHANGED vars PROVE ShapesOK'
  BY <1>1 DEF vars, ShapesOK
<1> QED
  BY <1>1, ConversionInView, PicturesInView, ClippingInView, DrawingInView, FillingInView,
     TextingInView, StructuringInView, SymbolisingInView DEF Next

\* A shape is drawn where it is rendered: <defs> is closed on every way from
\* a definition to a shape (closeOpenDefs).
THEOREM ShapesAreRendered == Spec => []ShapesRendered
<1>1. Init => ShapesOK
  <2> SUFFICES ASSUME Init PROVE ShapesOK
    OBVIOUS
  <2>1. Tidy(doc) /\ doc.marks = <<>> /\ text.pending = <<>>
    BY FreshFalse DEF Init, FreshText
  <2> QED
    BY <2>1 DEF ShapesOK, Tidy, InView
<1>2. ShapesOK => ShapesRendered
  BY DEF ShapesOK, InView, Plain, Excused, Exempt, ShapesRendered
<1> QED
  BY <1>1, <1>2, ShapesStep, Invariant, PTL DEF Spec
-----------------------------------------------------------------------------
(* Symbols, in the first conversion a converter makes: a later one still   *)
(* believes in the symbols of the text before it.                          *)

SymbolsFound(d, ids) ==
  /\ \A i \in DOMAIN d.marks : Resolves(d, d.marks[i].href)
  /\ \A s \in Symbols : Resolves(d, ids[s])

Placing ==
  /\ runs = 0 => symbols = NoSymbols
  /\ runs <= 1 => SymbolsFound(doc, symbols.ids)

\* Marks that place no symbol need none.
LEMMA ShapesNeedNone ==
  ASSUME NEW d, NEW e, Shapes(e, d), d.defs \subseteq e.defs,
         \A i \in DOMAIN d.marks : Resolves(d, d.marks[i].href)
  PROVE  \A i \in DOMAIN e.marks : Resolves(e, e.marks[i].href)
BY DEF Shapes, Plain, Resolves, DefinedIds

\* A mark with a symbol that is defined.
LEMMA LinkFound ==
  ASSUME NEW d \in Documents, NEW m \in Marks, Resolves(d, m.href),
         \A i \in DOMAIN d.marks : Resolves(d, d.marks[i].href)
  PROVE  /\ \A i \in DOMAIN Draw(d, <<m>>).marks :
              Resolves(d, Draw(d, <<m>>).marks[i].href)
         /\ Draw(d, <<m>>).defs = d.defs /\ Draw(d, <<m>>) \in Documents
<1> DEFINE e == Draw(d, <<m>>)
           ms == <<m>>
<1>1. ms \in Seq(Marks) /\ Len(ms) = 1 /\ DOMAIN ms = {1} /\ ms[1] = m
  OBVIOUS
<1> HIDE DEF ms
<1>2. /\ e \in Documents /\ e.defs = d.defs /\ Len(e.marks) = Len(d.marks) + 1
      /\ \A i \in DOMAIN d.marks : e.marks[i] = d.marks[i]
      /\ e.marks[Len(d.marks) + 1] = [m EXCEPT !.inside = d.tags]
  <2>1. e = Draw(d, ms)
    BY DEF ms
  <2> HIDE DEF e
  <2>2. /\ e \in Documents /\ e.defs = d.defs /\ Len(e.marks) = Len(d.marks) + Len(ms)
        /\ \A i \in DOMAIN d.marks : e.marks[i] = d.marks[i]
        /\ \A i \in DOMAIN ms : e.marks[Len(d.marks) + i] = [ms[i] EXCEPT !.inside = d.tags]
    BY <1>1, <2>1, DrawType
  <2>3. 1 \in DOMAIN ms
    BY <1>1
  <2>4. e.marks[Len(d.marks) + 1] = [ms[1] EXCEPT !.inside = d.tags]
    BY <2>2, <2>3
  <2> QED
    BY <1>1, <2>2, <2>4
<1> HIDE DEF e
<1>3. /\ Len(d.marks) \in Nat /\ DOMAIN d.marks = 1 .. Len(d.marks)
      /\ DOMAIN e.marks = 1 .. Len(d.marks) + 1
  BY <1>2, DocumentFields
<1>4. [m EXCEPT !.inside = d.tags].href = m.href
  BY DEF Marks
<1>5. \A i \in 1 .. Len(d.marks) + 1 : i \in 1 .. Len(d.marks) \/ i = Len(d.marks) + 1
  BY <1>3
<1> QED
  BY <1>2, <1>3, <1>4, <1>5 DEF e
\* Steps that write no symbol.
LEMMA SymbolsStay ==
  ASSUME Placing, Shapes(doc', doc), doc.defs \subseteq doc'.defs, runs' = runs,
         symbols'.ids = symbols.ids \/ symbols'.ids = [s \in Symbols |-> NoId],
         runs # 0
  PROVE  Placing'
<1>1. ASSUME runs <= 1 PROVE SymbolsFound(doc', symbols'.ids)
  <2>1. SymbolsFound(doc, symbols.ids)
    BY <1>1 DEF Placing
  <2>2. \A i \in DOMAIN doc'.marks : Resolves(doc', doc'.marks[i].href)
    BY <2>1, ShapesNeedNone DEF SymbolsFound
  <2>3. \A s \in Symbols : Resolves(doc', symbols'.ids[s])
    BY <2>1 DEF SymbolsFound, Resolves, DefinedIds
  <2> QED
    BY <2>2, <2>3 DEF SymbolsFound
<1> QED
  BY <1>1 DEF Placing

\* Converting has begun when a command is read.
Begun == phase = "converting" => runs # 0

\* A symbol placed.
LEMMA SymbolResolves ==
  ASSUME Inv, ShapesOK, Placing, runs # 0, PolySymbol
  PROVE  Placing'
<1>1. /\ Here \in Nat /\ PrimitiveDoc \in Documents /\ Shapes(PrimitiveDoc, doc)
      /\ PrimitiveDoc.defs = doc.defs /\ NoId \in Identifiers
      /\ symbols \in SymbolStates /\ SymbolsOK
  BY HereNat, StartsTidy, OwnIds, DefsKept DEF Inv, SymbolsOK
<1>2. PICK c \in Alphabet : PolySymbol!(c)
  BY DEF PolySymbol
<1>3. runs' = runs
  BY <1>2 DEF Continues
<1>4. SUFFICES ASSUME runs <= 1 PROVE SymbolsFound(doc', symbols'.ids)
  BY <1>3 DEF Placing
<1>5. /\ \A i \in DOMAIN PrimitiveDoc.marks : Resolves(PrimitiveDoc, PrimitiveDoc.marks[i].href)
      /\ \A s \in Symbols : Resolves(PrimitiveDoc, symbols.ids[s])
  <2>1. SymbolsFound(doc, symbols.ids)
    BY <1>4 DEF Placing
  <2>2. doc.defs \subseteq PrimitiveDoc.defs
    BY <1>1
  <2>3. \A i \in DOMAIN PrimitiveDoc.marks : Resolves(PrimitiveDoc, PrimitiveDoc.marks[i].href)
    BY <1>1, <2>1, <2>2, ShapesNeedNone DEF SymbolsFound
  <2> QED
    BY <1>1, <2>1, <2>3 DEF SymbolsFound, Resolves, DefinedIds
<1>6. ASSUME NEW d \in Documents, NEW id \in Identifiers, Resolves(d, id),
             \A i \in DOMAIN d.marks : Resolves(d, d.marks[i].href),
             doc' = Close(DrawSymbol(d, id), "g")
      PROVE  /\ \A i \in DOMAIN doc'.marks : Resolves(doc', doc'.marks[i].href)
             /\ doc'.defs = d.defs
  <2> DEFINE m == Mark(Here, <<Here>>, NoId, NoId, id, 0)
             e == PlacementGroup(d)
             f == Draw(e, <<m>>)
  <2>1. m \in Marks /\ m.href = id
    <3>1. <<Here>> \in Seq(Nat) /\ 0 \in Nat
      BY <1>1
    <3> QED
      BY <1>1, <3>1, MarkType DEF Mark
  <2>2. doc' = Close(f, "g") /\ "g" \in Tags
    BY <1>6 DEF DrawSymbol, PlacementGroup, Tags
  <2> HIDE DEF m
  <2>3. e \in Documents /\ e.marks = d.marks /\ e.defs = d.defs
    BY <1>1, PlacementGroupType
  <2> HIDE DEF e
  <2>4. Resolves(e, m.href) /\ \A i \in DOMAIN e.marks : Resolves(e, e.marks[i].href)
    BY <1>6, <2>1, <2>3 DEF Resolves, DefinedIds
  <2>5. /\ \A i \in DOMAIN f.marks : Resolves(e, f.marks[i].href)
        /\ f.defs = e.defs /\ f \in Documents
    BY <2>1, <2>3, <2>4, LinkFound
  <2> HIDE DEF f
  <2>6. doc'.marks = f.marks /\ doc'.defs = f.defs
    BY <2>2, <2>5, CloseType
  <2> QED
    BY <2>3, <2>5, <2>6 DEF Resolves, DefinedIds
<1>7. PlacesSymbol(c)
  BY <1>2, SymbolPlaced
<1>8. CASE /\ doc' = Close(DrawSymbol(PrimitiveDoc, NoId), "g")
           /\ symbols' = [symbols EXCEPT !.placed = @ + 1]
  <2>1. Resolves(PrimitiveDoc, NoId) /\ symbols'.ids = symbols.ids
    BY <1>1, <1>8, PlacedType DEF Resolves
  <2> QED
    BY <1>1, <1>5, <1>6, <1>8, <2>1 DEF SymbolsFound, Resolves, DefinedIds
<1> DEFINE s == Name(c.index)
           new == SymbolId(s)
<1>9. CASE /\ s \in Symbols /\ symbols.ids[s] \in Identifiers
           /\ doc' = Close(DrawSymbol(PrimitiveDoc, symbols.ids[s]), "g")
           /\ symbols' = [symbols EXCEPT !.placed = @ + 1]
  <2>1. Resolves(PrimitiveDoc, symbols.ids[s]) /\ symbols'.ids = symbols.ids
    BY <1>1, <1>5, <1>9, PlacedType
  <2> QED
    BY <1>1, <1>5, <1>6, <1>9, <2>1 DEF SymbolsFound, Resolves, DefinedIds
<1>10. CASE /\ s \in Symbols /\ new \in Identifiers /\ [symbol |-> s] \in Contents
            /\ doc' = Close(DrawSymbol(Define(PrimitiveDoc, new, [symbol |-> s]), new), "g")
            /\ symbols' = [symbols EXCEPT !.ids = [symbols.ids EXCEPT ![s] = new],
                                          !.emitted = symbols.emitted \cup {new},
                                          !.placed = @ + 1]
  <2> DEFINE d == Define(PrimitiveDoc, new, [symbol |-> s])
  <2>1. /\ d \in Documents /\ d.marks = PrimitiveDoc.marks
        /\ d.defs = PrimitiveDoc.defs \cup {[id |-> new, content |-> [symbol |-> s]]}
    BY <1>1, <1>10, DefineType
  <2>2. doc' = Close(DrawSymbol(d, new), "g")
    BY <1>10
  <2>3. symbols'.ids = [symbols.ids EXCEPT ![s] = new] /\ symbols.ids \in [Symbols -> Identifiers]
    BY <1>1, <1>10 DEF SymbolStates
  <2> HIDE DEF d, s, new
  <2>4. /\ Resolves(d, new) /\ \A i \in DOMAIN d.marks : Resolves(d, d.marks[i].href)
        /\ \A t \in Symbols : Resolves(d, symbols.ids[t])
    <3>1. \A id : Resolves(PrimitiveDoc, id) => Resolves(d, id)
      BY <2>1 DEF Resolves, DefinedIds
    <3>2. \E e \in d.defs : e.id = new
      <4> DEFINE e == [id |-> new, content |-> [symbol |-> s]]
      <4>1. e.id = new
        OBVIOUS
      <4>2. e \in d.defs
        BY <2>1
      <4> QED
        BY <4>1, <4>2
    <3> QED
      BY <1>5, <2>1, <3>1, <3>2 DEF Resolves, DefinedIds
  <2>5. /\ \A i \in DOMAIN doc'.marks : Resolves(doc', doc'.marks[i].href)
        /\ doc'.defs = d.defs
    BY <1>6, <1>10, <2>1, <2>2, <2>4
  <2>6. \A t \in Symbols : symbols'.ids[t] = new \/ symbols'.ids[t] = symbols.ids[t]
    BY <1>10, <2>3
  <2> QED
    BY <2>4, <2>5, <2>6 DEF SymbolsFound, Resolves, DefinedIds
<1> QED
  BY <1>7, <1>8, <1>9, <1>10 DEF PlacesSymbol
\* The background of a picture.
LEMMA BackgroundPlacesNothing ==
  ASSUME Inv, ShapesOK, Placing, runs # 0, BeginPictureBody
  PROVE  Placing'
<1> DEFINE m == Mark(Here, <<Here>>, NoId, NoId, NoId, picture.zero)
           d == Flush(doc)
<1>1. UNCHANGED <<runs, symbols>> /\ (doc' = Draw(d, <<m>>) \/ doc' = d)
  BY DEF BeginPictureBody, Continues
<1>2. d \in Documents /\ Shapes(d, doc) /\ d.defs = doc.defs
  BY HereNat, StartsTidy, DefsKept
<1>3. m \in Marks /\ m.href = NoId
  <2>1. NoId \in Identifiers /\ <<Here>> \in Seq(Nat) /\ picture.zero \in Nat
    BY HereNat, OwnIds DEF Inv, PictureStates
  <2> QED
    BY <2>1, HereNat, MarkType DEF Mark
<1> HIDE DEF d, m
<1>4. CASE doc' = d
  BY <1>1, <1>2, <1>4, SymbolsStay
<1>5. CASE doc' = Draw(d, <<m>>)
  <2>1. SUFFICES ASSUME runs <= 1 PROVE SymbolsFound(doc', symbols.ids)
    BY <1>1 DEF Placing
  <2>2. SymbolsFound(doc, symbols.ids)
    BY <2>1 DEF Placing
  <2>3. \A i \in DOMAIN d.marks : Resolves(d, d.marks[i].href)
    BY <1>2, <2>2, ShapesNeedNone DEF SymbolsFound
  <2>4. /\ \A i \in DOMAIN doc'.marks : Resolves(d, doc'.marks[i].href)
        /\ doc'.defs = d.defs
    BY <1>2, <1>3, <1>5, <2>3, LinkFound DEF Resolves
  <2> QED
    BY <1>2, <2>2, <2>4 DEF SymbolsFound, Resolves, DefinedIds
<1> QED
  BY <1>1, <1>4, <1>5

\* A text begun again.
LEMMA NothingPlaced ==
  ASSUME doc'.marks = <<>>, \A s \in Symbols : symbols'.ids[s] = NoId
  PROVE  SymbolsFound(doc', symbols'.ids)
BY DEF SymbolsFound, Resolves

\* Commands that have to do with no symbol.
LEMMA OthersPlaceNothing ==
  ASSUME Inv, ShapesOK, Meant, Clipping \/ Drawing \/ Filling \/ Texting \/ Structuring
  PROVE  Shapes(doc', doc) /\ doc.defs \subseteq doc'.defs /\ symbols' = symbols
<1>1. CASE Clipping
  <2>1. symbols' = symbols
    BY <1>1 DEF Clipping, ClipRectangle, ClipIndicator, BeginProtectionRegion,
       EndProtectionRegion, ProtectionRegionIndicator
  <2> QED
    BY <1>1, <2>1, ClippingInView, RectangleShows, RegionIndicatorShows, RegionsShow
       DEF Clipping, Shows
<1>2. CASE Drawing
  <2>1. symbols' = symbols
    BY <1>2 DEF Drawing, PrimitiveIntoFigure, PrimitiveIntoRegion, DrawStroked, DrawFilled,
       FailFilled, BeginFigure, ConnectingEdge, EndFigure, EndFigureIntoRegion, DrawFigure
  <2> QED
    BY <1>2, <2>1, DrawingInView, PlainDrawingShows, FilledDrawingShows DEF Drawing, Shows
<1>3. CASE Filling
  <2>1. symbols' = symbols
    BY <1>3 DEF Filling, InteriorStyle, PatternIndex, PatternTable, PatternSize,
       FillReferencePoint, Attribute
  <2> QED
    BY <1>3, <2>1, FillingInView, AttributesShow DEF Shows
<1>4. CASE Texting
  <2>1. symbols' = symbols
    BY <1>4 DEF Texting, TextColour, Text, RestrictedText, AppendText
  <2> QED
    BY <1>4, <2>1, TextingInView, TextShows DEF Texting, Shows
<1>5. CASE Structuring
  <2>1. symbols' = symbols
    BY <1>5 DEF Structuring, BeginApplicationStructure, ApplicationStructureAttribute,
       BeginApplicationStructureBody, EndApplicationStructure
  <2> QED
    BY <1>5, <2>1, StructuringInView, StructuresShow DEF Structuring, Shows
<1> QED
  BY <1>1, <1>2, <1>3, <1>4, <1>5

\* Pictures and the list of libraries.
LEMMA PicturesPlace ==
  ASSUME Inv, ShapesOK, Placing, runs # 0, runs' = runs, Pictures \/ SymbolLibraryList
  PROVE  Placing'
<1>1. /\ Shapes(Flush(doc), doc) /\ Shapes(doc, doc) /\ Flush(doc).defs = doc.defs
  BY HereNat, StartsTidy, DefsKept
<1>2. CASE BeginPictureBody
  BY <1>2, BackgroundPlacesNothing
<1>3. CASE EndPicture \/ BackgroundColour \/ ColourTable \/ SegmentElement
  <2>1. symbols' = symbols /\ (doc' = Flush(doc) \/ doc' = doc)
    BY <1>3 DEF EndPicture, BackgroundColour, ColourTable, SegmentElement, FlushesText
  <2> QED
    BY <1>1, <2>1, SymbolsStay
<1>4. CASE SymbolLibraryList
  <2>1. doc' = Flush(doc) /\ symbols'.ids = [s \in Symbols |-> NoId]
    BY <1>4 DEF SymbolLibraryList, FlushesText, Inv, SymbolsOK, SymbolStates
  <2> QED
    BY <1>1, <2>1, SymbolsStay
<1>5. CASE BeginPicture
  <2>1. CASE picture.index + 1 > 0
    <3>1. doc' = FreshDoc(FALSE) /\ symbols'.ids = [s \in Symbols |-> NoId]
      BY <1>5, <2>1 DEF BeginPicture, Inv, SymbolsOK, SymbolStates
    <3>2. SymbolsFound(doc', symbols'.ids)
      BY <3>1, FreshFalse, NothingPlaced
    <3> QED
      BY <3>2 DEF Placing
  <2>2. CASE ~(picture.index + 1 > 0)
    <3>1. doc' = Flush(doc) /\ symbols' = symbols
      BY <1>5, <2>2 DEF BeginPicture
    <3> QED
      BY <1>1, <3>1, SymbolsStay
  <2> QED
    BY <2>1, <2>2
<1> QED
  BY <1>2, <1>3, <1>4, <1>5 DEF Pictures

LEMMA PlacingStep ==
  Inv /\ ShapesOK /\ Meant /\ Captured /\ Placing /\ Begun /\ [Next]_vars => Placing' /\ Begun'
<1> SUFFICES ASSUME Inv, ShapesOK, Meant, Captured, Placing, Begun, [Next]_vars PROVE Placing' /\ Begun'
  OBVIOUS
<1>1. CASE UNCHANGED vars
  BY <1>1 DEF vars, Placing, Begun, SymbolsFound
<1>2. CASE Convert
  <2>1. /\ doc' = FreshDoc(doc.defsOpen) /\ symbols' = symbols /\ runs' = runs + 1
        /\ runs \in Nat /\ doc.defsOpen \in BOOLEAN
    BY <1>2 DEF Convert, Inv, ControlOK, DocOK, Documents
  <2>2. ASSUME runs' <= 1 PROVE SymbolsFound(doc', symbols'.ids)
    <3>1. symbols = NoSymbols
      BY <2>1, <2>2 DEF Placing
    <3> QED
      BY <2>1, <3>1, FreshTidy, NothingPlaced DEF NoSymbols
  <2> QED
    BY <2>1, <2>2 DEF Placing, Begun
<1>3. CASE EndOfFile
  <2>1. Shapes(doc', doc) /\ doc'.defs = doc.defs
    <3>1. Clean(PrimitiveDoc) /\ Shapes(PrimitiveDoc, doc) /\ PrimitiveDoc.defs = doc.defs
          /\ PrimitiveDoc \in Documents
      BY HereNat, StartsTidy, DefsKept
    <3>2. doc' = Close(PrimitiveDoc, "svg") /\ "svg" \in Tags
      BY <1>3 DEF EndOfFile, PrimitiveDoc, Tags
    <3> QED
      <4>1. Tidy(PrimitiveDoc)
        BY <3>1, CleanIsTidy
      <4>2. Shapes(doc', PrimitiveDoc) /\ doc'.defs = PrimitiveDoc.defs
        BY <3>1, <3>2, <4>1, CloseType, TagsKeepOrder
      <4> QED
        BY <3>1, <4>2, ShapesTransitive
  <2>2. UNCHANGED <<runs, symbols>> /\ phase = "converting" /\ phase' = "done"
    BY <1>3 DEF EndOfFile
  <2> QED
    BY <2>1, <2>2, SymbolsStay DEF Begun
<1>4. ASSUME Next, ~Convert, ~EndOfFile PROVE Placing' /\ Begun'
  <2>1. runs # 0 /\ runs' = runs
    BY <1>4, EveryStep DEF Begun, Flow, Moves, Reads
  <2>2. CASE Clipping \/ Drawing \/ Filling \/ Texting \/ Structuring
    BY <2>1, <2>2, OthersPlaceNothing, SymbolsStay DEF Begun
  <2>3. CASE Pictures \/ SymbolLibraryList
    BY <2>1, <2>3, PicturesPlace DEF Begun
  <2>4. CASE PolySymbol
    BY <2>1, <2>4, SymbolResolves DEF Begun
  <2> QED
    BY <1>4, <2>2, <2>3, <2>4 DEF Next, Conversion, Symbolising
<1> QED
  BY <1>1, <1>2, <1>3, <1>4

\* In the first conversion every <use> of a symbol, and every symbol the
\* converter believes it has defined, refers to a definition of the document
\* (ensureSymbolDefinition, and the reset in the handler of BEGIN PICTURE).
THEOREM FirstSymbolsResolve == Spec => [](runs <= 1 => SymbolsResolve)
<1>1. Init => Placing /\ Begun /\ ShapesOK /\ Captured
  <2> SUFFICES ASSUME Init PROVE Placing /\ Begun /\ ShapesOK /\ Captured
    OBVIOUS
  <2>1. Tidy(doc) /\ doc.marks = <<>> /\ text.pending = <<>>
    BY FreshFalse DEF Init, FreshText
  <2>2. ShapesOK
    BY <2>1 DEF ShapesOK, Tidy, InView
  <2>3. Placing
    <3>1. symbols = NoSymbols /\ runs = 0
      BY DEF Init
    <3>2. \A s \in Symbols : symbols.ids[s] = NoId
      BY <3>1 DEF NoSymbols
    <3> QED
      BY <2>1, <3>1, <3>2 DEF Placing, SymbolsFound, Resolves
  <2> QED
    BY <2>2, <2>3 DEF Init, Begun, FreshRegion, Captured
<1>2. Spec => []ShapesOK
  BY <1>1, ShapesStep, Invariant, PTL DEF Spec
<1>3. Spec => []Captured
  BY <1>1, CapturedStep, Invariant, PTL DEF Spec
<1>4. Spec => [](Placing /\ Begun)
  BY <1>1, <1>2, <1>3, PlacingStep, AlwaysMeant, Invariant, PTL DEF Spec
<1>5. Placing => (runs <= 1 => SymbolsResolve)
  BY DEF Placing, SymbolsFound, SymbolsResolve
<1> QED
  BY <1>4, <1>5, PTL

----------------------------------------------------------------------------
(* The grouping of the document. Where a file stands in its structures, as *)
(* a function of its commands.                                             *)

CountIn(f, op, n) == Cardinality({k \in 1 .. n : f[k].op = op})
DepthIn(f, n) == CountIn(f, "BEGIN APS BODY", n) - CountIn(f, "END APS", n)
Awaits(f, k) ==
  \E j \in 1 .. k - 1 : f[j].op = "BEGIN APS" /\ \A i \in j + 1 .. k - 1 : f[i].op \notin ApsOps
NestsAt(f, k) ==
  /\ f[k].op \in ApsOps => ((f[k].op = "BEGIN APS BODY") <=> Awaits(f, k))
  /\ f[k].op = "BEGIN PICTURE" => DepthIn(f, k) = 0 /\ ~Awaits(f, k)
  /\ DepthIn(f, k) >= 0
Nests(f, n) == \A k \in 1 .. n : NestsAt(f, k)

LEMMA NestingIs == (WellNested <=> Nests(file, cursor)) /\ (WellNested' <=> Nests(file', cursor'))
<1>1. \A k : Depth(k) = DepthIn(file, k) /\ (FollowsBegin(k) <=> Awaits(file, k))
  BY DEF Depth, Count, DepthIn, CountIn, FollowsBegin, Awaits
<1>2. WellNested <=> Nests(file, cursor)
  BY <1>1 DEF WellNested, Nests, NestsAt
<1>3. WellNested' <=> Nests(file', cursor')
  BY DEF WellNested, Nests, NestsAt, Depth, Count, DepthIn, CountIn, FollowsBegin, Awaits
<1> QED
  BY <1>2, <1>3

LEMMA CountGrows ==
  ASSUME NEW f, NEW op, NEW n \in Nat
  PROVE  /\ CountIn(f, op, 0) = 0 /\ CountIn(f, op, n) \in Nat
         /\ f[n + 1].op = op => CountIn(f, op, n + 1) = CountIn(f, op, n) + 1
         /\ f[n + 1].op # op => CountIn(f, op, n + 1) = CountIn(f, op, n)
<1> DEFINE S(m) == {k \in 1 .. m : f[k].op = op}
<1>1. S(0) = {}
  OBVIOUS
<1>2. IsFiniteSet(S(n))
  <2>1. IsFiniteSet(1 .. n)
    BY FS_Interval
  <2> QED
    BY <2>1, FS_Subset
<1>3. \A m : CountIn(f, op, m) = Cardinality(S(m))
  BY DEF CountIn
<1>4. f[n + 1].op = op => S(n + 1) = S(n) \cup {n + 1} /\ n + 1 \notin S(n)
  OBVIOUS
<1>5. f[n + 1].op # op => S(n + 1) = S(n)
  OBVIOUS
<1> HIDE DEF S
<1>6. Cardinality(S(0)) = 0 /\ Cardinality(S(n)) \in Nat
  BY <1>1, <1>2, FS_EmptySet, FS_CardinalityType
<1>7. f[n + 1].op = op => Cardinality(S(n + 1)) = Cardinality(S(n)) + 1
  BY <1>2, <1>4, FS_AddElement
<1> QED
  BY <1>3, <1>5, <1>6, <1>7

LEMMA DepthGrows ==
  ASSUME NEW f, NEW n \in Nat
  PROVE  /\ DepthIn(f, 0) = 0 /\ DepthIn(f, n) \in Int
         /\ f[n + 1].op = "BEGIN APS BODY" => DepthIn(f, n + 1) = DepthIn(f, n) + 1
         /\ f[n + 1].op = "END APS" => DepthIn(f, n + 1) = DepthIn(f, n) - 1
         /\ f[n + 1].op \notin {"BEGIN APS BODY", "END APS"} => DepthIn(f, n + 1) = DepthIn(f, n)
<1> DEFINE x(m) == CountIn(f, "BEGIN APS BODY", m)
           y(m) == CountIn(f, "END APS", m)
           w == f[n + 1].op
<1>1. /\ x(0) = 0 /\ x(n) \in Nat
      /\ w = "BEGIN APS BODY" => x(n + 1) = x(n) + 1
      /\ w # "BEGIN APS BODY" => x(n + 1) = x(n)
  BY CountGrows
<1>2. /\ y(0) = 0 /\ y(n) \in Nat
      /\ w = "END APS" => y(n + 1) = y(n) + 1
      /\ w # "END APS" => y(n + 1) = y(n)
  BY CountGrows
<1>3. DepthIn(f, 0) = x(0) - y(0) /\ DepthIn(f, n) = x(n) - y(n) /\ DepthIn(f, n + 1) = x(n + 1) - y(n + 1)
  BY DEF DepthIn
<1> HIDE DEF x, y, w
<1>4. PICK a, b, c, d, p, q, r :
        /\ a = x(n) /\ b = y(n) /\ c = x(n + 1) /\ d = y(n + 1)
        /\ p = DepthIn(f, n) /\ q = DepthIn(f, n + 1) /\ r = DepthIn(f, 0)
  OBVIOUS
<1>5. a \in Nat /\ b \in Nat
  BY <1>1, <1>2, <1>4
<1>6. p = a - b /\ q = c - d
  BY <1>3, <1>4
<1>7. r = 0
  <2>1. r = 0 - 0
    BY <1>1, <1>2, <1>3, <1>4
  <2> QED
    BY <2>1
<1>8. /\ w = "BEGIN APS BODY" => c = a + 1 /\ d = b
      /\ w = "END APS" => c = a /\ d = b + 1
      /\ w \notin {"BEGIN APS BODY", "END APS"} => c = a /\ d = b
  BY <1>1, <1>2, <1>4
<1>9. /\ p \in Int /\ r = 0
      /\ w = "BEGIN APS BODY" => q = p + 1
      /\ w = "END APS" => q = p - 1
      /\ w \notin {"BEGIN APS BODY", "END APS"} => q = p
  <2>1. /\ a - b \in Int /\ (a + 1) - b = (a - b) + 1 /\ a - (b + 1) = (a - b) - 1
    BY <1>5
  <2>2. /\ w = "BEGIN APS BODY" => q = (a + 1) - b
        /\ w = "END APS" => q = a - (b + 1)
        /\ w \notin {"BEGIN APS BODY", "END APS"} => q = a - b
    BY <1>6, <1>8
  <2> QED
    BY <1>6, <1>7, <2>1, <2>2
<1> QED
  BY <1>4, <1>9 DEF w

\* What stands in front is not changed by what is read.
LEMMA SameFront ==
  ASSUME NEW f, NEW g, NEW n \in Nat, \A k \in 1 .. n : g[k] = f[k]
  PROVE  /\ DepthIn(g, n) = DepthIn(f, n)
         /\ Awaits(g, n + 1) <=> Awaits(f, n + 1)
         /\ Nests(g, n) <=> Nests(f, n)
<1>1. \A m \in 0 .. n : DepthIn(g, m) = DepthIn(f, m)
  <2> SUFFICES ASSUME NEW m \in 0 .. n PROVE DepthIn(g, m) = DepthIn(f, m)
    OBVIOUS
  <2>1. \A op : {k \in 1 .. m : g[k].op = op} = {k \in 1 .. m : f[k].op = op}
    OBVIOUS
  <2> QED
    BY <2>1 DEF DepthIn, CountIn
<1>2. \A m \in 1 .. n + 1 : Awaits(g, m) <=> Awaits(f, m)
  <2> SUFFICES ASSUME NEW m \in 1 .. n + 1 PROVE Awaits(g, m) <=> Awaits(f, m)
    OBVIOUS
  <2>1. \A j \in 1 .. m - 1 : g[j] = f[j] /\ \A i \in j + 1 .. m - 1 : g[i] = f[i]
    OBVIOUS
  <2> QED
    BY <2>1 DEF Awaits
<1>3. \A k \in 1 .. n : NestsAt(g, k) <=> NestsAt(f, k)
  <2> SUFFICES ASSUME NEW k \in 1 .. n PROVE NestsAt(g, k) <=> NestsAt(f, k)
    OBVIOUS
  <2>1. g[k] = f[k] /\ DepthIn(g, k) = DepthIn(f, k) /\ (Awaits(g, k) <=> Awaits(f, k))
    BY <1>1, <1>2
  <2> QED
    BY <2>1 DEF NestsAt
<1>4. n \in 0 .. n /\ n + 1 \in 1 .. n + 1
  OBVIOUS
<1> QED
  BY <1>1, <1>2, <1>3, <1>4 DEF Nests

LEMMA AwaitsUnfolds ==
  ASSUME NEW f, NEW n \in Nat
  PROVE  Awaits(f, n + 1) <=>
           \E j \in 1 .. n : f[j].op = "BEGIN APS" /\ \A i \in j + 1 .. n : f[i].op \notin ApsOps
<1>1. (n + 1) - 1 = n
  OBVIOUS
<1> QED
  BY <1>1 DEF Awaits

LEMMA AwaitsStep ==
  ASSUME NEW f, NEW n \in Nat
  PROVE  /\ ~Awaits(f, 1)
         /\ f[n + 1].op = "BEGIN APS" => Awaits(f, n + 2)
         /\ f[n + 1].op \in {"BEGIN APS BODY", "END APS"} => ~Awaits(f, n + 2)
         /\ f[n + 1].op \notin ApsOps => (Awaits(f, n + 2) <=> Awaits(f, n + 1))
<1> DEFINE Last(j, m) == f[j].op = "BEGIN APS" /\ \A i \in j + 1 .. m : f[i].op \notin ApsOps
<1>1. /\ Awaits(f, 1) <=> \E j \in 1 .. 0 : Last(j, 0)
      /\ Awaits(f, n + 1) <=> \E j \in 1 .. n : Last(j, n)
      /\ Awaits(f, n + 2) <=> \E j \in 1 .. n + 1 : Last(j, n + 1)
  <2>1. 0 \in Nat /\ n + 1 \in Nat /\ 0 + 1 = 1 /\ (n + 1) + 1 = n + 2
    OBVIOUS
  <2>2. \A m \in Nat : Awaits(f, m + 1) <=> \E j \in 1 .. m : Last(j, m)
    BY AwaitsUnfolds
  <2> HIDE DEF Last
  <2>3. /\ Awaits(f, 0 + 1) <=> \E j \in 1 .. 0 : Last(j, 0)
        /\ Awaits(f, (n + 1) + 1) <=> \E j \in 1 .. n + 1 : Last(j, n + 1)
    BY <2>1, <2>2
  <2> QED
    BY <2>1, <2>2, <2>3
<1>2. f[n + 1].op = "BEGIN APS" => Last(n + 1, n + 1)
  <2>1. (n + 1) + 1 .. n + 1 = {}
    OBVIOUS
  <2> QED
    BY <2>1
<1>3. \A j \in 1 .. n : Last(j, n + 1) <=> Last(j, n) /\ f[n + 1].op \notin ApsOps
  <2> TAKE j \in 1 .. n
  <2>1. j + 1 .. n + 1 = (j + 1 .. n) \cup {n + 1}
    OBVIOUS
  <2> QED
    BY <2>1
<1>4. Last(n + 1, n + 1) => f[n + 1].op = "BEGIN APS"
  OBVIOUS
<1> HIDE DEF Last
<1>5. 1 .. 0 = {} /\ 1 .. n + 1 = (1 .. n) \cup {n + 1}
  OBVIOUS
<1> QED
  BY <1>1, <1>2, <1>3, <1>4, <1>5 DEF ApsOps

----------------------------------------------------------------------------
(* The open elements without the <defs> that may end them.                 *)

Sturdy(d) == d.defsOpen => d.tags # <<>> /\ d.tags[Len(d.tags)] = "defs"
Body(d) == IF d.defsOpen THEN SubSeq(d.tags, 1, Len(d.tags) - 1) ELSE d.tags

\* e is framed as d is.
Framed(e, d) ==
  Sturdy(d) => Sturdy(e) /\ Body(e) = Body(d) /\ e.malformed = d.malformed

LEMMA FramedTransitive ==
  ASSUME NEW d, NEW e, NEW f, Framed(f, e), Framed(e, d)
  PROVE  Framed(f, d)
BY DEF Framed

LEMMA FramedAlike ==
  ASSUME NEW d, NEW e, e.tags = d.tags, e.defsOpen = d.defsOpen, e.malformed = d.malformed
  PROVE  Framed(e, d)
BY DEF Framed, Sturdy, Body

LEMMA DrawFramed ==
  ASSUME NEW d \in Documents, NEW ms
  PROVE  /\ Draw(d, ms).tags = d.tags /\ Draw(d, ms).defsOpen = d.defsOpen
         /\ Draw(d, ms).malformed = d.malformed /\ Framed(Draw(d, ms), d)
<1>1. /\ Draw(d, ms).tags = d.tags /\ Draw(d, ms).defsOpen = d.defsOpen
      /\ Draw(d, ms).malformed = d.malformed
  BY DEF Draw, Documents
<1> QED
  BY <1>1, FramedAlike

\* A tag put behind others, and taken away again.
LEMMA Behind ==
  ASSUME NEW t \in Seq(Tags), NEW tag \in Tags
  PROVE  /\ Append(t, tag) \in Seq(Tags) /\ Len(Append(t, tag)) = Len(t) + 1 /\ Append(t, tag) # <<>>
         /\ \A i \in 1 .. Len(t) : Append(t, tag)[i] = t[i]
         /\ Append(t, tag)[Len(Append(t, tag))] = tag
         /\ SubSeq(Append(t, tag), 1, Len(Append(t, tag)) - 1) = t
<1>1. Append(t, tag) \in Seq(Tags) /\ Len(Append(t, tag)) = Len(t) + 1 /\ Len(t) \in Nat
  OBVIOUS
<1>2. \A i \in 1 .. Len(t) : Append(t, tag)[i] = t[i]
  OBVIOUS
<1>3. Append(t, tag)[Len(t) + 1] = tag
  OBVIOUS
<1>4. SubSeq(Append(t, tag), 1, Len(Append(t, tag)) - 1) = t
  <2>1. (Len(t) + 1) - 1 = Len(t)
    BY <1>1
  <2> QED
    BY <1>1, <1>2, <2>1
<1> QED
  BY <1>1, <1>2, <1>3, <1>4

LEMMA DefineFramed ==
  ASSUME NEW d \in Documents, NEW id, NEW content
  PROVE  Framed(Define(d, id, content), d) /\ Define(d, id, content).defsOpen
<1>1. OpenDefs(d) \in Documents /\ d.tags \in Seq(Tags) /\ "defs" \in Tags
  BY OpenDefsType, DocumentFields DEF Tags
<1>2. /\ Define(d, id, content).tags = OpenDefs(d).tags
      /\ Define(d, id, content).defsOpen = OpenDefs(d).defsOpen
      /\ Define(d, id, content).malformed = OpenDefs(d).malformed
  BY <1>1 DEF Define, WriteId, Documents
<1>3. Framed(OpenDefs(d), d) /\ OpenDefs(d).defsOpen
  <2>1. CASE d.defsOpen
    BY <2>1, FramedAlike DEF OpenDefs
  <2>2. CASE ~d.defsOpen
    <3>1. /\ OpenDefs(d).tags = Append(d.tags, "defs") /\ OpenDefs(d).defsOpen
          /\ OpenDefs(d).malformed = d.malformed
      BY <2>2 DEF OpenDefs, Open, Documents
    <3> QED
      BY <1>1, <2>2, <3>1, Behind DEF Framed, Sturdy, Body
  <2> QED
    BY <2>1, <2>2
<1> QED
  BY <1>2, <1>3, FramedAlike, FramedTransitive

LEMMA CloseOpenDefsFramed ==
  ASSUME NEW d \in Documents
  PROVE  Framed(CloseOpenDefs(d), d) /\ ~CloseOpenDefs(d).defsOpen
<1>1. CASE d.defsOpen
  <2>1. Close(d, "defs") \in Documents
    BY CloseType DEF Tags
  <2>2. /\ ~CloseOpenDefs(d).defsOpen /\ CloseOpenDefs(d).tags = Close(d, "defs").tags
        /\ CloseOpenDefs(d).malformed = Close(d, "defs").malformed
    BY <1>1, <2>1 DEF CloseOpenDefs, Documents
  <2>3. Sturdy(d) => /\ Close(d, "defs").tags = SubSeq(d.tags, 1, Len(d.tags) - 1)
                     /\ Close(d, "defs").malformed = d.malformed
    BY <1>1 DEF Sturdy, Close, Documents
  <2> QED
    BY <1>1, <2>2, <2>3 DEF Framed, Sturdy, Body
<1>2. CASE ~d.defsOpen
  BY <1>2, FramedAlike DEF CloseOpenDefs
<1> QED
  BY <1>1, <1>2

\* The group of a symbol is opened and closed.
LEMMA GroupClosedAgain ==
  ASSUME NEW d \in Documents, NEW id, SymbolsOK
  PROVE  /\ Framed(Close(DrawSymbol(d, id), "g"), d)
         /\ Close(DrawSymbol(d, id), "g").defsOpen = d.defsOpen
<1> DEFINE e == PlacementGroup(d)
           f == DrawSymbol(d, id)
<1>1. e \in Documents /\ d.tags \in Seq(Tags) /\ "g" \in Tags
  BY PlacementGroupType, DocumentFields
<1>2. e.tags = Append(d.tags, "g") /\ e.defsOpen = d.defsOpen /\ e.malformed = d.malformed
  BY PlacementGroupType
<1> DEFINE ms == <<Mark(Here, <<Here>>, NoId, NoId, id, 0)>>
<1>3. f = Draw(e, ms)
  BY DEF DrawSymbol, PlacementGroup
<1> HIDE DEF e, ms
<1>4. f.tags = e.tags /\ f.defsOpen = e.defsOpen /\ f.malformed = e.malformed
  BY <1>1, <1>3, DrawFramed
<1>5. f = [e EXCEPT !.marks = f.marks]
  BY <1>1, <1>3 DEF Draw, Documents
<1> HIDE DEF f
<1>6. Close(f, "g") = [f EXCEPT !.tags = SubSeq(@, 1, Len(@) - 1)]
  BY <1>1, <1>2, <1>4, Behind DEF Close
<1>7. /\ Close(f, "g").tags = SubSeq(f.tags, 1, Len(f.tags) - 1)
      /\ Close(f, "g").defsOpen = f.defsOpen /\ Close(f, "g").malformed = f.malformed
  BY <1>1, <1>5, <1>6 DEF Documents
<1>8. Close(f, "g").tags = d.tags
  BY <1>1, <1>2, <1>4, <1>7, Behind
<1> QED
  BY <1>2, <1>4, <1>7, <1>8, FramedAlike DEF f

----------------------------------------------------------------------------
(* The elements of the open structures: <g>, or <g> and <a>, for each, one *)
(* within the other. h says how many elements the first k of them have.    *)

Wide(node) == IF node.anchor THEN 2 ELSE 1
Outlines(h, t, stack, n) ==
  /\ h \in [0 .. n -> Nat] /\ h[0] = 1 /\ h[n] = Len(t) /\ t[1] = "svg"
  /\ \A k \in 1 .. n :
       /\ h[k] = h[k - 1] + Wide(stack[k]) /\ t[h[k - 1] + 1] = "g"
       /\ stack[k].anchor => t[h[k - 1] + 2] = "a"
  /\ \A k, m \in 0 .. n : k < m => h[k] < h[m]
Outline(t, stack, n) == \E h : Outlines(h, t, stack, n)

LEMMA OutlineBare ==
  ASSUME NEW stack
  PROVE  Outline(<<"svg">>, stack, 0)
<1> DEFINE h == [k \in 0 .. 0 |-> 1]
<1>1. h \in [0 .. 0 -> Nat] /\ h[0] = 1 /\ Len(<<"svg">>) = 1 /\ <<"svg">>[1] = "svg"
  OBVIOUS
<1>2. 1 .. 0 = {} /\ \A k, m \in 0 .. 0 : ~(k < m)
  OBVIOUS
<1> HIDE DEF h
<1>3. Outlines(h, <<"svg">>, stack, 0)
  BY <1>1, <1>2 DEF Outlines
<1> QED
  BY <1>3 DEF Outline

\* A structure more.
LEMMA OutlineGrows ==
  ASSUME NEW n \in Nat, NEW t \in Seq(Tags), NEW u \in Seq(Tags), NEW stack, NEW new, Outline(t, stack, n),
         \A k \in 1 .. n : new[k].anchor = stack[k].anchor,
         \A i \in 1 .. Len(t) : u[i] = t[i], Len(u) = Len(t) + Wide(new[n + 1]),
         u[Len(t) + 1] = "g", new[n + 1].anchor => u[Len(t) + 2] = "a"
  PROVE  Outline(u, new, n + 1)
<1>1. PICK h : Outlines(h, t, stack, n)
  BY DEF Outline
<1> DEFINE g == [k \in 0 .. n + 1 |-> IF k = n + 1 THEN Len(u) ELSE h[k]]
<1>2. Len(t) \in Nat /\ Len(u) \in Nat /\ Len(t) < Len(u)
  BY DEF Wide
<1>3. h \in [0 .. n -> Nat] /\ h[0] = 1 /\ h[n] = Len(t) /\ \A k, m \in 0 .. n : k < m => h[k] < h[m]
  BY <1>1 DEF Outlines
<1>4. /\ g \in [0 .. n + 1 -> Nat] /\ g[n + 1] = Len(u) /\ \A k \in 0 .. n : g[k] = h[k]
  BY <1>2, <1>3
<1> HIDE DEF g
<1>5. \A k \in 0 .. n : h[k] <= Len(t) /\ h[k] \in Nat
  <2> SUFFICES ASSUME NEW k \in 0 .. n PROVE h[k] <= Len(t)
    BY <1>3
  <2>1. CASE k = n
    BY <1>3, <2>1
  <2>2. CASE k < n
    BY <1>3, <2>2
  <2> QED
    BY <2>1, <2>2
<1>6. \A k, m \in 0 .. n + 1 : k < m => g[k] < g[m]
  <2> SUFFICES ASSUME NEW k \in 0 .. n + 1, NEW m \in 0 .. n + 1, k < m PROVE g[k] < g[m]
    OBVIOUS
  <2>1. CASE m = n + 1
    BY <1>2, <1>4, <1>5, <2>1
  <2>2. CASE m # n + 1
    <3>1. k \in 0 .. n /\ m \in 0 .. n
      BY <2>2
    <3> QED
      BY <1>3, <1>4, <3>1
  <2> QED
    BY <2>1, <2>2
<1>7. ASSUME NEW k \in 1 .. n + 1
      PROVE  /\ g[k] = g[k - 1] + Wide(new[k]) /\ u[g[k - 1] + 1] = "g"
             /\ new[k].anchor => u[g[k - 1] + 2] = "a"
  <2>1. CASE k = n + 1
    <3>1. g[k] = Len(u) /\ g[k - 1] = Len(t)
      BY <1>3, <1>4, <2>1
    <3> QED
      BY <2>1, <3>1
  <2>2. CASE k # n + 1
    <3>1. k \in 1 .. n /\ k - 1 \in 0 .. n /\ k \in 0 .. n /\ g[k] = h[k] /\ g[k - 1] = h[k - 1]
      BY <1>4, <2>2
    <3>2. /\ h[k] = h[k - 1] + Wide(stack[k]) /\ t[h[k - 1] + 1] = "g"
          /\ stack[k].anchor => t[h[k - 1] + 2] = "a"
      BY <1>1, <3>1 DEF Outlines
    <3>3. Wide(new[k]) = Wide(stack[k]) /\ new[k].anchor = stack[k].anchor
      BY <3>1 DEF Wide
    <3>4. h[k - 1] + 1 \in 1 .. Len(t) /\ (stack[k].anchor => h[k - 1] + 2 \in 1 .. Len(t))
      <4>1. h[k] \in Nat /\ h[k] <= Len(t) /\ h[k - 1] \in Nat
        BY <1>5, <3>1
      <4>2. PICK p, q, l : p = h[k - 1] /\ q = h[k] /\ l = Len(t)
        OBVIOUS
      <4>3. p \in Nat /\ q \in Nat /\ l \in Nat /\ q <= l /\ q = p + Wide(stack[k])
        BY <1>2, <3>2, <4>1, <4>2
      <4>4. p + 1 \in 1 .. l /\ (stack[k].anchor => p + 2 \in 1 .. l)
        BY <4>3 DEF Wide
      <4> QED
        BY <4>2, <4>4
    <3> QED
      BY <3>1, <3>2, <3>3, <3>4
  <2> QED
    BY <2>1, <2>2
<1>8. g[0] = 1 /\ u[1] = "svg"
  <2>1. 0 \in 0 .. n /\ 1 \in 1 .. Len(t) /\ t[1] = "svg"
    BY <1>1, <1>2, <1>3, <1>5 DEF Outlines
  <2> QED
    BY <1>3, <1>4, <2>1
<1>9. Outlines(g, u, new, n + 1)
  BY <1>4, <1>6, <1>7, <1>8 DEF Outlines
<1> QED
  BY <1>9 DEF Outline

\* The tags of the last structure, and those without it.
LEMMA OutlineEnds ==
  ASSUME NEW n \in Nat, NEW t \in Seq(Tags), NEW stack, Outline(t, stack, n + 1)
  PROVE  /\ Len(t) \in Nat /\ Len(t) - Wide(stack[n + 1]) \in Nat \ {0}
         /\ t[Len(t) - Wide(stack[n + 1]) + 1] = "g"
         /\ stack[n + 1].anchor => t[Len(t)] = "a"
         /\ \A new, u : /\ u \in Seq(Tags) /\ Len(u) = Len(t) - Wide(stack[n + 1])
                        /\ \A i \in 1 .. Len(u) : u[i] = t[i]
                        /\ \A k \in 1 .. n : new[k].anchor = stack[k].anchor
                        => Outline(u, new, n)
<1>1. PICK h : Outlines(h, t, stack, n + 1)
  BY DEF Outline
<1>2. /\ h \in [0 .. n + 1 -> Nat] /\ h[0] = 1 /\ h[n + 1] = Len(t) /\ t[1] = "svg" /\ Len(t) \in Nat
      /\ \A k, m \in 0 .. n + 1 : k < m => h[k] < h[m]
  BY <1>1 DEF Outlines
<1>3. n + 1 \in 1 .. n + 1 /\ (n + 1) - 1 = n /\ n \in 0 .. n + 1
  OBVIOUS
<1>4. /\ h[n + 1] = h[n] + Wide(stack[n + 1]) /\ t[h[n] + 1] = "g"
      /\ stack[n + 1].anchor => t[h[n] + 2] = "a"
  BY <1>1, <1>3 DEF Outlines
<1>5. \A k \in 0 .. n : h[k] >= 1 /\ h[k] <= h[n] /\ h[k] \in Nat
  <2> SUFFICES ASSUME NEW k \in 0 .. n PROVE h[k] >= 1 /\ h[k] <= h[n]
    BY <1>2
  <2>1. k = 0 \/ h[0] < h[k]
    BY <1>2
  <2>2. k = n \/ h[k] < h[n]
    BY <1>2
  <2> QED
    BY <1>2, <1>3, <2>1, <2>2
<1>6. n \in 0 .. n /\ Wide(stack[n + 1]) \in Nat
  BY DEF Wide
<1>7. Len(t) - Wide(stack[n + 1]) = h[n] /\ h[n] \in Nat \ {0}
  BY <1>2, <1>4, <1>5, <1>6
<1>8. stack[n + 1].anchor => t[Len(t)] = "a"
  BY <1>2, <1>4, <1>7 DEF Wide
<1>9. ASSUME NEW new, NEW u \in Seq(Tags), Len(u) = Len(t) - Wide(stack[n + 1]),
             \A i \in 1 .. Len(u) : u[i] = t[i],
             \A k \in 1 .. n : new[k].anchor = stack[k].anchor
      PROVE  Outline(u, new, n)
  <2> DEFINE g == [k \in 0 .. n |-> h[k]]
  <2>1. g \in [0 .. n -> Nat] /\ \A k \in 0 .. n : g[k] = h[k]
    BY <1>2
  <2> HIDE DEF g
  <2>2. Len(u) = h[n] /\ Len(u) \in Nat
    BY <1>7, <1>9
  <2>3. g[0] = 1 /\ g[n] = Len(u) /\ u[1] = "svg"
    <3>1. 0 \in 0 .. n /\ n \in 0 .. n /\ 1 \in 1 .. Len(u)
      BY <1>5, <2>2
    <3> QED
      BY <1>2, <1>9, <2>1, <2>2, <3>1
  <2>4. \A k, m \in 0 .. n : k < m => g[k] < g[m]
    BY <1>2, <2>1
  <2>5. ASSUME NEW k \in 1 .. n
        PROVE  /\ g[k] = g[k - 1] + Wide(new[k]) /\ u[g[k - 1] + 1] = "g"
               /\ new[k].anchor => u[g[k - 1] + 2] = "a"
    <3>1. k \in 1 .. n + 1 /\ k \in 0 .. n /\ k - 1 \in 0 .. n /\ g[k] = h[k] /\ g[k - 1] = h[k - 1]
      BY <2>1
    <3>2. /\ h[k] = h[k - 1] + Wide(stack[k]) /\ t[h[k - 1] + 1] = "g"
          /\ stack[k].anchor => t[h[k - 1] + 2] = "a"
      BY <1>1, <3>1 DEF Outlines
    <3>3. Wide(new[k]) = Wide(stack[k]) /\ new[k].anchor = stack[k].anchor
      BY <1>9 DEF Wide
    <3>4. h[k - 1] + 1 \in 1 .. Len(u) /\ (stack[k].anchor => h[k - 1] + 2 \in 1 .. Len(u))
      BY <1>5, <2>2, <3>1, <3>2 DEF Wide
    <3> QED
      BY <1>9, <3>1, <3>2, <3>3, <3>4
  <2>6. Outlines(g, u, new, n)
    BY <2>1, <2>3, <2>4, <2>5 DEF Outlines
  <2> QED
    BY <2>6 DEF Outline
<1>10. t[Len(t) - Wide(stack[n + 1]) + 1] = "g"
  BY <1>4, <1>7
<1> QED
  BY <1>2, <1>7, <1>8, <1>9, <1>10

----------------------------------------------------------------------------
(* What is written for structures.                                         *)

LEMMA OutlineSame ==
  ASSUME NEW n, NEW t, NEW stack, NEW new, Outline(t, stack, n), \A k \in 1 .. n : new[k].anchor = stack[k].anchor
  PROVE  Outline(t, new, n)
<1>1. PICK h : Outlines(h, t, stack, n)
  BY DEF Outline
<1>2. \A k \in 1 .. n : Wide(new[k]) = Wide(stack[k])
  BY DEF Wide
<1>3. Outlines(h, t, new, n)
  BY <1>1, <1>2 DEF Outlines
<1> QED
  BY <1>3 DEF Outline

LEMMA BodyType ==
  ASSUME NEW d \in Documents, Sturdy(d)
  PROVE  Body(d) \in Seq(Tags)
<1>1. d.tags \in Seq(Tags) /\ (d.defsOpen => d.tags # <<>>)
  BY DocumentFields DEF Sturdy
<1>2. d.tags # <<>> => SubSeq(d.tags, 1, Len(d.tags) - 1) \in Seq(Tags)
  BY <1>1
<1> QED
  BY <1>1, <1>2 DEF Body

LEMMA OpenGroupTags ==
  ASSUME NEW d \in Documents, Sturdy(d), NEW id \in Identifiers, NEW linked \in BOOLEAN
  PROVE  LET e == OpenGroup(d, id, linked) IN
         /\ ~e.defsOpen /\ e.malformed = d.malformed /\ e.tags \in Seq(Tags)
         /\ Len(e.tags) = Len(Body(d)) + (IF linked THEN 2 ELSE 1)
         /\ \A i \in 1 .. Len(Body(d)) : e.tags[i] = Body(d)[i]
         /\ e.tags[Len(Body(d)) + 1] = "g" /\ (linked => e.tags[Len(Body(d)) + 2] = "a")
<1> DEFINE c == CloseOpenDefs(d)
           o == Open(c, "g")
           g == WriteId(o, id)
           e == OpenGroup(d, id, linked)
<1>1. c \in Documents /\ ~c.defsOpen /\ c.tags = Body(d) /\ c.malformed = d.malformed
  BY CloseOpenDefsType, CloseOpenDefsFramed DEF Framed, Sturdy, Body
<1>2. Body(d) \in Seq(Tags) /\ "g" \in Tags /\ "a" \in Tags
  BY BodyType DEF Tags
<1> HIDE DEF c
<1>3. /\ o \in Documents /\ o.tags = Append(Body(d), "g") /\ ~o.defsOpen
      /\ o.malformed = d.malformed
  BY <1>1, <1>2, OpenType DEF Open, Documents
<1> HIDE DEF o
<1>4. /\ g \in Documents /\ g.tags = o.tags /\ g.defsOpen = o.defsOpen
      /\ g.malformed = o.malformed
  BY <1>3, WriteIdType DEF WriteId, Documents
<1> HIDE DEF g
<1>5. /\ ~g.defsOpen /\ g.malformed = d.malformed /\ g.tags \in Seq(Tags)
      /\ Len(g.tags) = Len(Body(d)) + 1 /\ g.tags[Len(Body(d)) + 1] = "g"
      /\ \A i \in 1 .. Len(Body(d)) : g.tags[i] = Body(d)[i]
  BY <1>2, <1>3, <1>4, Behind
<1>6. e = IF linked THEN Open(g, "a") ELSE g
  BY DEF OpenGroup, g, o, c
<1>7. CASE ~linked
  BY <1>5, <1>6, <1>7
<1>8. CASE linked
  <2>1. e.tags = Append(g.tags, "a") /\ e.defsOpen = g.defsOpen /\ e.malformed = g.malformed
    BY <1>4, <1>6, <1>8 DEF Open, Documents
  <2> HIDE DEF e
  <2>2. /\ Append(g.tags, "a") \in Seq(Tags) /\ Len(Append(g.tags, "a")) = Len(g.tags) + 1
        /\ \A i \in 1 .. Len(g.tags) : Append(g.tags, "a")[i] = g.tags[i]
        /\ Append(g.tags, "a")[Len(Append(g.tags, "a"))] = "a"
    BY <1>2, <1>5, Behind
  <2>3. PICK l : l = Len(Body(d))
    OBVIOUS
  <2>4. l \in Nat /\ Len(g.tags) = l + 1 /\ Len(e.tags) = l + 2 /\ e.tags[l + 2] = "a"
    BY <1>2, <1>5, <2>1, <2>2, <2>3
  <2>5. l + 1 \in 1 .. Len(g.tags) /\ \A i \in 1 .. l : i \in 1 .. Len(g.tags)
    BY <2>4
  <2>6. e.tags[l + 1] = "g" /\ \A i \in 1 .. l : e.tags[i] = Body(d)[i]
    BY <1>5, <2>1, <2>2, <2>3, <2>5
  <2> QED
    BY <1>5, <1>8, <2>1, <2>2, <2>3, <2>4, <2>6 DEF e
<1> QED
  BY <1>7, <1>8 DEF e

\* An element that is the innermost one is closed.
LEMMA ClosedLast ==
  ASSUME NEW d \in Documents, NEW tag \in Tags, Len(d.tags) >= 1, d.tags[Len(d.tags)] = tag
  PROVE  /\ Close(d, tag) \in Documents /\ Close(d, tag).malformed = d.malformed
         /\ Close(d, tag).defsOpen = d.defsOpen
         /\ Len(Close(d, tag).tags) = Len(d.tags) - 1
         /\ \A i \in 1 .. Len(d.tags) - 1 : Close(d, tag).tags[i] = d.tags[i]
<1>1. d.tags \in Seq(Tags) /\ Len(d.tags) \in Nat /\ d.tags # <<>>
  BY DocumentFields
<1>2. /\ Close(d, tag).tags = SubSeq(d.tags, 1, Len(d.tags) - 1) /\ Close(d, tag).malformed = d.malformed
      /\ Close(d, tag).defsOpen = d.defsOpen
  BY <1>1 DEF Close, Documents
<1>3. /\ Len(SubSeq(d.tags, 1, Len(d.tags) - 1)) = Len(d.tags) - 1
      /\ \A i \in 1 .. Len(d.tags) - 1 : SubSeq(d.tags, 1, Len(d.tags) - 1)[i] = d.tags[i]
  BY <1>1
<1> QED
  BY <1>2, <1>3, CloseType

LEMMA CloseGroupTags ==
  ASSUME NEW d \in Documents, NEW linked \in BOOLEAN, NEW n \in Nat,
         Len(d.tags) = n + (IF linked THEN 2 ELSE 1), d.tags[n + 1] = "g", linked => d.tags[n + 2] = "a"
  PROVE  LET e == CloseGroup(d, linked) IN
         /\ e \in Documents /\ e.defsOpen = d.defsOpen /\ e.malformed = d.malformed
         /\ Len(e.tags) = n /\ \A i \in 1 .. n : e.tags[i] = d.tags[i]
<1>1. "a" \in Tags /\ "g" \in Tags
  BY DEF Tags
<1>2. CASE ~linked
  <2>1. Len(d.tags) = n + 1 /\ CloseGroup(d, linked) = Close(d, "g") /\ (n + 1) - 1 = n
    BY <1>2 DEF CloseGroup
  <2> QED
    BY <1>1, <2>1, ClosedLast
<1>3. CASE linked
  <2> DEFINE c == Close(d, "a")
  <2>1. Len(d.tags) = n + 2 /\ CloseGroup(d, linked) = Close(c, "g")
    BY <1>3 DEF CloseGroup
  <2>2. /\ c \in Documents /\ c.malformed = d.malformed /\ c.defsOpen = d.defsOpen
        /\ Len(c.tags) = Len(d.tags) - 1
        /\ \A i \in 1 .. Len(d.tags) - 1 : c.tags[i] = d.tags[i]
    <3>1. Len(d.tags) >= 1 /\ d.tags[Len(d.tags)] = "a"
      BY <1>3, <2>1
    <3> QED
      BY <1>1, <3>1, ClosedLast
  <2> HIDE DEF c
  <2>3. Len(c.tags) = n + 1 /\ c.tags[n + 1] = "g" /\ \A i \in 1 .. n : c.tags[i] = d.tags[i]
    <3>1. Len(d.tags) - 1 = n + 1 /\ n + 1 \in 1 .. n + 1 /\ \A i \in 1 .. n : i \in 1 .. n + 1
      BY <2>1
    <3> QED
      BY <2>2, <3>1
  <2>4. (n + 1) - 1 = n /\ n + 1 >= 1
    OBVIOUS
  <2>5. /\ Close(c, "g") \in Documents /\ Close(c, "g").malformed = c.malformed
        /\ Close(c, "g").defsOpen = c.defsOpen
        /\ Len(Close(c, "g").tags) = Len(c.tags) - 1
        /\ \A i \in 1 .. Len(c.tags) - 1 : Close(c, "g").tags[i] = c.tags[i]
    <3>1. Len(c.tags) >= 1 /\ c.tags[Len(c.tags)] = "g"
      BY <2>3, <2>4
    <3> QED
      BY <1>1, <2>2, <3>1, ClosedLast
  <2>6. Len(c.tags) - 1 = n
    BY <2>3, <2>4
  <2> QED
    BY <2>1, <2>2, <2>3, <2>5, <2>6
<1> QED
  BY <1>2, <1>3

----------------------------------------------------------------------------
(* What the first conversion has written of the structures it has read, as *)
(* long as the file nests and ends its structures outside <defs>.          *)

Guarded(f, k) ==
  f[k].op = "END APS" =>
    \A i \in 1 .. k - 1 : f[i].op \in OpensDefs => \E j \in i + 1 .. k - 1 : f[j].op \in ClosesDefs
Orderly(f, n) == \A k \in 1 .. n : NestsAt(f, k) /\ Guarded(f, k)

\* <defs> may be open.
MayBeOpen(f, n) == \E i \in 1 .. n : f[i].op \in OpensDefs /\ \A j \in i + 1 .. n : f[j].op \notin ClosesDefs

Waiting(f, n) == IF Awaits(f, n + 1) THEN 1 ELSE 0

\* After n commands of f the document is d, the open structures are stack.
Framing(f, n, d, stack) ==
  /\ DepthIn(f, n) \in Nat /\ Len(stack) = DepthIn(f, n) + Waiting(f, n)
  /\ ~d.malformed /\ Sturdy(d) /\ Outline(Body(d), stack, DepthIn(f, n))
  /\ d.defsOpen => MayBeOpen(f, n)

LEMMA OrderlyIs ==
  /\ Orderly(file, cursor) <=> WellNested /\ EndsOutsideDefs
  /\ Orderly(file', cursor') <=> WellNested' /\ EndsOutsideDefs'
<1>1. Orderly(file, cursor) <=> WellNested /\ EndsOutsideDefs
  BY NestingIs DEF Orderly, Guarded, Nests, EndsOutsideDefs
<1>2. EndsOutsideDefs' <=> \A k \in 1 .. cursor' : Guarded(file', k)
  BY DEF Guarded, EndsOutsideDefs
<1>3. Orderly(file', cursor') <=> WellNested' /\ EndsOutsideDefs'
  BY <1>2, NestingIs DEF Orderly, Nests
<1> QED
  BY <1>1, <1>3

\* A file read on: g has what f has, and one command more.
LEMMA OrderlyFront ==
  ASSUME NEW f, NEW g, NEW n \in Nat, \A k \in 1 .. n : g[k] = f[k], Orderly(g, n + 1)
  PROVE  Orderly(f, n) /\ NestsAt(g, n + 1) /\ Guarded(g, n + 1)
<1>1. n + 1 \in 1 .. n + 1 /\ \A k \in 1 .. n : k \in 1 .. n + 1
  OBVIOUS
<1>2. Nests(g, n) /\ NestsAt(g, n + 1) /\ Guarded(g, n + 1) /\ \A k \in 1 .. n : Guarded(g, k)
  BY <1>1 DEF Orderly, Nests
<1>3. Nests(f, n)
  BY <1>2, SameFront
<1>4. ASSUME NEW k \in 1 .. n PROVE Guarded(f, k)
  <2>1. g[k] = f[k] /\ \A i \in 1 .. k - 1 : g[i] = f[i] /\ \A j \in i + 1 .. k - 1 : g[j] = f[j]
    OBVIOUS
  <2>2. Guarded(g, k)
    BY <1>2
  <2> QED
    BY <2>1, <2>2 DEF Guarded
<1> QED
  BY <1>2, <1>3, <1>4 DEF Orderly, Nests

LEMMA MayStayOpen ==
  ASSUME NEW f, NEW g, NEW n \in Nat, \A k \in 1 .. n : g[k] = f[k]
  PROVE  /\ g[n + 1].op \in OpensDefs => MayBeOpen(g, n + 1)
         /\ MayBeOpen(f, n) /\ g[n + 1].op \notin ClosesDefs => MayBeOpen(g, n + 1)
         /\ Guarded(g, n + 1) /\ g[n + 1].op = "END APS" => ~MayBeOpen(f, n)
<1>1. g[n + 1].op \in OpensDefs => MayBeOpen(g, n + 1)
  <2>1. n + 1 \in 1 .. n + 1 /\ (n + 1) + 1 .. n + 1 = {}
    OBVIOUS
  <2> QED
    BY <2>1 DEF MayBeOpen
<1>2. ASSUME MayBeOpen(f, n), g[n + 1].op \notin ClosesDefs PROVE MayBeOpen(g, n + 1)
  <2>1. PICK i \in 1 .. n : f[i].op \in OpensDefs /\ \A j \in i + 1 .. n : f[j].op \notin ClosesDefs
    BY <1>2 DEF MayBeOpen
  <2>2. i \in 1 .. n + 1 /\ g[i] = f[i]
    OBVIOUS
  <2>3. ASSUME NEW j \in i + 1 .. n + 1 PROVE g[j].op \notin ClosesDefs
    <3>1. CASE j = n + 1
      BY <1>2, <3>1
    <3>2. CASE j # n + 1
      <4>1. j \in i + 1 .. n /\ j \in 1 .. n
        BY <3>2
      <4> QED
        BY <2>1, <4>1
    <3> QED
      BY <3>1, <3>2
  <2> QED
    BY <2>1, <2>2, <2>3 DEF MayBeOpen
<1>3. ASSUME Guarded(g, n + 1), g[n + 1].op = "END APS", MayBeOpen(f, n) PROVE FALSE
  <2>1. PICK i \in 1 .. n : f[i].op \in OpensDefs /\ \A j \in i + 1 .. n : f[j].op \notin ClosesDefs
    BY <1>3 DEF MayBeOpen
  <2>2. (n + 1) - 1 = n
    OBVIOUS
  <2>3. \A k \in 1 .. n : g[k].op \in OpensDefs => \E j \in k + 1 .. n : g[j].op \in ClosesDefs
    BY <1>3, <2>2 DEF Guarded
  <2>4. PICK j \in i + 1 .. n : g[j].op \in ClosesDefs
    BY <2>1, <2>3
  <2>5. j \in 1 .. n
    BY <2>1
  <2> QED
    BY <2>1, <2>4, <2>5
<1> QED
  BY <1>1, <1>2, <1>3

LEMMA Sums == \A n \in Nat : n + 0 = n /\ (n + 1) + 1 = n + 2 /\ (n + 1) + 0 = n + 1
  OBVIOUS

LEMMA NodeBehind ==
  ASSUME NEW stack \in Seq(Nodes), NEW node \in Nodes
  PROVE  /\ Append(stack, node) \in Seq(Nodes) /\ Len(Append(stack, node)) = Len(stack) + 1
         /\ \A k \in 1 .. Len(stack) : Append(stack, node)[k] = stack[k]
  OBVIOUS

\* Commands that are neither of structures nor begin a picture.
LEMMA FramingPlain ==
  ASSUME NEW f, NEW g, NEW n \in Nat, \A k \in 1 .. n : g[k] = f[k],
         NEW d, NEW e, NEW stack, Framing(f, n, d, stack), Framed(e, d), g[n + 1].op \notin ApsOps,
         e.defsOpen => g[n + 1].op \in OpensDefs \/ (d.defsOpen /\ g[n + 1].op \notin ClosesDefs)
  PROVE  Framing(g, n + 1, e, stack)
<1>1. DepthIn(g, n + 1) = DepthIn(f, n)
  <2>1. g[n + 1].op \notin {"BEGIN APS BODY", "END APS"}
    BY DEF ApsOps
  <2>2. DepthIn(g, n + 1) = DepthIn(g, n)
    BY <2>1, DepthGrows
  <2> QED
    BY <2>2, SameFront
<1>2. Waiting(g, n + 1) = Waiting(f, n)
  <2>1. (n + 1) + 1 = n + 2
    OBVIOUS
  <2>2. Awaits(g, n + 2) <=> Awaits(f, n + 1)
    BY AwaitsStep, SameFront
  <2> QED
    BY <2>1, <2>2 DEF Waiting
<1>3. e.defsOpen => MayBeOpen(g, n + 1)
  BY MayStayOpen DEF Framing
<1> QED
  BY <1>1, <1>2, <1>3 DEF Framing, Framed

\* A picture begins outside all structures.
LEMMA FramingPicture ==
  ASSUME NEW f, NEW g, NEW n \in Nat, \A k \in 1 .. n : g[k] = f[k], NEW d, NEW stack,
         Framing(f, n, d, stack), NestsAt(g, n + 1), g[n + 1].op = "BEGIN PICTURE"
  PROVE  Framing(g, n + 1, FreshDoc(FALSE), stack)
<1>1. DepthIn(g, n + 1) = DepthIn(f, n)
  <2>1. g[n + 1].op \notin {"BEGIN APS BODY", "END APS"}
    OBVIOUS
  <2>2. DepthIn(g, n + 1) = DepthIn(g, n)
    BY <2>1, DepthGrows
  <2> QED
    BY <2>2, SameFront
<1>2. Waiting(g, n + 1) = Waiting(f, n)
  <2>1. g[n + 1].op \notin ApsOps
    BY DEF ApsOps
  <2>2. Awaits(g, n + 2) <=> Awaits(f, n + 1)
    BY <2>1, AwaitsStep, SameFront
  <2> QED
    BY <2>2, Sums DEF Waiting
<1>3. DepthIn(g, n + 1) = 0
  BY DEF NestsAt
<1>4. Outline(<<"svg">>, stack, 0)
  BY OutlineBare
<1> QED
  BY <1>1, <1>2, <1>3, <1>4 DEF Framing, FreshDoc, Sturdy, Body

\* BEGIN APS
LEMMA FramingBegun ==
  ASSUME NEW f, NEW g, NEW n \in Nat, \A k \in 1 .. n : g[k] = f[k],
         NEW d, NEW e, NEW stack \in Seq(Nodes), Framing(f, n, d, stack), Framed(e, d), e.defsOpen = d.defsOpen,
         NestsAt(g, n + 1), g[n + 1].op = "BEGIN APS", NEW node \in Nodes
  PROVE  Framing(g, n + 1, e, Append(stack, node))
<1>1. DepthIn(g, n + 1) = DepthIn(f, n)
  <2>1. g[n + 1].op \notin {"BEGIN APS BODY", "END APS"}
    OBVIOUS
  <2>2. DepthIn(g, n + 1) = DepthIn(g, n)
    BY <2>1, DepthGrows
  <2> QED
    BY <2>2, SameFront
<1>2. Waiting(g, n + 1) = 1 /\ Waiting(f, n) = 0
  <2>1. (n + 1) + 1 = n + 2
    BY Sums
  <2>2. Awaits(g, n + 2)
    BY AwaitsStep
  <2>3. ~Awaits(g, n + 1)
    BY DEF NestsAt, ApsOps
  <2>4. ~Awaits(f, n + 1)
    BY <2>3, SameFront
  <2> QED
    BY <2>1, <2>2, <2>4 DEF Waiting
<1>3. DepthIn(f, n) \in Nat /\ Len(stack) = DepthIn(f, n)
  <2>1. PICK m : m = DepthIn(f, n)
    OBVIOUS
  <2>2. m \in Nat /\ Len(stack) = m + 0
    BY <1>2, <2>1 DEF Framing
  <2> QED
    BY <2>1, <2>2, Sums
<1>4. Len(Append(stack, node)) = DepthIn(f, n) + 1 /\ \A k \in 1 .. DepthIn(f, n) : Append(stack, node)[k] = stack[k]
  BY <1>3, NodeBehind
<1>5. Outline(Body(d), stack, DepthIn(f, n))
  BY DEF Framing
<1>6. Outline(Body(d), Append(stack, node), DepthIn(f, n))
  BY <1>4, <1>5, OutlineSame
<1>7. e.defsOpen => MayBeOpen(g, n + 1)
  <2>1. g[n + 1].op \notin ClosesDefs
    BY DEF ClosesDefs, Traits
  <2> QED
    BY <2>1, MayStayOpen DEF Framing
<1> QED
  BY <1>1, <1>2, <1>3, <1>4, <1>6, <1>7 DEF Framing, Framed

LEMMA Differences ==
  /\ \A m \in Nat : (m + 1) - 1 = m /\ m + 1 \in Nat /\ m + 1 >= 1 /\ m + 0 = m
  /\ \A p, q : p \in Nat /\ q = p - 1 /\ q >= 0 => q \in Nat /\ p = q + 1
  OBVIOUS

LEMMA DifferenceAdded == \A p, q \in Nat : p = (p - q) + q
  OBVIOUS

\* The innermost structure, and those around it.
LEMMA Innermost ==
  ASSUME NEW stack \in Seq(Nodes), NEW m \in Nat, Len(stack) = m + 1
  PROVE  /\ stack # <<>> /\ Len(stack) - 1 = m /\ stack[m + 1] \in Nodes
         /\ SubSeq(stack, 1, Len(stack) - 1) \in Seq(Nodes)
         /\ Len(SubSeq(stack, 1, Len(stack) - 1)) = m
         /\ \A k \in 1 .. m : SubSeq(stack, 1, Len(stack) - 1)[k] = stack[k]
<1>1. stack # <<>> /\ Len(stack) - 1 = m /\ m + 1 \in 1 .. Len(stack)
  OBVIOUS
<1>2. /\ SubSeq(stack, 1, m) \in Seq(Nodes) /\ Len(SubSeq(stack, 1, m)) = m
      /\ \A k \in 1 .. m : SubSeq(stack, 1, m)[k] = stack[k]
  OBVIOUS
<1> QED
  BY <1>1, <1>2

\* BEGIN APS BODY
LEMMA FramingBodied ==
  ASSUME NEW f, NEW g, NEW n \in Nat, \A k \in 1 .. n : g[k] = f[k],
         NEW d, NEW stack, NEW new, NEW e, NEW linked \in BOOLEAN,
         Framing(f, n, d, stack), NestsAt(g, n + 1), g[n + 1].op = "BEGIN APS BODY",
         Len(new) = Len(stack), \A k \in 1 .. Len(stack) - 1 : new[k].anchor = stack[k].anchor,
         new[Len(stack)].anchor = linked,
         Body(d) \in Seq(Tags), ~e.defsOpen, e.malformed = d.malformed, e.tags \in Seq(Tags),
         Len(e.tags) = Len(Body(d)) + (IF linked THEN 2 ELSE 1),
         \A i \in 1 .. Len(Body(d)) : e.tags[i] = Body(d)[i],
         e.tags[Len(Body(d)) + 1] = "g", linked => e.tags[Len(Body(d)) + 2] = "a"
  PROVE  Framing(g, n + 1, e, new)
<1>1. DepthIn(g, n + 1) = DepthIn(f, n) + 1
  <2>1. DepthIn(g, n + 1) = DepthIn(g, n) + 1
    BY DepthGrows
  <2> QED
    BY <2>1, SameFront
<1>2. Waiting(g, n + 1) = 0 /\ Waiting(f, n) = 1
  <2>1. (n + 1) + 1 = n + 2
    BY Sums
  <2>2. ~Awaits(g, n + 2)
    BY AwaitsStep
  <2>3. Awaits(g, n + 1)
    BY DEF NestsAt, ApsOps
  <2>4. Awaits(f, n + 1)
    BY <2>3, SameFront
  <2> QED
    BY <2>1, <2>2, <2>4 DEF Waiting
<1>3. PICK m : m = DepthIn(f, n)
  OBVIOUS
<1>4. /\ m \in Nat /\ Len(stack) = m + 1 /\ ~d.malformed /\ Outline(Body(d), stack, m)
  BY <1>2, <1>3 DEF Framing
<1>5. /\ \A k \in 1 .. m : new[k].anchor = stack[k].anchor
      /\ new[m + 1].anchor = linked
  <2>1. (m + 1) - 1 = m
    BY <1>4, Differences
  <2> QED
    BY <1>4, <2>1
<1>6. Len(e.tags) = Len(Body(d)) + Wide(new[m + 1])
  BY <1>5 DEF Wide
<1>7. Outline(e.tags, new, m + 1)
  BY <1>4, <1>5, <1>6, OutlineGrows
<1>8. Body(e) = e.tags /\ Sturdy(e)
  BY DEF Body, Sturdy
<1>9. m + 1 \in Nat /\ Len(new) = (m + 1) + 0
  BY <1>4, Differences
<1> QED
  BY <1>1, <1>2, <1>3, <1>4, <1>7, <1>8, <1>9 DEF Framing

\* END APS
Ending(f, g, n, d, stack) ==
  /\ ~d.defsOpen /\ Waiting(g, n + 1) = 0
  /\ \E m \in Nat : Len(stack) = m + 1 /\ DepthIn(f, n) = m + 1 /\ DepthIn(g, n + 1) = m

LEMMA FramingEnds ==
  ASSUME NEW f, NEW g, NEW n \in Nat, \A k \in 1 .. n : g[k] = f[k],
         NEW d \in Documents, NEW stack \in Seq(Nodes), Framing(f, n, d, stack), NestsAt(g, n + 1),
         Guarded(g, n + 1), g[n + 1].op = "END APS"
  PROVE  Ending(f, g, n, d, stack)
<1>1. DepthIn(g, n + 1) = DepthIn(f, n) - 1
  <2>1. DepthIn(g, n + 1) = DepthIn(g, n) - 1
    BY DepthGrows
  <2> QED
    BY <2>1, SameFront
<1>2. Waiting(g, n + 1) = 0 /\ Waiting(f, n) = 0
  <2>1. (n + 1) + 1 = n + 2
    BY Sums
  <2>2. ~Awaits(g, n + 2)
    BY AwaitsStep
  <2>3. ~Awaits(g, n + 1)
    BY DEF NestsAt, ApsOps
  <2>4. ~Awaits(f, n + 1)
    BY <2>3, SameFront
  <2> QED
    BY <2>1, <2>2, <2>4 DEF Waiting
<1>3. ~d.defsOpen
  BY MayStayOpen DEF Framing
<1>4. PICK p, q : p = DepthIn(f, n) /\ q = DepthIn(g, n + 1)
  OBVIOUS
<1>5. p \in Nat /\ q = p - 1 /\ q >= 0 /\ Len(stack) = p + 0
  BY <1>1, <1>2, <1>4 DEF Framing, NestsAt
<1>6. q \in Nat /\ p = q + 1 /\ Len(stack) = q + 1
  <2>1. p + 0 = p /\ q \in Nat /\ p = q + 1
    BY <1>5, Differences
  <2> QED
    BY <1>5, <2>1
<1> QED
  BY <1>2, <1>3, <1>4, <1>6 DEF Ending

LEMMA FramingEnded ==
  ASSUME NEW f, NEW g, NEW n \in Nat, \A k \in 1 .. n : g[k] = f[k],
         NEW c \in Documents, NEW d \in Documents, Framed(d, c), d.defsOpen = c.defsOpen,
         NEW stack \in Seq(Nodes), Framing(f, n, c, stack), NestsAt(g, n + 1), Guarded(g, n + 1),
         g[n + 1].op = "END APS"
  PROVE  /\ stack # <<>>
         /\ Framing(g, n + 1, CloseGroup(d, stack[Len(stack)].anchor), SubSeq(stack, 1, Len(stack) - 1))
<1>1. /\ ~c.defsOpen /\ Waiting(g, n + 1) = 0
      /\ \E m \in Nat : Len(stack) = m + 1 /\ DepthIn(f, n) = m + 1 /\ DepthIn(g, n + 1) = m
  <2>1. Ending(f, g, n, c, stack)
    BY FramingEnds
  <2> QED
    BY <2>1 DEF Ending
<1>2. PICK m \in Nat : Len(stack) = m + 1 /\ DepthIn(f, n) = m + 1 /\ DepthIn(g, n + 1) = m
  BY <1>1
<1> DEFINE node == stack[m + 1]
           new == SubSeq(stack, 1, Len(stack) - 1)
<1>3. node \in Nodes /\ node.anchor \in BOOLEAN /\ stack[Len(stack)] = node
  <2>1. node \in Nodes
    BY <1>2, Innermost
  <2> QED
    BY <1>2, <2>1 DEF Nodes
<1>4. Len(new) = m /\ \A k \in 1 .. m : new[k] = stack[k]
  BY <1>2, Innermost
<1> HIDE DEF new
<1>5. ~d.defsOpen /\ d.tags = c.tags /\ d.malformed = c.malformed /\ ~c.malformed /\ d.tags \in Seq(Tags)
  BY <1>1, DocumentFields DEF Framing, Framed, Body
<1>6. Outline(d.tags, stack, m + 1)
  BY <1>1, <1>2, <1>5 DEF Framing, Body
<1>7. PICK l : l = Len(d.tags) - Wide(node)
  OBVIOUS
<1>8. /\ Len(d.tags) \in Nat /\ l \in Nat \ {0} /\ d.tags[l + 1] = "g" /\ (node.anchor => d.tags[Len(d.tags)] = "a")
      /\ \A k, u : /\ u \in Seq(Tags) /\ Len(u) = l
                   /\ \A i \in 1 .. Len(u) : u[i] = d.tags[i]
                   /\ \A i \in 1 .. m : k[i].anchor = stack[i].anchor
                   => Outline(u, k, m)
  BY <1>5, <1>6, <1>7, OutlineEnds
<1>9. Len(d.tags) = l + (IF node.anchor THEN 2 ELSE 1) /\ l \in Nat
  <2>1. Wide(node) \in Nat
    BY DEF Wide
  <2>2. PICK a, b : a = Len(d.tags) /\ b = Wide(node)
    OBVIOUS
  <2>3. a \in Nat /\ b \in Nat /\ l = a - b
    BY <1>7, <1>8, <2>1, <2>2
  <2>4. a = (a - b) + b
    BY <2>3, DifferenceAdded
  <2>5. a = l + b
    BY <2>3, <2>4
  <2> QED
    BY <1>8, <2>2, <2>5 DEF Wide
<1>10. node.anchor => d.tags[l + 2] = "a"
  BY <1>8, <1>9
<1> DEFINE e == CloseGroup(d, node.anchor)
<1>11. /\ e \in Documents /\ e.defsOpen = d.defsOpen /\ e.malformed = d.malformed
       /\ Len(e.tags) = l /\ \A i \in 1 .. l : e.tags[i] = d.tags[i]
  <2>1. node.anchor \in BOOLEAN /\ d.tags[l + 1] = "g"
    BY <1>3, <1>8
  <2> QED
    BY <1>9, <1>10, <2>1, CloseGroupTags
<1> HIDE DEF e
<1>12. e.tags \in Seq(Tags)
  BY <1>11, DocumentFields
<1>13. Outline(e.tags, new, m)
  BY <1>4, <1>8, <1>11, <1>12
<1>14. Body(e) = e.tags /\ Sturdy(e)
  BY <1>5, <1>11 DEF Body, Sturdy
<1>15. Framing(g, n + 1, e, new)
  <2>1. Len(new) = m + 0
    BY <1>2, <1>4, Differences
  <2> QED
    BY <1>1, <1>2, <1>5, <1>11, <1>13, <1>14, <2>1 DEF Framing
<1>16. stack # <<>>
  BY <1>2, Innermost
<1> QED
  BY <1>3, <1>15, <1>16 DEF e, new

\* The footer
LEMMA FramingCloses ==
  ASSUME NEW f, NEW n, NEW c \in Documents, NEW d \in Documents, Framed(d, c), ~d.defsOpen,
         NEW stack, Framing(f, n, c, stack), DepthIn(f, n) = 0
  PROVE  ~Close(d, "svg").malformed
<1>1. d.tags = Body(c) /\ ~d.malformed /\ Outline(Body(c), stack, 0)
  BY DEF Framing, Framed, Body
<1>2. PICK h : Outlines(h, d.tags, stack, 0)
  BY <1>1 DEF Outline
<1>3. Len(d.tags) = 1 /\ d.tags[1] = "svg"
  BY <1>2 DEF Outlines
<1>4. Close(d, "svg").malformed = d.malformed
  BY <1>3, ClosedLast DEF Tags
<1> QED
  BY <1>1, <1>4

----------------------------------------------------------------------------
(* What the commands do to the open elements.                              *)

\* A command op that is not about structures keeps the frame; if it leaves
\* <defs> open it opened it, or found it open and is none that closes it.
KeepsFrame(op) ==
  /\ op \notin ApsOps /\ aps'.stack = aps.stack /\ Framed(doc', doc)
  /\ doc'.defsOpen => op \in OpensDefs \/ (doc.defsOpen /\ op \notin ClosesDefs)

LEMMA StartsFramed ==
  ASSUME Inv
  PROVE  /\ doc \in Documents /\ Flush(doc) \in Documents /\ PrimitiveDoc \in Documents
         /\ CloseOpenDefs(doc) \in Documents /\ Flush(CloseOpenDefs(doc)) \in Documents
         /\ Framed(doc, doc) /\ Framed(Flush(doc), doc) /\ Framed(PrimitiveDoc, doc)
         /\ Framed(CloseOpenDefs(doc), doc) /\ Framed(Flush(CloseOpenDefs(doc)), doc)
         /\ Flush(doc).defsOpen = doc.defsOpen /\ ~PrimitiveDoc.defsOpen
         /\ ~CloseOpenDefs(doc).defsOpen /\ ~Flush(CloseOpenDefs(doc)).defsOpen
<1>1. /\ doc \in Documents /\ Flush(doc) \in Documents /\ PrimitiveDoc \in Documents
      /\ CloseOpenDefs(doc) \in Documents /\ Flush(CloseOpenDefs(doc)) \in Documents
  BY HereNat, DefsKept, Counters
<1>2. \A d \in Documents : Framed(Flush(d), d) /\ Flush(d).defsOpen = d.defsOpen
  BY DrawFramed DEF Flush
<1>3. Framed(doc, doc)
  BY FramedAlike
<1>4. Framed(PrimitiveDoc, doc) /\ ~PrimitiveDoc.defsOpen
  BY <1>1, <1>2, CloseOpenDefsFramed, FramedTransitive DEF PrimitiveDoc
<1>5. /\ Framed(CloseOpenDefs(doc), doc) /\ ~CloseOpenDefs(doc).defsOpen
      /\ Framed(Flush(CloseOpenDefs(doc)), doc) /\ ~Flush(CloseOpenDefs(doc)).defsOpen
  BY <1>1, <1>2, CloseOpenDefsFramed, FramedTransitive
<1> QED
  BY <1>1, <1>2, <1>3, <1>4, <1>5

LEMMA DrawnOnFrame ==
  ASSUME NEW d \in Documents, Framed(d, doc), ~d.defsOpen, NEW ms, doc' = d \/ doc' = Draw(d, ms)
  PROVE  Framed(doc', doc) /\ ~doc'.defsOpen
<1>1. CASE doc' = d
  BY <1>1
<1>2. CASE doc' = Draw(d, ms)
  <2>1. Framed(doc', d) /\ ~doc'.defsOpen
    BY <1>2, DrawFramed
  <2> QED
    BY <2>1, FramedTransitive
<1> QED
  BY <1>1, <1>2

LEMMA FlushKeepsFrame ==
  ASSUME Inv, NEW op, op \notin ApsOps, op \notin ClosesDefs, aps'.stack = aps.stack,
         doc' = doc \/ doc' = Flush(doc)
  PROVE  KeepsFrame(op)
BY StartsFramed DEF KeepsFrame

LEMMA PrimitiveKeepsFrame ==
  ASSUME Inv, NEW op, op \notin ApsOps, aps'.stack = aps.stack, doc' = PrimitiveDoc
  PROVE  KeepsFrame(op)
BY StartsFramed DEF KeepsFrame

LEMMA ClippingKeepsFrame ==
  ASSUME Inv, Clipping
  PROVE  \E c \in Alphabet : Reads(c) /\ KeepsFrame(c.op)
<1>1. Flush(doc) \in Documents /\ Framed(Flush(doc), doc)
  BY StartsFramed
<1>2. ASSUME NEW op, op \in OpensDefs, aps' = aps, NEW id, NEW content,
             doc' = Flush(doc) \/ doc' = Define(Flush(doc), id, content)
      PROVE  KeepsFrame(op)
  <2>1. Framed(doc', doc)
    BY <1>1, <1>2, DefineFramed, FramedTransitive
  <2>2. op \notin ApsOps
    BY <1>2 DEF OpensDefs, ApsOps
  <2> QED
    BY <1>2, <2>1, <2>2 DEF KeepsFrame
<1>3. ASSUME NEW op, op \in OpensDefs, aps' = aps, NEW k, UpdatesClip(k) PROVE KeepsFrame(op)
  BY <1>2, <1>3 DEF UpdatesClip, UpdatedClipDoc
<1>4. ASSUME NEW op, op \in OpensDefs, aps' = aps, doc' = Flush(doc) PROVE KeepsFrame(op)
  BY <1>2, <1>4
<1>5. /\ "CLIP RECTANGLE" \in OpensDefs /\ "CLIP INDICATOR" \in OpensDefs
      /\ "PROTECTION REGION INDICATOR" \in OpensDefs
  BY DEF OpensDefs
<1>6. CASE ClipRectangle
  <2>1. PICK c \in Alphabet : ClipRectangle!(c)
    BY <1>6 DEF ClipRectangle
  <2> QED
    BY <1>3, <1>4, <1>5, <2>1
<1>7. CASE ClipIndicator
  <2>1. PICK c \in Alphabet : ClipIndicator!(c)
    BY <1>7 DEF ClipIndicator
  <2> QED
    BY <1>3, <1>4, <1>5, <2>1
<1>8. CASE ProtectionRegionIndicator
  <2>1. PICK c \in Alphabet : ProtectionRegionIndicator!(c)
    BY <1>8 DEF ProtectionRegionIndicator
  <2>2. CASE ~c.on
    BY <1>3, <1>5, <2>1, <2>2
  <2>3. CASE c.on
    BY <1>2, <1>4, <1>5, <2>1, <2>3 DEF ClipToRegion
  <2> QED
    BY <2>1, <2>2, <2>3
<1>9. CASE BeginProtectionRegion \/ EndProtectionRegion
  <2>1. PICK c \in Alphabet :
          /\ c.op \in {"BEGIN PROTECTION REGION", "END PROTECTION REGION"}
          /\ Reads(c) /\ aps' = aps /\ doc' = Flush(doc)
    BY <1>9 DEF BeginProtectionRegion, EndProtectionRegion, FlushesText
  <2>2. c.op \notin ApsOps /\ c.op \notin ClosesDefs
    BY <2>1 DEF ApsOps, ClosesDefs, Traits
  <2> QED
    BY <2>1, <2>2, FlushKeepsFrame
<1> QED
  BY <1>6, <1>7, <1>8, <1>9 DEF Clipping

LEMMA PrimitiveOps ==
  ASSUME NEW c, IsPrimitive(c) \/ c.op \in {"CONNECTING EDGE", "END FIGURE"}
  PROVE  c.op \notin ApsOps
BY DEF IsPrimitive, Traits, ApsOps

LEMMA DrawingKeepsFrame ==
  ASSUME Inv, Drawing
  PROVE  \E c \in Alphabet : Reads(c) /\ KeepsFrame(c.op)
<1>1. PrimitiveDoc \in Documents /\ Framed(PrimitiveDoc, doc) /\ ~PrimitiveDoc.defsOpen
  BY StartsFramed
<1>2. ASSUME NEW op, op \notin ApsOps, aps' = aps, NEW d \in Documents, Framed(d, doc), ~d.defsOpen,
             NEW ms, doc' = Draw(d, ms)
      PROVE  KeepsFrame(op)
  <2>1. Framed(doc', doc) /\ ~doc'.defsOpen
    BY <1>2, DrawnOnFrame
  <2> QED
    BY <1>2, <2>1 DEF KeepsFrame
<1>3. ASSUME NEW op, op \notin ApsOps, aps' = aps, NEW ms,
             doc' = Draw(CloseOpenDefs(EnsuredFillDoc(PrimitiveDoc)), ms)
      PROVE  KeepsFrame(op)
  <2> DEFINE e == EnsuredFillDoc(PrimitiveDoc)
  <2>1. e \in Documents
    <3>1. /\ fill \in Fills /\ PrimitiveDoc.defs = doc.defs
          /\ \A p \in Patterns : Resolves(PrimitiveDoc, fill.cached[p])
      BY HereNat, Counters, DefsKept DEF Resolves, DefinedIds
    <3> QED
      BY <1>1, <3>1, EnsuredFillSound
  <2>2. Framed(e, PrimitiveDoc)
    BY <1>1, DefineFramed, FramedAlike DEF EnsuredFillDoc
  <2> HIDE DEF e
  <2>3. CloseOpenDefs(e) \in Documents /\ Framed(CloseOpenDefs(e), doc) /\ ~CloseOpenDefs(e).defsOpen
    BY <1>1, <2>1, <2>2, CloseOpenDefsType, CloseOpenDefsFramed, FramedTransitive
  <2>4. doc' = Draw(CloseOpenDefs(e), ms)
    BY <1>3 DEF e
  <2> QED
    BY <1>2, <1>3, <2>3, <2>4
<1>4. CASE DrawStroked
  <2>1. PICK c \in Alphabet : DrawStroked!(c)
    BY <1>4 DEF DrawStroked
  <2> QED
    BY <1>1, <1>2, <2>1, PrimitiveOps
<1>5. CASE DrawFilled
  <2>1. PICK c \in Alphabet : DrawFilled!(c)
    BY <1>5 DEF DrawFilled
  <2> QED
    BY <1>3, <2>1, PrimitiveOps
<1>6. CASE DrawFigure
  <2>1. PICK c \in Alphabet : DrawFigure!(c)
    BY <1>6 DEF DrawFigure
  <2>2. c.op \notin ApsOps
    BY <2>1, PrimitiveOps
  <2> QED
    BY <1>3, <2>1, <2>2, PrimitiveKeepsFrame
<1>7. CASE PrimitiveIntoFigure \/ PrimitiveIntoRegion \/ FailFilled \/ ConnectingEdge \/ EndFigureIntoRegion
  <2>1. PICK c \in Alphabet :
          /\ IsPrimitive(c) \/ c.op \in {"CONNECTING EDGE", "END FIGURE"}
          /\ Reads(c) /\ aps' = aps /\ doc' = PrimitiveDoc
    BY <1>7 DEF PrimitiveIntoFigure, PrimitiveIntoRegion, FailFilled, ConnectingEdge, EndFigureIntoRegion
  <2> QED
    BY <2>1, PrimitiveOps, PrimitiveKeepsFrame
<1>8. CASE BeginFigure \/ EndFigure
  <2>1. PICK c \in Alphabet :
          /\ c.op \in {"BEGIN FIGURE", "END FIGURE"} /\ Reads(c) /\ aps' = aps /\ doc' = Flush(doc)
    BY <1>8 DEF BeginFigure, EndFigure, FlushesText
  <2>2. c.op \notin ApsOps /\ c.op \notin ClosesDefs
    BY <2>1 DEF ApsOps, ClosesDefs, Traits
  <2> QED
    BY <2>1, <2>2, FlushKeepsFrame
<1> QED
  BY <1>4, <1>5, <1>6, <1>7, <1>8 DEF Drawing

LEMMA FillingKeepsFrame ==
  ASSUME Inv, Filling
  PROVE  \E c \in Alphabet : Reads(c) /\ KeepsFrame(c.op)
<1>1. PICK c \in Alphabet :
        /\ c.op \in {"INTERIOR STYLE", "PATTERN INDEX", "PATTERN TABLE", "PATTERN SIZE",
                     "FILL REFERENCE POINT"}
        /\ Reads(c) /\ aps' = aps /\ doc' = doc
  BY DEF Filling, InteriorStyle, PatternIndex, PatternTable, PatternSize, FillReferencePoint, Attribute
<1>2. c.op \notin ApsOps /\ c.op \notin ClosesDefs
  BY <1>1 DEF ApsOps, ClosesDefs, Traits
<1> QED
  BY <1>1, <1>2, FlushKeepsFrame

LEMMA TextingKeepsFrame ==
  ASSUME Inv, Texting
  PROVE  \E c \in Alphabet : Reads(c) /\ KeepsFrame(c.op)
<1> DEFINE d == Flush(CloseOpenDefs(doc))
           e == CloseOpenDefs(doc)
<1>1. d \in Documents /\ Framed(d, doc) /\ ~d.defsOpen /\ e \in Documents /\ Framed(e, doc) /\ ~e.defsOpen
  BY StartsFramed
<1> HIDE DEF d, e
<1>2. ASSUME NEW op, op \in {"TEXT", "RESTRICTED TEXT", "APPEND TEXT"}, aps' = aps,
             NEW h \in Documents, Framed(h, doc), ~h.defsOpen, NEW ms, doc' = h \/ doc' = Draw(h, ms)
      PROVE  KeepsFrame(op)
  <2>1. Framed(doc', doc) /\ ~doc'.defsOpen
    BY <1>2, DrawnOnFrame
  <2>2. op \notin ApsOps
    BY <1>2 DEF ApsOps
  <2> QED
    BY <1>2, <2>1, <2>2 DEF KeepsFrame
<1>3. CASE TextColour
  <2>1. PICK c \in Alphabet : c.op = "TEXT COLOUR" /\ Reads(c) /\ aps' = aps /\ doc' = doc
    BY <1>3 DEF TextColour
  <2>2. c.op \notin ApsOps /\ c.op \notin ClosesDefs
    BY <2>1 DEF ApsOps, ClosesDefs, Traits
  <2> QED
    BY <2>1, <2>2, FlushKeepsFrame
<1>4. CASE Text
  <2>1. PICK c \in Alphabet :
          /\ c.op = "TEXT" /\ Reads(c) /\ aps' = aps
          /\ doc' = d \/ doc' = Draw(d, TextMarks(<<Segment(Here)>>))
    BY <1>4 DEF Text, Pends, d
  <2> QED
    BY <1>1, <1>2, <2>1
<1>5. CASE RestrictedText
  <2>1. PICK c \in Alphabet :
          /\ c.op = "RESTRICTED TEXT" /\ Reads(c) /\ aps' = aps
          /\ doc' = d \/ doc' = Draw(d, <<Mark(Here, <<Here>>, clip.ref, NoId, NoId, text.colour)>>)
    BY <1>5 DEF RestrictedText, Pends, d
  <2> QED
    BY <1>1, <1>2, <2>1
<1>6. CASE AppendText
  <2>1. PICK c \in Alphabet :
          /\ c.op = "APPEND TEXT" /\ Reads(c) /\ aps' = aps
          /\ doc' = e \/ doc' = Draw(e, TextMarks(Append(text.pending, Segment(Here))))
    BY <1>6 DEF AppendText, Pends, e
  <2> QED
    BY <1>1, <1>2, <2>1
<1> QED
  BY <1>3, <1>4, <1>5, <1>6 DEF Texting

LEMMA SymbolisingKeepsFrame ==
  ASSUME Inv, Symbolising
  PROVE  \E c \in Alphabet : Reads(c) /\ KeepsFrame(c.op)
<1>1. PrimitiveDoc \in Documents /\ Framed(PrimitiveDoc, doc) /\ SymbolsOK
  BY StartsFramed DEF Inv
<1>2. CASE SymbolLibraryList
  <2>1. PICK c \in Alphabet : c.op = "SYMBOL LIBRARY LIST" /\ Reads(c) /\ aps' = aps /\ doc' = Flush(doc)
    BY <1>2 DEF SymbolLibraryList, FlushesText
  <2>2. c.op \notin ApsOps /\ c.op \notin ClosesDefs
    BY <2>1 DEF ApsOps, ClosesDefs, Traits
  <2> QED
    BY <2>1, <2>2, FlushKeepsFrame
<1>3. CASE PolySymbol
  <2>1. PICK c \in Alphabet : PolySymbol!(c)
    BY <1>3 DEF PolySymbol
  <2>2. PlacesSymbol(c) /\ Reads(c) /\ c.op = "POLYSYMBOL" /\ aps' = aps
    BY <2>1, SymbolPlaced
  <2> DEFINE s == Name(c.index)
             new == SymbolId(s)
             d == Define(PrimitiveDoc, new, [symbol |-> s])
  <2>3. \A id : Framed(Close(DrawSymbol(PrimitiveDoc, id), "g"), doc)
    BY <1>1, GroupClosedAgain, FramedTransitive
  <2>4. \A id : doc' = Close(DrawSymbol(PrimitiveDoc, id), "g") => Framed(doc', doc)
    BY <2>3
  <2>6. ASSUME new \in Identifiers, [symbol |-> s] \in Contents, doc' = Close(DrawSymbol(d, new), "g")
        PROVE  Framed(doc', doc)
    <3>1. d \in Documents /\ Framed(d, PrimitiveDoc)
      BY <1>1, <2>6, DefineType, DefineFramed
    <3>2. doc' = Close(DrawSymbol(d, new), "g")
      BY <2>6
    <3> HIDE DEF d, new
    <3>3. Framed(Close(DrawSymbol(d, new), "g"), d)
      BY <1>1, <3>1, GroupClosedAgain
    <3> QED
      BY <1>1, <3>1, <3>2, <3>3, FramedTransitive
  <2>7. Framed(doc', doc)
    BY <2>2, <2>4, <2>6 DEF PlacesSymbol
  <2>8. c.op \in OpensDefs /\ c.op \notin ApsOps
    BY <2>2 DEF OpensDefs, ApsOps
  <2> QED
    BY <2>2, <2>7, <2>8 DEF KeepsFrame
<1> QED
  BY <1>2, <1>3 DEF Symbolising

\* Pictures, but for their beginning.
LEMMA PicturesKeepFrame ==
  ASSUME Inv, Pictures, ~BeginPicture
  PROVE  \E c \in Alphabet : Reads(c) /\ KeepsFrame(c.op)
<1>1. Flush(doc) \in Documents /\ Framed(Flush(doc), doc) /\ Flush(doc).defsOpen = doc.defsOpen
  BY StartsFramed
<1>2. CASE BeginPictureBody
  <2> DEFINE ms == <<Mark(Here, <<Here>>, NoId, NoId, NoId, picture.zero)>>
  <2>1. PICK c \in Alphabet :
          /\ c.op = "BEGIN PICTURE BODY" /\ Reads(c) /\ aps' = aps
          /\ doc' = Flush(doc) \/ doc' = Draw(Flush(doc), ms)
    BY <1>2 DEF BeginPictureBody
  <2> HIDE DEF ms
  <2>2. Framed(Draw(Flush(doc), ms), doc) /\ Draw(Flush(doc), ms).defsOpen = doc.defsOpen
    BY <1>1, DrawFramed, FramedTransitive
  <2>3. Framed(doc', doc) /\ doc'.defsOpen = doc.defsOpen
    BY <1>1, <2>1, <2>2
  <2>4. c.op \notin ApsOps /\ c.op \notin ClosesDefs
    BY <2>1 DEF ApsOps, ClosesDefs, Traits
  <2> QED
    BY <2>1, <2>3, <2>4 DEF KeepsFrame
<1>3. CASE EndPicture \/ BackgroundColour \/ ColourTable \/ SegmentElement
  <2>1. PICK c \in Alphabet :
          /\ c.op \in {"END PICTURE", "BACKGROUND COLOUR", "COLOUR TABLE", "SEGMENT"}
          /\ Reads(c) /\ aps' = aps /\ (doc' = doc \/ doc' = Flush(doc))
    BY <1>3 DEF EndPicture, BackgroundColour, ColourTable, SegmentElement, FlushesText
  <2>2. c.op \notin ApsOps /\ c.op \notin ClosesDefs
    BY <2>1 DEF ApsOps, ClosesDefs, Traits
  <2> QED
    BY <2>1, <2>2, FlushKeepsFrame
<1> QED
  BY <1>2, <1>3 DEF Pictures

LEMMA AttributeKeepsFrame ==
  ASSUME Inv, ApplicationStructureAttribute
  PROVE  \E c \in Alphabet : Reads(c) /\ KeepsFrame(c.op)
<1>1. PICK c \in Alphabet : c.op = "APS ATTRIBUTE" /\ Reads(c) /\ aps'.stack = aps.stack /\ doc' = Flush(doc)
  BY StructuresFields DEF ApplicationStructureAttribute, FlushesText, Inv
<1>2. c.op \notin ApsOps /\ c.op \notin ClosesDefs
  BY <1>1 DEF ApsOps, ClosesDefs, Traits
<1> QED
  BY <1>1, <1>2, FlushKeepsFrame

----------------------------------------------------------------------------
(* The first conversion.                                                   *)

FirstFraming ==
  /\ runs = 0 => phase = "idle" /\ cursor = 0 /\ doc = FreshDoc(FALSE) /\ aps.stack = <<>>
  /\ runs <= 1 /\ phase # "done" /\ Orderly(file, cursor) => Framing(file, cursor, doc, aps.stack)
  /\ runs <= 1 /\ phase = "done" /\ Orderly(file, cursor) /\ DepthIn(file, cursor) = 0 => ~doc.malformed

LEMMA FramingBare == \A f : Framing(f, 0, FreshDoc(FALSE), <<>>)
<1> TAKE f
<1>1. DepthIn(f, 0) = 0 /\ ~Awaits(f, 1) /\ 0 \in Nat
  BY DepthGrows, AwaitsStep
<1>2. Waiting(f, 0) = 0
  <2>1. 0 + 1 = 1
    OBVIOUS
  <2> QED
    BY <1>1, <2>1 DEF Waiting
<1>3. Len(<<>>) = 0 + 0 /\ Outline(<<"svg">>, <<>>, 0)
  BY OutlineBare
<1> QED
  BY <1>1, <1>2, <1>3 DEF Framing, FreshDoc, Sturdy, Body

\* The command just read is the one that follows what had been read.
LEMMA ReadOn ==
  ASSUME Inv, NEW c \in Alphabet, Reads(c), Orderly(file', cursor')
  PROVE  /\ cursor \in Nat /\ cursor' = cursor + 1 /\ file'[cursor + 1] = c
         /\ \A k \in 1 .. cursor : file'[k] = file[k]
         /\ Orderly(file, cursor) /\ NestsAt(file', cursor + 1) /\ Guarded(file', cursor + 1)
<1>1. /\ cursor \in Nat /\ Len(file) \in Nat /\ cursor <= Len(file)
      /\ cursor' = cursor + 1 /\ file'[cursor + 1] = c
      /\ \A k \in 1 .. Len(file) : file'[k] = file[k]
  BY ReadsFile DEF Inv, Here
<1>2. \A k \in 1 .. cursor : file'[k] = file[k]
  BY <1>1
<1> QED
  BY <1>1, <1>2, OrderlyFront

LEMMA FramingAlike ==
  ASSUME NEW f, NEW n, NEW d, NEW e, NEW stack, Framing(f, n, d, stack), Framed(e, d), e.defsOpen = d.defsOpen
  PROVE  Framing(f, n, e, stack)
BY DEF Framing, Framed

\* The innermost structure replaced.
LEMMA InnermostReplaced ==
  ASSUME NEW stack \in Seq(Nodes), stack # <<>>, NEW node
  PROVE  LET new == [stack EXCEPT ![Len(stack)] = node] IN
         /\ Len(new) = Len(stack) /\ new[Len(stack)] = node
         /\ \A k \in 1 .. Len(stack) - 1 : new[k] = stack[k]
<1> DEFINE new == [stack EXCEPT ![Len(stack)] = node]
<1>1. Len(stack) \in Nat /\ Len(stack) \in 1 .. Len(stack) /\ DOMAIN stack = 1 .. Len(stack)
  OBVIOUS
<1>2. DOMAIN new = DOMAIN stack
  OBVIOUS
<1>3. Len(new) = Len(stack)
  BY <1>1, <1>2
<1>4. \A k \in 1 .. Len(stack) - 1 : k \in DOMAIN stack /\ k # Len(stack)
  <2>1. \A n \in Nat : \A k \in 1 .. n - 1 : k \in 1 .. n /\ k # n
    OBVIOUS
  <2> QED
    BY <1>1, <2>1
<1>5. new[Len(stack)] = node
  BY <1>1
<1>6. \A k \in 1 .. Len(stack) - 1 : new[k] = stack[k]
  BY <1>4
<1> QED
  BY <1>3, <1>5, <1>6

LEMMA FramingStep ==
  ASSUME Inv, Framing(file, cursor, doc, aps.stack), Next, ~Conversion, Orderly(file', cursor')
  PROVE  Framing(file', cursor', doc', aps'.stack)
<1>1. aps.stack \in Seq(Nodes) /\ aps.attributes \subseteq AttributeTypes
  BY StructuresFields DEF Inv
<1>2. ASSUME NEW c \in Alphabet, Reads(c), KeepsFrame(c.op)
      PROVE  Framing(file', cursor', doc', aps'.stack)
  <2>1. /\ cursor \in Nat /\ cursor' = cursor + 1 /\ file'[cursor + 1] = c
        /\ \A k \in 1 .. cursor : file'[k] = file[k]
    BY <1>2, ReadOn
  <2>2. /\ c.op \notin ApsOps /\ aps'.stack = aps.stack /\ Framed(doc', doc)
        /\ doc'.defsOpen => c.op \in OpensDefs \/ (doc.defsOpen /\ c.op \notin ClosesDefs)
    BY <1>2 DEF KeepsFrame
  <2>3. Framing(file', cursor + 1, doc', aps.stack)
    BY <2>1, <2>2, FramingPlain
  <2> QED
    BY <2>1, <2>2, <2>3
<1>3. CASE BeginPicture
  <2>1. PICK c \in Alphabet :
          /\ c.op = "BEGIN PICTURE" /\ Reads(c) /\ aps'.stack = aps.stack
          /\ doc' = FreshDoc(FALSE) \/ doc' = Flush(doc)
    BY <1>3, StructuresFields DEF BeginPicture, Inv
  <2>2. CASE doc' = FreshDoc(FALSE)
    <3>1. /\ cursor \in Nat /\ cursor' = cursor + 1 /\ file'[cursor + 1] = c
          /\ NestsAt(file', cursor + 1) /\ \A k \in 1 .. cursor : file'[k] = file[k]
      BY <2>1, ReadOn
    <3>2. Framing(file', cursor + 1, FreshDoc(FALSE), aps.stack)
      BY <2>1, <3>1, FramingPicture
    <3> QED
      BY <2>1, <2>2, <3>1, <3>2
  <2>3. CASE doc' = Flush(doc)
    <3>1. c.op \notin ApsOps /\ c.op \notin ClosesDefs
      BY <2>1 DEF ApsOps, ClosesDefs, Traits
    <3>2. KeepsFrame(c.op)
      BY <2>1, <2>3, <3>1, FlushKeepsFrame
    <3> QED
      BY <1>2, <2>1, <3>2
  <2> QED
    BY <2>1, <2>2, <2>3
<1>4. CASE BeginApplicationStructure
  <2> DEFINE node(c) == [id |-> Allocated(c.id), attributes |-> aps.attributes, anchor |-> FALSE]
  <2>1. PICK c \in Alphabet :
          /\ c.op = "BEGIN APS" /\ Reads(c) /\ doc' = Flush(doc)
          /\ aps' = [aps EXCEPT !.ids = aps.ids \cup {Allocated(c.id)}, !.stack = Append(aps.stack, node(c))]
    BY <1>4 DEF BeginApplicationStructure, FlushesText
  <2>2. aps'.stack = Append(aps.stack, node(c))
    BY <2>1, StructuresFields DEF Inv
  <2>3. node(c) \in Nodes
    <3>1. c.id \in Identifiers /\ aps.ids \subseteq Identifiers /\ IsFiniteSet(aps.ids)
      BY <2>1, Operands, StructuresFields DEF Inv
    <3>2. Allocated(c.id) \in Identifiers
      BY <3>1, AllocatedIsNew
    <3> QED
      BY <1>1, <3>2 DEF Nodes
  <2> HIDE DEF node
  <2>4. /\ cursor \in Nat /\ cursor' = cursor + 1 /\ file'[cursor + 1] = c
        /\ NestsAt(file', cursor + 1) /\ \A k \in 1 .. cursor : file'[k] = file[k]
    BY <2>1, ReadOn
  <2>5. Framed(doc', doc) /\ doc'.defsOpen = doc.defsOpen
    BY <2>1, StartsFramed
  <2>6. Framing(file', cursor + 1, doc', Append(aps.stack, node(c)))
    BY <1>1, <2>1, <2>3, <2>4, <2>5, FramingBegun
  <2> QED
    BY <2>2, <2>4, <2>6
<1>5. CASE BeginApplicationStructureBody
  <2> DEFINE linked == "linkuri" \in aps.attributes
             node == [Top EXCEPT !.attributes = aps.attributes, !.anchor = linked]
             new == [aps.stack EXCEPT ![Len(aps.stack)] = node]
             d == Flush(doc)
             e == OpenGroup(d, Top.id, linked)
  <2>1. PICK c \in Alphabet :
          /\ c.op = "BEGIN APS BODY" /\ Reads(c)
          /\ aps.stack # <<>> => doc' = e /\ aps' = [aps EXCEPT !.attributes = {}, !.stack = new]
    BY <1>5 DEF BeginApplicationStructureBody, Top
  <2>2. /\ cursor \in Nat /\ cursor' = cursor + 1 /\ file'[cursor + 1] = c
        /\ NestsAt(file', cursor + 1) /\ \A k \in 1 .. cursor : file'[k] = file[k]
    BY <2>1, ReadOn
  <2>3. aps.stack # <<>>
    <3>1. Awaits(file', cursor + 1)
      BY <2>1, <2>2 DEF NestsAt, ApsOps
    <3>2. Awaits(file, cursor + 1)
      BY <2>2, <3>1, SameFront
    <3>3. Waiting(file, cursor) = 1
      BY <3>2 DEF Waiting
    <3>4. DepthIn(file, cursor) \in Nat /\ Len(aps.stack) = DepthIn(file, cursor) + 1
      BY <3>3 DEF Framing
    <3>5. \A m \in Nat : Len(aps.stack) = m + 1 => aps.stack # <<>>
      BY <1>1, Innermost
    <3> QED
      BY <3>4, <3>5
  <2>4. linked \in BOOLEAN /\ Top \in Nodes /\ Top.id \in Identifiers
    BY <2>3, TopFound
  <2>5. node.anchor = linked
    BY <2>4 DEF Nodes
  <2>6. d \in Documents /\ Framing(file, cursor, d, aps.stack)
    BY StartsFramed, FramingAlike
  <2>7. aps'.stack = new /\ doc' = e
    BY <2>1, <2>3, StructuresFields DEF Inv
  <2> HIDE DEF linked, node, d
  <2>8. /\ Len(new) = Len(aps.stack) /\ new[Len(aps.stack)].anchor = linked
        /\ \A k \in 1 .. Len(aps.stack) - 1 : new[k].anchor = aps.stack[k].anchor
    BY <1>1, <2>3, <2>5, InnermostReplaced
  <2>9. Sturdy(d) /\ Body(d) \in Seq(Tags)
    BY <2>6, BodyType DEF Framing
  <2>10. /\ ~e.defsOpen /\ e.malformed = d.malformed /\ e.tags \in Seq(Tags)
         /\ Len(e.tags) = Len(Body(d)) + (IF linked THEN 2 ELSE 1)
         /\ \A i \in 1 .. Len(Body(d)) : e.tags[i] = Body(d)[i]
         /\ e.tags[Len(Body(d)) + 1] = "g" /\ (linked => e.tags[Len(Body(d)) + 2] = "a")
    BY <2>4, <2>6, <2>9, OpenGroupTags
  <2> HIDE DEF new, e
  <2>11. Framing(file', cursor + 1, e, new)
    BY <2>1, <2>2, <2>4, <2>6, <2>8, <2>9, <2>10, FramingBodied
  <2> QED
    BY <2>2, <2>7, <2>11
<1>6. CASE EndApplicationStructure
  <2> DEFINE n == Len(aps.stack)
             rest == SubSeq(aps.stack, 1, n - 1)
             d == Flush(doc)
  <2>1. PICK c \in Alphabet :
          /\ c.op = "END APS" /\ Reads(c)
          /\ aps.stack # <<>> => /\ doc' = CloseGroup(d, aps.stack[n].anchor)
                                /\ aps' = [aps EXCEPT !.stack = rest]
    BY <1>6 DEF EndApplicationStructure, Top
  <2>2. /\ cursor \in Nat /\ cursor' = cursor + 1 /\ file'[cursor + 1] = c
        /\ NestsAt(file', cursor + 1) /\ Guarded(file', cursor + 1)
        /\ \A k \in 1 .. cursor : file'[k] = file[k]
    BY <2>1, ReadOn
  <2>3. d \in Documents /\ doc \in Documents /\ Framed(d, doc) /\ d.defsOpen = doc.defsOpen
    BY StartsFramed
  <2> HIDE DEF d
  <2>4. aps.stack # <<>> /\ Framing(file', cursor + 1, CloseGroup(d, aps.stack[n].anchor), rest)
    BY <1>1, <2>1, <2>2, <2>3, FramingEnded
  <2>5. aps'.stack = rest
    BY <2>1, <2>4, StructuresFields DEF Inv
  <2> QED
    BY <2>1, <2>2, <2>4, <2>5
<1> QED
  BY <1>2, <1>3, <1>4, <1>5, <1>6, ClippingKeepsFrame, DrawingKeepsFrame, FillingKeepsFrame,
     TextingKeepsFrame, SymbolisingKeepsFrame, PicturesKeepFrame, AttributeKeepsFrame
     DEF Next, Structuring

\* A command that is read does not end the conversion but by an exception.
LEMMA GoesOn ==
  ASSUME Next, ~Conversion
  PROVE  (\E c \in Alphabet : Reads(c)) /\ runs' = runs /\ phase' \in {phase, "failed"}
<1>1. CASE Pictures
  BY <1>1 DEF Pictures, BeginPicture, BeginPictureBody, EndPicture, BackgroundColour, ColourTable,
     SegmentElement, Continues, Throws
<1>2. CASE Clipping
  BY <1>2 DEF Clipping, ClipRectangle, ClipIndicator, BeginProtectionRegion, EndProtectionRegion,
     ProtectionRegionIndicator, Continues
<1>3. CASE Drawing
  BY <1>3 DEF Drawing, PrimitiveIntoFigure, PrimitiveIntoRegion, DrawStroked, DrawFilled, FailFilled,
     BeginFigure, ConnectingEdge, EndFigure, EndFigureIntoRegion, DrawFigure, Continues, Throws
<1>4. CASE Filling
  BY <1>4 DEF Filling, InteriorStyle, PatternIndex, PatternTable, PatternSize, FillReferencePoint,
     Attribute, Continues
<1>5. CASE Texting
  BY <1>5 DEF Texting, TextColour, Text, RestrictedText, AppendText, Continues
<1>6. CASE Structuring
  BY <1>6 DEF Structuring, BeginApplicationStructure, ApplicationStructureAttribute,
     BeginApplicationStructureBody, EndApplicationStructure, Continues
<1>7. CASE Symbolising
  BY <1>7 DEF Symbolising, SymbolLibraryList, PolySymbol, Continues
<1> QED
  BY <1>1, <1>2, <1>3, <1>4, <1>5, <1>6, <1>7 DEF Next

LEMMA FirstFramingStep == Inv /\ FirstFraming /\ [Next]_vars => FirstFraming'
<1> SUFFICES ASSUME Inv, FirstFraming, [Next]_vars PROVE FirstFraming'
  OBVIOUS
<1>1. CASE UNCHANGED vars
  BY <1>1 DEF vars, FirstFraming
<1>2. CASE Convert
  <2>1. /\ doc' = FreshDoc(doc.defsOpen) /\ aps'.stack = aps.stack /\ file' = file
        /\ cursor' = 0 /\ phase' = "converting" /\ runs' = runs + 1 /\ runs \in Nat
    BY <1>2, StructuresFields DEF Convert, Inv, ControlOK
  <2>2. runs' # 0 /\ (runs' <= 1 => runs = 0)
    BY <2>1
  <2>3. runs = 0 => Framing(file', cursor', doc', aps'.stack)
    <3>1. FreshDoc(FALSE).defsOpen = FALSE
      BY DEF FreshDoc
    <3> QED
      BY <2>1, <3>1, FramingBare DEF FirstFraming
  <2> QED
    BY <2>1, <2>2, <2>3 DEF FirstFraming
<1>3. CASE EndOfFile
  <2>1. /\ doc' = Close(PrimitiveDoc, "svg") /\ UNCHANGED <<runs, file, cursor, aps>>
        /\ phase = "converting" /\ phase' = "done"
    BY <1>3 DEF EndOfFile, PrimitiveDoc
  <2>2. ASSUME runs <= 1, Orderly(file, cursor), DepthIn(file, cursor) = 0 PROVE ~doc'.malformed
    <3>1. Framing(file, cursor, doc, aps.stack)
      BY <2>1, <2>2 DEF FirstFraming
    <3> QED
      BY <2>1, <2>2, <3>1, StartsFramed, FramingCloses
  <2> QED
    BY <2>1, <2>2 DEF FirstFraming
<1>4. ASSUME Next, ~Convert, ~EndOfFile PROVE FirstFraming'
  <2>1. PICK c \in Alphabet : Reads(c) /\ runs' = runs /\ phase' \in {phase, "failed"}
    BY <1>4, GoesOn DEF Conversion
  <2>2. phase = "converting" /\ runs # 0
    BY <2>1 DEF Reads, FirstFraming
  <2>3. ASSUME runs <= 1, Orderly(file', cursor') PROVE Framing(file', cursor', doc', aps'.stack)
    <3>1. Framing(file, cursor, doc, aps.stack)
      BY <2>1, <2>2, <2>3, ReadOn DEF FirstFraming
    <3> QED
      BY <1>4, <2>3, <3>1, FramingStep DEF Conversion
  <2> QED
    BY <2>1, <2>2, <2>3 DEF FirstFraming
<1> QED
  BY <1>1, <1>2, <1>3, <1>4

\* The first document a converter writes is well-formed for every file whose
\* structures are well nested and end outside <defs>: START and END tags of
\* <defs>, of the groups of structures and symbols and of links match
\* (outputAPSOpenTag, outputAPSCloseTag, closeOpenDefs).
THEOREM FirstWellFormed == Spec => [](runs <= 1 /\ EndsOutsideDefs => WellFormed)
<1>1. Init => FirstFraming
  <2> SUFFICES ASSUME Init PROVE FirstFraming
    OBVIOUS
  <2>1. runs = 0 /\ phase = "idle" /\ cursor = 0 /\ doc = FreshDoc(FALSE) /\ aps.stack = <<>>
    BY DEF Init, FreshAps
  <2> QED
    BY <2>1, FramingBare DEF FirstFraming
<1>2. FirstFraming => (runs <= 1 /\ EndsOutsideDefs => WellFormed)
  <2> SUFFICES ASSUME FirstFraming, runs <= 1, EndsOutsideDefs, WellNested,
                      phase = "done" => Depth(cursor) = 0
               PROVE  ~doc.malformed
    BY DEF WellFormed
  <2>1. Orderly(file, cursor)
    BY OrderlyIs
  <2>2. Depth(cursor) = DepthIn(file, cursor)
    BY DEF Depth, Count, DepthIn, CountIn
  <2> QED
    BY <2>1, <2>2 DEF FirstFraming, Framing
<1> QED
  BY <1>1, <1>2, FirstFramingStep, Invariant, PTL DEF Spec

----------------------------------------------------------------------------
(* The ids of the document. Each belongs to somebody who counts or keeps   *)
(* the ids given: clips, patterns, symbols, or the structures.             *)

SameIds(e, d) == e.ids = d.ids /\ e.reused = d.reused
NamesAlso(e, d, id) == e.ids = d.ids \cup {id} /\ e.reused = (d.reused \/ id \in d.ids)

LEMMA SameIdsTransitive ==
  ASSUME NEW d, NEW e, NEW f, SameIds(f, e), SameIds(e, d)
  PROVE  SameIds(f, d)
BY DEF SameIds

LEMMA NamesOnSame ==
  ASSUME NEW d, NEW e, NEW f, NEW id,
         (SameIds(f, e) /\ NamesAlso(e, d, id)) \/ (NamesAlso(f, e, id) /\ SameIds(e, d))
  PROVE  NamesAlso(f, d, id)
BY DEF SameIds, NamesAlso

LEMMA DrawIds ==
  ASSUME NEW d \in Documents, NEW ms
  PROVE  SameIds(Draw(d, ms), d)
BY DEF Draw, Documents, SameIds

LEMMA OpenIds ==
  ASSUME NEW d \in Documents, NEW tag
  PROVE  SameIds(Open(d, tag), d)
BY DEF Open, Documents, SameIds

LEMMA CloseIds ==
  ASSUME NEW d \in Documents, NEW tag
  PROVE  SameIds(Close(d, tag), d)
BY DEF Close, Documents, SameIds

LEMMA DefsIds ==
  ASSUME NEW d \in Documents
  PROVE  SameIds(OpenDefs(d), d) /\ SameIds(CloseOpenDefs(d), d)
BY TagsOnly DEF SameCore, SameIds

LEMMA DefineIds ==
  ASSUME NEW d \in Documents, NEW id, NEW content
  PROVE  NamesAlso(Define(d, id, content), d, id)
<1>1. OpenDefs(d) \in Documents /\ SameIds(OpenDefs(d), d)
  BY OpenDefsType, DefsIds
<1>2. /\ Define(d, id, content).ids = OpenDefs(d).ids \cup {id}
      /\ Define(d, id, content).reused = (OpenDefs(d).reused \/ id \in OpenDefs(d).ids)
  BY <1>1 DEF Define, WriteId, Documents
<1> QED
  BY <1>1, <1>2 DEF SameIds, NamesAlso

LEMMA SymbolIds ==
  ASSUME NEW d \in Documents, NEW id, SymbolsOK
  PROVE  NamesAlso(Close(DrawSymbol(d, id), "g"), d, PlacementId)
<1> DEFINE e == PlacementGroup(d)
           ms == <<Mark(Here, <<Here>>, NoId, NoId, id, 0)>>
           f == DrawSymbol(d, id)
<1>1. e \in Documents /\ NamesAlso(e, d, PlacementId)
  BY PlacementGroupType DEF NamesAlso
<1>2. f = Draw(e, ms)
  BY DEF DrawSymbol, PlacementGroup
<1> HIDE DEF e, ms
<1>3. SameIds(f, e)
  BY <1>1, <1>2, DrawIds
<1>4. f = [e EXCEPT !.marks = f.marks]
  BY <1>1, <1>2 DEF Draw, Documents
<1> HIDE DEF f
<1>5. SameIds(Close(f, "g"), f)
  BY <1>1, <1>4 DEF Close, Documents, SameIds
<1>6. SameIds(Close(f, "g"), e)
  BY <1>3, <1>5, SameIdsTransitive
<1> QED
  BY <1>1, <1>6, NamesOnSame DEF f

\* What handlers start from.
LEMMA StartsIds ==
  ASSUME Inv
  PROVE  /\ SameIds(doc, doc) /\ SameIds(Flush(doc), doc) /\ SameIds(PrimitiveDoc, doc)
         /\ SameIds(CloseOpenDefs(doc), doc) /\ SameIds(Flush(CloseOpenDefs(doc)), doc)
<1>1. doc \in Documents /\ text \in Texts /\ Here \in Nat
  BY HereNat DEF Inv, DocOK
<1> QED
  BY <1>1, FlushEffect DEF SameCore, SameIds

----------------------------------------------------------------------------
(* What the commands do to the ids.                                        *)

NoSymbolGiven == symbols'.emitted = symbols.emitted /\ symbols'.placed = symbols.placed

NothingGiven ==
  /\ SameIds(doc', doc) /\ clip'.made = clip.made /\ fill'.made = fill.made
  /\ NoSymbolGiven

ClipGiven ==
  /\ NamesAlso(doc', doc, ClipPathId(clip.made + 1)) /\ clip'.made = clip.made + 1
  /\ fill'.made = fill.made /\ NoSymbolGiven

PatternGiven ==
  /\ NamesAlso(doc', doc, PatternId(fill.made + 1)) /\ fill'.made = fill.made + 1
  /\ clip'.made = clip.made /\ NoSymbolGiven

\* A placement has an id of its own, also that of a symbol defined now.
PlacementGiven ==
  /\ NamesAlso(doc', doc, PlacementId) /\ symbols'.placed = symbols.placed + 1
  /\ symbols'.emitted = symbols.emitted
  /\ clip'.made = clip.made /\ fill'.made = fill.made

SymbolGiven ==
  \E id, d : /\ NamesAlso(d, doc, id) /\ id[1] \in Symbols /\ id \notin symbols.emitted
             /\ NamesAlso(doc', d, PlacementId) /\ symbols'.placed = symbols.placed + 1
             /\ symbols'.emitted = symbols.emitted \cup {id}
             /\ clip'.made = clip.made /\ fill'.made = fill.made

\* A command that is not about structures.
KeepsIds(op) ==
  /\ op \notin ApsOps /\ aps'.stack = aps.stack /\ aps'.ids = aps.ids
  /\ NothingGiven \/ ClipGiven \/ PatternGiven \/ PlacementGiven \/ SymbolGiven

LEMMA NothingKeepsIds ==
  ASSUME NEW op, op \notin ApsOps, aps'.stack = aps.stack, aps'.ids = aps.ids,
         SameIds(doc', doc), clip'.made = clip.made, fill'.made = fill.made,
         symbols'.emitted = symbols.emitted, symbols'.placed = symbols.placed
  PROVE  KeepsIds(op)
BY DEF KeepsIds, NothingGiven, NoSymbolGiven

LEMMA ClippingKeepsIds ==
  ASSUME Inv, Clipping
  PROVE  \E c \in Alphabet : Reads(c) /\ KeepsIds(c.op)
<1>1. /\ Flush(doc) \in Documents /\ SameIds(Flush(doc), doc)
      /\ clip \in Clips /\ clip.made \in Nat
  BY StartsFramed, StartsIds, Counters
<1>2. ASSUME NEW k \in Clips, k.made = clip.made, UpdatesClip(k), UNCHANGED <<fill, aps, symbols>>,
             NEW op, op \notin ApsOps
      PROVE  KeepsIds(op)
  <2>1. CASE RectangleInForce(k) /\ k.cached[k.rect] = NoId
    <3>1. clip'.made = clip.made + 1
      BY <1>2, <2>1 DEF UpdatesClip, UpdatedClip, Clips
    <3>2. NamesAlso(doc', Flush(doc), ClipPathId(clip.made + 1))
      BY <1>1, <1>2, <2>1, DefineIds DEF UpdatesClip, UpdatedClipDoc
    <3>3. NamesAlso(doc', doc, ClipPathId(clip.made + 1))
      BY <1>1, <3>2, NamesOnSame
    <3>4. ClipGiven
      BY <1>2, <3>1, <3>3 DEF ClipGiven, NoSymbolGiven
    <3> QED
      BY <1>2, <3>4 DEF KeepsIds
  <2>2. CASE ~(RectangleInForce(k) /\ k.cached[k.rect] = NoId)
    <3>1. clip'.made = clip.made
      BY <1>2, <2>2 DEF UpdatesClip, UpdatedClip, Clips
    <3>2. doc' = Flush(doc)
      BY <1>2, <2>2 DEF UpdatesClip, UpdatedClipDoc
    <3> QED
      BY <1>1, <1>2, <3>1, <3>2, NothingKeepsIds
  <2> QED
    BY <2>1, <2>2
<1>3. /\ "CLIP RECTANGLE" \notin ApsOps /\ "CLIP INDICATOR" \notin ApsOps
      /\ "PROTECTION REGION INDICATOR" \notin ApsOps
  BY DEF ApsOps
<1>4. CASE ClipRectangle
  <2>1. PICK c \in Alphabet : ClipRectangle!(c)
    BY <1>4 DEF ClipRectangle
  <2>2. c.rect \in Rects
    BY <2>1, Operands
  <2>3. [clip EXCEPT !.rect = c.rect] \in Clips /\ [clip EXCEPT !.rect = c.rect].made = clip.made
    BY <1>1, <2>2 DEF Clips
  <2>4. CASE clip.enabled
    BY <1>2, <1>3, <2>1, <2>3, <2>4
  <2>5. CASE ~clip.enabled
    BY <1>1, <1>3, <2>1, <2>3, <2>5, NothingKeepsIds
  <2> QED
    BY <2>4, <2>5
<1>5. CASE ClipIndicator
  <2>1. PICK c \in Alphabet : ClipIndicator!(c)
    BY <1>5 DEF ClipIndicator
  <2>2. /\ [clip EXCEPT !.enabled = TRUE] \in Clips /\ [clip EXCEPT !.enabled = TRUE].made = clip.made
        /\ [clip EXCEPT !.enabled = c.on, !.ref = NoId].made = clip.made
    BY <1>1 DEF Clips
  <2>3. CASE c.on /\ clip.rect # NoRect
    BY <1>2, <1>3, <2>1, <2>2, <2>3
  <2>4. CASE ~(c.on /\ clip.rect # NoRect)
    BY <1>1, <1>3, <2>1, <2>2, <2>4, NothingKeepsIds
  <2> QED
    BY <2>3, <2>4
<1>6. CASE ProtectionRegionIndicator
  <2>1. PICK c \in Alphabet : ProtectionRegionIndicator!(c)
    BY <1>6 DEF ProtectionRegionIndicator
  <2>2. CASE ~c.on
    BY <1>1, <1>2, <1>3, <2>1, <2>2
  <2>3. CASE c.on
    <3>1. ClipToRegion(c)
      BY <2>1, <2>3
    <3>2. CASE doc' = Flush(doc) /\ clip'.made = clip.made
      BY <1>1, <1>3, <2>1, <3>2, NothingKeepsIds
    <3>3. ASSUME NEW content, doc' = Define(Flush(doc), ClipPathId(clip.made + 1), content),
                 clip'.made = clip.made + 1
          PROVE  KeepsIds(c.op)
      <4>1. NamesAlso(doc', Flush(doc), ClipPathId(clip.made + 1))
        BY <1>1, <3>3, DefineIds
      <4>2. NamesAlso(doc', doc, ClipPathId(clip.made + 1))
        BY <1>1, <4>1, NamesOnSame
      <4> QED
        BY <1>3, <2>1, <3>3, <4>2 DEF KeepsIds, ClipGiven, NoSymbolGiven
    <3> DEFINE id == ClipPathId(clip.made + 1)
               shape == PathShape(region.shapes[c.rid])
    <3>4. /\ [clip EXCEPT !.ref = region.cached[c.rid]].made = clip.made
          /\ [clip EXCEPT !.made = @ + 1, !.ref = id].made = clip.made + 1
      BY <1>1 DEF Clips
    <3>5. CASE clip' = [clip EXCEPT !.made = @ + 1, !.ref = id] /\ doc' = Define(Flush(doc), id, shape)
      BY <2>1, <3>3, <3>4, <3>5
    <3>6. \/ doc' = Flush(doc) /\ clip' \in {clip, [clip EXCEPT !.ref = region.cached[c.rid]]}
          \/ clip' = [clip EXCEPT !.made = @ + 1, !.ref = id] /\ doc' = Define(Flush(doc), id, shape)
      BY <3>1 DEF ClipToRegion
    <3> QED
      BY <3>2, <3>4, <3>5, <3>6
  <2> QED
    BY <2>1, <2>2, <2>3
<1>7. CASE BeginProtectionRegion \/ EndProtectionRegion
  <2>1. PICK c \in Alphabet :
          /\ c.op \in {"BEGIN PROTECTION REGION", "END PROTECTION REGION"}
          /\ Reads(c) /\ UNCHANGED <<clip, fill, aps, symbols>> /\ doc' = Flush(doc)
    BY <1>7 DEF BeginProtectionRegion, EndProtectionRegion, FlushesText
  <2>2. c.op \notin ApsOps
    BY <2>1 DEF ApsOps
  <2> QED
    BY <1>1, <2>1, <2>2, NothingKeepsIds
<1> QED
  BY <1>4, <1>5, <1>6, <1>7 DEF Clipping

LEMMA DrawingKeepsIds ==
  ASSUME Inv, Drawing
  PROVE  \E c \in Alphabet : Reads(c) /\ KeepsIds(c.op)
<1>1. /\ PrimitiveDoc \in Documents /\ SameIds(PrimitiveDoc, doc) /\ SameIds(Flush(doc), doc)
      /\ fill \in Fills /\ fill.made \in Nat
  BY StartsFramed, StartsIds, Counters
<1>2. ASSUME NEW op, op \notin ApsOps, UNCHANGED <<clip, aps, symbols>>, fill' = EnsuredFill,
             NEW ms, doc' = Draw(CloseOpenDefs(EnsuredFillDoc(PrimitiveDoc)), ms)
      PROVE  KeepsIds(op)
  <2> DEFINE e == EnsuredFillDoc(PrimitiveDoc)
  <2>1. e \in Documents
    <3>1. /\ PrimitiveDoc.defs = doc.defs /\ \A p \in Patterns : Resolves(PrimitiveDoc, fill.cached[p])
      BY HereNat, Counters, DefsKept DEF Resolves, DefinedIds
    <3> QED
      BY <1>1, <3>1, EnsuredFillSound
  <2>2. e = IF Tiled /\ ~Defined THEN Define(PrimitiveDoc, PatternId(fill.made + 1), PatternValue(fill, fill.index))
            ELSE PrimitiveDoc
    BY DEF EnsuredFillDoc, FillId
  <2>3. fill'.made = IF Tiled /\ ~Defined THEN fill.made + 1 ELSE fill.made
    BY <1>1, <1>2 DEF EnsuredFill, Fills
  <2> HIDE DEF e
  <2>4. CloseOpenDefs(e) \in Documents /\ SameIds(CloseOpenDefs(e), e)
    BY <2>1, CloseOpenDefsType, DefsIds
  <2>5. SameIds(doc', e)
    <3>1. doc' = Draw(CloseOpenDefs(e), ms)
      BY <1>2 DEF e
    <3>2. SameIds(doc', CloseOpenDefs(e))
      BY <2>4, <3>1, DrawIds
    <3> QED
      BY <2>4, <3>2, SameIdsTransitive
  <2>6. CASE Tiled /\ ~Defined
    <3> DEFINE id == PatternId(fill.made + 1)
    <3>1. NamesAlso(e, PrimitiveDoc, id)
      BY <1>1, <2>2, <2>6, DefineIds
    <3> HIDE DEF id
    <3>2. NamesAlso(e, doc, id)
      BY <1>1, <3>1, NamesOnSame
    <3>3. NamesAlso(doc', doc, id)
      BY <2>5, <3>2, NamesOnSame
    <3>4. PatternGiven
      BY <1>2, <2>3, <2>6, <3>3 DEF PatternGiven, NoSymbolGiven, id
    <3> QED
      BY <1>2, <3>4 DEF KeepsIds
  <2>7. CASE ~(Tiled /\ ~Defined)
    <3>1. e = PrimitiveDoc /\ fill'.made = fill.made
      BY <2>2, <2>3, <2>7
    <3>2. SameIds(doc', doc)
      BY <1>1, <2>5, <3>1, SameIdsTransitive
    <3> QED
      BY <1>2, <3>1, <3>2, NothingKeepsIds
  <2> QED
    BY <2>6, <2>7
<1>3. CASE DrawStroked
  <2> DEFINE ms(c) == <<Mark(Here, <<Here>>, ClipOf(c), NoId, NoId, 0)>>
  <2>1. PICK c \in Alphabet :
          /\ IsPrimitive(c) /\ Reads(c) /\ doc' = Draw(PrimitiveDoc, ms(c))
          /\ UNCHANGED <<clip, fill, aps, symbols>>
    BY <1>3 DEF DrawStroked
  <2> HIDE DEF ms
  <2>2. SameIds(doc', PrimitiveDoc)
    BY <1>1, <2>1, DrawIds
  <2>3. SameIds(doc', doc)
    BY <1>1, <2>2, SameIdsTransitive
  <2> QED
    BY <2>1, <2>3, PrimitiveOps, NothingKeepsIds
<1>4. CASE DrawFilled
  <2>1. PICK c \in Alphabet : DrawFilled!(c)
    BY <1>4 DEF DrawFilled
  <2>2. c.op \notin ApsOps
    BY <2>1, PrimitiveOps
  <2> QED
    BY <1>2, <2>1, <2>2
<1>5. CASE DrawFigure
  <2>1. PICK c \in Alphabet : DrawFigure!(c)
    BY <1>5 DEF DrawFigure
  <2>2. c.op \notin ApsOps
    BY <2>1, PrimitiveOps
  <2>3. CASE FillFails
    BY <1>1, <2>1, <2>2, <2>3, NothingKeepsIds
  <2>4. CASE ~FillFails
    BY <1>2, <2>1, <2>2, <2>4
  <2> QED
    BY <2>3, <2>4
<1>6. CASE PrimitiveIntoFigure \/ PrimitiveIntoRegion \/ FailFilled \/ ConnectingEdge \/ EndFigureIntoRegion
  <2>1. PICK c \in Alphabet :
          /\ IsPrimitive(c) \/ c.op \in {"CONNECTING EDGE", "END FIGURE"}
          /\ Reads(c) /\ UNCHANGED <<clip, fill, aps, symbols>> /\ doc' = PrimitiveDoc
    BY <1>6 DEF PrimitiveIntoFigure, PrimitiveIntoRegion, FailFilled, ConnectingEdge, EndFigureIntoRegion
  <2> QED
    BY <1>1, <2>1, PrimitiveOps, NothingKeepsIds
<1>7. CASE BeginFigure \/ EndFigure
  <2>1. PICK c \in Alphabet :
          /\ c.op \in {"BEGIN FIGURE", "END FIGURE"} /\ Reads(c)
          /\ UNCHANGED <<clip, fill, aps, symbols>> /\ doc' = Flush(doc)
    BY <1>7 DEF BeginFigure, EndFigure, FlushesText
  <2>2. c.op \notin ApsOps
    BY <2>1 DEF ApsOps
  <2> QED
    BY <1>1, <2>1, <2>2, NothingKeepsIds
<1> QED
  BY <1>3, <1>4, <1>5, <1>6, <1>7 DEF Drawing

LEMMA FillingKeepsIds ==
  ASSUME Inv, Filling
  PROVE  \E c \in Alphabet : Reads(c) /\ KeepsIds(c.op)
<1>1. fill \in Fills /\ SameIds(doc, doc)
  BY Counters, StartsIds
<1>2. PICK c \in Alphabet :
        /\ c.op \in {"INTERIOR STYLE", "PATTERN INDEX", "PATTERN TABLE", "PATTERN SIZE",
                     "FILL REFERENCE POINT"}
        /\ Reads(c) /\ UNCHANGED <<doc, clip, aps, symbols>> /\ fill'.made = fill.made
  BY <1>1 DEF Filling, InteriorStyle, PatternIndex, PatternTable, PatternSize, FillReferencePoint,
     Attribute, Fills
<1>3. c.op \notin ApsOps
  BY <1>2 DEF ApsOps
<1> QED
  BY <1>1, <1>2, <1>3, NothingKeepsIds

LEMMA TextingKeepsIds ==
  ASSUME Inv, Texting
  PROVE  \E c \in Alphabet : Reads(c) /\ KeepsIds(c.op)
<1> DEFINE d == Flush(CloseOpenDefs(doc))
           e == CloseOpenDefs(doc)
<1>1. d \in Documents /\ SameIds(d, doc) /\ e \in Documents /\ SameIds(e, doc) /\ SameIds(doc, doc)
  BY StartsFramed, StartsIds
<1> HIDE DEF d, e
<1>2. PICK c \in Alphabet :
        /\ c.op \in {"TEXT COLOUR", "TEXT", "RESTRICTED TEXT", "APPEND TEXT"}
        /\ Reads(c) /\ UNCHANGED <<clip, fill, aps, symbols>>
        /\ \/ doc' \in {doc, d, e}
           \/ doc' = Draw(d, TextMarks(<<Segment(Here)>>))
           \/ doc' = Draw(d, <<Mark(Here, <<Here>>, clip.ref, NoId, NoId, text.colour)>>)
           \/ doc' = Draw(e, TextMarks(Append(text.pending, Segment(Here))))
  BY DEF Texting, TextColour, Text, RestrictedText, AppendText, Pends, d, e
<1>3. c.op \notin ApsOps
  BY <1>2 DEF ApsOps
<1>4. ASSUME NEW h \in Documents, SameIds(h, doc), NEW ms, doc' = Draw(h, ms) PROVE SameIds(doc', doc)
  BY <1>4, DrawIds, SameIdsTransitive
<1>5. SameIds(doc', doc)
  BY <1>1, <1>2, <1>4
<1> QED
  BY <1>2, <1>3, <1>5, NothingKeepsIds

LEMMA SymbolisingKeepsIds ==
  ASSUME Inv, Symbolising
  PROVE  \E c \in Alphabet : Reads(c) /\ KeepsIds(c.op)
<1>1. /\ PrimitiveDoc \in Documents /\ SameIds(PrimitiveDoc, doc) /\ SameIds(Flush(doc), doc)
      /\ symbols \in SymbolStates /\ SymbolsOK
  BY StartsFramed, StartsIds DEF Inv, SymbolsOK
<1>2. CASE SymbolLibraryList
  <2>1. PICK c \in Alphabet :
          /\ c.op = "SYMBOL LIBRARY LIST" /\ Reads(c) /\ UNCHANGED <<clip, fill, aps>>
          /\ doc' = Flush(doc)
          /\ symbols'.emitted = symbols.emitted /\ symbols'.placed = symbols.placed
    BY <1>1, <1>2 DEF SymbolLibraryList, FlushesText, SymbolStates
  <2>2. c.op \notin ApsOps
    BY <2>1 DEF ApsOps
  <2> QED
    BY <1>1, <2>1, <2>2, NothingKeepsIds
<1>3. CASE PolySymbol
  <2>1. PICK c \in Alphabet : PolySymbol!(c)
    BY <1>3 DEF PolySymbol
  <2>2. /\ PlacesSymbol(c) /\ Reads(c) /\ c.op = "POLYSYMBOL" /\ UNCHANGED <<clip, fill, aps>>
        /\ c.op \notin ApsOps
    BY <2>1, SymbolPlaced DEF ApsOps
  <2> DEFINE s == Name(c.index)
             new == SymbolId(s)
             d == Define(PrimitiveDoc, new, [symbol |-> s])
  <2>3. ASSUME NEW id, doc' = Close(DrawSymbol(PrimitiveDoc, id), "g"),
               symbols' = [symbols EXCEPT !.placed = @ + 1]
        PROVE  KeepsIds(c.op)
    <3>1. NamesAlso(doc', PrimitiveDoc, PlacementId)
      BY <1>1, <2>3, SymbolIds
    <3>2. NamesAlso(doc', doc, PlacementId)
      BY <1>1, <3>1, NamesOnSame
    <3>3. PlacementGiven
      BY <1>1, <2>2, <2>3, <3>2, PlacedType DEF PlacementGiven
    <3> QED
      BY <2>2, <3>3 DEF KeepsIds
  <2>4. ASSUME s \in Symbols, new \in Identifiers, new \notin symbols.emitted, [symbol |-> s] \in Contents,
               doc' = Close(DrawSymbol(d, new), "g"), symbols'.placed = symbols.placed + 1,
               symbols'.emitted = symbols.emitted \cup {new}
        PROVE  KeepsIds(c.op)
    <3>1. new[1] \in Symbols
      BY <2>4 DEF SymbolId
    <3>2. d \in Documents /\ NamesAlso(d, PrimitiveDoc, new)
      BY <1>1, <2>4, DefineType, DefineIds
    <3>3. doc' = Close(DrawSymbol(d, new), "g")
      BY <2>4
    <3> HIDE DEF d, new
    <3>4. NamesAlso(doc', d, PlacementId)
      BY <1>1, <3>2, <3>3, SymbolIds
    <3>5. NamesAlso(d, doc, new)
      BY <1>1, <3>2, NamesOnSame
    <3>6. SymbolGiven
      BY <2>2, <2>4, <3>1, <3>4, <3>5 DEF SymbolGiven
    <3> QED
      BY <2>2, <3>6 DEF KeepsIds
  <2>5. symbols' = [symbols EXCEPT !.ids = [symbols.ids EXCEPT ![s] = new],
                                   !.emitted = symbols.emitted \cup {new}, !.placed = @ + 1]
          => /\ symbols'.emitted = symbols.emitted \cup {new}
             /\ symbols'.placed = symbols.placed + 1
    <3> HIDE DEF s, new, d
    <3> QED
      BY <1>1 DEF SymbolStates
  <2> HIDE DEF s, new, d
  <2> QED
    BY <2>2, <2>3, <2>4, <2>5 DEF PlacesSymbol, s, new, d
<1> QED
  BY <1>2, <1>3 DEF Symbolising

LEMMA PicturesKeepIds ==
  ASSUME Inv, Pictures, ~BeginPicture
  PROVE  \E c \in Alphabet : Reads(c) /\ KeepsIds(c.op)
<1>1. /\ Flush(doc) \in Documents /\ SameIds(Flush(doc), doc) /\ SameIds(doc, doc) /\ clip \in Clips
  BY StartsFramed, StartsIds, Counters
<1>2. CASE BeginPictureBody
  <2> DEFINE ms == <<Mark(Here, <<Here>>, NoId, NoId, NoId, picture.zero)>>
  <2>1. PICK c \in Alphabet :
          /\ c.op = "BEGIN PICTURE BODY" /\ Reads(c) /\ UNCHANGED <<clip, fill, aps, symbols>>
          /\ doc' = Flush(doc) \/ doc' = Draw(Flush(doc), ms)
    BY <1>2 DEF BeginPictureBody
  <2> HIDE DEF ms
  <2>2. SameIds(Draw(Flush(doc), ms), doc)
    BY <1>1, DrawIds, SameIdsTransitive
  <2>3. SameIds(doc', doc) /\ c.op \notin ApsOps
    BY <1>1, <2>1, <2>2 DEF ApsOps
  <2> QED
    BY <2>1, <2>3, NothingKeepsIds
<1>3. CASE EndPicture \/ BackgroundColour \/ ColourTable \/ SegmentElement
  <2>1. PICK c \in Alphabet :
          /\ c.op \in {"END PICTURE", "BACKGROUND COLOUR", "COLOUR TABLE", "SEGMENT"}
          /\ Reads(c) /\ UNCHANGED <<fill, aps, symbols>> /\ (doc' = doc \/ doc' = Flush(doc))
          /\ clip'.made = clip.made
    BY <1>1, <1>3 DEF EndPicture, BackgroundColour, ColourTable, SegmentElement, FlushesText, Clips
  <2>2. c.op \notin ApsOps
    BY <2>1 DEF ApsOps
  <2> QED
    BY <1>1, <2>1, <2>2, NothingKeepsIds
<1> QED
  BY <1>2, <1>3 DEF Pictures

LEMMA AttributeKeepsIds ==
  ASSUME Inv, ApplicationStructureAttribute
  PROVE  \E c \in Alphabet : Reads(c) /\ KeepsIds(c.op)
<1>1. PICK c \in Alphabet :
        /\ c.op = "APS ATTRIBUTE" /\ Reads(c) /\ UNCHANGED <<clip, fill, symbols>>
        /\ aps'.stack = aps.stack /\ aps'.ids = aps.ids /\ doc' = Flush(doc)
  BY StructuresFields DEF ApplicationStructureAttribute, FlushesText, Inv
<1>2. c.op \notin ApsOps
  BY <1>1 DEF ApsOps
<1> QED
  BY <1>1, <1>2, StartsIds, NothingKeepsIds

----------------------------------------------------------------------------
(* Who has given an id.                                                    *)

Accounts(id, clips, patterns, emitted, placed, structures) ==
  /\ id[1] = "clipPath" => id[2] <= clips
  /\ id[1] = "cgm-pattern-" => id[2] <= patterns
  /\ id[1] = "symbol-" => id[2] <= placed
  /\ id[1] \in Symbols => id \in emitted
  /\ id[1] \notin OwnWords => id \in structures
Accounted == \A id \in doc.ids : Accounts(id, clip.made, fill.made, symbols.emitted, symbols.placed, aps.ids)

LEMMA WordsApart ==
  /\ "clipPath" \notin Symbols /\ "cgm-pattern-" \notin Symbols /\ "symbol-" \notin Symbols
  /\ {"clipPath", "cgm-pattern-", "symbol-"} \subseteq OwnWords /\ Symbols \subseteq OwnWords
BY SymbolAssumption DEF OwnWords

LEMMA KeptIds ==
  ASSUME Inv, NEW op, KeepsIds(op), ~doc.reused, Accounted
  PROVE  /\ ~doc'.reused /\ Accounted'
         /\ \A id : id[1] \notin OwnWords /\ id \notin doc.ids => id \notin doc'.ids
<1>1. /\ clip.made \in Nat /\ fill.made \in Nat /\ symbols.placed \in Nat
      /\ doc.ids \subseteq Identifiers /\ aps'.ids = aps.ids
  BY Counters, DocumentFields DEF KeepsIds, Inv, SymbolsOK, SymbolStates
<1>2. \A id \in doc.ids : id[2] \in Nat
  BY <1>1 DEF Identifiers
<1>3. \A n \in Nat : \A m \in Nat : m <= n => m <= n + 1
  OBVIOUS
<1>4. \A n \in Nat : ~(n + 1 <= n) /\ n + 1 <= n + 1
  OBVIOUS
<1>5. CASE NothingGiven
  BY <1>1, <1>5 DEF NothingGiven, NoSymbolGiven, SameIds, Accounted
<1>6. CASE ClipGiven
  <2> DEFINE new == ClipPathId(clip.made + 1)
  <2>1. new[1] = "clipPath" /\ new[2] = clip.made + 1
    BY DEF ClipPathId
  <2> HIDE DEF new
  <2>2. new \notin doc.ids
    BY <1>1, <1>4, <2>1 DEF Accounted, Accounts
  <2>3. doc'.ids = doc.ids \cup {new} /\ ~doc'.reused
    BY <1>6, <2>2 DEF ClipGiven, NamesAlso, new
  <2>4. Accounts(new, clip.made + 1, fill.made, symbols.emitted, symbols.placed, aps.ids)
    BY <1>1, <1>4, <2>1, WordsApart DEF Accounts
  <2>5. \A id \in doc.ids : Accounts(id, clip.made + 1, fill.made, symbols.emitted, symbols.placed, aps.ids)
    BY <1>1, <1>2, <1>3 DEF Accounted, Accounts
  <2>6. Accounted'
    BY <1>1, <1>6, <2>3, <2>4, <2>5 DEF Accounted, ClipGiven, NoSymbolGiven
  <2> QED
    BY <2>1, <2>3, <2>6, WordsApart
<1>7. CASE PatternGiven
  <2> DEFINE new == PatternId(fill.made + 1)
  <2>1. new[1] = "cgm-pattern-" /\ new[2] = fill.made + 1
    BY DEF PatternId
  <2> HIDE DEF new
  <2>2. new \notin doc.ids
    BY <1>1, <1>4, <2>1 DEF Accounted, Accounts
  <2>3. doc'.ids = doc.ids \cup {new} /\ ~doc'.reused
    BY <1>7, <2>2 DEF PatternGiven, NamesAlso, new
  <2>4. Accounts(new, clip.made, fill.made + 1, symbols.emitted, symbols.placed, aps.ids)
    BY <1>1, <1>4, <2>1, WordsApart DEF Accounts
  <2>5. \A id \in doc.ids : Accounts(id, clip.made, fill.made + 1, symbols.emitted, symbols.placed, aps.ids)
    BY <1>1, <1>2, <1>3 DEF Accounted, Accounts
  <2>6. Accounted'
    BY <1>1, <1>7, <2>3, <2>4, <2>5 DEF Accounted, PatternGiven, NoSymbolGiven
  <2> QED
    BY <2>1, <2>3, <2>6, WordsApart
<1> DEFINE place == PlacementId
<1>8. place[1] = "symbol-" /\ place[2] = symbols.placed + 1
  BY DEF PlacementId
<1> HIDE DEF place
<1>9. place \notin doc.ids
  BY <1>1, <1>4, <1>8 DEF Accounted, Accounts
<1>10. CASE PlacementGiven
  <2>1. doc'.ids = doc.ids \cup {place} /\ ~doc'.reused
    BY <1>9, <1>10 DEF PlacementGiven, NamesAlso, place
  <2>2. Accounts(place, clip.made, fill.made, symbols.emitted, symbols.placed + 1, aps.ids)
    BY <1>1, <1>4, <1>8, WordsApart DEF Accounts
  <2>3. \A id \in doc.ids : Accounts(id, clip.made, fill.made, symbols.emitted, symbols.placed + 1, aps.ids)
    BY <1>1, <1>2, <1>3 DEF Accounted, Accounts
  <2>4. Accounted'
    BY <1>1, <1>10, <2>1, <2>2, <2>3 DEF Accounted, PlacementGiven
  <2> QED
    BY <1>8, <2>1, <2>4, WordsApart
<1>11. CASE SymbolGiven
  <2>1. PICK new, d :
          /\ NamesAlso(d, doc, new) /\ new[1] \in Symbols /\ new \notin symbols.emitted
          /\ NamesAlso(doc', d, place) /\ symbols'.placed = symbols.placed + 1
          /\ symbols'.emitted = symbols.emitted \cup {new}
          /\ clip'.made = clip.made /\ fill'.made = fill.made
    BY <1>11 DEF SymbolGiven, place
  <2>2. new \notin doc.ids /\ place # new
    BY <1>8, <2>1, WordsApart DEF Accounted, Accounts
  <2>3. doc'.ids = doc.ids \cup {new, place} /\ ~doc'.reused
    BY <1>9, <2>1, <2>2 DEF NamesAlso
  <2>4. Accounts(new, clip.made, fill.made, symbols'.emitted, symbols.placed + 1, aps.ids)
    BY <2>1, WordsApart DEF Accounts
  <2>5. Accounts(place, clip.made, fill.made, symbols'.emitted, symbols.placed + 1, aps.ids)
    BY <1>1, <1>4, <1>8, WordsApart DEF Accounts
  <2>6. \A id \in doc.ids : Accounts(id, clip.made, fill.made, symbols'.emitted, symbols.placed + 1, aps.ids)
    BY <1>1, <1>2, <1>3, <2>1 DEF Accounted, Accounts
  <2>7. Accounted'
    BY <1>1, <2>1, <2>3, <2>4, <2>5, <2>6 DEF Accounted
  <2> QED
    BY <1>8, <2>1, <2>3, <2>7, WordsApart
<1> QED
  BY <1>5, <1>6, <1>7, <1>10, <1>11 DEF KeepsIds

----------------------------------------------------------------------------
(* The ids of every document.                                              *)

NamesApartIn(f, n) == \A k \in 1 .. n : f[k].op = "BEGIN APS" => f[k].id[1] \notin OwnWords

\* The structure begun last has a new id.
TopIsNew == aps.stack # <<>> /\ Top.id \in aps.ids \ doc.ids /\ Top.id[1] \notin OwnWords

IdsInv ==
  Nests(file, cursor) /\ NamesApartIn(file, cursor) =>
    ~doc.reused /\ Accounted /\ (Awaits(file, cursor + 1) => TopIsNew)

\* The command just read is the one that follows what had been read.
LEMMA NestsOn ==
  ASSUME Inv, NEW c \in Alphabet, Reads(c), Nests(file', cursor'), NamesApartIn(file', cursor')
  PROVE  /\ cursor \in Nat /\ cursor' = cursor + 1 /\ file'[cursor + 1] = c
         /\ cursor' + 1 = cursor + 2
         /\ Nests(file, cursor) /\ NamesApartIn(file, cursor) /\ NestsAt(file', cursor + 1)
         /\ c.op = "BEGIN APS" => c.id[1] \notin OwnWords
         /\ Awaits(file', cursor + 1) <=> Awaits(file, cursor + 1)
<1>1. /\ cursor \in Nat /\ Len(file) \in Nat /\ cursor <= Len(file)
      /\ cursor' = cursor + 1 /\ file'[cursor + 1] = c
      /\ \A k \in 1 .. Len(file) : file'[k] = file[k]
  BY ReadsFile DEF Inv, Here
<1>2. /\ \A k \in 1 .. cursor : file'[k] = file[k] /\ k \in 1 .. cursor + 1
      /\ cursor + 1 \in 1 .. cursor + 1 /\ (cursor + 1) + 1 = cursor + 2
  BY <1>1
<1>3. Nests(file', cursor) /\ NestsAt(file', cursor + 1)
  BY <1>1, <1>2 DEF Nests
<1>4. Nests(file, cursor) /\ (Awaits(file', cursor + 1) <=> Awaits(file, cursor + 1))
  BY <1>1, <1>2, <1>3, SameFront
<1>5. NamesApartIn(file, cursor) /\ (c.op = "BEGIN APS" => c.id[1] \notin OwnWords)
  BY <1>1, <1>2 DEF NamesApartIn
<1> QED
  BY <1>1, <1>2, <1>3, <1>4, <1>5

LEMMA FreshDocIds == \A open : FreshDoc(open).ids = {} /\ ~FreshDoc(open).reused
BY DEF FreshDoc

LEMMA IdsStep ==
  ASSUME Inv, IdsInv, Next, ~Conversion
  PROVE  IdsInv'
<1> SUFFICES ASSUME Nests(file', cursor'), NamesApartIn(file', cursor')
             PROVE  ~doc'.reused /\ Accounted' /\ (Awaits(file', cursor' + 1) => TopIsNew')
  BY DEF IdsInv
<1>1. /\ aps.stack \in Seq(Nodes) /\ aps.ids \subseteq Identifiers /\ IsFiniteSet(aps.ids)
      /\ aps.attributes \subseteq AttributeTypes
      /\ doc \in Documents /\ Flush(doc) \in Documents /\ SameIds(Flush(doc), doc)
  BY StructuresFields, StartsFramed, StartsIds DEF Inv
<1>2. ASSUME NEW c \in Alphabet, Reads(c), KeepsIds(c.op)
      PROVE  ~doc'.reused /\ Accounted' /\ (Awaits(file', cursor' + 1) => TopIsNew')
  <2>1. /\ cursor \in Nat /\ cursor' + 1 = cursor + 2 /\ file'[cursor + 1] = c
        /\ ~doc.reused /\ Accounted /\ (Awaits(file', cursor + 1) => TopIsNew)
    BY <1>2, NestsOn DEF IdsInv
  <2>2. Awaits(file', cursor' + 1) => Awaits(file', cursor + 1)
    BY <1>2, <2>1, AwaitsStep DEF KeepsIds
  <2>3. /\ ~doc'.reused /\ Accounted'
        /\ \A id : id[1] \notin OwnWords /\ id \notin doc.ids => id \notin doc'.ids
    BY <1>2, <2>1, KeptIds
  <2>4. aps'.stack = aps.stack /\ aps'.ids = aps.ids
    BY <1>2 DEF KeepsIds
  <2>5. TopIsNew => TopIsNew'
    BY <2>3, <2>4 DEF TopIsNew, Top
  <2> QED
    BY <2>1, <2>2, <2>3, <2>5
<1>3. CASE BeginPicture
  <2>1. PICK c \in Alphabet : BeginPicture!(c)
    BY <1>3 DEF BeginPicture
  <2>2. /\ cursor \in Nat /\ cursor' + 1 = cursor + 2 /\ file'[cursor + 1] = c
        /\ ~doc.reused /\ Accounted /\ NestsAt(file', cursor + 1)
    BY <2>1, NestsOn DEF IdsInv
  <2>3. c.op = "BEGIN PICTURE" /\ c.op \notin ApsOps
    BY <2>1 DEF ApsOps
  <2>4. ~Awaits(file', cursor' + 1)
    BY <2>2, <2>3, AwaitsStep DEF NestsAt
  <2>5. CASE picture.index + 1 > 0
    <3>1. doc' = FreshDoc(FALSE)
      BY <2>1, <2>5
    <3>2. ~doc'.reused /\ Accounted'
      BY <3>1, FreshDocIds DEF Accounted
    <3> QED
      BY <2>4, <3>2
  <2>6. CASE ~(picture.index + 1 > 0)
    <3>1. doc' = Flush(doc) /\ UNCHANGED <<aps, symbols>>
      BY <2>1, <2>6
    <3>2. ResetPictureState(clip.made, fill.made)
      BY <2>1, <2>6
    <3>3. clip' = FreshClip(clip.made) /\ fill' = FreshFill(fill.made)
      BY <3>2 DEF ResetPictureState
    <3>4. clip'.made = clip.made /\ fill'.made = fill.made
      BY <3>3 DEF FreshClip, FreshFill
    <3>5. ~doc'.reused /\ Accounted'
      BY <1>1, <2>2, <3>1, <3>4 DEF SameIds, Accounted
    <3> QED
      BY <2>4, <3>5
  <2> QED
    BY <2>5, <2>6
<1>4. CASE BeginApplicationStructure
  <2> DEFINE new(c) == Allocated(c.id)
             node(c) == [id |-> new(c), attributes |-> aps.attributes, anchor |-> FALSE]
  <2>1. PICK c \in Alphabet :
          /\ c.op = "BEGIN APS" /\ Reads(c) /\ doc' = Flush(doc) /\ UNCHANGED <<clip, fill, symbols>>
          /\ aps' = [aps EXCEPT !.ids = aps.ids \cup {new(c)}, !.stack = Append(aps.stack, node(c))]
    BY <1>4 DEF BeginApplicationStructure, FlushesText
  <2>2. aps'.stack = Append(aps.stack, node(c)) /\ aps'.ids = aps.ids \cup {new(c)}
    BY <2>1, StructuresFields DEF Inv
  <2>3. ~doc.reused /\ Accounted /\ c.id[1] \notin OwnWords
    BY <2>1, NestsOn DEF IdsInv
  <2>4. new(c) \notin aps.ids /\ new(c)[1] = c.id[1]
    <3>1. c.id \in Identifiers
      BY <2>1, Operands
    <3>2. \A n : Lettered(c.id, n)[1] = c.id[1]
      BY DEF Lettered
    <3> QED
      BY <1>1, <3>1, <3>2, AllocatedIsNew DEF Allocated
  <2>5. new(c) \notin doc.ids
    BY <2>3, <2>4 DEF Accounted, Accounts
  <2>6. node(c).id = new(c)
    OBVIOUS
  <2> HIDE DEF new, node
  <2>7. aps'.stack # <<>> /\ aps'.stack[Len(aps'.stack)] = node(c)
    BY <1>1, <2>2
  <2>8. doc'.ids = doc.ids /\ ~doc'.reused
    BY <1>1, <2>1, <2>3 DEF SameIds
  <2>9. TopIsNew'
    BY <2>2, <2>3, <2>4, <2>5, <2>6, <2>7, <2>8 DEF TopIsNew, Top
  <2>10. Accounted'
    BY <2>1, <2>2, <2>3, <2>8 DEF Accounted, Accounts
  <2> QED
    BY <2>8, <2>9, <2>10
<1>5. CASE BeginApplicationStructureBody
  <2> DEFINE linked == "linkuri" \in aps.attributes
  <2>1. PICK c \in Alphabet : BeginApplicationStructureBody!(c)
    BY <1>5 DEF BeginApplicationStructureBody
  <2>2. /\ cursor \in Nat /\ cursor' + 1 = cursor + 2 /\ file'[cursor + 1] = c
        /\ ~doc.reused /\ Accounted /\ NestsAt(file', cursor + 1)
        /\ Awaits(file', cursor + 1) => TopIsNew
    BY <2>1, NestsOn DEF IdsInv
  <2>3. TopIsNew /\ ~Awaits(file', cursor' + 1)
    BY <2>1, <2>2, AwaitsStep DEF NestsAt, ApsOps
  <2>4. Top \in Nodes /\ Top.id \in Identifiers
    BY <2>3, TopFound DEF TopIsNew
  <2>5. /\ doc' = OpenGroup(Flush(doc), Top.id, linked) /\ aps'.ids = aps.ids
        /\ UNCHANGED <<clip, fill, symbols>>
    BY <2>1, <2>3, StructuresFields DEF TopIsNew, Inv
  <2>6. NamesAlso(doc', doc, Top.id)
    <3> DEFINE e == CloseOpenDefs(Flush(doc))
               o == Open(e, "g")
               g == WriteId(o, Top.id)
    <3>1. e \in Documents /\ SameIds(e, doc)
      BY <1>1, CloseOpenDefsType, DefsIds, SameIdsTransitive
    <3> HIDE DEF e
    <3>2. o \in Documents /\ SameIds(o, doc)
      BY <3>1, OpenType, OpenIds, SameIdsTransitive DEF Tags
    <3> HIDE DEF o
    <3>3. g \in Documents /\ NamesAlso(g, o, Top.id)
      BY <2>4, <3>2, WriteIdType, WriteIdEffect DEF NamesAlso
    <3>4. NamesAlso(g, doc, Top.id)
      BY <3>2, <3>3, NamesOnSame
    <3> HIDE DEF g
    <3>5. doc' = g \/ doc' = Open(g, "a")
      BY <2>5 DEF OpenGroup, g, o, e
    <3>6. NamesAlso(Open(g, "a"), doc, Top.id)
      BY <3>3, <3>4, OpenIds, NamesOnSame
    <3> QED
      BY <3>4, <3>5, <3>6
  <2>7. ~doc'.reused /\ doc'.ids = doc.ids \cup {Top.id}
    BY <2>2, <2>3, <2>6 DEF NamesAlso, TopIsNew
  <2>8. Accounts(Top.id, clip.made, fill.made, symbols.emitted, symbols.placed, aps.ids)
    BY <2>3, WordsApart DEF TopIsNew, Accounts
  <2>9. Accounted'
    BY <2>2, <2>5, <2>7, <2>8 DEF Accounted
  <2> QED
    BY <2>3, <2>7, <2>9
<1>6. CASE EndApplicationStructure
  <2>1. PICK c \in Alphabet : EndApplicationStructure!(c)
    BY <1>6 DEF EndApplicationStructure
  <2>2. /\ cursor \in Nat /\ cursor' + 1 = cursor + 2 /\ file'[cursor + 1] = c
        /\ ~doc.reused /\ Accounted
    BY <2>1, NestsOn DEF IdsInv
  <2>3. ~Awaits(file', cursor' + 1)
    BY <2>1, <2>2, AwaitsStep
  <2>4. SameIds(doc', doc) /\ UNCHANGED <<clip, fill, symbols>> /\ aps'.ids = aps.ids
    <3>1. \A linked : SameIds(CloseGroup(Flush(doc), linked), doc)
      <4> TAKE linked
      <4>1. Close(Flush(doc), "a") \in Documents /\ SameIds(Close(Flush(doc), "a"), doc)
        BY <1>1, CloseType, CloseIds, SameIdsTransitive DEF Tags
      <4> QED
        BY <1>1, <4>1, CloseIds, SameIdsTransitive DEF CloseGroup
    <3> QED
      BY <1>1, <2>1, <3>1, StructuresFields DEF Inv
  <2>5. ~doc'.reused /\ Accounted'
    BY <2>2, <2>4 DEF SameIds, Accounted
  <2> QED
    BY <2>3, <2>5
<1> QED
  BY <1>2, <1>3, <1>4, <1>5, <1>6, ClippingKeepsIds, DrawingKeepsIds, FillingKeepsIds,
     TextingKeepsIds, SymbolisingKeepsIds, PicturesKeepIds, AttributeKeepsIds
     DEF Next, Structuring

LEMMA NothingAwaited == \A f : ~Awaits(f, 0 + 1)
<1>1. 0 \in Nat /\ 0 + 1 = 1
  OBVIOUS
<1> QED
  BY <1>1, AwaitsStep

LEMMA AllIdsStep == Inv /\ IdsInv /\ [Next]_vars => IdsInv'
<1> SUFFICES ASSUME Inv, IdsInv, [Next]_vars PROVE IdsInv'
  OBVIOUS
<1>1. CASE UNCHANGED vars
  BY <1>1 DEF vars, IdsInv, Accounted, TopIsNew, Top
<1>2. CASE Convert
  <2>1. doc' = FreshDoc(doc.defsOpen) /\ cursor' = 0
    BY <1>2 DEF Convert
  <2>2. ~doc'.reused /\ doc'.ids = {}
    BY <2>1, FreshDocIds
  <2>3. ~Awaits(file', cursor' + 1)
    BY <2>1, NothingAwaited
  <2> QED
    BY <2>2, <2>3 DEF IdsInv, Accounted
<1>3. CASE EndOfFile
  <2> DEFINE d == CloseOpenDefs(Flush(doc))
  <2>1. d \in Documents /\ SameIds(d, doc)
    BY StartsFramed, StartsIds DEF PrimitiveDoc
  <2>2. doc' = Close(d, "svg") /\ UNCHANGED <<file, cursor, clip, fill, aps, symbols>>
    BY <1>3 DEF EndOfFile
  <2> HIDE DEF d
  <2>3. SameIds(doc', doc)
    BY <2>1, <2>2, CloseIds, SameIdsTransitive
  <2> QED
    BY <2>2, <2>3 DEF IdsInv, SameIds, Accounted, TopIsNew, Top
<1>4. CASE Next /\ ~Conversion
  BY <1>4, IdsStep
<1> QED
  BY <1>1, <1>2, <1>3, <1>4 DEF Conversion

\* No id is written twice in a document, in any conversion, if structures are
\* well nested and none has a name the converter makes its own ids of
\* (allocateSvgId, and the counters of clips, patterns and placements, which
\* restart with the document and not before).
THEOREM IdsStayUnique == Spec => [](NamesApart => IdsUnique)
<1>1. Init => IdsInv
  <2> SUFFICES ASSUME Init PROVE IdsInv
    OBVIOUS
  <2>1. cursor = 0 /\ ~doc.reused /\ doc.ids = {}
    BY FreshDocIds DEF Init
  <2>2. ~Awaits(file, cursor + 1)
    BY <2>1, NothingAwaited
  <2> QED
    BY <2>1, <2>2 DEF IdsInv, Accounted
<1>2. IdsInv => (NamesApart => IdsUnique)
  BY NestingIs DEF IdsInv, NamesApart, NamesApartIn, IdsUnique
<1> QED
  BY <1>1, <1>2, AllIdsStep, Invariant, PTL DEF Spec

\* The first document is valid XML for every file whose structures are well
\* nested, end outside <defs> and have names of their own.
THEOREM FirstValidXml == Spec => [](runs <= 1 /\ EndsOutsideDefs /\ NamesApart => ValidXml)
<1>1. (NamesApart => IdsUnique) /\ (runs <= 1 /\ EndsOutsideDefs => WellFormed)
        => (runs <= 1 /\ EndsOutsideDefs /\ NamesApart => ValidXml)
  BY DEF ValidXml
<1> QED
  BY <1>1, FirstWellFormed, IdsStayUnique, PTL

=============================================================================
