-------------------------- MODULE SvgContentProofs --------------------------
(***************************************************************************)
(* What becomes of the graphics of a file. Every step is put down to what  *)
(* it does with them: they are drawn, kept as pending text, collected by   *)
(* a figure, captured by a protection region or, where that is meant,      *)
(* forgotten. From there follow that nothing is lost, that text keeps its  *)
(* colour in every conversion, and that in the first conversion of a       *)
(* converter nothing is drawn twice and text keeps its place.              *)
(***************************************************************************)
EXTENDS SvgConverterProofs

-----------------------------------------------------------------------------
(* What is written of a document, wherever it is written.                  *)

Bare(m) == [m EXCEPT !.inside = <<>>]

Written(d) == [i \in DOMAIN d.marks |-> Bare(d.marks[i])]

\* The ids and definitions of two documents are the same.
SameCore(e, d) == e.ids = d.ids /\ e.reused = d.reused /\ e.defs = d.defs

\* e is d with a definition more.
Defines(e, d, id, content) ==
  /\ e.ids = d.ids \cup {id} /\ e.reused = (d.reused \/ id \in d.ids)
  /\ e.defs = d.defs \cup {[id |-> id, content |-> content]}

LEMMA WrittenSame ==
  ASSUME NEW d, NEW e, e.marks = d.marks
  PROVE  Written(e) = Written(d)
BY DEF Written

LEMMA WrittenType ==
  ASSUME NEW d \in Documents
  PROVE  /\ Written(d) \in Seq(Marks) /\ Len(Written(d)) = Len(d.marks)
         /\ \A i \in DOMAIN Written(d) : Written(d)[i].inside = <<>>
<1>1. /\ d.marks \in Seq(Marks) /\ DOMAIN d.marks = 1 .. Len(d.marks)
      /\ Len(d.marks) \in Nat /\ \A i \in 1 .. Len(d.marks) : d.marks[i] \in Marks
  BY DocumentFields
<1>2. <<>> \in Seq(Tags)
  OBVIOUS
<1>3. \A m \in Marks : Bare(m) \in Marks /\ Bare(m).inside = <<>>
  BY <1>2 DEF Bare, Marks
<1>4. Written(d) = [i \in 1 .. Len(d.marks) |-> Bare(d.marks[i])]
  BY <1>1 DEF Written
<1> QED
  BY <1>1, <1>3, <1>4

\* Writing tags changes neither what is written nor ids and definitions.
LEMMA TagsOnly ==
  ASSUME NEW d \in Documents
  PROVE  /\ \A tag \in Tags : /\ Written(Open(d, tag)) = Written(d) /\ SameCore(Open(d, tag), d)
                             /\ Written(Close(d, tag)) = Written(d) /\ SameCore(Close(d, tag), d)
         /\ Written(OpenDefs(d)) = Written(d) /\ SameCore(OpenDefs(d), d)
         /\ Written(CloseOpenDefs(d)) = Written(d) /\ SameCore(CloseOpenDefs(d), d)
<1>1. ASSUME NEW tag \in Tags, NEW e \in {Open(d, tag), Close(d, tag)}
      PROVE  Written(e) = Written(d) /\ SameCore(e, d)
  <2>1. e.marks = d.marks /\ e.defs = d.defs
    BY <1>1, OpenType, CloseType
  <2>2. e.ids = d.ids /\ e.reused = d.reused
    BY <1>1 DEF Open, Close, Documents
  <2> QED
    BY <2>1, <2>2, WrittenSame DEF SameCore
<1>2. SameCore(OpenDefs(d), d)
  <2>1. SameCore(d, d) /\ "defs" \in Tags
    BY DEF SameCore, Tags
  <2>2. CASE ~d.defsOpen
    <3>1. Open(d, "defs") \in Documents /\ SameCore(Open(d, "defs"), d)
      BY <1>1, <2>1, OpenType
    <3>2. OpenDefs(d) = [Open(d, "defs") EXCEPT !.defsOpen = TRUE]
      BY <2>2 DEF OpenDefs
    <3> QED
      BY <3>1, <3>2 DEF SameCore, Documents
  <2> QED
    BY <2>1, <2>2 DEF OpenDefs
<1>3. SameCore(CloseOpenDefs(d), d)
  <2>1. SameCore(d, d) /\ "defs" \in Tags
    BY DEF SameCore, Tags
  <2>2. CASE d.defsOpen
    <3>1. Close(d, "defs") \in Documents /\ SameCore(Close(d, "defs"), d)
      BY <1>1, <2>1, CloseType
    <3>2. CloseOpenDefs(d) = [Close(d, "defs") EXCEPT !.defsOpen = FALSE]
      BY <2>2 DEF CloseOpenDefs
    <3> QED
      BY <3>1, <3>2 DEF SameCore, Documents
  <2> QED
    BY <2>1, <2>2 DEF CloseOpenDefs
<1>4. Written(OpenDefs(d)) = Written(d) /\ Written(CloseOpenDefs(d)) = Written(d)
  BY OpenDefsType, CloseOpenDefsType, WrittenSame
<1> QED
  BY <1>1, <1>2, <1>3, <1>4

LEMMA WriteIdEffect ==
  ASSUME NEW d \in Documents, NEW id \in Identifiers
  PROVE  /\ Written(WriteId(d, id)) = Written(d)
         /\ WriteId(d, id).defs = d.defs
         /\ WriteId(d, id).ids = d.ids \cup {id}
         /\ WriteId(d, id).reused = (d.reused \/ id \in d.ids)
<1>1. Written(WriteId(d, id)) = Written(d) /\ WriteId(d, id).defs = d.defs
  BY WriteIdType, WrittenSame
<1>2. /\ WriteId(d, id).ids = d.ids \cup {id}
      /\ WriteId(d, id).reused = (d.reused \/ id \in d.ids)
  BY DEF WriteId, Documents
<1> QED
  BY <1>1, <1>2

LEMMA DefineEffect ==
  ASSUME NEW d \in Documents, NEW id \in Identifiers, NEW content \in Contents
  PROVE  /\ Written(Define(d, id, content)) = Written(d)
         /\ Defines(Define(d, id, content), d, id, content)
<1> DEFINE o == OpenDefs(d)
           w == WriteId(o, id)
           e == Define(d, id, content)
<1>1. Written(e) = Written(d) /\ e.defs = d.defs \cup {[id |-> id, content |-> content]}
  BY DefineType, WrittenSame
<1>2. o \in Documents /\ o.ids = d.ids /\ o.reused = d.reused
  BY OpenDefsType, TagsOnly DEF SameCore
<1>3. w \in Documents /\ w.ids = o.ids \cup {id} /\ w.reused = (o.reused \/ id \in o.ids)
  BY <1>2, WriteIdType, WriteIdEffect
<1>4. e.ids = w.ids /\ e.reused = w.reused
  <2>1. e = [w EXCEPT !.defs = w.defs \cup {[id |-> id, content |-> content]}]
    BY DEF Define
  <2> HIDE DEF w, e
  <2> QED
    BY <1>3, <2>1 DEF Documents
<1> QED
  BY <1>1, <1>2, <1>3, <1>4 DEF Defines

\* Marks are written behind those there are.
LEMMA DrawEffect ==
  ASSUME NEW d \in Documents, NEW ms \in Seq(Marks),
         \A i \in DOMAIN ms : ms[i].inside = <<>>
  PROVE  /\ Written(Draw(d, ms)) = Written(d) \o ms
         /\ SameCore(Draw(d, ms), d)
<1> DEFINE e == Draw(d, ms)
<1>1. /\ e \in Documents /\ e.defs = d.defs
      /\ Len(e.marks) = Len(d.marks) + Len(ms)
      /\ \A i \in DOMAIN d.marks : e.marks[i] = d.marks[i]
      /\ \A i \in DOMAIN ms : e.marks[Len(d.marks) + i] = [ms[i] EXCEPT !.inside = d.tags]
  BY DrawType
<1>2. SameCore(e, d)
  BY DEF Draw, SameCore, Documents
<1> HIDE DEF e
<1>3. /\ d.marks \in Seq(Marks) /\ e.marks \in Seq(Marks)
      /\ Len(d.marks) \in Nat /\ Len(ms) \in Nat /\ Len(e.marks) \in Nat
      /\ DOMAIN d.marks = 1 .. Len(d.marks) /\ DOMAIN ms = 1 .. Len(ms)
      /\ DOMAIN e.marks = 1 .. Len(e.marks) /\ \A i \in DOMAIN ms : ms[i] \in Marks
  BY <1>1, DocumentFields
<1>4. /\ Written(e) \in Seq(Marks) /\ Len(Written(e)) = Len(d.marks) + Len(ms)
      /\ Written(d) \in Seq(Marks) /\ Len(Written(d)) = Len(d.marks)
  BY <1>1, WrittenType
<1>5. \A i \in 1 .. Len(d.marks) : Written(e)[i] = Written(d)[i]
  BY <1>1, <1>3 DEF Written
<1>6. \A i \in 1 .. Len(ms) : Written(e)[Len(d.marks) + i] = ms[i]
  <2> SUFFICES ASSUME NEW i \in 1 .. Len(ms) PROVE Written(e)[Len(d.marks) + i] = ms[i]
    OBVIOUS
  <2>1. /\ ms[i] \in Marks /\ ms[i].inside = <<>>
        /\ e.marks[Len(d.marks) + i] = [ms[i] EXCEPT !.inside = d.tags]
    BY <1>1, <1>3
  <2>2. Len(d.marks) + i \in DOMAIN e.marks
    BY <1>1, <1>3
  <2>3. Written(e)[Len(d.marks) + i] = Bare([ms[i] EXCEPT !.inside = d.tags])
    BY <2>1, <2>2 DEF Written
  <2>4. [[ms[i] EXCEPT !.inside = d.tags] EXCEPT !.inside = <<>>] = ms[i]
    BY <2>1 DEF Marks
  <2> QED
    BY <2>3, <2>4 DEF Bare
<1>7. Written(e) = Written(d) \o ms
  <2> DEFINE f == Written(d) \o ms
  <2>1. /\ f \in Seq(Marks) /\ Len(f) = Len(d.marks) + Len(ms)
        /\ \A i \in 1 .. Len(d.marks) : f[i] = Written(d)[i]
        /\ \A i \in 1 .. Len(ms) : f[Len(d.marks) + i] = ms[i]
    BY <1>4, MarksBehindMarks
  <2> HIDE DEF f
  <2>2. \A i \in 1 .. Len(f) : Written(e)[i] = f[i]
    <3> SUFFICES ASSUME NEW i \in 1 .. Len(f), i > Len(d.marks) PROVE Written(e)[i] = f[i]
      BY <1>3, <1>5, <2>1
    <3>1. i - Len(d.marks) \in 1 .. Len(ms) /\ i = Len(d.marks) + (i - Len(d.marks))
      BY <1>3, <2>1
    <3> QED
      BY <1>6, <2>1, <3>1
  <2>3. Written(e) = f
    BY <1>4, <2>1, <2>2, SeqEqual
  <2> QED
    BY <2>3 DEF f
<1> QED
  BY <1>2, <1>7 DEF e

\* One mark more.
LEMMA DrawOneEffect ==
  ASSUME NEW d \in Documents, NEW m \in Marks, m.inside = <<>>
  PROVE  /\ Written(Draw(d, <<m>>)) = Written(d) \o <<m>>
         /\ SameCore(Draw(d, <<m>>), d) /\ Draw(d, <<m>>) \in Documents
<1>1. <<m>> \in Seq(Marks) /\ \A i \in DOMAIN <<m>> : <<m>>[i].inside = <<>>
  OBVIOUS
<1> QED
  BY <1>1, DrawEffect, DrawType

LEMMA MarkFields ==
  ASSUME NEW at, NEW of, NEW ref, NEW paint, NEW href, NEW colour
  PROVE  LET m == Mark(at, of, ref, paint, href, colour) IN
         /\ m.of = of /\ m.clip = ref /\ m.fill = paint /\ m.href = href
         /\ m.colour = colour /\ m.inside = <<>>
BY DEF Mark

LEMMA SameCoreTransitive ==
  ASSUME NEW d, NEW e, NEW f, SameCore(f, e), SameCore(e, d)
  PROVE  SameCore(f, d)
BY DEF SameCore

\* Pending text is written behind what there is.
LEMMA DrawTextEffect ==
  ASSUME NEW d \in Documents, NEW segments \in Seq([at : Nat, colour : Nat]),
         Here \in Nat
  PROVE  /\ Written(Draw(d, TextMarks(segments))) = Written(d) \o TextMarks(segments)
         /\ SameCore(Draw(d, TextMarks(segments)), d)
<1>1. TextMarks(segments) \in Seq(Marks)
  BY TextMarksType
<1>2. \A i \in DOMAIN TextMarks(segments) : TextMarks(segments)[i].inside = <<>>
  BY DEF TextMarks, Mark
<1> QED
  BY <1>1, <1>2, DrawEffect

Flushed == Written(doc) \o TextMarks(text.pending)

\* What precedes a handler writes the pending text and nothing else.
LEMMA FlushEffect ==
  ASSUME doc \in Documents, text \in Texts, Here \in Nat
  PROVE  /\ Written(Flush(doc)) = Flushed /\ SameCore(Flush(doc), doc)
         /\ Written(PrimitiveDoc) = Flushed /\ SameCore(PrimitiveDoc, doc)
         /\ Written(CloseOpenDefs(doc)) = Written(doc)
         /\ SameCore(CloseOpenDefs(doc), doc)
         /\ Written(Flush(CloseOpenDefs(doc))) = Flushed
         /\ SameCore(Flush(CloseOpenDefs(doc)), doc)
         /\ NoPending.pending = <<>> /\ NoPending.colour = text.colour
<1>1. text.pending \in Seq([at : Nat, colour : Nat])
  BY DEF Texts
<1>2. Written(Flush(doc)) = Flushed /\ SameCore(Flush(doc), doc)
  BY <1>1, DrawTextEffect DEF Flush, Flushed
<1>3. Flush(doc) \in Documents /\ CloseOpenDefs(doc) \in Documents
  BY FlushExtends, CloseOpenDefsType DEF Extends
<1>4. /\ Written(PrimitiveDoc) = Written(Flush(doc))
      /\ SameCore(PrimitiveDoc, Flush(doc))
  BY <1>3, TagsOnly DEF PrimitiveDoc
<1>5. /\ Written(CloseOpenDefs(doc)) = Written(doc)
      /\ SameCore(CloseOpenDefs(doc), doc)
  BY TagsOnly
<1>6. /\ Written(Flush(CloseOpenDefs(doc))) = Flushed
      /\ SameCore(Flush(CloseOpenDefs(doc)), CloseOpenDefs(doc))
  BY <1>1, <1>3, <1>5, DrawTextEffect DEF Flush, Flushed
<1>7. NoPending.pending = <<>> /\ NoPending.colour = text.colour
  BY DEF NoPending, Texts
<1> QED
  BY <1>2, <1>4, <1>5, <1>6, <1>7, SameCoreTransitive

-----------------------------------------------------------------------------
(* What a step does with the graphics of the file. Besides the document    *)
(* and the pending text they are held by an open figure, by a protection   *)
(* region being captured and by the protection regions.                    *)

Held == <<figure.subpaths, region.paths, region.shapes>>

Flushes == Written(doc') = Flushed /\ text'.pending = <<>>

\* Nothing moves.
Keeps(c) ==
  /\ ~Graphic(c)
  /\ Written(doc') = Written(doc) /\ text'.pending = text.pending
  /\ UNCHANGED Held

\* Pending text is written, and geometry dropped that may be.
Forgets(c) ==
  /\ Graphic(c) => phase' = "failed"
  /\ Flushes
  /\ \/ UNCHANGED figure.subpaths
     \/ figure'.subpaths = <<>> /\ Positions(figure.subpaths) \subseteq MayForget(c)
  /\ \/ UNCHANGED region.paths
     \/ region'.paths = <<>> /\ Entries(region.paths) \subseteq MayForget(c)
  /\ \/ UNCHANGED region.shapes
     \/ /\ region'.shapes = [r \in Regions |-> <<>>]
        /\ \A r \in Regions : Entries(region.shapes[r]) \subseteq MayForget(c)

\* The command is drawn, text in the colour in force.
Draws(c) ==
  /\ \E m \in Marks :
       /\ Written(doc') = Flushed \o <<m>> /\ m.of = <<Here>>
       /\ c.op \in TextOps => m.colour = text.colour
       /\ m.clip \in {NoId, clip.ref}
       /\ m.fill = NoId \/ (m.fill = FillId /\ fill' = EnsuredFill)
  /\ text'.pending = <<>>
  /\ UNCHANGED Held

\* It is text that becomes the pending text, or is added to it.
Starts(c) ==
  /\ c.op \in TextOps
  /\ Written(doc') = Flushed /\ text'.pending = <<Segment(Here)>>
  /\ UNCHANGED Held

Joins(c) ==
  /\ c.op \in TextOps
  /\ Written(doc') = Written(doc)
  /\ text'.pending = Append(text.pending, Segment(Here))
  /\ UNCHANGED Held

\* It is geometry of the open figure, or of the region being captured.
Collects(c) ==
  /\ IsPrimitive(c) /\ figure.open /\ Flushes
  /\ \E joined \in BOOLEAN :
       figure'.subpaths = Append(figure.subpaths, [at |-> Here, joined |-> joined])
  /\ UNCHANGED region

Captures(c) ==
  /\ IsPrimitive(c) /\ Flushes
  /\ region'.paths = Append(region.paths, <<Here>>)
  /\ UNCHANGED <<figure.subpaths, region.shapes>>

\* The figure becomes part of the region being captured, or is drawn.
Encloses(c) ==
  /\ ~Graphic(c) /\ Flushes
  /\ region'.paths = Append(region.paths, FigurePath)
  /\ figure'.subpaths = <<>>
  /\ UNCHANGED region.shapes

DrawsFigure(c) ==
  /\ ~Graphic(c) /\ figure.subpaths # <<>>
  /\ \E m \in Marks :
       /\ Written(doc') = Flushed \o <<m>> /\ m.of = FigurePath
       /\ m.clip = clip.ref /\ m.fill = FillId
  /\ fill' = EnsuredFill
  /\ text'.pending = <<>> /\ figure'.subpaths = <<>>
  /\ UNCHANGED region

\* What has been captured becomes part of the shape of a region.
Closes(c) ==
  /\ ~Graphic(c) /\ Flushes
  /\ \E r \in Regions :
       region'.shapes = [region.shapes EXCEPT ![r] = @ \o region.paths]
  /\ region'.paths = <<>>
  /\ UNCHANGED figure.subpaths

\* The document starts again.
Blank ==
  /\ Written(doc') = <<>> /\ text'.pending = <<>>
  /\ region'.paths = <<>> /\ region'.shapes = [r \in Regions |-> <<>>]
  /\ clip' = FreshClip(0)
  /\ UNCHANGED figure.subpaths

TurnsPage(c) == ~Graphic(c) /\ Kept \subseteq MayForget(c) /\ Blank

\* The colour of text after a command.
NextColour(c) ==
  text'.colour = IF c.op = "TEXT COLOUR" THEN Here
                 ELSE IF c.op = "BEGIN PICTURE" THEN 0 ELSE text.colour

Moves(c) ==
  /\ Reads(c) /\ NextColour(c) /\ runs' = runs
  /\ \/ Keeps(c) \/ Forgets(c) \/ Draws(c) \/ Starts(c) \/ Joins(c)
     \/ Collects(c) \/ Captures(c) \/ Encloses(c) \/ DrawsFigure(c)
     \/ Closes(c) \/ TurnsPage(c)

Flow == \E c \in Alphabet : Moves(c)
\* Commands that draw and commands that do something else.
NotGraphic ==
  {"CLIP RECTANGLE", "CLIP INDICATOR", "BEGIN PROTECTION REGION",
   "END PROTECTION REGION", "PROTECTION REGION INDICATOR", "BEGIN FIGURE",
   "CONNECTING EDGE", "END FIGURE", "INTERIOR STYLE", "PATTERN INDEX",
   "PATTERN TABLE", "PATTERN SIZE", "FILL REFERENCE POINT", "TEXT COLOUR",
   "BEGIN APS", "APS ATTRIBUTE", "BEGIN APS BODY", "END APS",
   "SYMBOL LIBRARY LIST", "BEGIN PICTURE", "BEGIN PICTURE BODY",
   "END PICTURE", "BACKGROUND COLOUR", "COLOUR TABLE", "SEGMENT"}

LEMMA Kinds ==
  ASSUME NEW c
  PROVE  /\ c.op \in NotGraphic => ~Graphic(c)
         /\ IsPrimitive(c) =>
              c.op \notin TextOps \cup {"TEXT COLOUR", "BEGIN PICTURE", "POLYSYMBOL"}
         /\ c.op \in TextOps => c.op \notin {"TEXT COLOUR", "BEGIN PICTURE"}
BY DEF NotGraphic, Graphic, TextOps, IsPrimitive, Traits

\* What every handler finds.
LEMMA Found ==
  ASSUME Inv, NEW c \in Alphabet, Reads(c), Continues \/ Throws
  PROVE  /\ Here \in Nat \ {0} /\ Here \in Nat /\ 0 \in Nat
         /\ <<Here>> \in Seq(Nat) /\ NoId \in Identifiers
         /\ doc \in Documents /\ Flush(doc) \in Documents /\ PrimitiveDoc \in Documents
         /\ Written(Flush(doc)) = Flushed /\ Written(PrimitiveDoc) = Flushed
         /\ Written(CloseOpenDefs(doc)) = Written(doc)
         /\ Written(Flush(CloseOpenDefs(doc))) = Flushed
         /\ NoPending.pending = <<>> /\ NoPending.colour = text.colour
         /\ clip \in Clips /\ clip.ref \in Identifiers
         /\ region \in RegionStates /\ figure \in Figures
         /\ fill \in Fills /\ text \in Texts /\ runs' = runs
<1>1. /\ Here \in Nat \ {0} /\ doc \in Documents /\ Flush(doc) \in Documents
      /\ PrimitiveDoc \in Documents /\ text \in Texts
  BY BeforeHandler
<1>2. <<Here>> \in Seq(Nat) /\ NoId \in Identifiers
  BY <1>1, OwnIds
<1>3. clip \in Clips /\ region \in RegionStates /\ figure \in Figures /\ fill \in Fills
  BY DEF Inv, ClipOK, RegionOK, FillOK
<1>4. clip.ref \in Identifiers
  BY <1>3 DEF Clips
<1> QED
  BY <1>1, <1>2, <1>3, <1>4, FlushEffect DEF Continues, Throws

\* A command that writes the pending text and nothing else, and leaves the
\* figure and the regions alone.
LEMMA OnlyFlushes ==
  ASSUME Inv, NEW c \in Alphabet, Reads(c), Continues \/ Throws,
         c.op \notin {"TEXT COLOUR", "BEGIN PICTURE"},
         Graphic(c) => phase' = "failed",
         Written(doc') = Flushed, text' = NoPending, UNCHANGED Held
  PROVE  Flow
<1>1. NextColour(c) /\ text'.pending = <<>> /\ runs' = runs
  BY Found DEF NextColour
<1>2. Forgets(c)
  BY <1>1 DEF Forgets, Flushes, Held
<1> QED
  BY <1>1, <1>2 DEF Flow, Moves

\* Defining something shows nothing.
LEMMA DefinesNothingShown ==
  ASSUME NEW d \in Documents, NEW n \in Nat, NEW content \in Contents
  PROVE  /\ Written(Define(d, ClipPathId(n), content)) = Written(d)
         /\ Written(Define(d, PatternId(n), content)) = Written(d)
BY DefineEffect, OwnIds

LEMMA UpdatedClipShowsNothing ==
  ASSUME NEW d \in Documents, NEW c \in Clips
  PROVE  Written(UpdatedClipDoc(c, d)) = Written(d)
<1>1. CASE RectangleInForce(c) /\ c.cached[c.rect] = NoId
  <2>1. c.rect \in Rects /\ c.made + 1 \in Nat
    BY <1>1 DEF RectangleInForce, Clips
  <2>2. RectShape(c.rect) \in Contents
    BY <2>1 DEF RectShape, Contents
  <2>3. UpdatedClipDoc(c, d) = Define(d, ClipPathId(c.made + 1), RectShape(c.rect))
    BY <1>1 DEF UpdatedClipDoc
  <2> QED
    BY <2>1, <2>2, <2>3, DefinesNothingShown
<1>2. CASE ~(RectangleInForce(c) /\ c.cached[c.rect] = NoId)
  BY <1>2 DEF UpdatedClipDoc
<1> QED
  BY <1>1, <1>2

-----------------------------------------------------------------------------
(* Clips and protection regions.                                           *)

LEMMA ClipRectangleFlow == Inv /\ ClipRectangle => Flow
<1> SUFFICES ASSUME Inv, ClipRectangle PROVE Flow
  OBVIOUS
<1>1. PICK c \in Alphabet : ClipRectangle!(c)
  BY DEF ClipRectangle
<1>2. [clip EXCEPT !.rect = c.rect] \in Clips
  BY <1>1, Operands, Found DEF Clips
<1>3. Written(doc') = Flushed
  BY <1>1, <1>2, Found, UpdatedClipShowsNothing DEF UpdatesClip
<1>4. ~Graphic(c) /\ c.op \notin {"TEXT COLOUR", "BEGIN PICTURE"}
  BY <1>1, Kinds DEF NotGraphic
<1> QED
  BY <1>1, <1>3, <1>4, OnlyFlushes DEF Held

LEMMA ClipIndicatorFlow == Inv /\ ClipIndicator => Flow
<1> SUFFICES ASSUME Inv, ClipIndicator PROVE Flow
  OBVIOUS
<1>1. PICK c \in Alphabet : ClipIndicator!(c)
  BY DEF ClipIndicator
<1>2. [clip EXCEPT !.enabled = TRUE] \in Clips
  BY <1>1, Found DEF Clips
<1>3. Written(doc') = Flushed
  BY <1>1, <1>2, Found, UpdatedClipShowsNothing DEF UpdatesClip
<1>4. ~Graphic(c) /\ c.op \notin {"TEXT COLOUR", "BEGIN PICTURE"}
  BY <1>1, Kinds DEF NotGraphic
<1> QED
  BY <1>1, <1>3, <1>4, OnlyFlushes DEF Held

LEMMA BeginProtectionRegionFlow == Inv /\ BeginProtectionRegion => Flow
<1> SUFFICES ASSUME Inv, BeginProtectionRegion PROVE Flow
  OBVIOUS
<1>1. PICK c \in Alphabet : BeginProtectionRegion!(c)
  BY DEF BeginProtectionRegion
<1>2. ~Graphic(c)
  BY <1>1, Kinds DEF NotGraphic
<1>3. Flushes /\ NextColour(c)
  BY <1>1, Found DEF FlushesText, Flushes, NextColour
<1>4. region'.paths = <<>> /\ region'.shapes = region.shapes
  BY <1>1, Found DEF RegionStates
<1>5. MayForget(c) = Entries(region.paths)
  BY <1>1 DEF MayForget
<1>6. Forgets(c)
  BY <1>1, <1>2, <1>3, <1>4, <1>5 DEF Forgets
<1> QED
  BY <1>1, <1>3, <1>6, Found DEF Flow, Moves

\* The paths captured belong to a region: this is where they would be lost.
Captured ==
  /\ region.paths # <<>> => region.capturing
  /\ region.capturing => region.active \in Regions

LEMMA EndProtectionRegionFlow == Inv /\ Captured /\ EndProtectionRegion => Flow
<1> SUFFICES ASSUME Inv, Captured, EndProtectionRegion PROVE Flow
  OBVIOUS
<1>1. PICK c \in Alphabet : EndProtectionRegion!(c)
  BY DEF EndProtectionRegion
<1>2. ~Graphic(c)
  BY <1>1, Kinds DEF NotGraphic
<1>3. Flushes /\ NextColour(c)
  BY <1>1, Found DEF FlushesText, Flushes, NextColour
<1>4. region \in RegionStates
  BY <1>1, Found
<1>5. CASE region.paths = <<>>
  <2>1. region'.paths = region.paths /\ region'.shapes = region.shapes
    BY <1>1, <1>4, <1>5 DEF RegionStates
  <2>2. Forgets(c)
    BY <1>1, <1>2, <1>3, <2>1 DEF Forgets
  <2> QED
    BY <1>1, <1>3, <2>2, Found DEF Flow, Moves
<1>6. CASE region.paths # <<>>
  <2>1. region.capturing /\ region.active \in Regions
    BY <1>6 DEF Captured
  <2>2. region.active >= 0
    <3>1. Regions \subseteq Nat
      BY IndexAssumption
    <3>2. region.active \in Nat
      BY <2>1, <3>1
    <3> QED
      BY <3>2
  <2>3. /\ region'.paths = <<>>
        /\ region'.shapes = [region.shapes EXCEPT ![region.active] = @ \o region.paths]
    BY <1>1, <1>4, <1>6, <2>1, <2>2 DEF RegionStates
  <2>4. Closes(c)
    BY <1>1, <1>2, <1>3, <2>1, <2>3 DEF Closes
  <2> QED
    BY <1>1, <1>3, <2>4, Found DEF Flow, Moves
<1> QED
  BY <1>5, <1>6

LEMMA ProtectionRegionIndicatorFlow == Inv /\ ProtectionRegionIndicator => Flow
<1> SUFFICES ASSUME Inv, ProtectionRegionIndicator PROVE Flow
  OBVIOUS
<1>1. PICK c \in Alphabet : ProtectionRegionIndicator!(c)
  BY DEF ProtectionRegionIndicator
<1>2. c.rid \in Regions /\ clip \in Clips /\ region \in RegionStates
  BY <1>1, Operands, Found
<1>3. Written(doc') = Flushed
  <2>1. CASE ~c.on
    BY <1>1, <1>2, <2>1, Found, UpdatedClipShowsNothing DEF UpdatesClip
  <2>2. CASE c.on
    <3>1. /\ PathShape(region.shapes[c.rid]) \in Contents /\ clip.made + 1 \in Nat
      BY <1>2 DEF PathShape, Contents, RegionStates, Clips
    <3>2. Written(Define(Flush(doc), ClipPathId(clip.made + 1),
                         PathShape(region.shapes[c.rid]))) = Flushed
      BY <1>1, <3>1, Found, DefinesNothingShown
    <3> QED
      BY <1>1, <2>2, <3>2, Found DEF ClipToRegion
  <2> QED
    BY <2>1, <2>2
<1>4. region'.paths = region.paths /\ region'.shapes = region.shapes
  BY <1>1, <1>2 DEF ClipToRegion, RegionStates
<1>5. ~Graphic(c) /\ c.op \notin {"TEXT COLOUR", "BEGIN PICTURE"}
  BY <1>1, Kinds DEF NotGraphic
<1> QED
  BY <1>1, <1>3, <1>4, <1>5, OnlyFlushes DEF Held
-----------------------------------------------------------------------------
(* Primitives and figures.                                                 *)

LEMMA PatternValueType ==
  ASSUME fill \in Fills, NEW p \in Patterns
  PROVE  PatternValue(fill, p) \in Contents
<1>1. /\ fill.tables[p] \in [at : Nat, valid : BOOLEAN]
      /\ fill.sizes[p] \in Nat /\ fill.reference \in Nat
  BY DEF Fills
<1> QED
  BY <1>1 DEF PatternValue, Contents

LEMMA EnsuredFillShowsNothing ==
  ASSUME NEW d \in Documents, fill \in Fills
  PROVE  Written(EnsuredFillDoc(d)) = Written(d)
<1>1. CASE Tiled /\ ~Defined
  <2>1. EnsuredFillDoc(d) = Define(d, PatternId(fill.made + 1), PatternValue(fill, fill.index))
    BY <1>1 DEF EnsuredFillDoc, FillId
  <2>2. fill.index \in Patterns /\ fill.made + 1 \in Nat
    BY DEF Fills
  <2> QED
    BY <2>1, <2>2, PatternValueType, DefinesNothingShown
<1>2. CASE ~(Tiled /\ ~Defined)
  BY <1>2 DEF EnsuredFillDoc
<1> QED
  BY <1>1, <1>2

\* A filled element: the definition it may need shows nothing of its own.
LEMMA FilledEffect ==
  ASSUME Inv, Here \in Nat, NEW of \in Seq(Nat), NEW ref \in Identifiers,
         doc' = Draw(CloseOpenDefs(EnsuredFillDoc(PrimitiveDoc)),
                     <<Mark(Here, of, ref, FillId, NoId, 0)>>)
  PROVE  \E m \in Marks :
           /\ Written(doc') = Flushed \o <<m>>
           /\ m.of = of /\ m.clip = ref /\ m.fill = FillId
<1> DEFINE e == EnsuredFillDoc(PrimitiveDoc)
           f == CloseOpenDefs(e)
           m == Mark(Here, of, ref, FillId, NoId, 0)
<1>1. /\ doc \in Documents /\ text \in Texts /\ fill \in Fills
      /\ \A p \in Patterns : Resolves(doc, fill.cached[p])
  BY DEF Inv, DocOK, FillOK
<1>2. PrimitiveDoc \in Documents /\ Extends(PrimitiveDoc, doc)
  BY <1>1, FlushExtends DEF PrimitiveDoc, Extends
<1>3. \A p \in Patterns : Resolves(PrimitiveDoc, fill.cached[p])
  BY <1>1, <1>2, StillResolves DEF Extends
<1>4. e \in Documents /\ FillId \in Identifiers
  BY <1>1, <1>2, <1>3, EnsuredFillSound
<1>5. Written(e) = Flushed
  BY <1>1, <1>2, EnsuredFillShowsNothing, FlushEffect
<1> HIDE DEF e
<1>6. f \in Documents /\ Written(f) = Flushed
  BY <1>4, <1>5, CloseOpenDefsType, TagsOnly
<1> HIDE DEF f
<1>7. doc' = Draw(f, <<m>>) /\ 0 \in Nat /\ NoId \in Identifiers
  BY OwnIds DEF f, e
<1>8. m \in Marks
  BY <1>4, <1>7, MarkType
<1>9. /\ m.of = of /\ m.clip = ref /\ m.fill = FillId /\ m.inside = <<>>
  BY MarkFields
<1> HIDE DEF m
<1>10. Written(Draw(f, <<m>>)) = Written(f) \o <<m>>
  BY <1>6, <1>8, <1>9, DrawOneEffect
<1> QED
  BY <1>6, <1>7, <1>8, <1>9, <1>10

LEMMA PrimitiveIntoFigureFlow == Inv /\ PrimitiveIntoFigure => Flow
<1> SUFFICES ASSUME Inv, PrimitiveIntoFigure PROVE Flow
  OBVIOUS
<1>1. PICK c \in Alphabet : PrimitiveIntoFigure!(c)
  BY DEF PrimitiveIntoFigure
<1>2. Flushes /\ NextColour(c) /\ runs' = runs
  BY <1>1, Found, Kinds DEF Flushes, NextColour
<1>3. /\ figure.connect \in BOOLEAN
      /\ figure'.subpaths = Append(figure.subpaths, [at |-> Here, joined |-> figure.connect])
  BY <1>1, Found DEF Figures
<1>4. Collects(c)
  BY <1>1, <1>2, <1>3 DEF Collects, IntoFigure
<1> QED
  BY <1>1, <1>2, <1>4 DEF Flow, Moves

LEMMA PrimitiveIntoRegionFlow == Inv /\ PrimitiveIntoRegion => Flow
<1> SUFFICES ASSUME Inv, PrimitiveIntoRegion PROVE Flow
  OBVIOUS
<1>1. PICK c \in Alphabet : PrimitiveIntoRegion!(c)
  BY DEF PrimitiveIntoRegion
<1>2. Flushes /\ NextColour(c) /\ runs' = runs
  BY <1>1, Found, Kinds DEF Flushes, NextColour
<1>3. region'.paths = Append(region.paths, <<Here>>) /\ region'.shapes = region.shapes
  BY <1>1, Found DEF RegionStates
<1>4. Captures(c)
  BY <1>1, <1>2, <1>3 DEF Captures
<1> QED
  BY <1>1, <1>2, <1>4 DEF Flow, Moves

LEMMA DrawStrokedFlow == Inv /\ DrawStroked => Flow
<1> SUFFICES ASSUME Inv, DrawStroked PROVE Flow
  OBVIOUS
<1>1. PICK c \in Alphabet : DrawStroked!(c)
  BY DEF DrawStroked
<1>2. NextColour(c) /\ runs' = runs /\ text'.pending = <<>>
  BY <1>1, Found, Kinds DEF NextColour
<1>3. ClipOf(c) \in Identifiers /\ ClipOf(c) \in {NoId, clip.ref}
  BY ClipOfResolves DEF ClipOf
<1>4. Draws(c)
  <2> DEFINE m == Mark(Here, <<Here>>, ClipOf(c), NoId, NoId, 0)
  <2>1. doc' = Draw(PrimitiveDoc, <<m>>)
    BY <1>1
  <2>2. m \in Marks
    BY <1>1, <1>3, Found, MarkType
  <2>3. m.of = <<Here>> /\ m.clip = ClipOf(c) /\ m.fill = NoId /\ m.inside = <<>>
    BY MarkFields
  <2> HIDE DEF m
  <2>4. Written(doc') = Flushed \o <<m>>
    BY <1>1, <2>1, <2>2, <2>3, Found, DrawOneEffect
  <2> QED
    BY <1>1, <1>2, <1>3, <2>2, <2>3, <2>4, Kinds DEF Draws, Held
<1> QED
  BY <1>1, <1>2, <1>4 DEF Flow, Moves

LEMMA DrawFilledFlow == Inv /\ DrawFilled => Flow
<1> SUFFICES ASSUME Inv, DrawFilled PROVE Flow
  OBVIOUS
<1>1. PICK c \in Alphabet : DrawFilled!(c)
  BY DEF DrawFilled
<1>2. NextColour(c) /\ runs' = runs /\ text'.pending = <<>>
  BY <1>1, Found, Kinds DEF NextColour
<1>3. ClipOf(c) \in Identifiers /\ ClipOf(c) \in {NoId, clip.ref}
  BY ClipOfResolves DEF ClipOf
<1>4. PICK m \in Marks : /\ Written(doc') = Flushed \o <<m>> /\ m.of = <<Here>>
                         /\ m.clip = ClipOf(c) /\ m.fill = FillId
  BY <1>1, <1>3, Found, FilledEffect
<1>5. Draws(c)
  BY <1>1, <1>2, <1>3, <1>4, Kinds DEF Draws, Held
<1> QED
  BY <1>1, <1>2, <1>5 DEF Flow, Moves

LEMMA FailFilledFlow == Inv /\ FailFilled => Flow
<1> SUFFICES ASSUME Inv, FailFilled PROVE Flow
  OBVIOUS
<1>1. PICK c \in Alphabet : FailFilled!(c)
  BY DEF FailFilled
<1>2. Written(doc') = Flushed /\ c.op \notin {"TEXT COLOUR", "BEGIN PICTURE"}
  BY <1>1, Found, Kinds
<1>3. phase' = "failed"
  BY <1>1 DEF Throws
<1> QED
  BY <1>1, <1>2, <1>3, OnlyFlushes DEF Held

LEMMA BeginFigureFlow == Inv /\ BeginFigure => Flow
<1> SUFFICES ASSUME Inv, BeginFigure PROVE Flow
  OBVIOUS
<1>1. PICK c \in Alphabet : BeginFigure!(c)
  BY DEF BeginFigure
<1>2. ~Graphic(c)
  BY <1>1, Kinds DEF NotGraphic
<1>3. Flushes /\ NextColour(c) /\ runs' = runs
  BY <1>1, Found DEF FlushesText, Flushes, NextColour
<1>4. figure'.subpaths = <<>> /\ MayForget(c) = Positions(figure.subpaths)
  BY <1>1 DEF NoFigure, MayForget
<1>5. Forgets(c)
  BY <1>1, <1>2, <1>3, <1>4 DEF Forgets
<1> QED
  BY <1>1, <1>3, <1>5 DEF Flow, Moves

LEMMA ConnectingEdgeFlow == Inv /\ ConnectingEdge => Flow
<1> SUFFICES ASSUME Inv, ConnectingEdge PROVE Flow
  OBVIOUS
<1>1. PICK c \in Alphabet : ConnectingEdge!(c)
  BY DEF ConnectingEdge
<1>2. Written(doc') = Flushed /\ figure'.subpaths = figure.subpaths
  BY <1>1, Found DEF Figures
<1>3. ~Graphic(c) /\ c.op \notin {"TEXT COLOUR", "BEGIN PICTURE"}
  BY <1>1, Kinds DEF NotGraphic
<1> QED
  BY <1>1, <1>2, <1>3, OnlyFlushes DEF Held

LEMMA EndFigureFlow == Inv /\ EndFigure => Flow
<1> SUFFICES ASSUME Inv, EndFigure PROVE Flow
  OBVIOUS
<1>1. PICK c \in Alphabet : EndFigure!(c)
  BY DEF EndFigure
<1>2. Written(doc') = Flushed /\ text' = NoPending
  BY <1>1, Found DEF FlushesText
<1>3. figure'.subpaths = figure.subpaths
  BY <1>1, Found DEF Figures, ClosedFigure
<1>4. ~Graphic(c) /\ c.op \notin {"TEXT COLOUR", "BEGIN PICTURE"}
  BY <1>1, Kinds DEF NotGraphic
<1> QED
  BY <1>1, <1>2, <1>3, <1>4, OnlyFlushes DEF Held

LEMMA EndFigureIntoRegionFlow == Inv /\ EndFigureIntoRegion => Flow
<1> SUFFICES ASSUME Inv, EndFigureIntoRegion PROVE Flow
  OBVIOUS
<1>1. PICK c \in Alphabet : EndFigureIntoRegion!(c)
  BY DEF EndFigureIntoRegion
<1>2. ~Graphic(c)
  BY <1>1, Kinds DEF NotGraphic
<1>3. Flushes /\ NextColour(c) /\ runs' = runs
  BY <1>1, Found DEF Flushes, NextColour
<1>4. /\ region'.paths = Append(region.paths, FigurePath)
      /\ region'.shapes = region.shapes /\ figure'.subpaths = <<>>
  BY <1>1, Found DEF RegionStates, Figures, ClosedFigure
<1>5. Encloses(c)
  BY <1>2, <1>3, <1>4 DEF Encloses
<1> QED
  BY <1>1, <1>3, <1>5 DEF Flow, Moves

LEMMA DrawFigureFlow == Inv /\ DrawFigure => Flow
<1> SUFFICES ASSUME Inv, DrawFigure PROVE Flow
  OBVIOUS
<1>1. PICK c \in Alphabet : DrawFigure!(c)
  BY DEF DrawFigure
<1>2. ~Graphic(c) /\ c.op \notin {"TEXT COLOUR", "BEGIN PICTURE"}
  BY <1>1, Kinds DEF NotGraphic
<1>3. CASE FillFails
  <2>1. Throws /\ doc' = PrimitiveDoc /\ UNCHANGED <<figure, fill>>
    BY <1>1, <1>3
  <2>2. Written(doc') = Flushed
    BY <1>1, <2>1, Found
  <2> QED
    BY <1>1, <1>2, <2>1, <2>2, OnlyFlushes DEF Held
<1>4. CASE ~FillFails
  <2>1. /\ Continues /\ fill' = EnsuredFill /\ figure' = ClosedFigure
        /\ doc' = Draw(CloseOpenDefs(EnsuredFillDoc(PrimitiveDoc)),
                       <<Mark(Here, FigurePath, clip.ref, FillId, NoId, 0)>>)
    BY <1>1, <1>4
  <2>2. NextColour(c) /\ runs' = runs /\ text'.pending = <<>>
    BY <1>1, <1>2, <2>1, Found DEF NextColour
  <2>3. figure'.subpaths = <<>> /\ FigurePath \in Seq(Nat)
    BY <1>1, <2>1, Found, FigureType DEF Figures, ClosedFigure
  <2>4. \E m \in Marks : /\ Written(doc') = Flushed \o <<m>> /\ m.of = FigurePath
                         /\ m.clip = clip.ref /\ m.fill = FillId
    BY <1>1, <2>1, <2>3, Found, FilledEffect
  <2>5. DrawsFigure(c)
    BY <1>1, <1>2, <2>1, <2>2, <2>3, <2>4 DEF DrawsFigure
  <2> QED
    BY <1>1, <2>2, <2>5 DEF Flow, Moves
<1> QED
  BY <1>3, <1>4
-----------------------------------------------------------------------------
(* Fill attributes and text.                                               *)

\* A command that leaves the document and the text alone.
LEMMA OnlyKeeps ==
  ASSUME Inv, NEW c \in Alphabet, Reads(c), Continues \/ Throws,
         c.op \in NotGraphic \ {"TEXT COLOUR", "BEGIN PICTURE"},
         UNCHANGED <<doc, text, Held>>
  PROVE  Flow
<1>1. NextColour(c) /\ runs' = runs
  BY Found DEF NextColour
<1>2. Keeps(c)
  BY Kinds, WrittenSame DEF Keeps, Held
<1> QED
  BY <1>1, <1>2 DEF Flow, Moves

LEMMA AttributesFlow ==
  /\ Inv /\ InteriorStyle => Flow
  /\ Inv /\ PatternIndex => Flow
  /\ Inv /\ PatternTable => Flow
  /\ Inv /\ PatternSize => Flow
  /\ Inv /\ FillReferencePoint => Flow
<1>1. ASSUME Inv, NEW c \in Alphabet, Reads(c), Attribute, UNCHANGED text,
             c.op \in {"INTERIOR STYLE", "PATTERN INDEX", "PATTERN TABLE",
                       "PATTERN SIZE", "FILL REFERENCE POINT"}
      PROVE  Flow
  BY <1>1, OnlyKeeps DEF Attribute, Held, NotGraphic
<1>2. Inv /\ InteriorStyle => Flow
  BY <1>1 DEF InteriorStyle
<1>3. Inv /\ PatternIndex => Flow
  BY <1>1 DEF PatternIndex
<1>4. Inv /\ PatternTable => Flow
  BY <1>1 DEF PatternTable
<1>5. Inv /\ PatternSize => Flow
  BY <1>1 DEF PatternSize
<1>6. Inv /\ FillReferencePoint => Flow
  BY <1>1 DEF FillReferencePoint
<1> QED
  BY <1>2, <1>3, <1>4, <1>5, <1>6

LEMMA TextColourFlow == Inv /\ TextColour => Flow
<1> SUFFICES ASSUME Inv, TextColour PROVE Flow
  OBVIOUS
<1>1. PICK c \in Alphabet : TextColour!(c)
  BY DEF TextColour
<1>2. text'.colour = Here /\ text'.pending = text.pending
  BY <1>1, Found DEF Texts
<1>3. ~Graphic(c)
  BY <1>1, Kinds DEF NotGraphic
<1>4. Keeps(c)
  BY <1>1, <1>2, <1>3, WrittenSame DEF Keeps, Held
<1> QED
  BY <1>1, <1>2, <1>4, Found DEF Flow, Moves, NextColour

\* The mark a segment of text becomes.
TextMark(s) == Mark(Here, <<s.at>>, NoId, NoId, NoId, s.colour)

Segments == [at : Nat, colour : Nat]

LEMMA TextMarksAppend ==
  ASSUME NEW p \in Seq(Segments), NEW s \in Segments, Here \in Nat
  PROVE  /\ TextMark(s) \in Marks
         /\ TextMarks(Append(p, s)) = TextMarks(p) \o <<TextMark(s)>>
         /\ TextMarks(<<s>>) = <<TextMark(s)>>
<1>1. TextMark(s) \in Marks
  <2>1. <<s.at>> \in Seq(Nat) /\ s.colour \in Nat /\ NoId \in Identifiers
    BY OwnIds DEF Segments
  <2> QED
    BY <2>1, MarkType DEF TextMark
<1> DEFINE a == TextMarks(Append(p, s))
           b == TextMarks(p) \o <<TextMark(s)>>
<1>2. /\ Append(p, s) \in Seq(Segments) /\ Len(Append(p, s)) = Len(p) + 1
      /\ DOMAIN Append(p, s) = 1 .. Len(p) + 1 /\ Len(p) \in Nat
      /\ \A i \in 1 .. Len(p) : Append(p, s)[i] = p[i]
      /\ Append(p, s)[Len(p) + 1] = s
  OBVIOUS
<1>3. DOMAIN p = 1 .. Len(p)
  OBVIOUS
<1>4. a \in Seq(Marks) /\ TextMarks(p) \in Seq(Marks)
  BY <1>2, TextMarksType DEF Segments
<1>5. /\ DOMAIN a = 1 .. Len(p) + 1
      /\ \A i \in 1 .. Len(p) + 1 : a[i] = TextMark(Append(p, s)[i])
  BY <1>2 DEF TextMarks, TextMark
<1>6. /\ DOMAIN TextMarks(p) = 1 .. Len(p)
      /\ \A i \in 1 .. Len(p) : TextMarks(p)[i] = TextMark(p[i])
  BY <1>3 DEF TextMarks, TextMark
<1> HIDE DEF a
<1>7. Len(a) = Len(p) + 1 /\ Len(TextMarks(p)) = Len(p)
  BY <1>2, <1>4, <1>5, <1>6
<1>8. /\ b \in Seq(Marks) /\ Len(b) = Len(p) + 1
      /\ \A i \in 1 .. Len(p) : b[i] = TextMark(p[i])
      /\ b[Len(p) + 1] = TextMark(s)
  <2>1. <<TextMark(s)>> \in Seq(Marks) /\ Len(<<TextMark(s)>>) = 1
    BY <1>1
  <2> QED
    BY <1>4, <1>6, <1>7, <2>1, MarksBehindMarks
<1> HIDE DEF b
<1>9. \A i \in 1 .. Len(a) : a[i] = b[i]
  <2> SUFFICES ASSUME NEW i \in 1 .. Len(p) + 1 PROVE a[i] = b[i]
    BY <1>7
  <2>1. CASE i = Len(p) + 1
    BY <1>2, <1>5, <1>8, <2>1
  <2>2. CASE i \in 1 .. Len(p)
    BY <1>2, <1>5, <1>8, <2>2
  <2> QED
    BY <1>2, <2>1, <2>2
<1>10. a = b
  BY <1>4, <1>7, <1>8, <1>9, SeqEqual
<1>11. TextMarks(<<s>>) = <<TextMark(s)>>
  BY DEF TextMarks, TextMark
<1> QED
  BY <1>1, <1>10, <1>11 DEF a, b

\* A text command that is final.
LEMMA FinalText ==
  ASSUME Inv, NEW c \in Alphabet, Reads(c), Continues, c.op \in TextOps,
         NEW m \in Marks, m.of = <<Here>>, m.colour = text.colour,
         m.clip \in {NoId, clip.ref}, m.fill = NoId,
         Written(doc') = Flushed \o <<m>>, text' = NoPending, UNCHANGED Held
  PROVE  Flow
<1>1. NextColour(c) /\ text'.pending = <<>> /\ runs' = runs
  BY Found, Kinds DEF NextColour
<1>2. Draws(c)
  BY <1>1 DEF Draws
<1> QED
  BY <1>1, <1>2 DEF Flow, Moves

\* One that is not.
LEMMA PartialText ==
  ASSUME Inv, NEW c \in Alphabet, Reads(c), Continues, c.op \in TextOps,
         NEW segments, text' = [text EXCEPT !.pending = segments],
         \/ Written(doc') = Flushed /\ segments = <<Segment(Here)>>
         \/ /\ Written(doc') = Written(doc)
            /\ segments = Append(text.pending, Segment(Here)),
         UNCHANGED Held
  PROVE  Flow
<1>1. text'.pending = segments /\ text'.colour = text.colour
  BY Found DEF Texts
<1>2. NextColour(c) /\ runs' = runs
  BY <1>1, Found, Kinds DEF NextColour
<1>3. Starts(c) \/ Joins(c)
  BY <1>1 DEF Starts, Joins
<1> QED
  BY <1>2, <1>3 DEF Flow, Moves

\* What the three of them start from.
LEMMA TextFound ==
  ASSUME Inv, NEW c \in Alphabet, Reads(c), Continues
  PROVE  /\ Segment(Here) \in Segments /\ text.pending \in Seq(Segments)
         /\ Segment(Here).at = Here /\ Segment(Here).colour = text.colour
         /\ CloseOpenDefs(doc) \in Documents
         /\ Flush(CloseOpenDefs(doc)) \in Documents
         /\ Written(doc) \in Seq(Marks) /\ TextMarks(text.pending) \in Seq(Marks)
         /\ Flushed \in Seq(Marks)
<1>1. Here \in Nat /\ text \in Texts /\ doc \in Documents
  BY Found
<1>2. Segment(Here) \in Segments /\ text.pending \in Seq(Segments)
  BY <1>1 DEF Segment, Segments, Texts
<1>3. Segment(Here).at = Here /\ Segment(Here).colour = text.colour
  BY DEF Segment
<1>4. CloseOpenDefs(doc) \in Documents /\ Flush(CloseOpenDefs(doc)) \in Documents
  BY <1>1, TextDocExtends
<1>5. Written(doc) \in Seq(Marks) /\ TextMarks(text.pending) \in Seq(Marks)
  BY <1>1, <1>2, WrittenType, TextMarksType DEF Segments
<1> QED
  BY <1>2, <1>3, <1>4, <1>5, MarksBehindMarks DEF Flushed

\* Its own segment, alone and behind the pending ones.
LEMMA DrawnSegments ==
  ASSUME Inv, NEW c \in Alphabet, Reads(c), Continues
  PROVE  LET m == TextMark(Segment(Here)) IN
         /\ m \in Marks /\ m.of = <<Here>> /\ m.colour = text.colour
         /\ m.clip = NoId /\ m.fill = NoId
         /\ Written(Draw(Flush(CloseOpenDefs(doc)), TextMarks(<<Segment(Here)>>)))
              = Flushed \o <<m>>
         /\ Written(Draw(CloseOpenDefs(doc),
                         TextMarks(Append(text.pending, Segment(Here)))))
              = Flushed \o <<m>>
<1> DEFINE s == Segment(Here)
           m == TextMark(s)
<1>1. /\ m.of = <<s.at>> /\ m.colour = s.colour /\ m.clip = NoId /\ m.fill = NoId
  BY MarkFields DEF TextMark
<1>2. /\ s \in Segments /\ text.pending \in Seq(Segments) /\ Here \in Nat
      /\ s.at = Here /\ s.colour = text.colour
  BY TextFound, Found
<1> HIDE DEF s
<1>3. m \in Marks /\ TextMarks(<<s>>) = <<m>>
      /\ TextMarks(Append(text.pending, s)) = TextMarks(text.pending) \o <<m>>
  BY <1>2, TextMarksAppend
<1>4. <<s>> \in Seq(Segments) /\ Append(text.pending, s) \in Seq(Segments)
  BY <1>2
<1>5. Written(Draw(Flush(CloseOpenDefs(doc)), TextMarks(<<s>>)))
        = Written(Flush(CloseOpenDefs(doc))) \o TextMarks(<<s>>)
  BY <1>2, <1>4, TextFound, DrawTextEffect DEF Segments
<1>6. Written(Draw(CloseOpenDefs(doc), TextMarks(Append(text.pending, s))))
        = Written(CloseOpenDefs(doc)) \o TextMarks(Append(text.pending, s))
  BY <1>2, <1>4, TextFound, DrawTextEffect DEF Segments
<1> HIDE DEF m
<1>7. <<m>> \in Seq(Marks)
  BY <1>3
<1>8. Written(doc) \o (TextMarks(text.pending) \o <<m>>) = Flushed \o <<m>>
  BY <1>7, TextFound, ConcatAssociative DEF Flushed
<1> QED
  BY <1>1, <1>2, <1>3, <1>5, <1>6, <1>8, Found DEF m, s

LEMMA TextFlow == Inv /\ Text => Flow
<1> SUFFICES ASSUME Inv, Text PROVE Flow
  OBVIOUS
<1>1. PICK c \in Alphabet : Text!(c)
  BY DEF Text
<1>2. c.op \in TextOps /\ UNCHANGED Held
  BY <1>1 DEF TextOps, Held
<1>3. CASE c.final
  BY <1>1, <1>2, <1>3, DrawnSegments, FinalText DEF Pends
<1>4. CASE ~c.final
  BY <1>1, <1>2, <1>4, Found, PartialText DEF Pends
<1> QED
  BY <1>3, <1>4

LEMMA AppendTextFlow == Inv /\ AppendText => Flow
<1> SUFFICES ASSUME Inv, AppendText PROVE Flow
  OBVIOUS
<1>1. PICK c \in Alphabet : AppendText!(c)
  BY DEF AppendText
<1>2. c.op \in TextOps /\ UNCHANGED Held
  BY <1>1 DEF TextOps, Held
<1>3. CASE c.final
  BY <1>1, <1>2, <1>3, DrawnSegments, FinalText DEF Pends
<1>4. CASE ~c.final
  BY <1>1, <1>2, <1>4, Found, PartialText DEF Pends
<1> QED
  BY <1>3, <1>4

LEMMA RestrictedTextFlow == Inv /\ RestrictedText => Flow
<1> SUFFICES ASSUME Inv, RestrictedText PROVE Flow
  OBVIOUS
<1>1. PICK c \in Alphabet : RestrictedText!(c)
  BY DEF RestrictedText
<1>2. c.op \in TextOps /\ UNCHANGED Held
  BY <1>1 DEF TextOps, Held
<1>3. CASE c.final
  <2> DEFINE m == Mark(Here, <<Here>>, clip.ref, NoId, NoId, text.colour)
  <2>1. /\ doc' = Draw(Flush(CloseOpenDefs(doc)), <<m>>) /\ text' = NoPending
    BY <1>1, <1>3
  <2>2. m \in Marks
    <3>1. text.colour \in Nat
      BY <1>1, Found DEF Texts
    <3> QED
      BY <1>1, <3>1, Found, MarkType
  <2>3. /\ m.of = <<Here>> /\ m.clip = clip.ref /\ m.fill = NoId
        /\ m.colour = text.colour /\ m.inside = <<>>
    BY MarkFields
  <2> HIDE DEF m
  <2>4. Written(doc') = Flushed \o <<m>>
    BY <1>1, <2>1, <2>2, <2>3, Found, TextFound, DrawOneEffect
  <2> QED
    BY <1>1, <1>2, <2>1, <2>2, <2>3, <2>4, FinalText
<1>4. CASE ~c.final
  BY <1>1, <1>2, <1>4, Found, PartialText DEF Pends
<1> QED
  BY <1>3, <1>4
-----------------------------------------------------------------------------
(* Application structures and symbols.                                     *)

LEMMA OpenGroupEffect ==
  ASSUME NEW d \in Documents, NEW id \in Identifiers, NEW linked \in BOOLEAN
  PROVE  /\ Written(OpenGroup(d, id, linked)) = Written(d)
         /\ OpenGroup(d, id, linked).defs = d.defs
         /\ OpenGroup(d, id, linked).ids = d.ids \cup {id}
         /\ OpenGroup(d, id, linked).reused = (d.reused \/ id \in d.ids)
<1> DEFINE e == CloseOpenDefs(d)
           f == Open(e, "g")
           g == WriteId(f, id)
           h == Open(g, "a")
<1>1. "g" \in Tags /\ "a" \in Tags
  BY DEF Tags
<1>2. e \in Documents /\ Written(e) = Written(d) /\ SameCore(e, d)
  BY CloseOpenDefsType, TagsOnly
<1> HIDE DEF e
<1>3. f \in Documents /\ Written(f) = Written(e) /\ SameCore(f, e)
  BY <1>1, <1>2, OpenType, TagsOnly
<1> HIDE DEF f
<1>4. /\ g \in Documents /\ Written(g) = Written(f) /\ g.defs = f.defs
      /\ g.ids = f.ids \cup {id} /\ g.reused = (f.reused \/ id \in f.ids)
  BY <1>3, WriteIdType, WriteIdEffect
<1> HIDE DEF g
<1>5. Written(h) = Written(g) /\ SameCore(h, g)
  BY <1>1, <1>4, TagsOnly
<1> HIDE DEF h
<1>6. OpenGroup(d, id, linked) \in {g, h}
  BY DEF OpenGroup, e, f, g, h
<1> QED
  BY <1>2, <1>3, <1>4, <1>5, <1>6 DEF SameCore

LEMMA CloseGroupEffect ==
  ASSUME NEW d \in Documents, NEW linked \in BOOLEAN
  PROVE  Written(CloseGroup(d, linked)) = Written(d) /\ SameCore(CloseGroup(d, linked), d)
<1> DEFINE e == IF linked THEN Close(d, "a") ELSE d
<1>1. "g" \in Tags /\ "a" \in Tags
  BY DEF Tags
<1>2. e \in Documents /\ Written(e) = Written(d) /\ SameCore(e, d)
  BY <1>1, CloseType, TagsOnly DEF SameCore
<1>3. CloseGroup(d, linked) = Close(e, "g")
  BY DEF CloseGroup
<1> HIDE DEF e
<1>4. Written(Close(e, "g")) = Written(e) /\ SameCore(Close(e, "g"), e)
  BY <1>1, <1>2, TagsOnly
<1> QED
  BY <1>2, <1>3, <1>4, SameCoreTransitive

\* The innermost structure.
LEMMA TopFound ==
  ASSUME Inv, aps.stack # <<>>
  PROVE  /\ Top.id \in Identifiers /\ Top.anchor \in BOOLEAN
         /\ Len(aps.stack) \in Nat \ {0} /\ Top = aps.stack[Len(aps.stack)]
         /\ Top \in Nodes
<1>1. aps.stack \in Seq(Nodes)
  BY StructuresFields DEF Inv
<1>2. Top \in Nodes /\ Len(aps.stack) \in Nat \ {0}
  BY <1>1 DEF Top
<1> QED
  BY <1>2 DEF Nodes, Top

LEMMA StructuresFlow ==
  /\ Inv /\ BeginApplicationStructure => Flow
  /\ Inv /\ ApplicationStructureAttribute => Flow
  /\ Inv /\ BeginApplicationStructureBody => Flow
  /\ Inv /\ EndApplicationStructure => Flow
<1>1. ASSUME Inv, NEW c \in Alphabet, Reads(c), Continues,
             Written(doc') = Flushed, text' = NoPending,
             UNCHANGED <<figure, region>>,
             c.op \in {"BEGIN APS", "APS ATTRIBUTE", "BEGIN APS BODY", "END APS"}
      PROVE  Flow
  BY <1>1, OnlyFlushes, Kinds DEF Held, NotGraphic
<1>2. ASSUME Inv, BeginApplicationStructure PROVE Flow
  <2>1. PICK c \in Alphabet : BeginApplicationStructure!(c)
    BY <1>2 DEF BeginApplicationStructure
  <2> QED
    BY <1>1, <1>2, <2>1, Found DEF FlushesText
<1>3. ASSUME Inv, ApplicationStructureAttribute PROVE Flow
  <2>1. PICK c \in Alphabet : ApplicationStructureAttribute!(c)
    BY <1>3 DEF ApplicationStructureAttribute
  <2> QED
    BY <1>1, <1>3, <2>1, Found DEF FlushesText
<1>4. ASSUME Inv, BeginApplicationStructureBody PROVE Flow
  <2>1. PICK c \in Alphabet : BeginApplicationStructureBody!(c)
    BY <1>4 DEF BeginApplicationStructureBody
  <2>2. CASE aps.stack = <<>>
    BY <1>1, <1>4, <2>1, <2>2, Found
  <2>3. CASE aps.stack # <<>>
    <3> DEFINE linked == "linkuri" \in aps.attributes
    <3>1. doc' = OpenGroup(Flush(doc), Top.id, linked)
      BY <2>1, <2>3
    <3>2. linked \in BOOLEAN
      OBVIOUS
    <3> HIDE DEF linked
    <3>3. Flush(doc) \in Documents /\ Written(Flush(doc)) = Flushed
      BY <1>4, <2>1, Found
    <3>4. Top.id \in Identifiers
      BY <1>4, <2>3, TopFound
    <3>5. Written(doc') = Flushed
      BY <3>1, <3>2, <3>3, <3>4, OpenGroupEffect
    <3> QED
      BY <1>1, <1>4, <2>1, <3>5
  <2> QED
    BY <2>2, <2>3
<1>5. ASSUME Inv, EndApplicationStructure PROVE Flow
  <2>1. PICK c \in Alphabet : EndApplicationStructure!(c)
    BY <1>5 DEF EndApplicationStructure
  <2>2. CASE aps.stack = <<>>
    BY <1>1, <1>5, <2>1, <2>2, Found
  <2>3. CASE aps.stack # <<>>
    <3>1. Written(CloseGroup(Flush(doc), Top.anchor)) = Flushed
      BY <1>5, <2>1, <2>3, Found, TopFound, CloseGroupEffect
    <3> QED
      BY <1>1, <1>5, <2>1, <2>3, <3>1
  <2> QED
    BY <2>2, <2>3
<1> QED
  BY <1>2, <1>3, <1>4, <1>5

\* Where a symbol is placed there is one mark more.
LEMMA DrawSymbolEffect ==
  ASSUME NEW d \in Documents, NEW id \in Identifiers, Here \in Nat, SymbolsOK
  PROVE  /\ Close(DrawSymbol(d, id), "g").defs = d.defs
         /\ \E m \in Marks :
              /\ Written(Close(DrawSymbol(d, id), "g")) = Written(d) \o <<m>>
              /\ m.of = <<Here>> /\ m.clip = NoId /\ m.fill = NoId
              /\ m.href = id
<1> DEFINE f == PlacementGroup(d)
           m == Mark(Here, <<Here>>, NoId, NoId, id, 0)
           g == Draw(f, <<m>>)
<1>1. "g" \in Tags
  BY DEF Tags
<1>2. f \in Documents /\ Written(f) = Written(d) /\ f.defs = d.defs
  BY PlacementGroupType, WrittenSame
<1> HIDE DEF f
<1>3. <<Here>> \in Seq(Nat) /\ NoId \in Identifiers /\ 0 \in Nat
  BY OwnIds
<1>4. m \in Marks
  BY <1>3, MarkType
<1>5. m.of = <<Here>> /\ m.clip = NoId /\ m.fill = NoId /\ m.href = id /\ m.inside = <<>>
  BY MarkFields
<1>6. DrawSymbol(d, id) = g
  BY DEF DrawSymbol, PlacementGroup, f
<1> HIDE DEF m
<1>7. Written(g) = Written(f) \o <<m>> /\ SameCore(g, f) /\ g \in Documents
  BY <1>2, <1>4, <1>5, DrawOneEffect
<1> HIDE DEF g
<1>8. Written(Close(g, "g")) = Written(g) /\ SameCore(Close(g, "g"), g)
  BY <1>1, <1>7, TagsOnly
<1> QED
  BY <1>2, <1>4, <1>5, <1>6, <1>7, <1>8 DEF SameCore

\* A symbol is drawn as the marker of an unknown one, as one defined before,
\* or as one defined now.
PlacesSymbol(c) ==
  LET s   == Name(c.index)
      new == SymbolId(s)
  IN  \/ /\ doc' = Close(DrawSymbol(PrimitiveDoc, NoId), "g")
         /\ symbols' = [symbols EXCEPT !.placed = @ + 1]
      \/ /\ s \in Symbols /\ symbols.ids[s] \in Identifiers
         /\ doc' = Close(DrawSymbol(PrimitiveDoc, symbols.ids[s]), "g")
         /\ symbols' = [symbols EXCEPT !.placed = @ + 1]
      \/ /\ s \in Symbols /\ new \in Identifiers /\ new \notin symbols.emitted
         /\ [symbol |-> s] \in Contents
         /\ doc' = Close(DrawSymbol(Define(PrimitiveDoc, new, [symbol |-> s]), new), "g")
         /\ symbols' = [symbols EXCEPT !.ids = [symbols.ids EXCEPT ![s] = new],
                                       !.emitted = symbols.emitted \cup {new},
                                       !.placed = @ + 1]

LEMMA SymbolPlaced ==
  ASSUME Inv, NEW c \in Alphabet, PolySymbol!(c)
  PROVE  PlacesSymbol(c) /\ SymbolsOK
<1> DEFINE s == Name(c.index)
<1>1. c.index \in Int /\ SymbolsOK
  BY Operands DEF Inv
<1>2. ASSUME Resolved(c.index)
      PROVE  /\ s \in Symbols /\ symbols.ids[s] \in Identifiers
             /\ SymbolId(s) \in Identifiers /\ SymbolId(s) \notin symbols.emitted
             /\ [symbol |-> s] \in Contents
  <2>1. s \in Symbols
    BY <1>1, <1>2, NameType
  <2>2. IsFiniteSet(symbols.emitted) /\ symbols.ids \in [Symbols -> Identifiers]
    BY <1>1 DEF SymbolsOK, SymbolStates
  <2> HIDE DEF s
  <2> QED
    BY <2>1, <2>2, SymbolIdIsNew DEF Contents
<1> QED
  BY <1>1, <1>2 DEF PlacesSymbol

LEMMA SymbolsFlow ==
  /\ Inv /\ SymbolLibraryList => Flow
  /\ Inv /\ PolySymbol => Flow
<1>1. ASSUME Inv, SymbolLibraryList PROVE Flow
  <2>1. PICK c \in Alphabet : SymbolLibraryList!(c)
    BY <1>1 DEF SymbolLibraryList
  <2>2. Written(doc') = Flushed /\ text' = NoPending
    BY <1>1, <2>1, Found DEF FlushesText
  <2>3. ~Graphic(c) /\ c.op \notin {"TEXT COLOUR", "BEGIN PICTURE"}
    BY <2>1, Kinds DEF NotGraphic
  <2> QED
    BY <1>1, <2>1, <2>2, <2>3, OnlyFlushes DEF Held
<1>2. ASSUME Inv, PolySymbol PROVE Flow
  <2>1. PICK c \in Alphabet : PolySymbol!(c)
    BY <1>2 DEF PolySymbol
  <2>2. /\ PrimitiveDoc \in Documents /\ Written(PrimitiveDoc) = Flushed
        /\ Here \in Nat /\ NoId \in Identifiers /\ SymbolsOK
    BY <1>2, <2>1, Found, SymbolPlaced
  <2>3. PICK d \in Documents, id \in Identifiers :
          Written(d) = Flushed /\ doc' = Close(DrawSymbol(d, id), "g")
    BY <1>2, <2>1, <2>2, SymbolPlaced, DefineType, DefineEffect DEF PlacesSymbol
  <2>4. PICK m \in Marks : /\ Written(doc') = Written(d) \o <<m>> /\ m.of = <<Here>>
                           /\ m.clip = NoId /\ m.fill = NoId
    <3>1. \E m \in Marks :
            /\ Written(Close(DrawSymbol(d, id), "g")) = Written(d) \o <<m>>
            /\ m.of = <<Here>> /\ m.clip = NoId /\ m.fill = NoId /\ m.href = id
      BY <2>2, DrawSymbolEffect
    <3> QED
      BY <2>3, <3>1
  <2>5. c.op \notin TextOps \cup {"TEXT COLOUR", "BEGIN PICTURE"}
    BY <2>1 DEF TextOps
  <2>6. NextColour(c) /\ runs' = runs /\ text'.pending = <<>>
    BY <1>2, <2>1, <2>5, Found DEF NextColour
  <2>7. Draws(c)
    BY <2>1, <2>3, <2>4, <2>5, <2>6 DEF Draws, Held
  <2> QED
    BY <2>1, <2>6, <2>7 DEF Flow, Moves
<1> QED
  BY <1>1, <1>2

-----------------------------------------------------------------------------
(* Pictures and conversions.                                               *)

LEMMA PicturesFlow ==
  /\ Inv /\ EndPicture => Flow
  /\ Inv /\ BackgroundColour => Flow
  /\ Inv /\ ColourTable => Flow
  /\ Inv /\ SegmentElement => Flow
<1>1. ASSUME Inv, EndPicture PROVE Flow
  <2>1. PICK c \in Alphabet : EndPicture!(c)
    BY <1>1 DEF EndPicture
  <2>2. ~Graphic(c)
    BY <2>1, Kinds DEF NotGraphic
  <2>3. Flushes /\ NextColour(c) /\ runs' = runs
    BY <1>1, <2>1, Found DEF FlushesText, Flushes, NextColour
  <2>4. region'.paths = <<>> /\ region'.shapes = [r \in Regions |-> <<>>]
    BY <2>1 DEF FreshRegion
  <2>5. MayForget(c) = InRegions
    BY <2>1 DEF MayForget
  <2>6. Forgets(c)
    BY <2>1, <2>2, <2>3, <2>4, <2>5 DEF Forgets, InRegions
  <2> QED
    BY <2>1, <2>3, <2>6 DEF Flow, Moves
<1>2. ASSUME Inv, BackgroundColour PROVE Flow
  <2>1. PICK c \in Alphabet : BackgroundColour!(c)
    BY <1>2 DEF BackgroundColour
  <2>2. Written(doc') = Flushed /\ text' = NoPending
    BY <1>2, <2>1, Found DEF FlushesText
  <2>3. ~Graphic(c) /\ c.op \notin {"TEXT COLOUR", "BEGIN PICTURE"}
    BY <2>1, Kinds DEF NotGraphic
  <2> QED
    BY <1>2, <2>1, <2>2, <2>3, OnlyFlushes DEF Held
<1>3. ASSUME Inv, ColourTable PROVE Flow
  <2>1. PICK c \in Alphabet : ColourTable!(c)
    BY <1>3 DEF ColourTable
  <2> QED
    BY <1>3, <2>1, OnlyKeeps DEF Held, NotGraphic
<1>4. ASSUME Inv, SegmentElement PROVE Flow
  <2>1. PICK c \in Alphabet : SegmentElement!(c)
    BY <1>4 DEF SegmentElement
  <2> QED
    BY <1>4, <2>1, OnlyKeeps DEF Held, NotGraphic
<1> QED
  BY <1>1, <1>2, <1>3, <1>4

LEMMA BeginPictureBodyFlow == Inv /\ BeginPictureBody => Flow
<1> SUFFICES ASSUME Inv, BeginPictureBody PROVE Flow
  OBVIOUS
<1>1. PICK c \in Alphabet : BeginPictureBody!(c)
  BY DEF BeginPictureBody
<1>2. ~Graphic(c) /\ c.op \notin TextOps \cup {"TEXT COLOUR", "BEGIN PICTURE"}
  BY <1>1, Kinds DEF NotGraphic, TextOps
<1>3. CASE ~(picture.explicit /\ picture.zero # 0)
  BY <1>1, <1>2, <1>3, Found, OnlyFlushes DEF Held
<1>4. CASE picture.explicit /\ picture.zero # 0
  <2> DEFINE m == Mark(Here, <<Here>>, NoId, NoId, NoId, picture.zero)
  <2>1. doc' = Draw(Flush(doc), <<m>>)
    BY <1>1, <1>4
  <2>2. m \in Marks
    <3>1. picture.zero \in Nat
      BY DEF Inv, PictureStates
    <3> QED
      BY <1>1, <3>1, Found, MarkType
  <2>3. m.of = <<Here>> /\ m.clip = NoId /\ m.fill = NoId /\ m.inside = <<>>
    BY MarkFields
  <2> HIDE DEF m
  <2>4. Written(doc') = Flushed \o <<m>>
    BY <1>1, <2>1, <2>2, <2>3, Found, DrawOneEffect
  <2>5. NextColour(c) /\ runs' = runs /\ text'.pending = <<>>
    BY <1>1, <1>2, Found DEF NextColour
  <2>6. Draws(c)
    BY <1>1, <1>2, <2>2, <2>3, <2>4, <2>5 DEF Draws, Held
  <2> QED
    BY <1>1, <2>5, <2>6 DEF Flow, Moves
<1> QED
  BY <1>3, <1>4

LEMMA NothingFresh ==
  ASSUME NEW open \in BOOLEAN
  PROVE  Written(FreshDoc(open)) = <<>>
BY FreshDocType DEF Written

LEMMA BeginPictureFlow == Inv /\ BeginPicture => Flow
<1> SUFFICES ASSUME Inv, BeginPicture PROVE Flow
  OBVIOUS
<1>1. PICK c \in Alphabet : BeginPicture!(c)
  BY DEF BeginPicture
<1>2. ~Graphic(c) /\ picture.index \in Int
  BY <1>1, Kinds DEF NotGraphic, Inv, PictureStates
<1>3. \E clipsMade, patternsMade : ResetPictureState(clipsMade, patternsMade)
  BY <1>1
<1>4. /\ text'.pending = <<>> /\ text'.colour = 0
      /\ region'.paths = <<>> /\ region'.shapes = [r \in Regions |-> <<>>]
  BY <1>3 DEF ResetPictureState, FreshText, FreshRegion
<1>5. NextColour(c) /\ runs' = runs
  BY <1>1, <1>4, Found DEF NextColour
<1>6. CASE picture.index + 1 > 0
  <2>1. Written(doc') = <<>>
    BY <1>1, <1>6, NothingFresh
  <2>2. picture.index >= 0
    BY <1>2, <1>6
  <2>3. MayForget(c) = Kept
    BY <1>1, <2>2 DEF MayForget
  <2>4. clip' = FreshClip(0)
    BY <1>1, <1>6 DEF ResetPictureState
  <2>5. TurnsPage(c)
    BY <1>1, <1>2, <1>4, <2>1, <2>3, <2>4 DEF TurnsPage, Blank
  <2> QED
    BY <1>1, <1>5, <2>5 DEF Flow, Moves
<1>7. CASE ~(picture.index + 1 > 0)
  <2>1. Flushes
    BY <1>1, <1>4, <1>7, Found DEF Flushes
  <2>2. ~(picture.index >= 0)
    BY <1>2, <1>7
  <2>3. MayForget(c) = InRegions
    BY <1>1, <2>2 DEF MayForget
  <2>4. Forgets(c)
    BY <1>1, <1>2, <1>4, <2>1, <2>3 DEF Forgets, InRegions
  <2> QED
    BY <1>1, <1>5, <2>4 DEF Flow, Moves
<1> QED
  BY <1>6, <1>7

\* At the end of the file the pending text is written.
LEMMA EndOfFileEffect ==
  ASSUME Inv, EndOfFile
  PROVE  /\ Flushes /\ UNCHANGED Held /\ text'.colour = text.colour
         /\ SameCore(doc', doc)
<1> DEFINE e == CloseOpenDefs(Flush(doc))
<1>1. Here \in Nat /\ doc \in Documents /\ text \in Texts
  BY DEF Inv, ControlOK, DocOK, Here
<1>2. e = PrimitiveDoc
  BY DEF PrimitiveDoc
<1>3. e \in Documents
  BY <1>1, <1>2, FlushExtends DEF Extends, PrimitiveDoc
<1>4. Written(e) = Flushed /\ SameCore(e, doc)
  BY <1>1, <1>2, FlushEffect
<1>5. doc' = Close(e, "svg") /\ "svg" \in Tags
  BY DEF EndOfFile, Tags
<1> HIDE DEF e
<1>6. Written(doc') = Written(e) /\ SameCore(doc', e)
  BY <1>3, <1>5, TagsOnly
<1>7. text'.pending = <<>> /\ text'.colour = text.colour
  BY <1>1, FlushEffect DEF EndOfFile
<1> QED
  BY <1>4, <1>6, <1>7, SameCoreTransitive DEF EndOfFile, Flushes, Held

\* A conversion starts with an empty document and no pending text.
LEMMA ConvertEffect ==
  ASSUME Inv, Convert
  PROVE  Blank /\ text'.colour = 0
<1>1. doc.defsOpen \in BOOLEAN
  BY DEF Inv, DocOK, Documents
<1>2. Written(doc') = <<>>
  BY <1>1, NothingFresh DEF Convert
<1> QED
  BY <1>2 DEF Convert, ResetPictureState, FreshText, FreshRegion, Blank

\* Every step is one of these.
LEMMA EveryStep ==
  ASSUME Inv, Captured, Next
  PROVE  Convert \/ EndOfFile \/ Flow
<1>1. CASE Conversion
  BY <1>1 DEF Conversion
<1>2. CASE Pictures
  BY <1>2, BeginPictureFlow, BeginPictureBodyFlow, PicturesFlow DEF Pictures
<1>3. CASE Clipping
  BY <1>3, ClipRectangleFlow, ClipIndicatorFlow, BeginProtectionRegionFlow,
     EndProtectionRegionFlow, ProtectionRegionIndicatorFlow DEF Clipping
<1>4. CASE Drawing
  BY <1>4, PrimitiveIntoFigureFlow, PrimitiveIntoRegionFlow, DrawStrokedFlow,
     DrawFilledFlow, FailFilledFlow, BeginFigureFlow, ConnectingEdgeFlow,
     EndFigureFlow, EndFigureIntoRegionFlow, DrawFigureFlow DEF Drawing
<1>5. CASE Filling
  BY <1>5, AttributesFlow DEF Filling
<1>6. CASE Texting
  BY <1>6, TextColourFlow, TextFlow, RestrictedTextFlow, AppendTextFlow DEF Texting
<1>7. CASE Structuring
  BY <1>7, StructuresFlow DEF Structuring
<1>8. CASE Symbolising
  BY <1>8, SymbolsFlow DEF Symbolising
<1> QED
  BY <1>1, <1>2, <1>3, <1>4, <1>5, <1>6, <1>7, <1>8 DEF Next
-----------------------------------------------------------------------------
(* The commands a sequence of marks, segments or paths stands for.         *)

ShownIn(w) == UNION {{w[i].of[k] : k \in DOMAIN w[i].of} : i \in DOMAIN w}
In(path) == {path[k] : k \in DOMAIN path}

LEMMA ConcatSplit ==
  ASSUME NEW S, NEW a \in Seq(S), NEW b \in Seq(S)
  PROVE  /\ DOMAIN a = 1 .. Len(a) /\ DOMAIN b = 1 .. Len(b)
         /\ Len(a) \in Nat /\ Len(b) \in Nat
         /\ \A i \in DOMAIN a : i \in DOMAIN (a \o b) /\ (a \o b)[i] = a[i]
         /\ \A j \in DOMAIN b : /\ Len(a) + j \in DOMAIN (a \o b)
                                /\ (a \o b)[Len(a) + j] = b[j]
         /\ \A i \in DOMAIN (a \o b) :
              i \in DOMAIN a \/ \E j \in DOMAIN b : i = Len(a) + j
<1> DEFINE c == a \o b
<1>1. /\ DOMAIN a = 1 .. Len(a) /\ DOMAIN b = 1 .. Len(b)
      /\ Len(a) \in Nat /\ Len(b) \in Nat
  OBVIOUS
<1>2. /\ c \in Seq(S) /\ Len(c) = Len(a) + Len(b)
      /\ \A i \in 1 .. Len(a) + Len(b) :
           c[i] = IF i <= Len(a) THEN a[i] ELSE b[i - Len(a)]
  BY ConcatProperties
<1>3. DOMAIN c = 1 .. Len(a) + Len(b)
  BY <1>1, <1>2
<1> HIDE DEF c
<1>4. \A i \in DOMAIN a : i \in DOMAIN c /\ c[i] = a[i]
  BY <1>1, <1>2, <1>3
<1>5. \A j \in DOMAIN b : Len(a) + j \in DOMAIN c /\ c[Len(a) + j] = b[j]
  BY <1>1, <1>2, <1>3
<1>6. \A i \in DOMAIN c : i \in DOMAIN a \/ \E j \in DOMAIN b : i = Len(a) + j
  <2> SUFFICES ASSUME NEW i \in DOMAIN c, i \notin DOMAIN a
               PROVE  \E j \in DOMAIN b : i = Len(a) + j
    OBVIOUS
  <2>1. i - Len(a) \in DOMAIN b /\ i = Len(a) + (i - Len(a))
    BY <1>1, <1>3
  <2> QED
    BY <2>1
<1> QED
  BY <1>1, <1>4, <1>5, <1>6 DEF c

LEMMA ShownConcat ==
  ASSUME NEW a \in Seq(Marks), NEW b \in Seq(Marks)
  PROVE  ShownIn(a \o b) = ShownIn(a) \cup ShownIn(b)
<1> DEFINE c == a \o b
<1>1. /\ \A i \in DOMAIN a : i \in DOMAIN c /\ c[i] = a[i]
      /\ \A j \in DOMAIN b : Len(a) + j \in DOMAIN c /\ c[Len(a) + j] = b[j]
      /\ \A i \in DOMAIN c : i \in DOMAIN a \/ \E j \in DOMAIN b : i = Len(a) + j
  BY ConcatSplit
<1> HIDE DEF c
<1>2. ShownIn(a) \subseteq ShownIn(c)
  BY <1>1 DEF ShownIn
<1>3. ShownIn(b) \subseteq ShownIn(c)
  BY <1>1 DEF ShownIn
<1>4. ShownIn(c) \subseteq ShownIn(a) \cup ShownIn(b)
  BY <1>1 DEF ShownIn
<1> QED
  BY <1>2, <1>3, <1>4 DEF c

LEMMA ShownSingle ==
  ASSUME NEW m
  PROVE  ShownIn(<<m>>) = In(m.of)
BY DEF ShownIn, In

LEMMA ShownText ==
  ASSUME NEW segments \in Seq(Segments)
  PROVE  ShownIn(TextMarks(segments)) = Positions(segments)
<1>1. /\ DOMAIN TextMarks(segments) = DOMAIN segments
      /\ \A i \in DOMAIN segments : TextMarks(segments)[i].of = <<segments[i].at>>
  BY DEF TextMarks, Mark
<1> QED
  BY <1>1 DEF ShownIn, Positions

LEMMA PositionsAppend ==
  ASSUME NEW S, NEW s \in Seq(S), NEW x \in S
  PROVE  Positions(Append(s, x)) = Positions(s) \cup {x.at}
<1>1. /\ DOMAIN Append(s, x) = 1 .. Len(s) + 1 /\ DOMAIN s = 1 .. Len(s)
      /\ Len(s) \in Nat /\ Append(s, x)[Len(s) + 1] = x
      /\ \A i \in 1 .. Len(s) : Append(s, x)[i] = s[i]
  OBVIOUS
<1>2. Len(s) + 1 \in 1 .. Len(s) + 1 /\ 1 .. Len(s) \subseteq 1 .. Len(s) + 1
  BY <1>1
<1>3. \A i \in 1 .. Len(s) + 1 : i \in 1 .. Len(s) \/ i = Len(s) + 1
  BY <1>1
<1> QED
  BY <1>1, <1>2, <1>3 DEF Positions

LEMMA EntriesAppend ==
  ASSUME NEW s \in Seq(Seq(Nat)), NEW x \in Seq(Nat)
  PROVE  Entries(Append(s, x)) = Entries(s) \cup In(x)
<1>1. /\ DOMAIN Append(s, x) = 1 .. Len(s) + 1 /\ DOMAIN s = 1 .. Len(s)
      /\ Len(s) \in Nat /\ Append(s, x)[Len(s) + 1] = x
      /\ \A i \in 1 .. Len(s) : Append(s, x)[i] = s[i]
  OBVIOUS
<1>2. Len(s) + 1 \in 1 .. Len(s) + 1 /\ 1 .. Len(s) \subseteq 1 .. Len(s) + 1
  BY <1>1
<1>3. \A i \in 1 .. Len(s) + 1 : i \in 1 .. Len(s) \/ i = Len(s) + 1
  BY <1>1
<1> QED
  BY <1>1, <1>2, <1>3 DEF Entries, In

LEMMA EntriesConcat ==
  ASSUME NEW a \in Seq(Seq(Nat)), NEW b \in Seq(Seq(Nat))
  PROVE  Entries(a \o b) = Entries(a) \cup Entries(b)
<1> DEFINE c == a \o b
<1>1. /\ \A i \in DOMAIN a : i \in DOMAIN c /\ c[i] = a[i]
      /\ \A j \in DOMAIN b : Len(a) + j \in DOMAIN c /\ c[Len(a) + j] = b[j]
      /\ \A i \in DOMAIN c : i \in DOMAIN a \/ \E j \in DOMAIN b : i = Len(a) + j
  BY ConcatSplit
<1> HIDE DEF c
<1>2. Entries(a) \subseteq Entries(c)
  BY <1>1 DEF Entries
<1>3. Entries(b) \subseteq Entries(c)
  BY <1>1 DEF Entries
<1>4. Entries(c) \subseteq Entries(a) \cup Entries(b)
  BY <1>1 DEF Entries
<1> QED
  BY <1>2, <1>3, <1>4 DEF c

LEMMA NothingIn ==
  /\ ShownIn(<<>>) = {} /\ Positions(<<>>) = {} /\ Entries(<<>>) = {}
  /\ UNION {Entries([r \in Regions |-> <<>>][q]) : q \in Regions} = {}
BY DEF ShownIn, Positions, Entries

LEMMA FigureIn == In(FigurePath) = Positions(figure.subpaths)
BY DEF In, FigurePath, Positions
-----------------------------------------------------------------------------
(* Nothing is lost.                                                        *)

\* The command being read is the next one of the file, and the file keeps
\* what was known of it.
LEMMA ReadsFile ==
  ASSUME ControlOK, NEW c \in Alphabet, Reads(c)
  PROVE  /\ cursor \in Nat /\ Here \in Nat /\ Len(file) \in Nat /\ Len(file') \in Nat
         /\ cursor <= Len(file) /\ Here <= Len(file') /\ Len(file) <= Len(file')
         /\ cursor' = Here /\ file'[Here] = c
         /\ \A k \in 1 .. Len(file) : file'[k] = file[k]
<1>1. cursor \in Nat /\ Len(file) \in Nat /\ cursor <= Len(file) /\ file \in Seq(Alphabet)
  BY DEF ControlOK
<1>2. CASE cursor < Len(file)
  <2>1. c = file[cursor + 1] /\ file' = file
    BY <1>2 DEF Reads
  <2> QED
    BY <1>1, <1>2, <2>1 DEF Reads, Here
<1>3. CASE ~(cursor < Len(file))
  <2>1. file' = Append(file, c) /\ cursor = Len(file)
    BY <1>1, <1>3 DEF Reads
  <2>2. /\ Len(file') = Len(file) + 1 /\ file'[Len(file) + 1] = c
        /\ \A k \in 1 .. Len(file) : file'[k] = file[k]
    BY <1>1, <2>1
  <2> QED
    BY <1>1, <2>1, <2>2 DEF Reads, Here
<1> QED
  BY <1>2, <1>3

LEMMA ShownWritten ==
  ASSUME NEW d \in Documents
  PROVE  /\ ShownIn(Written(d)) =
              UNION {{d.marks[i].of[k] : k \in DOMAIN d.marks[i].of} : i \in DOMAIN d.marks}
         /\ DOMAIN Written(d) = DOMAIN d.marks
         /\ \A i \in DOMAIN d.marks :
              /\ Written(d)[i].of = d.marks[i].of /\ Written(d)[i].clip = d.marks[i].clip
              /\ Written(d)[i].fill = d.marks[i].fill /\ Written(d)[i].href = d.marks[i].href
              /\ Written(d)[i].colour = d.marks[i].colour
<1>1. DOMAIN Written(d) = DOMAIN d.marks
  BY DEF Written
<1>2. \A i \in DOMAIN d.marks : d.marks[i] \in Marks
  BY DocumentFields
<1>3. \A i \in DOMAIN d.marks :
              /\ Written(d)[i].of = d.marks[i].of /\ Written(d)[i].clip = d.marks[i].clip
              /\ Written(d)[i].fill = d.marks[i].fill /\ Written(d)[i].href = d.marks[i].href
              /\ Written(d)[i].colour = d.marks[i].colour
  BY <1>2 DEF Written, Bare, Marks
<1> QED
  BY <1>1, <1>3 DEF ShownIn

\* What a document with the pending text written shows.
LEMMA FlushedShows ==
  ASSUME Inv
  PROVE  /\ Flushed \in Seq(Marks) /\ Written(doc) \in Seq(Marks)
         /\ TextMarks(text.pending) \in Seq(Marks)
         /\ Shown = ShownIn(Written(doc))
         /\ ShownIn(Flushed) = Shown \cup Positions(text.pending)
<1>1. doc \in Documents /\ text.pending \in Seq(Segments) /\ Here \in Nat
  BY DEF Inv, ControlOK, DocOK, Texts, Segments, Here
<1>2. Written(doc) \in Seq(Marks) /\ Shown = ShownIn(Written(doc))
  BY <1>1, WrittenType, ShownWritten DEF Shown
<1>3. TextMarks(text.pending) \in Seq(Marks)
  BY <1>1, TextMarksType DEF Segments
<1>4. /\ Flushed \in Seq(Marks)
      /\ ShownIn(Flushed) = ShownIn(Written(doc)) \cup Positions(text.pending)
  BY <1>1, <1>2, <1>3, ShownConcat, ShownText DEF Flushed
<1> QED
  BY <1>2, <1>3, <1>4

\* Only a region being captured has captured paths.
LEMMA CapturedStep == Inv /\ Captured /\ [Next]_vars => Captured'
<1> SUFFICES ASSUME Inv, Captured, [Next]_vars PROVE Captured'
  OBVIOUS
<1>1. region \in RegionStates
  BY DEF Inv, RegionOK
<1>2. ASSUME UNCHANGED region PROVE Captured'
  BY <1>2 DEF Captured
<1>12. ASSUME region'.paths = <<>>, ~region'.capturing PROVE Captured'
  BY <1>12 DEF Captured
<1>13. FreshRegion.paths = <<>> /\ ~FreshRegion.capturing
  BY DEF FreshRegion
<1>3. CASE Conversion
  BY <1>2, <1>12, <1>13, <1>3 DEF Conversion, Convert, EndOfFile, ResetPictureState
<1>4. CASE Pictures
  <2>1. CASE BeginPicture
    BY <1>12, <1>13, <2>1 DEF BeginPicture, ResetPictureState
  <2>2. CASE EndPicture
    <3>1. region'.paths = <<>> /\ ~region'.capturing
      BY <2>2 DEF EndPicture, FreshRegion
    <3> QED
      BY <1>12, <3>1
  <2> QED
    BY <1>2, <1>4, <2>1, <2>2 DEF Pictures, BeginPictureBody, BackgroundColour,
       ColourTable, SegmentElement
<1>5. CASE Clipping
  <2>1. CASE ClipRectangle \/ ClipIndicator
    BY <1>2, <2>1 DEF ClipRectangle, ClipIndicator
  <2>2. CASE BeginProtectionRegion
    <3>1. PICK c \in Alphabet : BeginProtectionRegion!(c)
      BY <2>2 DEF BeginProtectionRegion
    <3>2. c.rid \in Regions
      BY <3>1, Operands
    <3> QED
      BY <1>1, <3>1, <3>2 DEF Captured, RegionStates
  <2>3. CASE EndProtectionRegion
    BY <1>1, <2>3 DEF EndProtectionRegion, Captured, RegionStates
  <2>4. CASE ProtectionRegionIndicator
    <3>1. PICK c \in Alphabet : ProtectionRegionIndicator!(c)
      BY <2>4 DEF ProtectionRegionIndicator
    <3>2. c.rid \in Regions
      BY <3>1, Operands
    <3>3. /\ region'.paths = region.paths /\ region'.capturing = region.capturing
          /\ region'.active = c.rid
      BY <1>1, <3>1 DEF ClipToRegion, RegionStates
    <3> QED
      BY <3>2, <3>3 DEF Captured
  <2> QED
    BY <1>5, <2>1, <2>2, <2>3, <2>4 DEF Clipping
<1>6. CASE Drawing
  <2>1. CASE PrimitiveIntoRegion \/ EndFigureIntoRegion
    <3>1. /\ region.capturing /\ region'.capturing = region.capturing
          /\ region'.active = region.active
      BY <1>1, <2>1 DEF PrimitiveIntoRegion, EndFigureIntoRegion, IntoRegion, RegionStates
    <3> QED
      BY <3>1 DEF Captured
  <2>2. CASE ~(PrimitiveIntoRegion \/ EndFigureIntoRegion)
    BY <1>2, <1>6, <2>2 DEF Drawing, PrimitiveIntoFigure, DrawStroked, DrawFilled,
       FailFilled, BeginFigure, ConnectingEdge, EndFigure, DrawFigure
  <2> QED
    BY <2>1, <2>2
<1>7. CASE Filling
  BY <1>2, <1>7 DEF Filling, InteriorStyle, PatternIndex, PatternTable, PatternSize,
     FillReferencePoint, Attribute
<1>8. CASE Texting
  BY <1>2, <1>8 DEF Texting, TextColour, Text, RestrictedText, AppendText
<1>9. CASE Structuring
  BY <1>2, <1>9 DEF Structuring, BeginApplicationStructure, ApplicationStructureAttribute,
     BeginApplicationStructureBody, EndApplicationStructure
<1>10. CASE Symbolising
  BY <1>2, <1>10 DEF Symbolising, SymbolLibraryList, PolySymbol
<1>11. CASE UNCHANGED vars
  BY <1>2, <1>11 DEF vars
<1> QED
  BY <1>3, <1>4, <1>5, <1>6, <1>7, <1>8, <1>9, <1>10, <1>11 DEF Next
\* What is shown after a step, and what the regions hold.
LEMMA ShownAfter ==
  ASSUME Inv'
  PROVE  Shown' = ShownIn(Written(doc'))
<1>1. doc' \in Documents
  BY DEF Inv, DocOK
<1> QED
  BY <1>1, ShownWritten DEF Shown

LEMMA FlushShows ==
  ASSUME Inv, Inv', Flushes
  PROVE  /\ Shown' = Shown \cup Positions(text.pending)
         /\ Positions(text'.pending) = {}
BY FlushedShows, ShownAfter, NothingIn DEF Flushes

LEMMA DrawnShows ==
  ASSUME Inv, Inv', NEW m \in Marks, Written(doc') = Flushed \o <<m>>
  PROVE  Shown' = Shown \cup Positions(text.pending) \cup In(m.of)
<1>1. <<m>> \in Seq(Marks) /\ Flushed \in Seq(Marks)
  BY FlushedShows
<1> QED
  BY <1>1, FlushedShows, ShownAfter, ShownConcat, ShownSingle

LEMMA HeldFields ==
  ASSUME Inv
  PROVE  /\ region.paths \in Seq(Seq(Nat)) /\ region.shapes \in [Regions -> Seq(Seq(Nat))]
         /\ figure.subpaths \in Seq([at : Nat, joined : BOOLEAN])
         /\ text.pending \in Seq(Segments) /\ FigurePath \in Seq(Nat)
<1>1. region \in RegionStates /\ figure \in Figures /\ text \in Texts
  BY DEF Inv, RegionOK
<1>2. /\ region.paths \in Seq(Seq(Nat)) /\ region.shapes \in [Regions -> Seq(Seq(Nat))]
      /\ figure.subpaths \in Seq([at : Nat, joined : BOOLEAN])
      /\ text.pending \in Seq(Segments)
  BY <1>1 DEF RegionStates, Figures, Texts, Paths, Segments
<1>3. /\ DOMAIN figure.subpaths = 1 .. Len(figure.subpaths) /\ Len(figure.subpaths) \in Nat
      /\ \A i \in DOMAIN figure.subpaths : figure.subpaths[i] \in [at : Nat, joined : BOOLEAN]
  <2> DEFINE T == [at : Nat, joined : BOOLEAN]
  <2>1. figure.subpaths \in Seq(T)
    BY <1>2
  <2> HIDE DEF T
  <2>2. /\ DOMAIN figure.subpaths = 1 .. Len(figure.subpaths) /\ Len(figure.subpaths) \in Nat
        /\ \A i \in DOMAIN figure.subpaths : figure.subpaths[i] \in T
    BY <2>1
  <2> QED
    BY <2>2 DEF T
<1>4. \A i \in DOMAIN figure.subpaths : figure.subpaths[i].at \in Nat
  BY <1>3
<1> QED
  BY <1>2, <1>3, <1>4 DEF FigurePath

LEMMA SameHeld ==
  ASSUME UNCHANGED Held
  PROVE  /\ Positions(figure.subpaths)' = Positions(figure.subpaths)
         /\ InRegions' = InRegions
BY DEF Held, InRegions

\* The captured paths of a region go where the region's shape is.
LEMMA ClosingKeeps ==
  ASSUME Inv, NEW r \in Regions,
         region'.shapes = [region.shapes EXCEPT ![r] = @ \o region.paths],
         region'.paths = <<>>
  PROVE  InRegions' = InRegions
<1> DEFINE old == region.shapes
           new == region'.shapes
<1>1. region.paths \in Seq(Seq(Nat)) /\ old \in [Regions -> Seq(Seq(Nat))]
  BY HeldFields
<1>2. /\ Entries(new[r]) = Entries(old[r]) \cup Entries(region.paths)
      /\ \A q \in Regions : q # r => new[q] = old[q]
  <2>1. old[r] \in Seq(Seq(Nat)) /\ new[r] = old[r] \o region.paths
    BY <1>1
  <2> QED
    BY <1>1, <2>1, EntriesConcat
<1>3. InRegions' = UNION {Entries(new[q]) : q \in Regions}
  BY NothingIn DEF InRegions
<1>4. InRegions = Entries(region.paths) \cup UNION {Entries(old[q]) : q \in Regions}
  BY DEF InRegions
<1> HIDE DEF old, new
<1> QED
  BY <1>2, <1>3, <1>4

LEMMA CapturingKeeps ==
  ASSUME Inv, NEW path \in Seq(Nat), region'.paths = Append(region.paths, path),
         UNCHANGED region.shapes
  PROVE  InRegions' = InRegions \cup In(path)
<1>1. Entries(region'.paths) = Entries(region.paths) \cup In(path)
  BY HeldFields, EntriesAppend
<1> QED
  BY <1>1 DEF InRegions

\* Where each kind of step leaves the commands that are shown, pending,
\* collected by a figure and held by regions.
LEMMA Goes ==
  ASSUME Inv, Inv', NEW c \in Alphabet
  PROVE  LET S == Shown
             P == Positions(text.pending)
             F == Positions(figure.subpaths)
             R == InRegions
         IN
         /\ Keeps(c) => S' = S /\ P' = P /\ F' = F /\ R' = R
         /\ Forgets(c) =>
              /\ S' = S \cup P /\ P' = {} /\ F' \subseteq F /\ R' \subseteq R
              /\ F \ MayForget(c) \subseteq F' /\ R \ MayForget(c) \subseteq R'
         /\ Draws(c) => S' = S \cup P \cup {Here} /\ P' = {} /\ F' = F /\ R' = R
         /\ Starts(c) => S' = S \cup P /\ P' = {Here} /\ F' = F /\ R' = R
         /\ Joins(c) => S' = S /\ P' = P \cup {Here} /\ F' = F /\ R' = R
         /\ Collects(c) => S' = S \cup P /\ P' = {} /\ F' = F \cup {Here} /\ R' = R
         /\ Captures(c) => S' = S \cup P /\ P' = {} /\ F' = F /\ R' = R \cup {Here}
         /\ Encloses(c) => S' = S \cup P /\ P' = {} /\ F' = {} /\ R' = R \cup F
         /\ DrawsFigure(c) => S' = S \cup P \cup F /\ P' = {} /\ F' = {} /\ R' = R
         /\ Closes(c) => S' = S \cup P /\ P' = {} /\ F' = F /\ R' = R
         /\ TurnsPage(c) => S' = {} /\ P' = {} /\ F' = F /\ R' = {}
<1> DEFINE S == Shown
           P == Positions(text.pending)
           F == Positions(figure.subpaths)
           R == InRegions
<1>1. Here \in Nat /\ In(<<Here>>) = {Here} /\ <<Here>> \in Seq(Nat)
  <2>1. Here \in Nat
    BY DEF Inv, ControlOK, Here
  <2> QED
    BY <2>1 DEF In
<1>2. ASSUME UNCHANGED Held PROVE F' = F /\ R' = R
  BY <1>2, SameHeld
<1>3. ASSUME Flushes PROVE S' = S \cup P /\ P' = {}
  BY <1>3, FlushShows
<1>4. ASSUME UNCHANGED region PROVE R' = R
  BY <1>4 DEF InRegions
<1>5. Keeps(c) => S' = S /\ P' = P /\ F' = F /\ R' = R
  BY <1>2, FlushedShows, ShownAfter DEF Keeps
<1>6. ASSUME Forgets(c)
      PROVE  /\ S' = S \cup P /\ P' = {} /\ F' \subseteq F /\ R' \subseteq R
             /\ F \ MayForget(c) \subseteq F' /\ R \ MayForget(c) \subseteq R'
  <2>1. S' = S \cup P /\ P' = {}
    BY <1>3, <1>6 DEF Forgets
  <2>2. F' \subseteq F /\ F \ MayForget(c) \subseteq F'
    BY <1>6, NothingIn DEF Forgets
  <2>3. /\ Entries(region'.paths) \subseteq Entries(region.paths)
        /\ Entries(region.paths) \ MayForget(c) \subseteq Entries(region'.paths)
    BY <1>6, NothingIn DEF Forgets
  <2>4. \A r \in Regions :
          /\ Entries(region'.shapes[r]) \subseteq Entries(region.shapes[r])
          /\ Entries(region.shapes[r]) \ MayForget(c) \subseteq Entries(region'.shapes[r])
    BY <1>6, NothingIn DEF Forgets
  <2>5. R' \subseteq R /\ R \ MayForget(c) \subseteq R'
    BY <2>3, <2>4 DEF InRegions
  <2> QED
    BY <2>1, <2>2, <2>5
<1>7. ASSUME Draws(c) PROVE S' = S \cup P \cup {Here} /\ P' = {} /\ F' = F /\ R' = R
  <2>1. PICK m \in Marks : Written(doc') = Flushed \o <<m>> /\ m.of = <<Here>>
    BY <1>7 DEF Draws
  <2>2. S' = S \cup P \cup {Here}
    BY <1>1, <2>1, DrawnShows
  <2> QED
    BY <1>2, <1>7, <2>2, NothingIn DEF Draws
<1>8. ASSUME Starts(c) PROVE S' = S \cup P /\ P' = {Here} /\ F' = F /\ R' = R
  <2>1. S' = S \cup P
    BY <1>8, FlushedShows, ShownAfter DEF Starts
  <2>2. P' = {Here}
    BY <1>1, <1>8 DEF Starts, Segment, Positions
  <2> QED
    BY <1>2, <1>8, <2>1, <2>2 DEF Starts
<1>9. ASSUME Joins(c) PROVE S' = S /\ P' = P \cup {Here} /\ F' = F /\ R' = R
  <2>1. S' = S
    BY <1>9, FlushedShows, ShownAfter DEF Joins
  <2>2. Segment(Here) \in Segments /\ Segment(Here).at = Here
    BY <1>1 DEF Segment, Segments, Inv, Texts
  <2>3. P' = P \cup {Here}
    BY <1>9, <2>2, HeldFields, PositionsAppend DEF Joins
  <2> QED
    BY <1>2, <1>9, <2>1, <2>3 DEF Joins
<1>10. ASSUME Collects(c)
       PROVE  S' = S \cup P /\ P' = {} /\ F' = F \cup {Here} /\ R' = R
  <2>1. PICK joined \in BOOLEAN :
          figure'.subpaths = Append(figure.subpaths, [at |-> Here, joined |-> joined])
    BY <1>10 DEF Collects
  <2>2. F' = F \cup {Here}
    <3> DEFINE T == [at : Nat, joined : BOOLEAN]
               x == [at |-> Here, joined |-> joined]
    <3>1. figure.subpaths \in Seq(T) /\ x \in T /\ x.at = Here
      BY <1>1, HeldFields
    <3>2. figure'.subpaths = Append(figure.subpaths, x)
      BY <2>1
    <3> HIDE DEF T, x
    <3>3. Positions(Append(figure.subpaths, x)) = Positions(figure.subpaths) \cup {x.at}
      BY <3>1, PositionsAppend
    <3> QED
      BY <3>1, <3>2, <3>3
  <2> QED
    BY <1>3, <1>4, <1>10, <2>2 DEF Collects
<1>11. ASSUME Captures(c)
       PROVE  S' = S \cup P /\ P' = {} /\ F' = F /\ R' = R \cup {Here}
  <2>1. R' = R \cup {Here}
    BY <1>1, <1>11, CapturingKeeps DEF Captures
  <2> QED
    BY <1>3, <1>11, <2>1 DEF Captures
<1>12. ASSUME Encloses(c) PROVE S' = S \cup P /\ P' = {} /\ F' = {} /\ R' = R \cup F
  <2>1. R' = R \cup F
    BY <1>12, HeldFields, CapturingKeeps, FigureIn DEF Encloses
  <2> QED
    BY <1>3, <1>12, <2>1, NothingIn DEF Encloses
<1>13. ASSUME DrawsFigure(c)
       PROVE  S' = S \cup P \cup F /\ P' = {} /\ F' = {} /\ R' = R
  <2>1. PICK m \in Marks : Written(doc') = Flushed \o <<m>> /\ m.of = FigurePath
    BY <1>13 DEF DrawsFigure
  <2>2. S' = S \cup P \cup F
    BY <2>1, DrawnShows, FigureIn
  <2> QED
    BY <1>4, <1>13, <2>2, NothingIn DEF DrawsFigure
<1>14. ASSUME Closes(c) PROVE S' = S \cup P /\ P' = {} /\ F' = F /\ R' = R
  <2>1. R' = R
    BY <1>14, ClosingKeeps DEF Closes
  <2> QED
    BY <1>3, <1>14, <2>1 DEF Closes
<1>15. ASSUME TurnsPage(c) PROVE S' = {} /\ P' = {} /\ F' = F /\ R' = {}
  <2>1. S' = {} /\ P' = {} /\ F' = F
    BY <1>15, ShownAfter, NothingIn DEF TurnsPage, Blank
  <2>2. R' = {}
    BY <1>15, NothingIn DEF TurnsPage, Blank, InRegions
  <2> QED
    BY <2>1, <2>2
<1> QED
  BY <1>5, <1>6, <1>7, <1>8, <1>9, <1>10, <1>11, <1>12, <1>13, <1>14, <1>15

\* One step of the conversion loses nothing.
LEMMA KeptStep ==
  ASSUME Inv, Inv', NEW c \in Alphabet, Moves(c)
  PROVE  /\ Kept \ MayForget(c) \subseteq Kept'
         /\ Graphic(c) /\ phase' # "failed" => Here \in Kept'
<1> DEFINE S == Shown
           P == Positions(text.pending)
           F == Positions(figure.subpaths)
           R == InRegions
<1>1. Kept = S \cup P \cup F \cup R /\ Kept' = S' \cup P' \cup F' \cup R'
  BY DEF Kept
<1> HIDE DEF S, P, F, R
<1>2. CASE Keeps(c)
  BY <1>1, <1>2, Goes DEF Keeps, S, P, F, R
<1>3. CASE Forgets(c)
  BY <1>1, <1>3, Goes DEF Forgets, S, P, F, R
<1>4. CASE Draws(c) \/ Starts(c) \/ Joins(c)
  BY <1>1, <1>4, Goes DEF S, P, F, R
<1>5. CASE Collects(c) \/ Captures(c)
  BY <1>1, <1>5, Goes DEF S, P, F, R
<1>6. CASE Encloses(c) \/ DrawsFigure(c) \/ Closes(c)
  BY <1>1, <1>6, Goes DEF Encloses, DrawsFigure, Closes, S, P, F, R
<1>7. CASE TurnsPage(c)
  BY <1>7 DEF TurnsPage
<1> QED
  BY <1>2, <1>3, <1>4, <1>5, <1>6, <1>7 DEF Moves

\* Whatever a conversion reads is drawn or still held, unless the command is
\* meant to forget it: the pending text, the figures and the regions between
\* a handler and the document lose nothing (flushPendingText, renderFigure,
\* handleEndProtectionRegion, handleBeginPicture).
THEOREM GraphicsKept == Spec => NothingLost
<1> DEFINE Safe == Inv /\ Captured
<1>1. Init => Safe
  <2>1. Init => region = FreshRegion
    BY DEF Init
  <2>2. FreshRegion.paths = <<>> /\ FreshRegion.capturing = FALSE
    BY DEF FreshRegion
  <2> QED
    BY <2>1, <2>2, InitInv DEF Captured
<1>2. Safe /\ [Next]_vars => Safe'
  BY NextInv, CapturedStep
<1>3. Safe /\ [Next]_vars =>
        [cursor' = cursor + 1 /\ phase' = "converting" =>
           LET c == file'[cursor'] IN
           /\ Kept \ MayForget(c) \subseteq Kept'
           /\ Graphic(c) => cursor' \in Kept']_vars
  <2> SUFFICES ASSUME Inv, Captured, Next, cursor' = cursor + 1, phase' = "converting"
               PROVE  LET c == file'[cursor'] IN
                      /\ Kept \ MayForget(c) \subseteq Kept'
                      /\ Graphic(c) => cursor' \in Kept'
    OBVIOUS
  <2>1. Inv'
    BY NextInv
  <2>2. cursor \in Nat /\ cursor' # 0 /\ cursor' # cursor
    <3>1. cursor \in Nat
      BY DEF Inv, ControlOK
    <3> QED
      BY <3>1
  <2>3. ~Convert /\ ~EndOfFile
    BY <2>2 DEF Convert, EndOfFile
  <2>4. PICK c \in Alphabet : Moves(c)
    BY <2>3, EveryStep DEF Flow
  <2>5. cursor' = Here /\ file'[cursor'] = c
    BY <2>4, ReadsFile DEF Moves, Inv
  <2>6. /\ Kept \ MayForget(c) \subseteq Kept'
        /\ Graphic(c) /\ phase' # "failed" => Here \in Kept'
    BY <2>1, <2>4, KeptStep
  <2> QED
    BY <2>5, <2>6
<1> QED
  BY <1>1, <1>2, <1>3, PTL DEF Spec, NothingLost

-----------------------------------------------------------------------------
(* The colour of text.                                                     *)

Colours == {"TEXT COLOUR", "BEGIN PICTURE"}

\* ColourAt, of any file.
Coloured(f, n) == {k \in 1 .. n : f[k].op \in Colours}
LastOf(set) == CHOOSE k \in set : \A j \in set : j <= k
ColourOf(f, set) ==
  IF set = {} \/ f[LastOf(set)].op = "BEGIN PICTURE" THEN 0 ELSE LastOf(set)
ColourIn(f, n) == ColourOf(f, Coloured(f, n))

LEMMA ColourAtIn == \A n : ColourAt(n) = ColourIn(file, n)
BY DEF ColourAt, ColourIn, ColourOf, Coloured, LastOf, Colours

\* A set of commands of a file has a last one.
LEMMA LastOne ==
  ASSUME NEW n \in Nat, NEW T \in SUBSET (1 .. n), T # {}
  PROVE  LastOf(T) \in T
<1> DEFINE D == {n - k : k \in T}
<1>1. \A k \in T : k \in Nat /\ k <= n /\ n - k \in Nat
  OBVIOUS
<1>2. D \in SUBSET Nat /\ D # {}
  BY <1>1
<1>3. PICK d \in D : \A e \in D : d <= e
  <2> HIDE DEF D
  <2> QED
    BY <1>2, LeastElement
<1>4. PICK k \in T : d = n - k
  OBVIOUS
<1>5. \A j \in T : n - j \in D
  OBVIOUS
<1> HIDE DEF D
<1>6. \A j \in T : j <= k
  <2> SUFFICES ASSUME NEW j \in T PROVE j <= k
    OBVIOUS
  <2>1. n - k <= n - j
    BY <1>3, <1>4, <1>5
  <2> QED
    BY <1>1, <2>1
<1> QED
  BY <1>6 DEF LastOf

\* What is read later does not change the colour of what was read.
LEMMA ColourStays ==
  ASSUME NEW f, NEW g, NEW n \in Nat, \A k \in 1 .. n : g[k] = f[k]
  PROVE  ColourIn(g, n) = ColourIn(f, n)
<1> DEFINE set == Coloured(f, n)
<1>1. Coloured(g, n) = set /\ set \in SUBSET (1 .. n)
  BY DEF Coloured
<1> HIDE DEF set
<1>2. CASE set = {}
  BY <1>1, <1>2 DEF ColourIn, ColourOf, set
<1>3. CASE set # {}
  <2>1. LastOf(set) \in set
    BY <1>1, <1>3, LastOne
  <2>2. g[LastOf(set)] = f[LastOf(set)]
    BY <1>1, <2>1
  <2> QED
    BY <1>1, <2>2 DEF ColourIn, ColourOf, set
<1> QED
  BY <1>2, <1>3

\* The colour after a command more.
LEMMA ColourStep ==
  ASSUME NEW f, NEW n \in Nat
  PROVE  ColourIn(f, n + 1) =
           IF f[n + 1].op = "TEXT COLOUR" THEN n + 1
           ELSE IF f[n + 1].op = "BEGIN PICTURE" THEN 0 ELSE ColourIn(f, n)
<1> DEFINE new == Coloured(f, n + 1)
<1>1. CASE f[n + 1].op \in Colours
  <2>1. n + 1 \in new /\ \A j \in new : j <= n + 1 /\ j \in Nat
    BY <1>1 DEF Coloured
  <2> HIDE DEF new
  <2>2. LastOf(new) = n + 1 /\ new # {}
    BY <2>1 DEF LastOf
  <2>3. ColourIn(f, n + 1) = IF f[n + 1].op = "BEGIN PICTURE" THEN 0 ELSE n + 1
    BY <2>2 DEF ColourIn, ColourOf, new
  <2> QED
    BY <1>1, <2>3 DEF Colours
<1>2. CASE f[n + 1].op \notin Colours
  <2>1. 1 .. n + 1 = 1 .. n \cup {n + 1}
    OBVIOUS
  <2>2. new = Coloured(f, n)
    BY <1>2, <2>1 DEF Coloured
  <2> HIDE DEF new
  <2>3. ColourIn(f, n + 1) = ColourIn(f, n)
    BY <2>2 DEF ColourIn, new
  <2> QED
    BY <1>2, <2>3 DEF Colours
<1> QED
  BY <1>1, <1>2

\* Before the first command the colour is the default one.
LEMMA ColourAtFirst == \A f : ColourIn(f, 0) = 0
BY DEF ColourIn, ColourOf, Coloured
-----------------------------------------------------------------------------
\* The text among marks shows the colour of its command, and pending text
\* will.
TextColours(w, f) ==
  \A i \in DOMAIN w :
    /\ w[i].of # <<>>
    /\ f[w[i].of[1]].op \in TextOps => w[i].colour = ColourIn(f, w[i].of[1])

PendingColours(p, f) ==
  \A i \in DOMAIN p : p[i].colour = ColourIn(f, p[i].at)

\* Everything that is drawn, pending or held is of a command that was read;
\* figures hold no text; text has, and will have, the colour it was read in.
Recorded ==
  /\ Kept \subseteq 1 .. Len(file)
  /\ \A n \in Positions(figure.subpaths) : file[n].op \notin TextOps
  /\ TextColours(Written(doc), file)
  /\ PendingColours(text.pending, file)
  /\ text.colour = ColourIn(file, cursor)

LEMMA FirstOf ==
  ASSUME NEW w \in Seq(Marks), NEW i \in DOMAIN w, w[i].of # <<>>
  PROVE  w[i].of \in Seq(Nat) /\ 1 \in DOMAIN w[i].of /\ w[i].of[1] \in ShownIn(w)
<1>1. w[i] \in Marks
  OBVIOUS
<1>2. w[i].of \in Seq(Nat)
  BY <1>1 DEF Marks
<1>3. 1 \in DOMAIN w[i].of
  BY <1>2
<1> QED
  BY <1>2, <1>3 DEF ShownIn

LEMMA TextColoursStay ==
  ASSUME NEW w \in Seq(Marks), NEW f, NEW g, NEW n \in Nat,
         \A k \in 1 .. n : g[k] = f[k], ShownIn(w) \subseteq 1 .. n,
         TextColours(w, f)
  PROVE  TextColours(w, g)
<1> SUFFICES ASSUME NEW i \in DOMAIN w
             PROVE  /\ w[i].of # <<>>
                    /\ g[w[i].of[1]].op \in TextOps => w[i].colour = ColourIn(g, w[i].of[1])
  BY DEF TextColours
<1> DEFINE k == w[i].of[1]
<1>1. w[i].of # <<>> /\ (f[k].op \in TextOps => w[i].colour = ColourIn(f, k))
  BY DEF TextColours
<1>2. k \in 1 .. n
  BY <1>1, FirstOf
<1> HIDE DEF k
<1>3. g[k] = f[k] /\ ColourIn(g, k) = ColourIn(f, k)
  <2>1. k \in Nat /\ \A j \in 1 .. k : g[j] = f[j]
    BY <1>2
  <2> QED
    BY <1>2, <2>1, ColourStays
<1> QED
  BY <1>1, <1>3 DEF k

LEMMA PendingColoursStay ==
  ASSUME NEW p \in Seq(Segments), NEW f, NEW g, NEW n \in Nat,
         \A k \in 1 .. n : g[k] = f[k], Positions(p) \subseteq 1 .. n,
         PendingColours(p, f)
  PROVE  PendingColours(p, g)
<1> SUFFICES ASSUME NEW i \in DOMAIN p PROVE p[i].colour = ColourIn(g, p[i].at)
  BY DEF PendingColours
<1> DEFINE k == p[i].at
<1>1. k \in 1 .. n /\ p[i].colour = ColourIn(f, k)
  BY DEF Positions, PendingColours
<1> HIDE DEF k
<1>2. k \in Nat /\ \A j \in 1 .. k : g[j] = f[j]
  BY <1>1
<1>3. ColourIn(g, k) = ColourIn(f, k)
  BY <1>2, ColourStays
<1> QED
  BY <1>1, <1>3 DEF k

LEMMA TextColoursConcat ==
  ASSUME NEW a \in Seq(Marks), NEW b \in Seq(Marks), NEW f,
         TextColours(a, f), TextColours(b, f)
  PROVE  TextColours(a \o b, f)
<1> DEFINE c == a \o b
<1>1. /\ \A i \in DOMAIN a : i \in DOMAIN c /\ c[i] = a[i]
      /\ \A j \in DOMAIN b : Len(a) + j \in DOMAIN c /\ c[Len(a) + j] = b[j]
      /\ \A i \in DOMAIN c : i \in DOMAIN a \/ \E j \in DOMAIN b : i = Len(a) + j
  BY ConcatSplit
<1> HIDE DEF c
<1>2. \A i \in DOMAIN c : \/ \E j \in DOMAIN a : c[i] = a[j]
                          \/ \E j \in DOMAIN b : c[i] = b[j]
  BY <1>1
<1>3. TextColours(c, f)
  BY <1>2 DEF TextColours
<1> QED
  BY <1>3 DEF c

LEMMA TextColoursOfPending ==
  ASSUME NEW p \in Seq(Segments), NEW f, PendingColours(p, f)
  PROVE  TextColours(TextMarks(p), f)
<1>1. /\ DOMAIN TextMarks(p) = DOMAIN p
      /\ \A i \in DOMAIN p : /\ TextMarks(p)[i].of = <<p[i].at>>
                             /\ TextMarks(p)[i].colour = p[i].colour
  BY DEF TextMarks, Mark
<1>2. \A i \in DOMAIN p : <<p[i].at>> # <<>> /\ <<p[i].at>>[1] = p[i].at
  OBVIOUS
<1> QED
  BY <1>1, <1>2 DEF TextColours, PendingColours

LEMMA TextColoursSingle ==
  ASSUME NEW m, NEW f, m.of # <<>>,
         f[m.of[1]].op \in TextOps => m.colour = ColourIn(f, m.of[1])
  PROVE  TextColours(<<m>>, f)
BY DEF TextColours

\* What was recorded stays so when the file is read on.
LEMMA RecordedStays ==
  ASSUME Inv, Recorded, NEW g,
         \A k \in 1 .. Len(file) : g[k] = file[k]
  PROVE  /\ TextColours(Written(doc), g) /\ TextColours(Flushed, g)
         /\ PendingColours(text.pending, g)
         /\ text.colour = ColourIn(g, cursor)
         /\ \A k \in Positions(figure.subpaths) : g[k].op \notin TextOps
<1>1. /\ Len(file) \in Nat /\ cursor \in Nat /\ cursor <= Len(file)
      /\ text.pending \in Seq(Segments)
  BY HeldFields DEF Inv, ControlOK
<1>2. /\ Shown \subseteq 1 .. Len(file) /\ Positions(text.pending) \subseteq 1 .. Len(file)
      /\ Positions(figure.subpaths) \subseteq 1 .. Len(file)
  BY DEF Recorded, Kept
<1>3. TextColours(Written(doc), g)
  BY <1>1, <1>2, FlushedShows, TextColoursStay DEF Recorded
<1>4. PendingColours(text.pending, g)
  BY <1>1, <1>2, PendingColoursStay DEF Recorded
<1>5. TextColours(Flushed, g)
  BY <1>1, <1>3, <1>4, FlushedShows, TextColoursOfPending, TextColoursConcat DEF Flushed
<1>6. text.colour = ColourIn(g, cursor)
  <2>1. \A k \in 1 .. cursor : g[k] = file[k]
    BY <1>1
  <2> QED
    BY <1>1, <2>1, ColourStays DEF Recorded
<1>7. \A k \in Positions(figure.subpaths) : g[k].op \notin TextOps
  BY <1>2 DEF Recorded
<1> QED
  BY <1>3, <1>4, <1>5, <1>6, <1>7
LEMMA RecordedMoves ==
  ASSUME Inv, Inv', Recorded, NEW c \in Alphabet, Moves(c)
  PROVE  Recorded'
<1> DEFINE S == Shown
           P == Positions(text.pending)
           F == Positions(figure.subpaths)
           R == InRegions
           W == Written(doc)
           p == text.pending
           f == file
           g == Segment(Here)
<1>1. /\ cursor \in Nat /\ Here \in Nat /\ Len(f) \in Nat /\ Len(f') \in Nat
      /\ Here = cursor + 1 /\ Here <= Len(f') /\ Len(f) <= Len(f')
      /\ cursor' = Here /\ f'[Here] = c
      /\ \A k \in 1 .. Len(f) : f'[k] = f[k]
  BY ReadsFile DEF Inv, Moves, Here
<1>2. /\ TextColours(W, f') /\ TextColours(Flushed, f') /\ PendingColours(p, f')
      /\ text.colour = ColourIn(f', cursor)
      /\ \A k \in F : f'[k].op \notin TextOps
  BY <1>1, RecordedStays
<1>3. text'.colour = ColourIn(f', cursor')
  <2>1. ColourIn(f', cursor + 1) =
          IF f'[cursor + 1].op = "TEXT COLOUR" THEN cursor + 1
          ELSE IF f'[cursor + 1].op = "BEGIN PICTURE" THEN 0 ELSE ColourIn(f', cursor)
    BY <1>1, ColourStep
  <2>2. NextColour(c)
    BY DEF Moves
  <2> QED
    BY <1>1, <1>2, <2>1, <2>2 DEF NextColour, Here
<1>4. c.op \in TextOps => text.colour = ColourIn(f', Here)
  <2>1. c.op \in TextOps => text'.colour = text.colour
    BY Kinds DEF Moves, NextColour
  <2> QED
    BY <1>1, <1>3, <2>1
<1>5. /\ g \in Segments /\ g.at = Here /\ g.colour = text.colour
      /\ p \in Seq(Segments)
  BY <1>1, HeldFields DEF Segment, Segments, Inv, Texts
<1>6. Kept' \subseteq 1 .. Len(f')
  <2>1. Kept \cup {Here} \subseteq 1 .. Len(f')
    BY <1>1 DEF Recorded
  <2>2. Kept = S \cup P \cup F \cup R /\ Kept' = S' \cup P' \cup F' \cup R'
    BY DEF Kept
  <2>3. S' \cup P' \cup F' \cup R' \subseteq S \cup P \cup F \cup R \cup {Here}
    <3> HIDE DEF S, P, F, R
    <3> QED
      BY Goes DEF Moves, S, P, F, R
  <2> QED
    BY <2>1, <2>2, <2>3
<1>7. \A k \in F' : f'[k].op \notin TextOps
  <2>1. CASE Collects(c)
    <3>1. F' = F \cup {Here} /\ c.op \notin TextOps
      BY <2>1, Goes, Kinds DEF Collects
    <3> QED
      BY <1>1, <1>2, <3>1
  <2>2. CASE ~Collects(c)
    <3>1. F' \subseteq F
      BY <2>2, Goes DEF Moves
    <3> QED
      BY <1>2, <3>1
  <2> QED
    BY <2>1, <2>2
<1>8. PendingColours(text'.pending, f')
  <2>1. CASE text'.pending = <<>>
    BY <2>1 DEF PendingColours
  <2>2. CASE Keeps(c)
    BY <1>2, <2>2 DEF Keeps
  <2>3. CASE Starts(c)
    BY <1>4, <1>5, <2>3 DEF Starts, PendingColours
  <2>4. CASE Joins(c)
    <3>1. text'.pending = Append(p, g) /\ c.op \in TextOps
      BY <2>4 DEF Joins
    <3>2. /\ DOMAIN Append(p, g) = 1 .. Len(p) + 1 /\ Len(p) \in Nat /\ DOMAIN p = 1 .. Len(p)
          /\ \A i \in 1 .. Len(p) : Append(p, g)[i] = p[i]
          /\ Append(p, g)[Len(p) + 1] = g
      BY <1>5
    <3>3. \A i \in 1 .. Len(p) + 1 : i \in 1 .. Len(p) \/ i = Len(p) + 1
      BY <3>2
    <3> HIDE DEF g, p
    <3>4. PendingColours(Append(p, g), f')
      BY <1>2, <1>4, <1>5, <3>1, <3>2, <3>3 DEF PendingColours
    <3> QED
      BY <3>1, <3>4
  <2> QED
    BY <2>1, <2>2, <2>3, <2>4 DEF Moves, Forgets, Flushes, Draws, Collects, Captures,
       Encloses, DrawsFigure, Closes, TurnsPage, Blank
<1>9. TextColours(Written(doc'), f')
  <2>1. CASE Draws(c)
    <3>1. PICK m \in Marks : /\ Written(doc') = Flushed \o <<m>> /\ m.of = <<Here>>
                             /\ c.op \in TextOps => m.colour = text.colour
      BY <2>1 DEF Draws
    <3>2. m.of # <<>> /\ m.of[1] = Here /\ <<m>> \in Seq(Marks) /\ Flushed \in Seq(Marks)
      BY <3>1, FlushedShows
    <3>3. TextColours(<<m>>, f')
      BY <1>1, <1>4, <3>1, <3>2, TextColoursSingle
    <3> QED
      BY <1>2, <3>1, <3>2, <3>3, TextColoursConcat
  <2>2. CASE DrawsFigure(c)
    <3>1. PICK m \in Marks : Written(doc') = Flushed \o <<m>> /\ m.of = FigurePath
      BY <2>2 DEF DrawsFigure
    <3>2. FigurePath \in Seq(Nat) /\ figure.subpaths # <<>> /\ DOMAIN FigurePath = DOMAIN figure.subpaths
      BY <2>2, HeldFields DEF DrawsFigure, FigurePath
    <3>3. 1 \in DOMAIN figure.subpaths
      <4> DEFINE T == [at : Nat, joined : BOOLEAN]
      <4>1. figure.subpaths \in Seq(T)
        BY HeldFields
      <4> HIDE DEF T
      <4> QED
        BY <3>2, <4>1
    <3>4. FigurePath # <<>> /\ FigurePath[1] \in F
      BY <3>2, <3>3 DEF FigurePath, Positions
    <3>5. TextColours(<<m>>, f')
      BY <1>2, <3>1, <3>4, TextColoursSingle
    <3>6. <<m>> \in Seq(Marks) /\ Flushed \in Seq(Marks)
      BY FlushedShows
    <3> QED
      BY <1>2, <3>1, <3>5, <3>6, TextColoursConcat
  <2>3. CASE TurnsPage(c)
    BY <2>3 DEF TurnsPage, Blank, TextColours
  <2>4. CASE Written(doc') = Written(doc)
    BY <1>2, <2>4
  <2>5. CASE Written(doc') = Flushed
    BY <1>2, <2>5
  <2> QED
    BY <2>1, <2>2, <2>3, <2>4, <2>5 DEF Moves, Keeps, Forgets, Starts, Joins,
       Collects, Captures, Encloses, Closes, Flushes
<1> QED
  BY <1>3, <1>6, <1>7, <1>8, <1>9 DEF Recorded
LEMMA RecordedStep == Inv /\ Captured /\ Recorded /\ [Next]_vars => Recorded'
<1> SUFFICES ASSUME Inv, Captured, Recorded, [Next]_vars PROVE Recorded'
  OBVIOUS
<1>1. Inv'
  BY NextInv
<1>2. CASE Convert
  <2>1. Blank /\ text'.colour = 0 /\ file' = file /\ cursor' = 0 /\ figure' = figure
    BY <1>2, ConvertEffect DEF Convert
  <2>2. Shown' = {} /\ Positions(text'.pending) = {} /\ InRegions' = {}
    BY <1>1, <2>1, ShownAfter, NothingIn DEF Blank, InRegions
  <2>3. Kept' \subseteq 1 .. Len(file)
    BY <2>1, <2>2 DEF Kept, Recorded
  <2>4. /\ TextColours(Written(doc'), file) /\ PendingColours(text'.pending, file)
        /\ text'.colour = ColourIn(file, cursor')
    BY <2>1, ColourAtFirst DEF Blank, TextColours, PendingColours
  <2> QED
    BY <2>1, <2>3, <2>4 DEF Recorded
<1>3. CASE EndOfFile
  <2>1. /\ Flushes /\ UNCHANGED Held /\ text'.colour = text.colour
        /\ file' = file /\ cursor' = cursor
    BY <1>3, EndOfFileEffect DEF EndOfFile
  <2>2. /\ Shown' = Shown \cup Positions(text.pending) /\ Positions(text'.pending) = {}
        /\ Positions(figure'.subpaths) = Positions(figure.subpaths) /\ InRegions' = InRegions
    BY <1>1, <2>1, FlushShows, SameHeld
  <2>3. Kept' \subseteq 1 .. Len(file)
    BY <2>2 DEF Kept, Recorded
  <2>4. TextColours(Flushed, file)
    BY RecordedStays
  <2>5. TextColours(Written(doc'), file) /\ PendingColours(text'.pending, file)
    BY <2>1, <2>4 DEF Flushes, PendingColours
  <2> QED
    BY <2>1, <2>2, <2>3, <2>5 DEF Recorded
<1>4. CASE Flow
  BY <1>1, <1>4, RecordedMoves DEF Flow
<1>5. CASE UNCHANGED vars
  BY <1>5 DEF vars, Recorded, Kept, Shown, InRegions
<1> QED
  BY <1>2, <1>3, <1>4, <1>5, EveryStep

\* The invariant of all conversions.
Everywhere == Inv /\ Captured /\ Recorded

LEMMA Always == Spec => []Everywhere
<1>1. Init => Everywhere
  <2> SUFFICES ASSUME Init PROVE Everywhere
    OBVIOUS
  <2>1. /\ region = FreshRegion /\ doc = FreshDoc(FALSE) /\ figure = NoFigure
        /\ text = FreshText /\ file = <<>> /\ cursor = 0
    BY DEF Init
  <2>2. /\ region.paths = <<>> /\ region.capturing = FALSE
        /\ region.shapes = [r \in Regions |-> <<>>]
        /\ figure.subpaths = <<>> /\ text.pending = <<>> /\ text.colour = 0
        /\ Written(doc) = <<>>
    BY <2>1, NothingFresh DEF FreshRegion, NoFigure, FreshText
  <2>3. Inv /\ Captured
    BY <2>2, InitInv DEF Captured
  <2>4. /\ Shown = {} /\ Positions(text.pending) = {} /\ Positions(figure.subpaths) = {}
        /\ InRegions = {}
    BY <2>2, <2>3, FlushedShows, NothingIn DEF InRegions
  <2>5. TextColours(Written(doc), file) /\ PendingColours(text.pending, file)
    BY <2>2 DEF TextColours, PendingColours
  <2>6. text.colour = ColourIn(file, cursor)
    BY <2>1, <2>2, ColourAtFirst
  <2>7. Kept = {}
    BY <2>4 DEF Kept
  <2>8. Recorded
    BY <2>4, <2>5, <2>6, <2>7 DEF Recorded
  <2> QED
    BY <2>3, <2>8 DEF Everywhere
<1>2. Everywhere /\ [Next]_vars => Everywhere'
  BY NextInv, CapturedStep, RecordedStep DEF Everywhere
<1> QED
  BY <1>1, <1>2, PTL DEF Spec

\* Every segment of text is shown in the colour in force when its command
\* was read, however late flushPendingText writes it, in every conversion.
THEOREM TextColoursKept == Spec => []TextKeepsItsColour
<1>1. Everywhere => TextKeepsItsColour
  <2> SUFFICES ASSUME Everywhere, NEW i \in DOMAIN doc.marks, IsText(doc.marks[i])
               PROVE  doc.marks[i].colour = ColourAt(doc.marks[i].of[1])
    BY DEF TextKeepsItsColour
  <2>1. doc \in Documents /\ TextColours(Written(doc), file)
    BY DEF Everywhere, Inv, DocOK, Recorded
  <2>2. /\ i \in DOMAIN Written(doc) /\ Written(doc)[i].of = doc.marks[i].of
        /\ Written(doc)[i].colour = doc.marks[i].colour
    BY <2>1, ShownWritten
  <2> QED
    BY <2>1, <2>2, ColourAtIn DEF TextColours, IsText
<1> QED
  BY <1>1, Always, PTL
-----------------------------------------------------------------------------
(* The first conversion: nothing twice, and text in its place. A later one *)
(* may start with a figure an earlier one left open.                       *)

Once(w) ==
  \A i, j \in DOMAIN w :
    i # j => \A k \in DOMAIN w[i].of, l \in DOMAIN w[j].of : w[i].of[k] # w[j].of[l]

Ascending(p) == \A i, j \in DOMAIN p : i < j => p[i].at < p[j].at

\* What is shown, pending, collected and captured is of different commands,
\* all of them read by this conversion.
Apart ==
  /\ Kept \subseteq 1 .. cursor
  /\ Once(Written(doc)) /\ Ascending(text.pending)
  /\ Shown \cap (InRegions \cup Positions(text.pending) \cup Positions(figure.subpaths)) = {}
  /\ Positions(text.pending) \cap (Positions(figure.subpaths) \cup InRegions) = {}
  /\ Positions(figure.subpaths) \cap InRegions = {}

LEMMA OnceConcat ==
  ASSUME NEW a \in Seq(Marks), NEW b \in Seq(Marks), Once(a), Once(b),
         ShownIn(a) \cap ShownIn(b) = {}
  PROVE  Once(a \o b)
<1> DEFINE c == a \o b
<1>1. /\ \A i \in DOMAIN a : i \in DOMAIN c /\ c[i] = a[i]
      /\ \A j \in DOMAIN b : Len(a) + j \in DOMAIN c /\ c[Len(a) + j] = b[j]
      /\ \A i \in DOMAIN c : i \in DOMAIN a \/ \E j \in DOMAIN b : i = Len(a) + j
  BY ConcatSplit
<1> HIDE DEF c
<1>2. \A i \in DOMAIN a, j \in DOMAIN b :
        \A k \in DOMAIN a[i].of, l \in DOMAIN b[j].of : a[i].of[k] # b[j].of[l]
  BY DEF ShownIn
<1>3. SUFFICES ASSUME NEW i \in DOMAIN c, NEW j \in DOMAIN c, i # j
               PROVE  \A k \in DOMAIN c[i].of, l \in DOMAIN c[j].of : c[i].of[k] # c[j].of[l]
  BY DEF Once, c
<1>4. CASE i \in DOMAIN a /\ j \in DOMAIN a
  BY <1>1, <1>3, <1>4 DEF Once
<1>5. CASE i \in DOMAIN a /\ j \notin DOMAIN a
  BY <1>1, <1>2, <1>5
<1>6. CASE i \notin DOMAIN a /\ j \in DOMAIN a
  <2>1. PICK m \in DOMAIN b : c[i] = b[m]
    BY <1>1, <1>6
  <2> QED
    BY <1>1, <1>2, <1>6, <2>1
<1>7. CASE i \notin DOMAIN a /\ j \notin DOMAIN a
  <2>1. PICK m \in DOMAIN b : i = Len(a) + m
    BY <1>1, <1>7
  <2>2. PICK n \in DOMAIN b : j = Len(a) + n
    BY <1>1, <1>7
  <2>3. m # n
    BY <1>3, <2>1, <2>2
  <2> QED
    BY <1>1, <2>1, <2>2, <2>3 DEF Once
<1> QED
  BY <1>4, <1>5, <1>6, <1>7

\* The marks of pending text, in order.
LEMMA PendingMarks ==
  ASSUME NEW p \in Seq(Segments)
  PROVE  /\ DOMAIN TextMarks(p) = 1 .. Len(p) /\ DOMAIN p = 1 .. Len(p) /\ Len(p) \in Nat
         /\ \A i \in DOMAIN p :
              /\ TextMarks(p)[i].of = <<p[i].at>> /\ p[i].at \in Nat
              /\ DOMAIN TextMarks(p)[i].of = {1} /\ TextMarks(p)[i].of[1] = p[i].at
<1>1. DOMAIN p = 1 .. Len(p) /\ Len(p) \in Nat /\ \A i \in DOMAIN p : p[i] \in Segments
  OBVIOUS
<1>2. \A i \in DOMAIN p : p[i].at \in Nat
  BY <1>1 DEF Segments
<1>3. /\ DOMAIN TextMarks(p) = DOMAIN p
      /\ \A i \in DOMAIN p : TextMarks(p)[i].of = <<p[i].at>>
  BY DEF TextMarks, Mark
<1>4. \A n \in Nat : DOMAIN <<n>> = {1} /\ <<n>>[1] = n
  OBVIOUS
<1> QED
  BY <1>1, <1>2, <1>3, <1>4

LEMMA OnceOfPending ==
  ASSUME NEW p \in Seq(Segments), Ascending(p)
  PROVE  Once(TextMarks(p))
<1>1. \A i, j \in DOMAIN p : i # j => p[i].at # p[j].at
  <2> SUFFICES ASSUME NEW i \in DOMAIN p, NEW j \in DOMAIN p, i # j
               PROVE  p[i].at # p[j].at
    OBVIOUS
  <2>1. i < j \/ j < i
    BY PendingMarks
  <2>2. p[i].at < p[j].at \/ p[j].at < p[i].at
    BY <2>1 DEF Ascending
  <2> QED
    BY <2>2, PendingMarks
<1> QED
  BY <1>1, PendingMarks DEF Once

LEMMA AscendingAppend ==
  ASSUME NEW p \in Seq(Segments), Ascending(p), NEW g \in Segments,
         \A i \in DOMAIN p : p[i].at < g.at
  PROVE  Ascending(Append(p, g))
<1>1. /\ DOMAIN Append(p, g) = 1 .. Len(p) + 1 /\ Len(p) \in Nat /\ DOMAIN p = 1 .. Len(p)
      /\ \A i \in 1 .. Len(p) : Append(p, g)[i] = p[i]
      /\ Append(p, g)[Len(p) + 1] = g
  OBVIOUS
<1> QED
  BY <1>1 DEF Ascending

LEMMA OnceFlushed ==
  ASSUME Inv, Apart
  PROVE  Once(Flushed)
<1>1. text.pending \in Seq(Segments)
  BY HeldFields
<1>2. Once(Written(doc)) /\ Once(TextMarks(text.pending))
  BY <1>1, OnceOfPending DEF Apart
<1>3. ShownIn(Written(doc)) \cap ShownIn(TextMarks(text.pending)) = {}
  BY <1>1, FlushedShows, ShownText DEF Apart
<1> QED
  BY <1>2, <1>3, FlushedShows, OnceConcat DEF Flushed

LEMMA ApartMoves ==
  ASSUME Inv, Inv', Apart, NEW c \in Alphabet, Moves(c)
  PROVE  Apart'
<1> DEFINE S == Shown
           P == Positions(text.pending)
           F == Positions(figure.subpaths)
           R == InRegions
           p == text.pending
           g == Segment(Here)
<1>1. cursor \in Nat /\ Here = cursor + 1 /\ cursor' = Here
  BY ReadsFile DEF Inv, Moves, Here
<1>2. Kept = S \cup P \cup F \cup R /\ Kept' = S' \cup P' \cup F' \cup R'
  BY DEF Kept
<1>3. Here \notin S \cup P \cup F \cup R
  BY <1>1, <1>2 DEF Apart
<1>4. Kept' \subseteq 1 .. cursor'
  <2>1. Kept \cup {Here} \subseteq 1 .. cursor'
    BY <1>1 DEF Apart
  <2>2. S' \cup P' \cup F' \cup R' \subseteq S \cup P \cup F \cup R \cup {Here}
    <3> HIDE DEF S, P, F, R
    <3> QED
      BY Goes DEF Moves, S, P, F, R
  <2> QED
    BY <1>2, <2>1, <2>2
<1>5. /\ S' \cap (R' \cup P' \cup F') = {} /\ P' \cap (F' \cup R') = {} /\ F' \cap R' = {}
  <2>1. S \cap (R \cup P \cup F) = {} /\ P \cap (F \cup R) = {} /\ F \cap R = {}
    BY DEF Apart
  <2> HIDE DEF S, P, F, R
  <2>2. CASE Keeps(c) \/ Draws(c) \/ Starts(c) \/ Joins(c)
    BY <1>3, <2>1, <2>2, Goes DEF S, P, F, R
  <2>3. CASE Forgets(c) \/ Closes(c) \/ TurnsPage(c)
    BY <1>3, <2>1, <2>3, Goes DEF S, P, F, R
  <2>4. CASE Collects(c) \/ Captures(c)
    BY <1>3, <2>1, <2>4, Goes DEF S, P, F, R
  <2>5. CASE Encloses(c) \/ DrawsFigure(c)
    BY <1>3, <2>1, <2>5, Goes DEF S, P, F, R
  <2> QED
    BY <2>2, <2>3, <2>4, <2>5 DEF Moves
<1>6. Ascending(text'.pending)
  <2>1. CASE text'.pending = <<>>
    BY <2>1 DEF Ascending
  <2>2. CASE text'.pending = text.pending
    BY <2>2 DEF Apart
  <2>3. CASE Starts(c)
    BY <2>3 DEF Starts, Ascending
  <2>4. CASE Joins(c)
    <3>1. g \in Segments /\ g.at = Here /\ p \in Seq(Segments)
      BY <1>1, HeldFields DEF Segment, Segments, Inv, Texts
    <3>2. \A i \in DOMAIN p : p[i].at < g.at
      <4>1. P \subseteq 1 .. cursor
        BY <1>2 DEF Apart
      <4>2. \A i \in DOMAIN p : p[i].at \in P
        BY DEF Positions
      <4> HIDE DEF g, p, P
      <4>3. \A n \in P : n < Here
        BY <1>1, <4>1
      <4> QED
        BY <3>1, <4>2, <4>3
    <3>3. Ascending(p)
      BY DEF Apart
    <3> HIDE DEF g, p
    <3>4. Ascending(Append(p, g))
      BY <3>1, <3>2, <3>3, AscendingAppend
    <3> QED
      BY <2>4, <3>4 DEF Joins, p, g
  <2> QED
    BY <2>1, <2>2, <2>3, <2>4 DEF Moves, Keeps, Forgets, Flushes, Draws, Collects,
       Captures, Encloses, DrawsFigure, Closes, TurnsPage, Blank
<1>7. Once(Written(doc'))
  <2>1. ASSUME NEW m \in Marks, Written(doc') = Flushed \o <<m>>,
               In(m.of) \cap (S \cup P) = {}
        PROVE  Once(Written(doc'))
    <3>1. <<m>> \in Seq(Marks) /\ Once(<<m>>) /\ ShownIn(<<m>>) = In(m.of)
      BY ShownSingle DEF Once
    <3>2. ShownIn(Flushed) \cap ShownIn(<<m>>) = {}
      BY <2>1, <3>1, FlushedShows
    <3> QED
      BY <2>1, <3>1, <3>2, FlushedShows, OnceFlushed, OnceConcat
  <2>2. CASE Draws(c)
    <3>1. PICK m \in Marks : Written(doc') = Flushed \o <<m>> /\ m.of = <<Here>>
      BY <2>2 DEF Draws
    <3>2. In(m.of) = {Here}
      BY <1>1, <3>1 DEF In
    <3> QED
      BY <1>3, <2>1, <3>1, <3>2
  <2>3. CASE DrawsFigure(c)
    <3>1. PICK m \in Marks : Written(doc') = Flushed \o <<m>> /\ m.of = FigurePath
      BY <2>3 DEF DrawsFigure
    <3>2. F \cap (S \cup P) = {}
      BY DEF Apart
    <3> QED
      BY <2>1, <3>1, <3>2, FigureIn
  <2>4. CASE TurnsPage(c)
    BY <2>4 DEF TurnsPage, Blank, Once
  <2>5. CASE Written(doc') = Written(doc)
    BY <2>5 DEF Apart
  <2>6. CASE Written(doc') = Flushed
    BY <2>6, OnceFlushed
  <2> QED
    BY <2>2, <2>3, <2>4, <2>5, <2>6 DEF Moves, Keeps, Forgets, Starts, Joins,
       Collects, Captures, Encloses, Closes, Flushes
<1> QED
  BY <1>4, <1>5, <1>6, <1>7 DEF Apart
-----------------------------------------------------------------------------
\* Text is behind everything that was read before it.
Ordered(w, f) ==
  \A i, j \in DOMAIN w :
    i < j /\ f[w[j].of[1]].op \in TextOps =>
      \A k \in DOMAIN w[i].of : w[i].of[k] < w[j].of[1]

\* Pending text, when it is written, will be so, too.
InOrder ==
  /\ Ordered(Written(doc), file)
  /\ text.pending # <<>> => \A n \in Shown : n < text.pending[1].at

LEMMA OrderedConcat ==
  ASSUME NEW a \in Seq(Marks), NEW b \in Seq(Marks), NEW f, Ordered(a, f), Ordered(b, f),
         \A n \in ShownIn(a), j \in DOMAIN b : f[b[j].of[1]].op \in TextOps => n < b[j].of[1]
  PROVE  Ordered(a \o b, f)
<1> DEFINE c == a \o b
<1>1. /\ \A i \in DOMAIN a : i \in DOMAIN c /\ c[i] = a[i]
      /\ \A j \in DOMAIN b : Len(a) + j \in DOMAIN c /\ c[Len(a) + j] = b[j]
      /\ \A i \in DOMAIN c : i \in DOMAIN a \/ \E j \in DOMAIN b : i = Len(a) + j
      /\ Len(a) \in Nat /\ Len(b) \in Nat /\ DOMAIN a = 1 .. Len(a) /\ DOMAIN b = 1 .. Len(b)
  BY ConcatSplit
<1> HIDE DEF c
<1>2. \A i \in DOMAIN a, j \in DOMAIN b :
        f[b[j].of[1]].op \in TextOps => \A k \in DOMAIN a[i].of : a[i].of[k] < b[j].of[1]
  <2>1. \A i \in DOMAIN a : \A k \in DOMAIN a[i].of : a[i].of[k] \in ShownIn(a)
    BY DEF ShownIn
  <2> QED
    BY <2>1
<1>3. SUFFICES ASSUME NEW i \in DOMAIN c, NEW j \in DOMAIN c, i < j,
                      f[c[j].of[1]].op \in TextOps
               PROVE  \A k \in DOMAIN c[i].of : c[i].of[k] < c[j].of[1]
  BY DEF Ordered, c
<1>4. CASE i \in DOMAIN a /\ j \in DOMAIN a
  BY <1>1, <1>3, <1>4 DEF Ordered
<1>5. CASE i \in DOMAIN a /\ j \notin DOMAIN a
  <2>1. PICK m \in DOMAIN b : j = Len(a) + m
    BY <1>1, <1>5
  <2> QED
    BY <1>1, <1>2, <1>3, <1>5, <2>1
<1>6. CASE i \notin DOMAIN a
  <2>1. PICK m \in DOMAIN b : i = Len(a) + m
    BY <1>1, <1>6
  <2>2. j \notin DOMAIN a
    BY <1>1, <1>3, <2>1
  <2>3. PICK n \in DOMAIN b : j = Len(a) + n
    BY <1>1, <2>2
  <2>4. m < n /\ c[i] = b[m] /\ c[j] = b[n]
    BY <1>1, <1>3, <2>1, <2>3
  <2> QED
    BY <1>3, <2>4 DEF Ordered
<1> QED
  BY <1>4, <1>5, <1>6

LEMMA OrderedOfPending ==
  ASSUME NEW p \in Seq(Segments), NEW f, Ascending(p)
  PROVE  Ordered(TextMarks(p), f)
BY PendingMarks DEF Ordered, Ascending

\* What is behind the first pending segment is behind all of them.
LEMMA PendingBehind ==
  ASSUME NEW p \in Seq(Segments), Ascending(p), NEW T \in SUBSET Nat,
         p # <<>> => \A n \in T : n < p[1].at
  PROVE  \A n \in T, j \in DOMAIN p : n < p[j].at
<1> SUFFICES ASSUME NEW n \in T, NEW j \in DOMAIN p PROVE n < p[j].at
  OBVIOUS
<1>1. 1 \in DOMAIN p /\ p # <<>> /\ j \in Nat /\ j >= 1 /\ p[1].at \in Nat /\ p[j].at \in Nat
  <2>1. DOMAIN p = 1 .. Len(p) /\ Len(p) \in Nat /\ \A i \in DOMAIN p : p[i].at \in Nat
    BY PendingMarks
  <2> QED
    BY <2>1
<1>2. n < p[1].at
  BY <1>1
<1>3. j = 1 \/ p[1].at < p[j].at
  BY <1>1 DEF Ascending
<1> QED
  BY <1>1, <1>2, <1>3

LEMMA OrderedStays ==
  ASSUME Inv, Recorded, InOrder, NEW g, \A k \in 1 .. Len(file) : g[k] = file[k]
  PROVE  Ordered(Written(doc), g)
<1> DEFINE w == Written(doc)
<1>1. w \in Seq(Marks) /\ ShownIn(w) \subseteq 1 .. Len(file)
  BY FlushedShows DEF Recorded, Kept
<1>2. \A i \in DOMAIN w : w[i].of # <<>>
  BY DEF Recorded, TextColours
<1> HIDE DEF w
<1>3. \A i \in DOMAIN w : w[i].of[1] \in 1 .. Len(file)
  BY <1>1, <1>2, FirstOf
<1>4. \A i \in DOMAIN w : g[w[i].of[1]] = file[w[i].of[1]]
  BY <1>3
<1> QED
  BY <1>4 DEF Ordered, InOrder, w

LEMMA OrderedFlushed ==
  ASSUME Inv, Recorded, Apart, InOrder, NEW g, \A k \in 1 .. Len(file) : g[k] = file[k]
  PROVE  Ordered(Flushed, g)
<1> DEFINE p == text.pending
<1>1. p \in Seq(Segments) /\ Ascending(p) /\ Shown \in SUBSET Nat
  BY HeldFields DEF Apart, Kept
<1>2. \A n \in Shown, j \in DOMAIN p : n < p[j].at
  BY <1>1, PendingBehind DEF InOrder
<1>3. \A n \in ShownIn(Written(doc)), j \in DOMAIN TextMarks(p) : n < TextMarks(p)[j].of[1]
  <2>1. /\ DOMAIN TextMarks(p) = DOMAIN p
        /\ \A j \in DOMAIN p : TextMarks(p)[j].of[1] = p[j].at
    BY <1>1, PendingMarks
  <2>2. ShownIn(Written(doc)) = Shown
    BY FlushedShows
  <2> HIDE DEF p
  <2> QED
    BY <1>2, <2>1, <2>2
<1>4. Ordered(Written(doc), g) /\ Ordered(TextMarks(p), g)
  BY <1>1, OrderedStays, OrderedOfPending
<1> HIDE DEF p
<1>5. Ordered(Written(doc) \o TextMarks(p), g)
  BY <1>3, <1>4, FlushedShows, OrderedConcat DEF p
<1> QED
  BY <1>5 DEF Flushed, p

LEMMA OrderedMoves ==
  ASSUME Inv, Inv', Recorded, Apart, InOrder, NEW c \in Alphabet, Moves(c)
  PROVE  InOrder'
<1> DEFINE S == Shown
           P == Positions(text.pending)
           F == Positions(figure.subpaths)
           R == InRegions
           p == text.pending
           g == Segment(Here)
           f == file
<1>1. /\ cursor \in Nat /\ Here = cursor + 1 /\ cursor' = Here /\ Here \in Nat
      /\ f'[Here] = c /\ \A k \in 1 .. Len(f) : f'[k] = f[k]
  BY ReadsFile DEF Inv, Moves, Here
<1>2. S \subseteq 1 .. cursor /\ P \subseteq 1 .. cursor /\ F \subseteq 1 .. Len(f)
  BY DEF Apart, Recorded, Kept
<1>3. \A n \in S \cup P : n < Here
  <2> HIDE DEF S, P
  <2> QED
    BY <1>1, <1>2
<1>4. Ordered(Written(doc), f') /\ Ordered(Flushed, f')
  BY <1>1, OrderedStays, OrderedFlushed
<1>5. text'.pending # <<>> => \A n \in S' : n < text'.pending[1].at
  <2>1. CASE Keeps(c)
    <3>1. S' = S
      BY <2>1, Goes
    <3> QED
      BY <2>1, <3>1 DEF Keeps, InOrder
  <2>2. CASE Starts(c)
    <3>1. S' = S \cup P
      BY <2>2, Goes
    <3>2. text'.pending[1].at = Here
      BY <2>2 DEF Starts, Segment
    <3> QED
      BY <1>3, <3>1, <3>2
  <2>3. CASE Joins(c)
    <3>1. S' = S /\ text'.pending = Append(p, g)
      BY <2>3, Goes DEF Joins
    <3>2. g \in Segments /\ g.at = Here /\ p \in Seq(Segments)
      BY <1>1, HeldFields DEF Segment, Segments, Inv, Texts
    <3> HIDE DEF g
    <3>3. CASE p = <<>>
      <4>1. Append(p, g)[1] = g
        BY <3>2, <3>3
      <4> QED
        BY <1>3, <3>1, <3>2, <4>1
    <3>4. CASE p # <<>>
      <4> HIDE DEF p
      <4>1. Append(p, g)[1] = p[1]
        BY <3>2, <3>4
      <4> QED
        BY <3>1, <3>4, <4>1 DEF InOrder, p
    <3> QED
      BY <3>3, <3>4
  <2>4. CASE text'.pending = <<>>
    BY <2>4
  <2> QED
    BY <2>1, <2>2, <2>3, <2>4 DEF Moves, Forgets, Flushes, Draws, Collects,
       Captures, Encloses, DrawsFigure, Closes, TurnsPage, Blank
<1>6. Ordered(Written(doc'), f')
  <2>1. ASSUME NEW m \in Marks, Written(doc') = Flushed \o <<m>>,
               f'[m.of[1]].op \in TextOps => m.of[1] = Here
        PROVE  Ordered(Written(doc'), f')
    <3>1. <<m>> \in Seq(Marks) /\ DOMAIN <<m>> = {1} /\ <<m>>[1] = m
      OBVIOUS
    <3>2. Ordered(<<m>>, f')
      BY <3>1 DEF Ordered
    <3>3. \A n \in ShownIn(Flushed) : n < Here
      BY <1>3, FlushedShows
    <3>4. \A n \in ShownIn(Flushed), j \in DOMAIN <<m>> :
            f'[<<m>>[j].of[1]].op \in TextOps => n < <<m>>[j].of[1]
      BY <2>1, <3>1, <3>3
    <3> QED
      BY <1>4, <2>1, <3>1, <3>2, <3>4, FlushedShows, OrderedConcat
  <2>2. CASE Draws(c)
    <3>1. PICK m \in Marks : Written(doc') = Flushed \o <<m>> /\ m.of = <<Here>>
      BY <2>2 DEF Draws
    <3> QED
      BY <2>1, <3>1
  <2>3. CASE DrawsFigure(c)
    <3>1. PICK m \in Marks : Written(doc') = Flushed \o <<m>> /\ m.of = FigurePath
      BY <2>3 DEF DrawsFigure
    <3>2. figure.subpaths # <<>>
      BY <2>3 DEF DrawsFigure
    <3>3. 1 \in DOMAIN figure.subpaths
      <4> DEFINE T == [at : Nat, joined : BOOLEAN]
      <4>1. figure.subpaths \in Seq(T)
        BY HeldFields
      <4> HIDE DEF T
      <4> QED
        BY <3>2, <4>1
    <3>4. FigurePath[1] \in F
      BY <3>3 DEF FigurePath, Positions
    <3>5. f'[m.of[1]].op \notin TextOps
      BY <1>1, <1>2, <3>1, <3>4 DEF Recorded
    <3> QED
      BY <2>1, <3>1, <3>5
  <2>4. CASE TurnsPage(c)
    BY <2>4 DEF TurnsPage, Blank, Ordered
  <2>5. CASE Written(doc') = Written(doc)
    BY <1>4, <2>5
  <2>6. CASE Written(doc') = Flushed
    BY <1>4, <2>6
  <2> QED
    BY <2>2, <2>3, <2>4, <2>5, <2>6 DEF Moves, Keeps, Forgets, Starts, Joins,
       Collects, Captures, Encloses, Closes, Flushes
<1> QED
  BY <1>5, <1>6 DEF InOrder
-----------------------------------------------------------------------------
\* A converter starts without an open figure; its first conversion keeps the
\* commands apart and text in order.
FirstConversion ==
  /\ runs = 0 => phase = "idle" /\ figure = NoFigure
  /\ runs <= 1 => Apart /\ InOrder

\* With nothing drawn, pending or held there is nothing to go wrong.
LEMMA NothingWrong ==
  ASSUME Written(doc) = <<>>, text.pending = <<>>, Kept = {}
  PROVE  Apart /\ InOrder
<1>1. Shown = {} /\ InRegions = {} /\ Positions(text.pending) = {} /\ Positions(figure.subpaths) = {}
  BY DEF Kept
<1>2. Once(Written(doc)) /\ Ascending(text.pending) /\ Ordered(Written(doc), file)
  BY DEF Once, Ascending, Ordered
<1> QED
  BY <1>1, <1>2 DEF Apart, InOrder

LEMMA EndKeepsOrder ==
  ASSUME Inv, Inv', Recorded, Apart, InOrder, EndOfFile
  PROVE  Apart' /\ InOrder'
<1>1. Flushes /\ UNCHANGED Held /\ file' = file /\ cursor' = cursor
  BY EndOfFileEffect DEF EndOfFile
<1>2. /\ Shown' = Shown \cup Positions(text.pending) /\ Positions(text'.pending) = {}
      /\ Positions(figure'.subpaths) = Positions(figure.subpaths) /\ InRegions' = InRegions
  BY <1>1, FlushShows, SameHeld
<1>3. Once(Written(doc')) /\ Ordered(Written(doc'), file)
  BY <1>1, OnceFlushed, OrderedFlushed DEF Flushes
<1>4. text'.pending = <<>> /\ Ascending(text'.pending)
  BY <1>1 DEF Flushes, Ascending
<1>5. Kept' \subseteq 1 .. cursor'
  BY <1>1, <1>2 DEF Kept, Apart
<1> QED
  BY <1>1, <1>2, <1>3, <1>4, <1>5 DEF Apart, InOrder

LEMMA FirstConversionStep == Everywhere /\ FirstConversion /\ [Next]_vars => FirstConversion'
<1> SUFFICES ASSUME Inv, Captured, Recorded, FirstConversion, [Next]_vars
             PROVE  FirstConversion'
  BY DEF Everywhere
<1>1. Inv' /\ runs \in Nat
  BY NextInv DEF Inv, ControlOK
<1>2. CASE Convert
  <2>1. runs' = runs + 1 /\ cursor' = 0 /\ figure' = figure /\ Blank
    BY <1>2, ConvertEffect DEF Convert
  <2>2. runs' # 0
    BY <1>1, <2>1
  <2>3. ASSUME runs' <= 1 PROVE Apart' /\ InOrder'
    <3>1. runs = 0
      BY <1>1, <2>1, <2>3
    <3>2. figure'.subpaths = <<>>
      BY <2>1, <3>1 DEF FirstConversion, NoFigure
    <3>3. /\ Shown' = {} /\ Positions(text'.pending) = {} /\ InRegions' = {}
          /\ Positions(figure'.subpaths) = {}
      BY <1>1, <2>1, <3>2, ShownAfter, NothingIn DEF Blank, InRegions
    <3>4. Kept' = {}
      BY <3>3 DEF Kept
    <3>5. Written(doc') = <<>> /\ text'.pending = <<>>
      BY <2>1 DEF Blank
    <3>6. /\ Once(Written(doc')) /\ Ascending(text'.pending) /\ Ordered(Written(doc'), file')
      BY <3>5 DEF Once, Ascending, Ordered
    <3> QED
      BY <3>3, <3>4, <3>5, <3>6 DEF Apart, InOrder
  <2> QED
    BY <2>2, <2>3 DEF FirstConversion
<1>3. CASE EndOfFile
  <2>1. phase = "converting" /\ runs' = runs
    BY <1>3 DEF EndOfFile
  <2> QED
    BY <1>1, <1>3, <2>1, EndKeepsOrder DEF FirstConversion
<1>4. CASE Flow
  <2>1. PICK c \in Alphabet : Moves(c)
    BY <1>4 DEF Flow
  <2>2. phase = "converting" /\ runs' = runs
    BY <2>1 DEF Moves, Reads
  <2>3. runs <= 1 => Apart' /\ InOrder'
    BY <1>1, <2>1, ApartMoves, OrderedMoves DEF FirstConversion
  <2> QED
    BY <2>2, <2>3 DEF FirstConversion
<1>5. CASE UNCHANGED vars
  BY <1>5 DEF vars, FirstConversion, Apart, InOrder, Kept, Shown, InRegions
<1> QED
  BY <1>2, <1>3, <1>4, <1>5, EveryStep

LEMMA InitFirstConversion == Init => FirstConversion
<1> SUFFICES ASSUME Init PROVE FirstConversion
  OBVIOUS
<1>1. /\ region = FreshRegion /\ doc = FreshDoc(FALSE) /\ figure = NoFigure
      /\ text = FreshText /\ runs = 0 /\ phase = "idle"
  BY DEF Init
<1>2. /\ region.paths = <<>> /\ region.shapes = [r \in Regions |-> <<>>]
      /\ figure.subpaths = <<>> /\ text.pending = <<>> /\ Written(doc) = <<>>
  BY <1>1, NothingFresh DEF FreshRegion, NoFigure, FreshText
<1>3. /\ Shown = {} /\ Positions(text.pending) = {} /\ Positions(figure.subpaths) = {}
      /\ InRegions = {}
  BY <1>2, InitInv, FlushedShows, NothingIn DEF InRegions
<1> QED
  BY <1>1, <1>2, <1>3, NothingWrong DEF Kept, FirstConversion

LEMMA First == Spec => []FirstConversion
<1>1. Everywhere /\ FirstConversion /\ [Next]_vars => FirstConversion'
  BY FirstConversionStep
<1> QED
  BY <1>1, Always, InitFirstConversion, PTL DEF Spec

\* In the first conversion of a converter graphics are drawn at most once,
\* and what became part of the shape of a protection region is not drawn.
THEOREM FirstDrawnOnce == Spec => [](runs <= 1 => DrawnOnce)
<1>1. Everywhere /\ FirstConversion => (runs <= 1 => DrawnOnce)
  <2> SUFFICES ASSUME Everywhere, FirstConversion, runs <= 1 PROVE DrawnOnce
    OBVIOUS
  <2>1. doc \in Documents /\ Apart
    BY DEF Everywhere, Inv, DocOK, FirstConversion
  <2>2. DOMAIN Written(doc) = DOMAIN doc.marks
        /\ \A i \in DOMAIN doc.marks : Written(doc)[i].of = doc.marks[i].of
    BY <2>1, ShownWritten
  <2> QED
    BY <2>1, <2>2 DEF Apart, Once, DrawnOnce
<1> QED
  BY <1>1, Always, First, PTL

\* In the first conversion of a converter text is painted over exactly what
\* was read before it.
THEOREM FirstTextInPlace == Spec => [](runs <= 1 => TextInPlace)
<1>1. Everywhere /\ FirstConversion => (runs <= 1 => TextInPlace)
  <2> SUFFICES ASSUME Everywhere, FirstConversion, runs <= 1 PROVE TextInPlace
    OBVIOUS
  <2>1. doc \in Documents /\ InOrder
    BY DEF Everywhere, Inv, DocOK, FirstConversion
  <2>2. DOMAIN Written(doc) = DOMAIN doc.marks
        /\ \A i \in DOMAIN doc.marks : Written(doc)[i].of = doc.marks[i].of
    BY <2>1, ShownWritten
  <2> QED
    BY <2>1, <2>2 DEF InOrder, Ordered, TextInPlace, IsText
<1> QED
  BY <1>1, Always, First, PTL
=============================================================================
