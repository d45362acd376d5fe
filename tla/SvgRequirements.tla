--------------------------- MODULE SvgRequirements --------------------------
(***************************************************************************)
(* What SVGConverter is expected to guarantee about the document it        *)
(* writes, stated over the state of SvgConverter.                          *)
(***************************************************************************)
EXTENDS SvgConverter

-----------------------------------------------------------------------------
(* Types.                                                                  *)

Tags == {"svg", "defs", "g", "a"}
AttributeTypes == {"linkuri", "other"}
Paths == Seq(Seq(Nat))

Contents ==
  [rect : Rects] \cup [paths : Paths] \cup [symbol : Symbols]
    \cup [table : Nat, size : Nat, reference : Nat]

Marks ==
  [at : Nat, of : Seq(Nat), clip : Identifiers, fill : Identifiers,
   href : Identifiers, colour : Nat, inside : Seq(Tags)]

Documents ==
  [tags : Seq(Tags), defsOpen : BOOLEAN, malformed : BOOLEAN,
   ids : SUBSET Identifiers, reused : BOOLEAN,
   defs : SUBSET [id : Identifiers, content : Contents], marks : Seq(Marks)]

PictureStates == [index : Int, explicit : BOOLEAN, zero : Nat]

Clips ==
  [rect : Rects \cup {NoRect}, enabled : BOOLEAN, ref : Identifiers,
   cached : [Rects -> Identifiers], made : Nat]

RegionStates ==
  [capturing : BOOLEAN, indicator : {1, 2}, active : Regions \cup {-1},
   paths : Paths, shapes : [Regions -> Paths], cached : [Regions -> Identifiers]]

Figures ==
  [open : BOOLEAN, subpaths : Seq([at : Nat, joined : BOOLEAN]), connect : BOOLEAN]

Fills ==
  [style : {"hollow", "solid", "pattern"}, index : Patterns, last : Patterns,
   tables : [Patterns -> [at : Nat, valid : BOOLEAN]],
   sizes : [Patterns -> Nat], activeSize : Nat, reference : Nat,
   cached : [Patterns -> Identifiers], made : Nat]

Texts == [pending : Seq([at : Nat, colour : Nat]), colour : Nat]

Structures ==
  [stack : Seq([id : Identifiers, attributes : SUBSET AttributeTypes,
               anchor : BOOLEAN]),
   attributes : SUBSET AttributeTypes, ids : SUBSET Identifiers]

SymbolStates ==
  [libraries : Seq(Symbols), ids : [Symbols -> Identifiers],
   emitted : SUBSET Identifiers, placed : Nat]

\* The state has the shape the handlers rely on.
TypeOK ==
  /\ phase \in {"idle", "converting", "done", "failed"}
  /\ runs \in Nat /\ cursor \in 0 .. Len(file)
  /\ file \in Seq(Alphabet) /\ complete \in BOOLEAN
  /\ doc \in Documents /\ picture \in PictureStates
  /\ clip \in Clips /\ region \in RegionStates /\ figure \in Figures
  /\ fill \in Fills /\ text \in Texts
  /\ aps \in Structures /\ symbols \in SymbolStates
  /\ IsFiniteSet(aps.ids) /\ IsFiniteSet(symbols.emitted)

-----------------------------------------------------------------------------
\* A reference of a mark or of the state to a definition of the document.
Resolves(d, id) == id = NoId \/ id \in DefinedIds(d)

\* Every clip-path and fill reference in the document, and every id the
\* converter may still copy into one, names a definition of this document:
\* the caches of clipPaths and patterns never outlive the text they point to.
ClipAndFillResolve ==
  /\ \A i \in DOMAIN doc.marks :
       Resolves(doc, doc.marks[i].clip) /\ Resolves(doc, doc.marks[i].fill)
  /\ Resolves(doc, clip.ref)
  /\ \A r \in Rects : Resolves(doc, clip.cached[r])
  /\ \A r \in Regions : Resolves(doc, region.cached[r])
  /\ \A p \in Patterns : Resolves(doc, fill.cached[p])

\* Every <use> of a symbol, and every symbol the converter believes it has
\* defined, refers to a definition of this document.
SymbolsResolve ==
  /\ \A i \in DOMAIN doc.marks : Resolves(doc, doc.marks[i].href)
  /\ \A s \in Symbols : Resolves(doc, symbols.ids[s])

\* A pattern that needs no new definition is defined as the current table,
\* size and reference point say: every command that changes one of them
\* drops the ids it makes stale (pattern_fill_ids_.erase and .clear).
PatternsCurrent ==
  \A p \in Patterns :
    fill.cached[p] # NoId =>
      Definition(doc, fill.cached[p]) = PatternValue(fill, p)

-----------------------------------------------------------------------------
(* The canvas a viewer of the document sees: references replaced by what   *)
(* they refer to.                                                          *)

Value(id) ==
  IF id = NoId THEN [none |-> TRUE]
  ELSE IF id \in DefinedIds(doc) THEN Definition(doc, id) ELSE [missing |-> id]

Seen(m) == [of |-> m.of, clip |-> Value(m.clip), fill |-> Value(m.fill)]

Rendering == INSTANCE SvgRendering WITH
  rect    <- clip.rect,
  enabled <- clip.enabled,
  shapes  <- region.shapes,
  shape   <- Value(clip.ref),
  pattern <- IF Tiled THEN PatternValue(fill, fill.index) ELSE [none |-> TRUE],
  canvas  <- [i \in DOMAIN doc.marks |-> Seen(doc.marks[i])]

\* Definitions, ids and caches are an implementation detail: every element
\* is seen with the clip shape and the pattern the commands had put in force
\* when it was drawn, and later commands do not change what is seen.
ImplementsRendering == Rendering!Spec

-----------------------------------------------------------------------------
TextOps == {"TEXT", "RESTRICTED TEXT", "APPEND TEXT"}
IsText(m) == file[m.of[1]].op \in TextOps
FromFigure(m) == ~IsText(m) /\ m.at # m.of[1]

\* Text is painted over exactly what was read before it: whatever comes
\* between a partial text and its end is written after the text.
TextInPlace ==
  \A i, j \in DOMAIN doc.marks :
    i < j /\ IsText(doc.marks[j]) =>
      \A k \in DOMAIN doc.marks[i].of : doc.marks[i].of[k] < doc.marks[j].of[1]

\* Every segment of text is shown in the colour in force when its command
\* was read, however late it is flushed.
ColourAt(n) ==
  LET set == {k \in 1 .. n : file[k].op \in {"TEXT COLOUR", "BEGIN PICTURE"}}
      last == CHOOSE k \in set : \A j \in set : j <= k
  IN  IF set = {} \/ file[last].op = "BEGIN PICTURE" THEN 0 ELSE last

TextKeepsItsColour ==
  \A i \in DOMAIN doc.marks :
    IsText(doc.marks[i]) => doc.marks[i].colour = ColourAt(doc.marks[i].of[1])

\* Nothing that is drawn is written inside <defs>, where it would not be
\* rendered: <defs> is closed on every way from a definition to a shape.
\* Symbols and the background are dealt with apart.
ShapesRendered ==
  \A i \in DOMAIN doc.marks :
    file[doc.marks[i].of[1]].op \notin {"POLYSYMBOL", "BEGIN PICTURE BODY"}
      => Rendered(doc.marks[i])

-----------------------------------------------------------------------------
(* What becomes of the graphics of a file.                                 *)

Entries(ss) == UNION {{ss[i][k] : k \in DOMAIN ss[i]} : i \in DOMAIN ss}
Positions(ss) == {ss[i].at : i \in DOMAIN ss}

Shown == UNION {{doc.marks[i].of[k] : k \in DOMAIN doc.marks[i].of} : i \in DOMAIN doc.marks}
InRegions == Entries(region.paths) \cup UNION {Entries(region.shapes[r]) : r \in Regions}

\* The commands whose graphics the converter still has or has drawn.
Kept == Shown \cup Positions(text.pending) \cup Positions(figure.subpaths) \cup InRegions

\* What a command is meant to forget: the captured geometry of a figure or
\* region that is begun again, regions at the end of a picture, everything
\* when the next picture begins.
MayForget(c) ==
  CASE c.op = "BEGIN FIGURE" -> Positions(figure.subpaths)
    [] c.op = "BEGIN PROTECTION REGION" -> Entries(region.paths)
    [] c.op = "END PICTURE" -> InRegions
    [] c.op = "BEGIN PICTURE" -> IF picture.index >= 0 THEN Kept ELSE InRegions
    [] OTHER -> {}

Graphic(c) == c.op \in TextOps \cup DOMAIN Traits \cup {"POLYSYMBOL"}

\* No graphics are lost between reading them and drawing them: through the
\* pending text, open figures and regions, each command's graphics are drawn
\* or still held, unless the command just read is meant to forget them or
\* ended the conversion with an exception.
NothingLost ==
  [][cursor' = cursor + 1 /\ phase' = "converting" =>
       LET c == file'[cursor'] IN
       /\ Kept \ MayForget(c) \subseteq Kept'
       /\ Graphic(c) => cursor' \in Kept']_vars

\* Graphics are drawn at most once, and what became part of the shape of a
\* protection region is not drawn at all.
DrawnOnce ==
  /\ \A i, j \in DOMAIN doc.marks :
       i # j => \A k \in DOMAIN doc.marks[i].of, l \in DOMAIN doc.marks[j].of :
                  doc.marks[i].of[k] # doc.marks[j].of[l]
  /\ Shown \cap (InRegions \cup Positions(text.pending) \cup Positions(figure.subpaths)) = {}

-----------------------------------------------------------------------------
(* The grouping of the document, for files whose application structures    *)
(* are well nested: a body follows every BEGIN APS, no END APS is without  *)
(* one, and a picture does not begin inside a structure.                   *)

Count(op, n) == Cardinality({k \in 1 .. n : file[k].op = op})
Depth(n) == Count("BEGIN APS BODY", n) - Count("END APS", n)

ApsOps == {"BEGIN APS", "BEGIN APS BODY", "END APS"}

FollowsBegin(k) ==
  \E j \in 1 .. k - 1 :
    /\ file[j].op = "BEGIN APS"
    /\ \A i \in j + 1 .. k - 1 : file[i].op \notin ApsOps

WellNested ==
  \A k \in 1 .. cursor :
    /\ file[k].op \in ApsOps =>
         ((file[k].op = "BEGIN APS BODY") <=> FollowsBegin(k))
    /\ file[k].op = "BEGIN PICTURE" => Depth(k) = 0 /\ ~FollowsBegin(k)
    /\ Depth(k) >= 0

\* No id is written on two elements, though clip_path_counter_,
\* pattern_counter_, emitted_symbol_defs_ and the ids of the structures
\* restart at different times.
IdsUnique == doc.reused => ~WellNested

\* The words the converter makes its own ids of, and files without a structure of
\* such a name (the allocator of structures does not know them).
OwnWords == {"clipPath", "cgm-pattern-", "symbol-"} \cup Symbols
NamesApart == \A k \in 1 .. cursor : file[k].op = "BEGIN APS" => file[k].id[1] \notin OwnWords

\* The document is well-formed XML for every file whose structures are well
\* nested and, at its end, closed (README: "producing well-formed SVG").
WellFormed ==
  doc.malformed => ~(WellNested /\ (phase = "done" => Depth(cursor) = 0))

\* Clips, protection regions and symbols leave <defs> open until something is drawn
\* or a structure begins; END APS leaves it, and closes it in place of the group.
OpensDefs == {"CLIP RECTANGLE", "CLIP INDICATOR", "PROTECTION REGION INDICATOR", "POLYSYMBOL"}
ClosesDefs == DOMAIN Traits \cup {"TEXT", "RESTRICTED TEXT", "APPEND TEXT", "BEGIN APS BODY"}

\* No structure ends while such a definition may still be open.
EndsOutsideDefs ==
  \A k \in 1 .. cursor : file[k].op = "END APS" =>
    \A i \in 1 .. k - 1 : file[i].op \in OpensDefs => \E j \in i + 1 .. k - 1 : file[j].op \in ClosesDefs

\* The XML is valid: tags match, and an id is written on one element only.
ValidXml == WellFormed /\ IdsUnique

Groups(m) == Cardinality({i \in DOMAIN m.inside : m.inside[i] = "g"})

\* A symbol has a group of its own.
OwnGroups(m) == IF file[m.of[1]].op = "POLYSYMBOL" THEN 1 ELSE 0

\* A primitive, symbol or text is inside exactly the groups of the structures it was
\* read in, even when it is written later (text pending at END APS).
InItsGroups ==
  WellNested =>
    \A i \in DOMAIN doc.marks :
      ~FromFigure(doc.marks[i]) =>
        Groups(doc.marks[i]) = Depth(doc.marks[i].of[1]) + OwnGroups(doc.marks[i])

-----------------------------------------------------------------------------
(* A requirement the source states and the converter does not meet.        *)

\* Whatever is drawn, symbols and the background included, is rendered.
AllRendered == \A i \in DOMAIN doc.marks : Rendered(doc.marks[i])
=============================================================================
