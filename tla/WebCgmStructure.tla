-------------------------- MODULE WebCgmStructure ---------------------------
(***************************************************************************)
(* The passes of the WebCGM 2.1 validator over application structures,     *)
(* their attributes and links, over symbols and their libraries, over the  *)
(* declaration of the profile and over the measures of pictures, texts,    *)
(* lines and shapes, and its set of elements. (profile_validator.cpp)      *)
(*                                                                         *)
(* A link is what sanitizeApsTextValue leaves of an attribute's text:      *)
(*   [blank, spaces, hashes, fragment, base, backslash],                   *)
(* base being "none", "scheme", "bad scheme", "relative" or "odd".         *)
(* A metafile description is a sequence of items [key, value], each in     *)
(* quotes of its own or, when it is not quoted, ended by a semicolon.      *)
(* Measures are integers, with the thresholds of the code.                 *)
(***************************************************************************)
EXTENDS ProfileCommands

CONSTANT IsName(_)       \* the names that isValidFragmentIdentifier accepts

ASSUME NoNameAssumption == ~IsName("")     \* isValidFragmentIdentifier refuses it

ValidateLinkUri(link) ==
  IF link.blank THEN Err("link blank")
  ELSE If(link.spaces, Err("link spaces"))
       \o If(link.hashes > 1, Err("link hashes"))
       \o If(link.hashes = 1 /\ link.fragment = "", Err("link fragment"))
       \o If(link.hashes > 1 \/ (link.hashes = 1 /\ link.fragment # "" /\ ~IsName(link.fragment)),
             Err("link fragment name"))
       \o (CASE link.base = "bad scheme" -> Err("link scheme")
             [] link.base = "odd" -> Warn("link relative")
             [] OTHER -> <<>>)
       \o If(link.base # "none" /\ link.backslash, Warn("link backslash"))

IsValidLink(link) == ~HasErrors(ValidateLinkUri(link))
IsLocalLink(link) == IsValidLink(link) /\ link.hashes > 0 /\ link.base = "none"
-----------------------------------------------------------------------------
\* Application structures.

IsLinkUri(c) == c.code = ApsAttribute /\ c.type = "linkuri"

CountOf(code, commands) == Len(All(code, commands))

\* Of names that a companion file binds: those that are not known, and those bound again.
NamesBound(names, known, missing, repeated) ==
  Each(LAMBDA n : IF n \notin known THEN missing
                  ELSE If(CountWhere(names, LAMBDA m : m = n) > 1, repeated),
       Distinct(names))

\* The bindings against the identifiers and the types of the structures.
ValidateXcfBindings(xcf, ids, types) ==
  CASE ids = {} \/ xcf.state = "none" -> <<>>
    [] ids # {} /\ xcf.state \in {"unreadable", "empty"} -> Warn("companion")
    [] OTHER ->
         NamesBound(xcf.ids, ids, Err("binding by id"), Warn("bound twice"))
         \o NamesBound(xcf.types, types, Warn("binding by name"), Warn("bound twice"))
         \o If(xcf.ids # <<>> \/ xcf.types # <<>>, Tell("bindings"))

\* A structure is on the stack until it ends. Only the identifiers that are
\* valid are seen; a structure is pushed whatever its identifier.
BeginStructure(s, c) ==
  LET named == IsName(c.id)
  IN  [s EXCEPT
        !.open = Append(@, [id |-> c.id, type |-> c.type, hasBody |-> FALSE]),
        !.seen = IF named THEN @ \cup {c.id} ELSE @,
        !.types = IF c.type = "" THEN @ ELSE @ \cup {c.type},
        !.said = @ \o CASE c.id = "" -> Err("structure without identifier")
                        [] c.id # "" /\ ~named -> Err("identifier")
                        [] OTHER -> If(c.id \in s.seen, Err("duplicate identifier"))]

BeginStructureBody(s) ==
  LET top == Len(s.open)
  IN  IF top = 0 THEN [s EXCEPT !.said = @ \o Err("body without structure")]
      ELSE [s EXCEPT !.said = @ \o If(s.open[top].hasBody, Warn("bodies")),
                     !.open[top].hasBody = TRUE]

EndStructure(s) ==
  LET top == Len(s.open)
  IN  IF top = 0 THEN [s EXCEPT !.said = @ \o Err("end without structure")]
      ELSE [s EXCEPT !.said = @ \o If(~s.open[top].hasBody, Warn("no body")),
                     !.open = SubSeq(@, 1, top - 1)]

\* Mutant: the body of an enclosing structure counts as well.
StructureAttributeOrEnclosing(s, c) ==
  LET links == IF IsLinkUri(c) THEN ValidateLinkUri(c.link) ELSE <<>>
      local == IsLinkUri(c) /\ IsLocalLink(c.link)
  IN  [s EXCEPT
        !.links = IF local THEN Append(@, c.link.fragment) ELSE @,
        !.said = @ \o If(\E i \in DOMAIN s.open : s.open[i].hasBody, Err("attribute after body"))
                 \o links]

StructureAttribute(s, c) ==
  LET top == Len(s.open)
      outside == top = 0
      links == IF IsLinkUri(c) THEN ValidateLinkUri(c.link) ELSE <<>>
      local == IsLinkUri(c) /\ IsLocalLink(c.link)
  IN  [s EXCEPT
        !.links = IF local THEN Append(@, c.link.fragment) ELSE @,
        !.said = @ \o (IF outside THEN Warn("attribute outside")
                       ELSE If(s.open[top].hasBody, Err("attribute after body"))
                            \o If(IsLinkUri(c) /\ s.open[top].type \notin {"", "linkuri", "hotspot"},
                                  Warn("link on type")))
                 \o OfSeverity("ERROR", links) \o OfSeverity("WARNING", links)]

StructureElements(s, c) ==
  CASE c.code = BeginAps -> BeginStructure(s, c)
    [] c.code = BeginApsBody -> BeginStructureBody(s)
    [] c.code = EndAps -> EndStructure(s)
    [] c.code = ApsAttribute -> StructureAttribute(s, c)
    [] OTHER -> s

\* The fragments that no structure is named by.
Missing(fragments, names) == Those(fragments, LAMBDA fragment : fragment \notin names)

StructureRemarks(f) ==
  LET end == Fold(StructureElements, [open |-> <<>>, seen |-> {}, types |-> {}, links |-> <<>>, said |-> <<>>],
                  f.commands)
      begun == CountOf(BeginAps, f.commands)
  IN  end.said
      \o If(end.open # <<>>, Err("structures open"))
      \o If(begun # CountOf(EndAps, f.commands), Err("structure ends"))
      \o If(begun # CountOf(BeginApsBody, f.commands), Warn("structure bodies"))
      \o Times(Len(Missing(end.links, end.seen)), Err("link target"))
      \o ValidateXcfBindings(f.xcf, end.seen, end.types)
      \o Tell("structures")

ValidateApsStructure(f, v) == Add(v, StructureRemarks(f))
-----------------------------------------------------------------------------
\* Attributes.

\* Fields of a length in two octets, a type in two and a payload; how many
\* there are, whether they end early and whether one holds control characters.
ParseStructuredFields(octets) ==
  LET length(at) == octets[at] * 256 + octets[at + 1]
      printable(c) == c >= 32 \/ c \in {9, 10, 13}
      step(s) ==
        IF s.ended \/ s.at + 1 > Len(octets) THEN s
        ELSE LET n == length(s.at)  next == s.at + 2 + n
             IN  IF n < 2 \/ next > Len(octets) + 1 THEN [s EXCEPT !.ended = TRUE, !.truncated = TRUE]
                 ELSE [s EXCEPT !.fields = @ + 1, !.at = next,
                                !.binary = @ \/ \E i \in (s.at + 4)..(next - 1) : ~printable(octets[i])]
      end == Repeat(step, Len(octets), [at |-> 1, fields |-> 0, ended |-> FALSE,
                                        truncated |-> FALSE, binary |-> FALSE])
  IN  [fields |-> end.fields, binary |-> end.binary,
       truncated |-> end.truncated \/ \E i \in end.at..Len(octets) : octets[i] # 0]

RecordRemarks(c) ==
  LET parsed == ParseStructuredFields(c.octets)
  IN  If(parsed.truncated, Warn("record truncated")) \o If(parsed.binary, Warn("record binary"))

ValidateStructuredDataRecords(f, v) ==
  LET attributes == All(ApsAttribute, f.commands)
  IN  Add(v, Each(RecordRemarks, attributes) \o If(attributes # <<>>, Tell("records")))

\* grobject.{id}.{type}: the parts, if there are any, of an attribute's text.
LongFormRemarks(c) ==
  CASE c.longForm.parts = 0 -> <<>>
    [] c.longForm.parts \in 1..2 -> Err("long form")
    [] OTHER ->
         If(~c.longForm.numeric, Warn("long form number")) \o If(~c.longForm.known, Warn("long form type"))
         \o If(c.longForm.numeric /\ c.longForm.known, Tell("long form"))

ValidateFragmentIDLongForm(f, v) == Add(v, Each(LongFormRemarks, All(ApsAttribute, f.commands)))

LinkRemarks(c) ==
  CASE c.type = "linkuri" -> If(IsValidLink(c.link), Tell("link"))
    [] c.type = "viewcontext" -> Tell("view context")
    [] OTHER -> <<>>

ValidateEnhancedURIValidation(f, v) == Add(v, Each(LinkRemarks, All(ApsAttribute, f.commands)))
-----------------------------------------------------------------------------
\* Symbols. An entry of a library list is "local", "remote" or "missing", or
\* "empty" when it locates no resource and "nameless" when it is no text at all.
LibraryKinds == {"local", "remote", "missing", "empty", "nameless"}

\* Mutant: counted from 1 first.
LibraryEntryFromOne(index, libraries) ==
  IF index \in 1..Len(libraries) THEN index
  ELSE IF index = 0 /\ libraries # <<>> THEN 1 ELSE 0

\* The entry an index means: counted from 0 or, past the end, from 1; 0 if none.
LibraryEntry(index, libraries) ==
  IF index \in 0..(Len(libraries) - 1) THEN index + 1
  ELSE IF index > 0 /\ index <= Len(libraries) THEN index ELSE 0

LibraryRemarks(entry) ==
  CASE entry \in {"local", "remote"} -> Tell("library")
    [] entry = "missing" -> Warn("library missing")
    [] OTHER -> <<>>

DeclareLibraries(libraries) ==
  If(libraries # <<>>, Tell("libraries")) \o Each(LibraryRemarks, libraries)

\* Of a list that is missing, and of an entry, the first symbol alone is warned of.
UseSymbol(s, c) ==
  LET entry == LibraryEntry(c.index, s.libraries)
      nameless == entry = 0 \/ s.libraries[entry] = "nameless"
      lost == s.libraries[entry] \in {"missing", "empty"}
  IN  CASE s.libraries = <<>> ->
             [Add(s, If(~s.warned, Warn("no libraries"))) EXCEPT !.warned = TRUE]
        [] s.libraries # <<>> /\ nameless -> Add(s, Warn("no such symbol"))
        [] OTHER ->
             [Add(s, Tell("symbol") \o If(lost /\ entry \notin s.lost, Warn("symbol missing")))
                EXCEPT !.lost = IF lost THEN @ \cup {entry} ELSE @]

SymbolElements(commands, s, i) ==
  LET c == commands[i]  at == [s EXCEPT !.picture = PictureAt(commands, i)]
  IN  CASE c.code = SymbolLibraryList -> [Add(at, DeclareLibraries(c.libraries)) EXCEPT !.libraries = c.libraries]
        [] c.code = PolySymbol -> UseSymbol(at, c)
        [] OTHER -> s

\* From the picture index and without libraries.
SymbolReferences(commands, picture) ==
  Fold(LAMBDA s, i : SymbolElements(commands, s, i),
       [messages |-> <<>>, picture |-> picture, libraries |-> <<>>, warned |-> FALSE, lost |-> {}],
       Indices(commands))

ValidateSymbolReferences(f, v) ==
  LET end == SymbolReferences(f.commands, v.picture)
  IN  [AddAll(v, end) EXCEPT !.libraries = end.libraries]
-----------------------------------------------------------------------------
CONSTANT WordsIn(_)      \* what a search finds in a value

Descriptions(f) ==
  LET all == All(MetafileDescription, f.commands)
  IN  [i \in DOMAIN all |-> all[i].description]

Keyed(key, d) == {i \in DOMAIN d.items : d.items[i].key = key}

\* The words after a key, up to a semicolon: in quoted items there is none.
WordsAfter(key, d) ==
  LET first == Min(Keyed(key, d))
      items == IF d.quoted THEN first..Len(d.items) ELSE {first}
  IN  UNION {WordsIn(d.items[i].value) : i \in items}

\* Of the first description.
ValidateProfileDeclaration(f, v) ==
  LET all == Descriptions(f)
      declared(key) == all # <<>> /\ Keyed(key, all[1]) # {}
      check(key, word) ==
        CASE ~declared(key) -> Warn("not declared")
          [] declared(key) -> IF word \in WordsAfter(key, all[1]) THEN Tell("declared")
                              ELSE Warn("other profile")
  IN  Add(v, check("ProfileId", "WEBCGM") \o check("ProfileEd", "2.1"))
-----------------------------------------------------------------------------
\* More than limit times as long as the other, or less than one limit-th.
Extreme(a, b, limit) == a > limit * b \/ limit * a < b

ExtentRemarks(c) ==
  If(c.width = 0 \/ c.height = 0, Err("extent")) \o If(c.far, Warn("far coordinates"))
  \o If(Extreme(c.width, c.height, 100), Warn("aspect")) \o Tell("extent")

ValidateCoordinateNormalization(f, v) ==
  LET extents == All(VdcExtent, f.commands)
  IN  Add(v, Each(ExtentRemarks, extents) \o If(extents = <<>>, Warn("no extent")))

Dot(a, b) == a[1] * b[1] + a[2] * b[2]
IsZero(a) == a = <<0, 0>>

Oblique(a, b) == 100 * Dot(a, b) * Dot(a, b) > Dot(a, a) * Dot(b, b)

OrientationRemarks(c) ==
  CASE c.code = CharacterOrientation ->
         If(IsZero(c.up), Err("up vector")) \o If(IsZero(c.base), Err("base vector"))
         \o If(~IsZero(c.up) /\ ~IsZero(c.base) /\ Oblique(c.up, c.base), Warn("oblique"))
    [] c.code = TextAlignment ->
         If(c.horizontal \notin 0..4, Err("alignment")) \o If(c.vertical \notin 0..6, Err("alignment"))
    [] OTHER -> <<>>

ValidateTextBaselineAndUpVector(f, v) == Add(v, Each(OrientationRemarks, f.commands))

WidthRemarks(c) ==
  CASE c.code \in {LineWidth, EdgeWidth} ->
         If(c.width <= 0, Err("width")) \o If(c.width > 1000, Warn("width"))
    [] c.code = WidthSpecificationMode -> Tell("width mode")
    [] OTHER -> <<>>

ValidateLineAndEdgeMetrics(f, v) == Add(v, Each(WidthRemarks, f.commands))

\* A line between two points, a polygon, an ellipse or an arc that is a point.
Degenerate(c) ==
  CASE c.code = Polyline -> Len(c.points) = 2 /\ c.points[1] = c.points[2]
    [] c.code = Polygon -> Len(c.points) < 3 \/ \A i \in DOMAIN c.points : c.points[i] = c.points[1]
    [] c.code = Ellipse -> \E i \in 1..2 : IsZero(c.diameters[i])
    [] c.code = ArcCentre -> c.radius = 0
    [] OTHER -> FALSE

ValidateDegeneracyRules(f, v) ==
  Add(v, Times(Len(Those(f.commands, Degenerate)), Warn("degenerate")))

\* CELL ARRAY is looked for under the number 18, which is no cell array's.
TileArrayRemarks(c) ==
  IF c.path = 0 \/ c.line = 0 THEN Err("cells of a tile")
  ELSE If(Extreme(c.path, c.line, 10), Warn("aspect of a tile")) \o Tell("tiles")

ValidateRasterAspectPreservation(f, v) == Add(v, Each(TileArrayRemarks, All(BeginTileArray, f.commands)))
-----------------------------------------------------------------------------
\* The elements as a set. The delimiter 12 counts as METAFILE DEFAULTS, which
\* last up to the next picture, and the delimiter 11 as EXTERNAL.
ElementRemarks(c, inside) ==
  If(c.code = <<0, 11>>, Err("EXTERNAL")) \o If(c.code = Gdp, Err("GDP prohibited"))
  \o If(inside /\ Class(c) \notin {2, 3, 5}, Warn("element in defaults"))
  \o If(Class(c) = 9, Tell("attribute"))

\* Whether the i-th element is in METAFILE DEFAULTS.
InDefaults(commands, i) ==
  \E j \in 1..i : commands[j].code = <<0, 12>> /\ \A k \in j..i : commands[k].code # BeginPicture

ElementsOfSet(commands, allowSegments) ==
  LET other(i) == commands[i].code \notin {<<0, 12>>, BeginSegment, EndSegment}
      said(i) ==
        CASE commands[i].code = <<0, 12>> -> <<>>
          [] commands[i].code \in {BeginSegment, EndSegment} -> If(~allowSegments, Err("segment prohibited"))
          [] OTHER -> ElementRemarks(commands[i], InDefaults(commands, i))
      last == {i \in DOMAIN commands : \A j \in i..Len(commands) : commands[j].code # <<0, 12>>}
  IN  Each(said, Indices(commands))
      \o If(\E i \in last : other(i) /\ InDefaults(commands, i), Tell("defaults"))

ValidateElementSetRestrictions(f, v) == Add(v, ElementsOfSet(f.commands, v.allowSegments))
=============================================================================
