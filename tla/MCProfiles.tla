------------------------------ MODULE MCProfiles -----------------------------
(***************************************************************************)
(* Small metafiles for the validators: a head, a few commands about one    *)
(* subject, and a tail.                                                    *)
(***************************************************************************)
EXTENDS ProfileRequirements, TLC

Plain(code) == [code |-> code]

\* Descriptions.
NoIcn == [name |-> "", separated |-> FALSE, hyphens |-> 0]
Item(key, value) == [key |-> key, value |-> value]
Description(quoted, items, words) ==
  [code |-> MetafileDescription,
   description |-> [quoted |-> quoted, unclosed |-> FALSE, items |-> items, words |-> words,
                    edition |-> "", icn |-> NoIcn]]

MCWordsIn(value) ==
  CASE value = "WebCGM" -> {"WEBCGM"}
    [] value = AtaProfile -> {"GREXCHANGE"}
    [] value \in {"S1000D", "2.1", "2.6", "2.7", "2.8", "2.9"} -> {value}
    [] value = "2.12" -> {"2.1", "2.12"}
    [] OTHER -> {}

MCFirstWord(value) == IF value = AtaProfile THEN "ATA" ELSE value

MCIsName(id) == id \in {"a", "b"}

Ids == {"WebCGM", AtaProfile, "S1000D"}
Editions == {"2.1", "2.6", "2.8", "2.9", "2.12"}

DescriptionCommands ==
  {Description(q, <<Item("ProfileId", id), Item("ProfileEd", e)>> \o more, {}) :
     q \in BOOLEAN, id \in Ids, e \in Editions,
     more \in {<<>>, <<Item("ColourClass", "colour")>>, <<Item("Source", "2.9")>>}}
  \cup {Description(FALSE, <<>>, words) : words \in {{}, {"S1000D", "ISSUE"}, {"CALS"}, {"WEBCGM"}}}

Usual == Description(TRUE, <<Item("ProfileId", AtaProfile), Item("ProfileEd", "2.8"),
                             Item("ColourClass", "colour")>>, {})
Version(n) == [code |-> MetafileVersion, version |-> n]
Extent(w, h) == [code |-> VdcExtent, width |-> w, height |-> h, far |-> FALSE]

\* Commands by subject.
Link(base, hashes, fragment) ==
  [blank |-> FALSE, spaces |-> FALSE, hashes |-> hashes, fragment |-> fragment,
   base |-> base, backslash |-> FALSE]
Attribute(type, link) ==
  [code |-> ApsAttribute, type |-> type, link |-> link, octets |-> <<0, 3, 0, 1, 65>>,
   longForm |-> [parts |-> 0, numeric |-> FALSE, known |-> FALSE]]
Structure(id, type) == [code |-> BeginAps, id |-> id, type |-> type, inherits |-> TRUE]

Structures ==
  {Structure("a", "grobject"), Structure("b", "linkuri"), Plain(BeginApsBody), Plain(EndAps),
   Attribute("linkuri", Link("none", 1, "a"))}
OddStructures ==
  {Structure("", "layer"), Structure("1", ""), Structure("a", "grobject"), Plain(BeginApsBody), Plain(EndAps),
   Attribute("linkuri", Link("none", 2, "a")), Attribute("linkuri", Link("bad scheme", 0, "")),
   Attribute("viewcontext", Link("odd", 0, "")),
   [Attribute("name", Link("none", 0, "")) EXCEPT !.octets = <<0, 1, 0>>, !.longForm.parts = 3],
   [Attribute("linkuri", Link("odd", 1, "")) EXCEPT !.longForm = [parts |-> 4, numeric |-> TRUE, known |-> TRUE],
                                                    !.octets = <<0, 3, 0, 9, 1, 0, 7>>]}

Short == [length |-> 1, invalid |-> FALSE, replaced |-> FALSE, c0 |-> 0, c1 |-> 0]
Long == [Short EXCEPT !.length = 9, !.c0 = 1]
TextOf(code, final, text) == [code |-> code, final |-> final, text |-> text]
Texts ==
  {TextOf(code, final, Short) : code \in {Text, AppendText}, final \in BOOLEAN}
  \cup {TextOf(RestrictedText, TRUE, Long), Plain(EndPicture),
        [code |-> Message, text |-> Long], [code |-> CharacterHeight, height |-> 290]}

Symbols ==
  {[code |-> SymbolLibraryList, libraries |-> l] :
     l \in {<<>>, <<"local", "missing">>, <<"empty", "remote">>, <<"nameless">>}}
  \cup {[code |-> PolySymbol, index |-> i] : i \in 0..3}

Coloured(code, indexed, index, name) ==
  [code |-> code, indexed |-> indexed, index |-> index, name |-> name]
Colours ==
  {[code |-> MaximumColourIndex, maximum |-> n] : n \in {1, 3}}
  \cup {[code |-> ColourTable, start |-> s, colours |-> 2] : s \in {0, 2}}
  \cup {Coloured(LineColour, TRUE, 9, ""), Coloured(FillColour, TRUE, 2, ""),
        Coloured(EdgeColour, FALSE, 0, "grey")}

Limits ==
  {[code |-> BeginRegion, region |-> 1], Plain(EndRegion), Plain(BeginFigure), Plain(EndFigure),
   [code |-> Polyline, points |-> <<<<0, 0>>, <<0, 0>>>>], Plain(LineColour) @@ Coloured(LineColour, FALSE, 0, "red")}

Shapes ==
  {[code |-> Polygon, points |-> <<<<0, 0>>, <<1, 0>>, <<0, 1>>>>],
   [code |-> Polygon, points |-> <<<<1, 0>>, <<1, 0>>, <<1, 0>>>>],
   [code |-> Ellipse, diameters |-> <<<<0, 0>>, <<1, 0>>>>], [code |-> ArcCentre, radius |-> 0],
   [code |-> EdgeVisibility, visible |-> FALSE], [code |-> BitonalTile, compression |-> 1],
   [code |-> Tile, compression |-> 8], Plain(Gdp), Plain(HyperbolicArc), Plain(ParabolicArc),
   [code |-> Spline, order |-> 2, controls |-> 2, knots |-> <<0, 0, 1, 1>>, from |-> 0, to |-> 1],
   [code |-> Spline, order |-> 2, controls |-> 2, knots |-> <<0, 1, 1, 0>>, from |-> 0, to |-> 1],
   Plain(ApplicationData) @@ [text |-> Short], Plain(<<6, 1>>) @@ [text |-> Long],
   [code |-> CharacterOrientation, up |-> <<0, 1>>, base |-> <<1, 1>>],
   [code |-> TextAlignment, horizontal |-> 5, vertical |-> 0], [code |-> LineWidth, width |-> 0],
   [code |-> BeginTileArray, path |-> 0, line |-> 1], [code |-> BeginTileArray, path |-> 99, line |-> 1],
   Extent(0, 1), Extent(200, 1), Version(5), Plain(WidthSpecificationMode),
   Plain(BeginPicture), Plain(<<0, 11>>), Plain(<<0, 12>>), Plain(BeginSegment), Plain(<<8, 1>>)}

Upto(n, S) == UNION {[1..k -> S] : k \in 0..n}

NoCompanion == [state |-> "none", ids |-> <<>>, types |-> <<>>]
Named(name, parts) == [icn |-> name # "", name |-> name, parts |-> parts, extension |-> TRUE]

MetafileOf(head, commands) ==
  [commands |-> <<Plain(BeginMetafile), Version(4)>> \o head \o <<Extent(4, 3), Plain(BeginPicture)>>
                \o commands \o <<Plain(EndPicture), Plain(EndMetafile)>>,
   unsupportedCharsets |-> <<>>, illegalControls |-> {}, indexed |-> TRUE, model |-> "RGB",
   binary |-> TRUE, name |-> Named("ICN-1", 5), xcf |-> NoCompanion]

\* Four commands in a structure.
Nested == {<<Structure("a", "grobject")>> \o s \o <<Plain(EndAps)>> : s \in [1..4 -> Structures]}

Bodies ==
  Upto(4, Structures) \cup Nested \cup Upto(2, OddStructures) \cup Upto(3, Texts) \cup Upto(3, Symbols)
  \cup Upto(2, Colours) \cup Upto(4, Limits) \cup Upto(1, Shapes)

Companions ==
  {[state |-> s, ids |-> <<>>, types |-> <<>>] : s \in {"unreadable", "empty"}}
  \cup {[state |-> "read", ids |-> i, types |-> t] :
          i \in Upto(2, {"a", "b"}), t \in Upto(1, {"grobject", "layer"})}

MCFiles ==
  {MetafileOf(<<Usual>>, body) : body \in Bodies}
  \cup {[MetafileOf(<<Usual>>, <<Structure("a", "grobject"), Plain(EndAps)>>) EXCEPT !.xcf = c] :
          c \in Companions}
  \cup {MetafileOf(head, <<>>) : head \in Upto(1, DescriptionCommands)}
  \cup {MetafileOf(<<d, Usual>>, <<>>) : d \in DescriptionCommands}

MCOthers == {MetafileOf(<<Usual>>, <<>>), MetafileOf(<<Usual>>, <<[code |-> PolySymbol, index |-> 1]>>)}

MCRequests == {"auto", "webcgm", "ata", "s1000d", "cals", "other"}
MCKept == {<<"ISO">>, <<"S1000D">>}
=============================================================================
