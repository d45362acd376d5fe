--------------------------- MODULE DerivedProfiles ---------------------------
(***************************************************************************)
(* The WebCGM 2.1 validator as a whole, and the ATA GREXCHANGE validator,  *)
(* which runs it first and keeps its messages. (profile_validator.cpp)     *)
(***************************************************************************)
EXTENDS WebCgmContent, WebCgmStructure

\* A validator of a kind: "WebCGM", "ATA" or "S1000D". An ATA validator is made
\* for a version; a WebCGM one may accept segments.
NewValidator(kind, version, allowSegments) ==
  [kind |-> kind, version |-> version, allowSegments |-> allowSegments,
   messages |-> <<>>, picture |-> 0, libraries |-> <<>>]

\* Mutant: the picture index stays where the last validation left it.
BeginWherePictureWas(v) == [v EXCEPT !.messages = <<>>]

\* How every validate() begins: a validator may be used again.
Begin(v) == [v EXCEPT !.messages = <<>>, !.picture = 0]

ValidateContent(f, v) ==
  ValidateTextSequencing(f, ValidateTextConstraints(f, ValidateProhibitedElements(f,
    ValidateEncodingType(f, ValidateVersionSupport(f, ValidatePictureCount(f,
      ValidateMetafileStructure(f, v)))))))

ValidateStructure(f, v) ==
  ValidateNonGraphicalText(f, ValidateApsStructure(f, ValidateStructuredDataRecords(f, v)))

ValidateUses(f, v) ==
  ValidateTileCompression(f, ValidateFigureComplexity(f, ValidateExternalElements(f,
    ValidateSymbolReferences(f, ValidateGeneralizedDrawingPrimitives(f, ValidateConicArcFallback(f,
      ValidateNurbsKnotVectors(f, ValidateProtectionRegions(f, ValidateColorTable(f, v)))))))))

ValidateMeasures(f, v) ==
  ValidateLineAndEdgeMetrics(f, ValidateTextBaselineAndUpVector(f,
    ValidateCoordinateNormalization(f, ValidateProfileDeclaration(f, v))))

ValidateElements(f, v) ==
  ReportCharacterEncodingFindings(f, ValidateEnhancedColor(f, ValidateEnhancedURIValidation(f,
    ValidateRasterAspectPreservation(f, ValidateElementSetRestrictions(f,
      ValidateDegeneracyRules(f, ValidateFragmentIDLongForm(f, v)))))))

\* Every pass, in the order of the code.
ValidateWebCgm(f, v) ==
  LET start == Add(Begin(v), Tell("WebCGM") \o If(v.allowSegments, Tell("segments accepted")))
  IN  ValidateElements(f, ValidateMeasures(f, ValidateUses(f,
        ValidateStructure(f, ValidateContent(f, start)))))
-----------------------------------------------------------------------------
\* ATA GREXCHANGE.

FilledPrimitives == {<<4, id>> : id \in {7, 8, 11, 12, 14, 16, 17, 19}}

\* The number that the rule takes for that of EDGE VISIBILITY, which is 30:
\* edges count as visible throughout.
EdgeVisibilityElement == <<5, 27>>

\* The filled primitives for which the edges have been made invisible.
HiddenEdges(c) ==
  LET set(i) == {j \in 1..(i - 1) : c[j].code = EdgeVisibilityElement /\ IsA(c[j], EdgeVisibility)}
  IN  Those(Indices(c), LAMBDA i : c[i].code \in FilledPrimitives /\ set(i) # {} /\ ~c[Max(set(i))].visible)

ValidateEdgeVisibility(f, v) ==
  LET hidden == HiddenEdges(f.commands)
  IN  Add(v, Times(Len(hidden), Warn("hidden edge"))
             \o IF \A i \in DOMAIN f.commands : f.commands[i].code \notin FilledPrimitives THEN Tell("nothing filled")
                ELSE IF hidden # <<>> THEN Tell("hidden edges") ELSE Tell("visible edges"))

ValidateAtaDrawingPrimitives(f, v) == Add(v, Times(CountOf(Gdp, f.commands), Err("GDP forbidden")))

Externals(commands) == Those(commands, LAMBDA c : Class(c) = 7)

ValidateExternalReferences(f, v) == Add(v, Times(Len(Externals(f.commands)), Err("external reference")))

HasColourTable(f) == All(ColourTable, f.commands) # <<>>

ValidateColorClass(f, v) ==
  Add(v, Tell("colour model")
         \o If(f.indexed /\ HasColourTable(f) /\ All(MaximumColourIndex, f.commands) = <<>>,
               Warn("no maximum"))
         \o Tell("colour class")
         \o CASE f.model = "RGB" -> Tell("RGB")
              [] f.model = "CMYK" -> Warn("CMYK")
              [] OTHER -> <<>>)

\* The value of the first item that bears a key in quotes; "" if there is none.
QuotedValue(key, d) ==
  IF d.quoted /\ Keyed(key, d) # {} THEN d.items[Min(Keyed(key, d))].value ELSE ""

AtaProfile == "ATA GRAPHICS.GREXCHANGE"

DeclarationRemarks(d, version) ==
  LET edition == QuotedValue("ProfileEd", d)
  IN  (IF QuotedValue("ProfileId", d) = AtaProfile THEN Tell("ATA profile") ELSE Err("not the ATA profile"))
      \o CASE edition = "" -> Warn("no edition")
           [] edition = version -> Tell("edition")
           [] OTHER -> Warn("other edition")

ProfileDeclarationsAta(f, version) == Each(LAMBDA d : DeclarationRemarks(d, version), Descriptions(f))

ValidateProfileDeclarationAta(f, v) == Add(v, ProfileDeclarationsAta(f, v.version))

Declaring(all) == Those(all, LAMBDA d : d.quoted /\ Keyed("ColourClass", d) # {})

\* Of the last description that declares one.
ValidateColorClassDeclaration(f, v) ==
  LET declaring == Declaring(Descriptions(f))
      class == QuotedValue("ColourClass", declaring[Len(declaring)])
  IN  Add(v, IF declaring = <<>> THEN Err("no colour class")
             ELSE IF class \notin {"monochrome", "colour"} THEN Err("colour class")
             ELSE Times(3, Tell("colour class")))

\* Mutant: the messages of the WebCGM validator are dropped.
ValidateAtaAlone(f, v) ==
  ValidateColorClassDeclaration(f, ValidateProfileDeclarationAta(f, ValidateColorClass(f,
    ValidateExternalReferences(f, ValidateAtaDrawingPrimitives(f, ValidateEdgeVisibility(f,
      Add(Begin(v), Tell("ATA"))))))))

\* validate(): the messages of a WebCGM validator of its own come first.
ValidateAta(f, v) ==
  LET start == Add(Begin(v), Tell("ATA"))
  IN  ValidateColorClassDeclaration(f, ValidateProfileDeclarationAta(f, ValidateColorClass(f,
        ValidateExternalReferences(f, ValidateAtaDrawingPrimitives(f, ValidateEdgeVisibility(f,
          [start EXCEPT !.messages = @ \o ValidateWebCgm(f, NewValidator("WebCGM", "", FALSE)).messages]))))))

-----------------------------------------------------------------------------
(***************************************************************************)
(* The S1000D validator, which runs an ATA GREXCHANGE 2.9 validator first, *)
(* and the choice of a validator for a profile. (profile_validator.cpp)    *)
(*                                                                         *)
(* The name of a file is [icn, name, parts, extension]: whether it starts  *)
(* with "ICN-", its stem, the parts that hyphens make of it and whether it *)
(* ends in .CGM. A description's ICN is [name, separated, hyphens]: name   *)
(* is "" when there is none, separated tells whether a separator or the    *)
(* end follows it (a quote is no separator).                               *)
(***************************************************************************)

Mentions(d, words) == d.words \cap words # {}

SecurityWords == {"UNCLASSIFIED", "RESTRICTED"}
TypeWords == {"FIG", "TABLE"}

MetadataRemarks(d) ==
  (CASE d.icn.name = "" -> <<>>
     [] d.icn.hyphens = 7 -> Tell("ICN")
     [] OTHER -> Warn("ICN format"))
  \o If(Mentions(d, {"ISSUE"}), Tell("issue"))
  \o If(Mentions(d, SecurityWords), Tell("security"))
  \o If(Mentions(d, TypeWords), Tell("type"))

\* Each description is looked at; what no description has is reported once.
ValidateMetadata(f, v) ==
  LET all == Descriptions(f)
      none(test(_)) == ~\E i \in DOMAIN all : test(all[i])
  IN  Add(v, Each(MetadataRemarks, all)
             \o IF all = <<>> THEN Err("no description")
                ELSE If(none(LAMBDA d : d.icn.name # ""), Err("no ICN"))
                     \o If(none(LAMBDA d : Mentions(d, {"ISSUE"})), Warn("no issue"))
                     \o If(none(LAMBDA d : Mentions(d, SecurityWords)), Tell("no security"))
                     \o If(none(LAMBDA d : Mentions(d, TypeWords)), Tell("no type")))

NamedOf(all) == Those(all, LAMBDA d : d.icn.name # "")

\* The name is compared with the first ICN described, which runs on to a separator.
ValidateCsdbNaming(f, v) ==
  LET named == NamedOf(Descriptions(f))
      same == named[1].icn.separated /\ named[1].icn.name = f.name.name
      parts == f.name.parts
  IN  Add(v, IF ~f.name.icn THEN Err("file name")
             ELSE If(~f.name.extension, Warn("extension"))
                  \o If(parts < 5, Warn("parts of the name")) \o If(parts > 6, Tell("parts of the name"))
                  \o (IF named = <<>> THEN <<>>
                      ELSE IF same THEN Tell("name matches") ELSE Err("name does not match"))
                  \o Tell("file name"))

\* Heights in hundredths of a millimetre.
NominalHeights == {250, 350, 500}

\* Whether the height is within so many hundredths of a nominal one.
Within(percent, height) ==
  \E n \in NominalHeights : 100 * (height - n) \in -(percent * n)..(percent * n)

HeightRemarks(c) ==
  If(c.height > 10 /\ ~Within(10, c.height),
     IF Within(20, c.height) THEN Warn("text height") ELSE Err("text height"))

ValidateTextHeights(f, v) == Add(v, Each(HeightRemarks, All(CharacterHeight, f.commands)) \o Tell("text heights"))

KnownTypes == {"", "grobject", "layer", "grnode", "para", "subpara", "linkuri"}

BindingRemarks(c) == If(c.id = "", Warn("empty identifier")) \o If(c.type \notin KnownTypes, Tell("custom type"))

ValidateApsBinding(f, v) ==
  LET begun == All(BeginAps, f.commands)
      ids == {begun[i].id : i \in DOMAIN begun}
  IN  Add(v, Each(BindingRemarks, begun)
             \o If(Len(begun) # CountOf(EndAps, f.commands), Err("structure mismatch"))
             \o If(Len(begun) # CountOf(BeginApsBody, f.commands), Warn("body mismatch"))
             \o If(Cardinality(ids) < Len(begun), Warn("duplicate identifiers"))
             \o Tell("bindings") \o If(begun # <<>>, Tell("bindings by hand")))

ConstraintRemarks(c) == If(c.type # "grobject", Err("not a grobject")) \o If(~c.inherits, Err("not a state list"))

ValidateApsConstraints(f, v) == Add(v, Each(ConstraintRemarks, All(BeginAps, f.commands)))

\* Whether each pair in quotes is of the form and the profile that Table 3 asks for.
PairRemarks(item) ==
  CASE item.key = "ProfileId" ->
         If(item.value = "", Warn("empty item"))
         \o (IF item.value = "S1000D" THEN Tell("S1000D profile") ELSE Err("not the S1000D profile"))
    [] item.key = "no colon" -> Warn("no colon")
    [] OTHER -> If(item.key = "", Warn("empty keyword")) \o If(item.value = "", Warn("empty item"))

FormatRemarks(d) ==
  If(d.unclosed, Warn("unclosed"))
  \o IF d.quoted /\ d.items # <<>>
     THEN Each(PairRemarks, d.items) \o If(Keyed("ProfileId", d) = {}, Err("no profile")) \o Tell("pairs")
     ELSE Err("no pairs")

\* Up to the first description without pairs.
ValidateDescriptionFormat(f, v) ==
  LET all == Descriptions(f)
      without == {i \in DOMAIN all : ~(all[i].quoted /\ all[i].items # <<>>)}
      seen == IF without = {} THEN all ELSE SubSeq(all, 1, Min(without))
  IN  Add(v, Each(FormatRemarks, seen))
-----------------------------------------------------------------------------
\* Colours. A colour of the metafile is [indexed, index] or [indexed, name].

Palette == <<"white", "black", "red", "green", "blue", "cyan", "magenta", "yellow">>
Greys == {"black", "white", "grey"}

StrokeColours == {LineColour, MarkerColour, TextColour, EdgeColour}

\* INTERIOR STYLE and COLOUR TABLE are looked for under the numbers of other
\* elements: no fill counts, and the palette is the default one throughout.
ColourUses(f) == Those(f.commands, LAMBDA c : c.code \in StrokeColours \cup {FillColour})

Resolves(use) == ~use.indexed \/ use.index \in 0..7
ColourName(use) == IF use.indexed THEN Palette[use.index + 1] ELSE use.name
Resolved(uses) == Those(uses, Resolves)

ValidateMonochromePolicy(f, v) ==
  LET maxima == All(MaximumColourIndex, f.commands)
      monochrome == maxima # <<>> /\ maxima[Len(maxima)].maximum \in 0..1
      uses == ColourUses(f)
      resolved == Resolved(uses)
      grey == \A i \in DOMAIN resolved : ColourName(resolved[i]) \in Greys
      black == \A i \in DOMAIN resolved :
                 resolved[i].code \in StrokeColours => ColourName(resolved[i]) = "black"
  IN  Add(v, Times(2, Tell("colour policy"))
             \o If(maxima # <<>> /\ maxima[Len(maxima)].maximum >= 0, Tell("maximum"))
             \o (CASE ~grey -> (IF monochrome THEN Warn("not grey") ELSE Tell("highlights")) \o Tell("samples")
                   [] grey -> If(uses # <<>> /\ resolved = uses, Tell("all grey")))
             \o If(~black /\ monochrome, Warn("not black"))
             \o If(resolved # uses, Warn("unresolved")))

\* validate(): the messages of an ATA validator of its own come first.
ValidateS1000D(f, v) ==
  LET start == Add(Begin(v), Tell("S1000D"))
  IN  ValidateDescriptionFormat(f, ValidateApsConstraints(f, ValidateMonochromePolicy(f,
        ValidateApsBinding(f, ValidateTextHeights(f, ValidateCsdbNaming(f, ValidateMetadata(f,
          [start EXCEPT !.messages = @ \o ValidateAta(f, NewValidator("ATA", "2.9", FALSE)).messages])))))))

Validate(f, v) ==
  CASE v.kind = "WebCGM" -> ValidateWebCgm(f, v)
    [] v.kind = "ATA" -> ValidateAta(f, v)
    [] v.kind = "S1000D" -> ValidateS1000D(f, v)
=============================================================================
