---------------------------- MODULE ProfileProofs ----------------------------
(***************************************************************************)
(* What a validator says of a file, whatever it has validated before, and  *)
(* what its report tells of the file: the passes over the commands, one by *)
(* one, against the requirements on the commands as a whole.               *)
(***************************************************************************)
EXTENDS ProfileRequirements, TLAPS, SequenceTheorems, WellFoundedInduction, FiniteSetTheorems

Fresh(v) == NewValidator(v.kind, v.version, v.allowSegments)

\* A validator; what it was made with; two that were made like it and differ in
\* nothing but the libraries.
Validator(kind, version, allowSegments, messages, picture, libraries) ==
  [kind |-> kind, version |-> version, allowSegments |-> allowSegments,
   messages |-> messages, picture |-> picture, libraries |-> libraries]

IsValidator(v) == v = Validator(v.kind, v.version, v.allowSegments, v.messages, v.picture, v.libraries)

Same(v, w) ==
  /\ IsValidator(v) /\ IsValidator(w)
  /\ v.kind = w.kind /\ v.version = w.version /\ v.allowSegments = w.allowSegments

Alike(o, v, w) == Same(o, v) /\ Same(o, w) /\ v.messages = w.messages /\ v.picture = w.picture

LEMMA ValidatorFields ==
  ASSUME NEW kind, NEW version, NEW allowSegments, NEW messages, NEW picture, NEW libraries,
         NEW v, v = Validator(kind, version, allowSegments, messages, picture, libraries)
  PROVE  /\ IsValidator(v)
         /\ v.kind = kind /\ v.version = version /\ v.allowSegments = allowSegments
         /\ v.messages = messages /\ v.picture = picture /\ v.libraries = libraries
BY DEF IsValidator, Validator

\* A change of messages, picture index or libraries changes nothing else.
LEMMA MessagesChanged ==
  ASSUME NEW v, IsValidator(v), NEW messages
  PROVE  [v EXCEPT !.messages = messages]
           = Validator(v.kind, v.version, v.allowSegments, messages, v.picture, v.libraries)
<1>1. PICK k, r, a, m, p, l : v = Validator(k, r, a, m, p, l)
  BY DEF IsValidator
<1>2. v.kind = k /\ v.version = r /\ v.allowSegments = a /\ v.picture = p /\ v.libraries = l
  BY <1>1, ValidatorFields
<1>3. [v EXCEPT !.messages = messages] = Validator(k, r, a, messages, p, l)
  BY <1>1 DEF Validator
<1> QED
  BY <1>2, <1>3

LEMMA LibrariesChanged ==
  ASSUME NEW v, IsValidator(v), NEW libraries
  PROVE  [v EXCEPT !.libraries = libraries]
           = Validator(v.kind, v.version, v.allowSegments, v.messages, v.picture, libraries)
<1>1. PICK k, r, a, m, p, l : v = Validator(k, r, a, m, p, l)
  BY DEF IsValidator
<1>2. v.kind = k /\ v.version = r /\ v.allowSegments = a /\ v.messages = m /\ v.picture = p
  BY <1>1, ValidatorFields
<1>3. [v EXCEPT !.libraries = libraries] = Validator(k, r, a, m, p, libraries)
  BY <1>1 DEF Validator
<1> QED
  BY <1>2, <1>3

LEMMA PictureChanged ==
  ASSUME NEW v, IsValidator(v), NEW messages, NEW picture
  PROVE  [v EXCEPT !.messages = messages, !.picture = picture]
           = Validator(v.kind, v.version, v.allowSegments, messages, picture, v.libraries)
<1>1. PICK k, r, a, m, p, l : v = Validator(k, r, a, m, p, l)
  BY DEF IsValidator
<1>2. v.kind = k /\ v.version = r /\ v.allowSegments = a /\ v.libraries = l
  BY <1>1, ValidatorFields
<1>3. PICK w : w = [v EXCEPT !.messages = messages, !.picture = picture]
  OBVIOUS
<1>4. DOMAIN v = {"kind", "version", "allowSegments", "messages", "picture", "libraries"}
  BY <1>1 DEF Validator
<1>5. /\ w.messages = messages /\ w.picture = picture
      /\ w.kind = k /\ w.version = r /\ w.allowSegments = a /\ w.libraries = l
  BY <1>2, <1>3, <1>4
<1>6. w = [n \in DOMAIN v |-> w[n]]
  BY <1>3
<1> QED
  BY <1>2, <1>3, <1>4, <1>5, <1>6 DEF Validator

LEMMA SameChanged ==
  ASSUME NEW o, NEW v, Same(o, v), NEW messages, NEW picture, NEW libraries,
         NEW w, w = Validator(v.kind, v.version, v.allowSegments, messages, picture, libraries)
  PROVE  Same(o, w) /\ w.messages = messages /\ w.picture = picture
<1>1. /\ IsValidator(w) /\ w.messages = messages /\ w.picture = picture
      /\ w.kind = v.kind /\ w.version = v.version /\ w.allowSegments = v.allowSegments
  BY ValidatorFields
<1> QED
  BY <1>1 DEF Same

\* The passes that move the picture index move it alike.
LEMMA PlacedAlike ==
  ASSUME NEW o, NEW v, NEW w, Alike(o, v, w), NEW words, NEW picture
  PROVE  Alike(o, [v EXCEPT !.messages = v.messages \o words, !.picture = picture],
                  [w EXCEPT !.messages = w.messages \o words, !.picture = picture])
<1>1. Same(o, v) /\ Same(o, w) /\ v.messages = w.messages
  BY DEF Alike
<1>2. PICK m : m = v.messages \o words
  OBVIOUS
<1>3. ASSUME NEW u, Same(o, u), NEW x, x = [u EXCEPT !.messages = m, !.picture = picture]
      PROVE  Same(o, x) /\ x.messages = m /\ x.picture = picture
  <2>1. IsValidator(u)
    BY <1>3 DEF Same
  <2>2. x = Validator(u.kind, u.version, u.allowSegments, m, picture, u.libraries)
    BY <1>3, <2>1, PictureChanged
  <2> QED
    BY <1>3, <2>2, SameChanged
<1>4. PICK x, y : /\ x = [v EXCEPT !.messages = m, !.picture = picture]
                  /\ y = [w EXCEPT !.messages = m, !.picture = picture]
  OBVIOUS
<1>5. Alike(o, x, y)
  BY <1>1, <1>3, <1>4 DEF Alike
<1> QED
  BY <1>1, <1>2, <1>4, <1>5

LEMMA MoreAlike ==
  ASSUME NEW o, NEW v, NEW w, Alike(o, v, w), NEW messages
  PROVE  Alike(o, [v EXCEPT !.messages = v.messages \o messages], [w EXCEPT !.messages = w.messages \o messages])
<1>1. Same(o, v) /\ Same(o, w) /\ v.messages = w.messages /\ v.picture = w.picture
  BY DEF Alike
<1>2. PICK m : m = v.messages \o messages
  OBVIOUS
<1>3. ASSUME NEW u, Same(o, u), NEW x, x = [u EXCEPT !.messages = m]
      PROVE  Same(o, x) /\ x.messages = m /\ x.picture = u.picture
  <2>1. IsValidator(u)
    BY <1>3 DEF Same
  <2>2. x = Validator(u.kind, u.version, u.allowSegments, m, u.picture, u.libraries)
    BY <1>3, <2>1, MessagesChanged
  <2> QED
    BY <1>3, <2>2, SameChanged
<1>4. PICK x, y : x = [v EXCEPT !.messages = m] /\ y = [w EXCEPT !.messages = m]
  OBVIOUS
<1>5. Alike(o, x, y)
  BY <1>1, <1>3, <1>4 DEF Alike
<1> QED
  BY <1>1, <1>2, <1>4, <1>5

LEMMA AddAlike ==
  ASSUME NEW o, NEW v, NEW w, Alike(o, v, w), NEW words
  PROVE  Alike(o, Add(v, words), Add(w, words))
<1>1. v.picture = w.picture
  BY DEF Alike
<1>2. PICK about : about = About(v.picture, words)
  OBVIOUS
<1>3. Alike(o, [v EXCEPT !.messages = v.messages \o about], [w EXCEPT !.messages = w.messages \o about])
  BY MoreAlike
<1> QED
  BY <1>1, <1>2, <1>3 DEF Add

LEMMA BeginAlike ==
  ASSUME NEW o, NEW v, NEW w, Same(o, v), Same(o, w)
  PROVE  Alike(o, Begin(v), Begin(w))
<1>1. ASSUME NEW u, Same(o, u)
      PROVE  Same(o, Begin(u)) /\ Begin(u).messages = <<>> /\ Begin(u).picture = 0
  <2>1. IsValidator(u)
    BY <1>1 DEF Same
  <2>2. Begin(u) = Validator(u.kind, u.version, u.allowSegments, <<>>, 0, u.libraries)
    BY <2>1, PictureChanged DEF Begin
  <2> QED
    BY <1>1, <2>2, SameChanged
<1> QED
  BY <1>1 DEF Alike

LEMMA ContentAlike ==
  ASSUME NEW f, NEW o, NEW v, NEW w, Alike(o, v, w)
  PROVE  Alike(o, ValidateContent(f, v), ValidateContent(f, w))
<1>1. ASSUME NEW u, NEW x, Alike(o, u, x)
      PROVE  /\ Alike(o, ValidateMetafileStructure(f, u), ValidateMetafileStructure(f, x))
             /\ Alike(o, ValidatePictureCount(f, u), ValidatePictureCount(f, x))
             /\ Alike(o, ValidateVersionSupport(f, u), ValidateVersionSupport(f, x))
             /\ Alike(o, ValidateEncodingType(f, u), ValidateEncodingType(f, x))
  BY <1>1, AddAlike DEF ValidateMetafileStructure, ValidatePictureCount, ValidateVersionSupport, ValidateEncodingType
<1>2. ASSUME NEW u, NEW x, Alike(o, u, x)
      PROVE  /\ Alike(o, ValidateTextConstraints(f, u), ValidateTextConstraints(f, x))
             /\ Alike(o, ValidateTextSequencing(f, u), ValidateTextSequencing(f, x))
  BY <1>2, AddAlike DEF ValidateTextConstraints, ValidateTextSequencing
<1>3. ASSUME NEW u, NEW x, Alike(o, u, x)
      PROVE  Alike(o, ValidateProhibitedElements(f, u), ValidateProhibitedElements(f, x))
  <2>1. u.allowSegments = x.allowSegments
    BY <1>3 DEF Alike, Same
  <2> QED
    BY <1>3, <2>1, AddAlike DEF ValidateProhibitedElements
<1> QED
  BY <1>1, <1>2, <1>3 DEF ValidateContent

LEMMA StructureAlike ==
  ASSUME NEW f, NEW o, NEW v, NEW w, Alike(o, v, w)
  PROVE  Alike(o, ValidateStructure(f, v), ValidateStructure(f, w))
<1>1. ASSUME NEW u, NEW x, Alike(o, u, x)
      PROVE  /\ Alike(o, ValidateStructuredDataRecords(f, u), ValidateStructuredDataRecords(f, x))
             /\ Alike(o, ValidateApsStructure(f, u), ValidateApsStructure(f, x))
             /\ Alike(o, ValidateNonGraphicalText(f, u), ValidateNonGraphicalText(f, x))
  BY <1>1, AddAlike DEF ValidateStructuredDataRecords, ValidateApsStructure, ValidateNonGraphicalText
<1> QED
  BY <1>1 DEF ValidateStructure

LEMMA AddAtAlike ==
  ASSUME NEW f, NEW o, NEW v, NEW w, Alike(o, v, w)
  PROVE  /\ Alike(o, ValidateNurbsKnotVectors(f, v), ValidateNurbsKnotVectors(f, w))
         /\ Alike(o, ValidateGeneralizedDrawingPrimitives(f, v), ValidateGeneralizedDrawingPrimitives(f, w))
         /\ Alike(o, ValidateExternalElements(f, v), ValidateExternalElements(f, w))
<1>1. v.picture = w.picture
  BY DEF Alike
<1>2. Alike(o, ValidateNurbsKnotVectors(f, v), ValidateNurbsKnotVectors(f, w))
  BY <1>1, PlacedAlike DEF ValidateNurbsKnotVectors, AddAt
<1>3. Alike(o, ValidateGeneralizedDrawingPrimitives(f, v), ValidateGeneralizedDrawingPrimitives(f, w))
  BY <1>1, PlacedAlike, AddAlike DEF ValidateGeneralizedDrawingPrimitives, AddAt
<1>4. Alike(o, ValidateExternalElements(f, v), ValidateExternalElements(f, w))
  BY <1>1, PlacedAlike, AddAlike DEF ValidateExternalElements, AddAt
<1> QED
  BY <1>2, <1>3, <1>4

\* The libraries of an earlier file are forgotten before they are looked at.
LEMMA SymbolsEqual ==
  ASSUME NEW f, NEW o, NEW v, NEW w, Alike(o, v, w)
  PROVE  /\ ValidateSymbolReferences(f, v) = ValidateSymbolReferences(f, w)
         /\ Alike(o, ValidateSymbolReferences(f, v), ValidateSymbolReferences(f, v))
<1>1. /\ Same(o, v) /\ Same(o, w) /\ v.messages = w.messages /\ v.picture = w.picture
      /\ v.kind = w.kind /\ v.version = w.version /\ v.allowSegments = w.allowSegments
  BY DEF Alike, Same
<1>2. PICK end, m, p, l : /\ end = SymbolReferences(f.commands, v.picture) /\ m = v.messages \o end.messages
                          /\ p = end.picture /\ l = end.libraries
  OBVIOUS
<1>3. ASSUME NEW u, Same(o, u), u.messages = v.messages, u.picture = v.picture
      PROVE  ValidateSymbolReferences(f, u) = Validator(u.kind, u.version, u.allowSegments, m, p, l)
  <2>1. PICK x : x = [u EXCEPT !.messages = m, !.picture = p]
    OBVIOUS
  <2>2. AddAll(u, end) = x
    BY <1>2, <1>3, <2>1 DEF AddAll
  <2>3. x = Validator(u.kind, u.version, u.allowSegments, m, p, u.libraries)
    <3>1. IsValidator(u)
      BY <1>3 DEF Same
    <3> QED
      BY <2>1, <3>1, PictureChanged
  <2>4. /\ IsValidator(x) /\ x.kind = u.kind /\ x.version = u.version /\ x.allowSegments = u.allowSegments
        /\ x.messages = m /\ x.picture = p
    BY <2>3, ValidatorFields
  <2>5. [x EXCEPT !.libraries = l] = Validator(u.kind, u.version, u.allowSegments, m, p, l)
    BY <2>4, LibrariesChanged
  <2> QED
    BY <1>2, <1>3, <2>2, <2>5 DEF ValidateSymbolReferences
<1>4. /\ ValidateSymbolReferences(f, v) = Validator(v.kind, v.version, v.allowSegments, m, p, l)
      /\ ValidateSymbolReferences(f, w) = Validator(v.kind, v.version, v.allowSegments, m, p, l)
  BY <1>1, <1>3
<1>5. Same(o, ValidateSymbolReferences(f, v))
  BY <1>1, <1>4, SameChanged
<1> QED
  BY <1>4, <1>5 DEF Alike

LEMMA FigureAlike ==
  ASSUME NEW f, NEW o, NEW v, NEW w, Alike(o, v, w)
  PROVE  Alike(o, ValidateFigureComplexity(f, v), ValidateFigureComplexity(f, w))
<1>1. v.picture = w.picture
  BY DEF Alike
<1> QED
  BY <1>1, PlacedAlike DEF ValidateFigureComplexity, AddAll

LEMMA UsesAlike ==
  ASSUME NEW f, NEW o, NEW v, NEW w, Alike(o, v, w)
  PROVE  /\ Alike(o, ValidateUses(f, v), ValidateUses(f, w))
         /\ ValidateUses(f, v) = ValidateUses(f, w)
<1>1. ASSUME NEW u, NEW x, Alike(o, u, x)
      PROVE  /\ Alike(o, ValidateColorTable(f, u), ValidateColorTable(f, x))
             /\ Alike(o, ValidateProtectionRegions(f, u), ValidateProtectionRegions(f, x))
             /\ Alike(o, ValidateConicArcFallback(f, u), ValidateConicArcFallback(f, x))
             /\ Alike(o, ValidateTileCompression(f, u), ValidateTileCompression(f, x))
  BY <1>1, AddAlike DEF ValidateColorTable, ValidateProtectionRegions, ValidateConicArcFallback,
                        ValidateTileCompression
<1>2. PICK a, b :
        /\ a = ValidateConicArcFallback(f, ValidateNurbsKnotVectors(f, ValidateProtectionRegions(f, ValidateColorTable(f, v))))
        /\ b = ValidateConicArcFallback(f, ValidateNurbsKnotVectors(f, ValidateProtectionRegions(f, ValidateColorTable(f, w))))
  OBVIOUS
<1>3. Alike(o, a, b)
  BY <1>1, <1>2, AddAtAlike
<1>4. PICK c, d : /\ c = ValidateSymbolReferences(f, ValidateGeneralizedDrawingPrimitives(f, a))
                  /\ d = ValidateSymbolReferences(f, ValidateGeneralizedDrawingPrimitives(f, b))
  OBVIOUS
<1>5. c = d /\ Alike(o, c, c)
  <2>1. PICK x, y : x = ValidateGeneralizedDrawingPrimitives(f, a) /\ y = ValidateGeneralizedDrawingPrimitives(f, b)
    OBVIOUS
  <2>2. Alike(o, x, y)
    BY <1>3, <2>1, AddAtAlike
  <2> QED
    BY <1>4, <2>1, <2>2, SymbolsEqual
<1>6. LET x == ValidateTileCompression(f, ValidateFigureComplexity(f, ValidateExternalElements(f, c)))
      IN  Alike(o, x, x)
  BY <1>1, <1>5, AddAtAlike, FigureAlike
<1> QED
  BY <1>2, <1>4, <1>5, <1>6 DEF ValidateUses

LEMMA MeasuresAlike ==
  ASSUME NEW f, NEW o, NEW v, NEW w, Alike(o, v, w)
  PROVE  Alike(o, ValidateMeasures(f, v), ValidateMeasures(f, w))
<1>1. ASSUME NEW u, NEW x, Alike(o, u, x)
      PROVE  /\ Alike(o, ValidateProfileDeclaration(f, u), ValidateProfileDeclaration(f, x))
             /\ Alike(o, ValidateCoordinateNormalization(f, u), ValidateCoordinateNormalization(f, x))
             /\ Alike(o, ValidateTextBaselineAndUpVector(f, u), ValidateTextBaselineAndUpVector(f, x))
             /\ Alike(o, ValidateLineAndEdgeMetrics(f, u), ValidateLineAndEdgeMetrics(f, x))
  BY <1>1, AddAlike DEF ValidateProfileDeclaration, ValidateCoordinateNormalization,
                        ValidateTextBaselineAndUpVector, ValidateLineAndEdgeMetrics
<1> QED
  BY <1>1 DEF ValidateMeasures

LEMMA ElementsAlike ==
  ASSUME NEW f, NEW o, NEW v, NEW w, Alike(o, v, w)
  PROVE  Alike(o, ValidateElements(f, v), ValidateElements(f, w))
<1>1. ASSUME NEW u, NEW x, Alike(o, u, x)
      PROVE  /\ Alike(o, ValidateFragmentIDLongForm(f, u), ValidateFragmentIDLongForm(f, x))
             /\ Alike(o, ValidateDegeneracyRules(f, u), ValidateDegeneracyRules(f, x))
             /\ Alike(o, ValidateRasterAspectPreservation(f, u), ValidateRasterAspectPreservation(f, x))
             /\ Alike(o, ValidateEnhancedURIValidation(f, u), ValidateEnhancedURIValidation(f, x))
             /\ Alike(o, ValidateEnhancedColor(f, u), ValidateEnhancedColor(f, x))
             /\ Alike(o, ReportCharacterEncodingFindings(f, u), ReportCharacterEncodingFindings(f, x))
  BY <1>1, AddAlike DEF ValidateFragmentIDLongForm, ValidateDegeneracyRules, ValidateRasterAspectPreservation,
                        ValidateEnhancedURIValidation, ValidateEnhancedColor, ReportCharacterEncodingFindings
<1>2. ASSUME NEW u, NEW x, Alike(o, u, x)
      PROVE  Alike(o, ValidateElementSetRestrictions(f, u), ValidateElementSetRestrictions(f, x))
  <2>1. u.allowSegments = x.allowSegments
    BY <1>2 DEF Alike, Same
  <2> QED
    BY <1>2, <2>1, AddAlike DEF ValidateElementSetRestrictions
<1> QED
  BY <1>1, <1>2 DEF ValidateElements

LEMMA WebCgmAlike ==
  ASSUME NEW f, NEW o, NEW v, NEW w, Same(o, v), Same(o, w)
  PROVE  Alike(o, ValidateWebCgm(f, v), ValidateWebCgm(f, w))
<1>1. PICK words : words = Tell("WebCGM") \o If(v.allowSegments, Tell("segments accepted"))
  OBVIOUS
<1>2. Alike(o, Add(Begin(v), words), Add(Begin(w), words))
  BY BeginAlike, AddAlike
<1>3. v.allowSegments = w.allowSegments
  BY DEF Same
<1>4. PICK a, b : a = Add(Begin(v), words) /\ b = Add(Begin(w), words)
  OBVIOUS
<1>5. Alike(o, ValidateStructure(f, ValidateContent(f, a)), ValidateStructure(f, ValidateContent(f, b)))
  BY <1>2, <1>4, ContentAlike, StructureAlike
<1>6. PICK c, d : /\ c = ValidateUses(f, ValidateStructure(f, ValidateContent(f, a)))
                  /\ d = ValidateUses(f, ValidateStructure(f, ValidateContent(f, b)))
  OBVIOUS
<1>7. Alike(o, c, d)
  BY <1>5, <1>6, UsesAlike
<1>8. Alike(o, ValidateElements(f, ValidateMeasures(f, c)), ValidateElements(f, ValidateMeasures(f, d)))
  BY <1>7, MeasuresAlike, ElementsAlike
<1>9. /\ ValidateWebCgm(f, v) = ValidateElements(f, ValidateMeasures(f, c))
      /\ ValidateWebCgm(f, w) = ValidateElements(f, ValidateMeasures(f, d))
  BY <1>1, <1>3, <1>4, <1>6 DEF ValidateWebCgm
<1> QED
  BY <1>8, <1>9

LEMMA AtaAlike ==
  ASSUME NEW f, NEW o, NEW v, NEW w, Same(o, v), Same(o, w)
  PROVE  Alike(o, ValidateAta(f, v), ValidateAta(f, w))
<1>1. ASSUME NEW u, NEW x, Alike(o, u, x)
      PROVE  /\ Alike(o, ValidateEdgeVisibility(f, u), ValidateEdgeVisibility(f, x))
             /\ Alike(o, ValidateAtaDrawingPrimitives(f, u), ValidateAtaDrawingPrimitives(f, x))
             /\ Alike(o, ValidateExternalReferences(f, u), ValidateExternalReferences(f, x))
             /\ Alike(o, ValidateColorClass(f, u), ValidateColorClass(f, x))
             /\ Alike(o, ValidateColorClassDeclaration(f, u), ValidateColorClassDeclaration(f, x))
  BY <1>1, AddAlike DEF ValidateEdgeVisibility, ValidateAtaDrawingPrimitives, ValidateExternalReferences,
                        ValidateColorClass, ValidateColorClassDeclaration
<1>2. ASSUME NEW u, NEW x, Alike(o, u, x)
      PROVE  Alike(o, ValidateProfileDeclarationAta(f, u), ValidateProfileDeclarationAta(f, x))
  <2>1. u.version = x.version
    BY <1>2 DEF Alike, Same
  <2> QED
    BY <1>2, <2>1, AddAlike DEF ValidateProfileDeclarationAta
<1>3. PICK start, again, inner : /\ start = Add(Begin(v), Tell("ATA")) /\ again = Add(Begin(w), Tell("ATA"))
                                 /\ inner = ValidateWebCgm(f, NewValidator("WebCGM", "", FALSE)).messages
  OBVIOUS
<1>4. Alike(o, start, again)
  BY <1>3, BeginAlike, AddAlike
<1>5. Alike(o, [start EXCEPT !.messages = start.messages \o inner], [again EXCEPT !.messages = again.messages \o inner])
  BY <1>4, MoreAlike
<1> QED
  BY <1>1, <1>2, <1>3, <1>5 DEF ValidateAta

LEMMA S1000DAlike ==
  ASSUME NEW f, NEW o, NEW v, NEW w, Same(o, v), Same(o, w)
  PROVE  Alike(o, ValidateS1000D(f, v), ValidateS1000D(f, w))
<1>1. ASSUME NEW u, NEW x, Alike(o, u, x)
      PROVE  /\ Alike(o, ValidateMetadata(f, u), ValidateMetadata(f, x))
             /\ Alike(o, ValidateCsdbNaming(f, u), ValidateCsdbNaming(f, x))
             /\ Alike(o, ValidateTextHeights(f, u), ValidateTextHeights(f, x))
             /\ Alike(o, ValidateApsBinding(f, u), ValidateApsBinding(f, x))
  BY <1>1, AddAlike DEF ValidateMetadata, ValidateCsdbNaming, ValidateTextHeights, ValidateApsBinding
<1>2. ASSUME NEW u, NEW x, Alike(o, u, x)
      PROVE  /\ Alike(o, ValidateMonochromePolicy(f, u), ValidateMonochromePolicy(f, x))
             /\ Alike(o, ValidateApsConstraints(f, u), ValidateApsConstraints(f, x))
             /\ Alike(o, ValidateDescriptionFormat(f, u), ValidateDescriptionFormat(f, x))
  BY <1>2, AddAlike DEF ValidateMonochromePolicy, ValidateApsConstraints, ValidateDescriptionFormat
<1>3. PICK start, again, inner : /\ start = Add(Begin(v), Tell("S1000D")) /\ again = Add(Begin(w), Tell("S1000D"))
                                 /\ inner = ValidateAta(f, NewValidator("ATA", "2.9", FALSE)).messages
  OBVIOUS
<1>4. Alike(o, start, again)
  BY <1>3, BeginAlike, AddAlike
<1>5. Alike(o, [start EXCEPT !.messages = start.messages \o inner], [again EXCEPT !.messages = again.messages \o inner])
  BY <1>4, MoreAlike
<1> QED
  BY <1>1, <1>2, <1>3, <1>5 DEF ValidateS1000D

\* Validating depends on no more than what the validator was made with.
LEMMA ValidateAlike ==
  ASSUME NEW f, NEW o, NEW v, NEW w, Same(o, v), Same(o, w), v.kind \in {"WebCGM", "ATA", "S1000D"}
  PROVE  Alike(o, Validate(f, v), Validate(f, w))
<1>1. v.kind = w.kind
  BY DEF Same
<1> QED
  BY <1>1, WebCgmAlike, AtaAlike, S1000DAlike DEF Validate
-----------------------------------------------------------------------------
\* A validator that is kept is still what it was made, and says what a new one would.
KeptInv ==
  validator # NoValidator =>
    /\ IsValidator(validator) /\ validator.kind \in {"WebCGM", "ATA", "S1000D"}
    /\ KeptIsFresh

LEMMA FreshSame ==
  ASSUME NEW v, IsValidator(v)
  PROVE  Same(v, v) /\ Same(v, Fresh(v))
<1>1. Fresh(v) = Validator(v.kind, v.version, v.allowSegments, <<>>, 0, <<>>)
  BY DEF Fresh, NewValidator, Validator
<1> QED
  BY <1>1, ValidatorFields DEF Same

\* What has validated a file says of it what a new validator would.
LEMMA ValidatedIsFresh ==
  ASSUME NEW f, NEW v, IsValidator(v), v.kind \in {"WebCGM", "ATA", "S1000D"}, NEW w, w = Validate(f, v)
  PROVE  /\ IsValidator(w) /\ w.kind \in {"WebCGM", "ATA", "S1000D"}
         /\ w.messages = Validate(f, NewValidator(w.kind, w.version, w.allowSegments)).messages
<1>1. Alike(v, w, Validate(f, Fresh(v)))
  BY FreshSame, ValidateAlike
<1>2. Same(v, w)
  BY <1>1 DEF Alike
<1>3. Fresh(w) = Fresh(v)
  BY <1>2 DEF Same, Fresh
<1> QED
  BY <1>1, <1>2, <1>3 DEF Alike, Same, Fresh

LEMMA CreatedIsValidator ==
  ASSUME NEW profile
  PROVE  /\ IsValidator(CreateValidator(profile))
         /\ CreateValidator(profile).kind \in {"WebCGM", "ATA", "S1000D"}
<1>1. ASSUME NEW kind \in {"WebCGM", "ATA", "S1000D"}, NEW version, NEW allowSegments
      PROVE  /\ IsValidator(NewValidator(kind, version, allowSegments))
             /\ NewValidator(kind, version, allowSegments).kind = kind
  <2>1. NewValidator(kind, version, allowSegments) = Validator(kind, version, allowSegments, <<>>, 0, <<>>)
    BY DEF NewValidator, Validator
  <2> QED
    BY <2>1, ValidatorFields
<1> QED
  BY <1>1 DEF CreateValidator

\* A validator may be used for one file after the other (the validate() of the
\* three validators): nothing it has kept changes what it says.
THEOREM KeptAlwaysFresh == Spec => []KeptIsFresh
<1>1. Init => KeptInv
  BY DEF Init, KeptInv
<1>2. KeptInv /\ [Next]_vars => KeptInv'
  <2> SUFFICES ASSUME KeptInv, [Next]_vars PROVE KeptInv'
    OBVIOUS
  <2>1. CASE Create
    <3>1. PICK profile \in Kept : validator' = Validate(file, CreateValidator(profile))
      BY <2>1 DEF Create
    <3>2. file' = file
      BY <2>1 DEF Create
    <3> QED
      BY <3>1, <3>2, CreatedIsValidator, ValidatedIsFresh DEF KeptInv, KeptIsFresh
  <2>2. CASE ValidateNext
    <3>1. validator' = Validate(file', validator) /\ validator # NoValidator
      BY <2>2 DEF ValidateNext
    <3> QED
      BY <3>1, ValidatedIsFresh DEF KeptInv, KeptIsFresh
  <2>3. CASE ValidateProfile \/ UNCHANGED vars
    <3>1. file' = file /\ validator' = validator
      BY <2>3 DEF ValidateProfile, vars
    <3> QED
      BY <3>1 DEF KeptInv, KeptIsFresh
  <2> QED
    BY <2>1, <2>2, <2>3 DEF Next
<1>3. KeptInv => KeptIsFresh
  BY DEF KeptInv, KeptIsFresh
<1> QED
  BY <1>1, <1>2, <1>3, PTL DEF Spec
-----------------------------------------------------------------------------
(***************************************************************************)
(* Loops.                                                                  *)
(***************************************************************************)

LEMMA Counting ==
  ASSUME NEW Good, 0 \in Good, \A n \in Nat : n \in Good => n + 1 \in Good
  PROVE  Nat \subseteq Good
<1> DEFINE Bad == {n \in Nat : n \notin Good}
           R == {ss \in Nat \X Nat : ss[1] < ss[2]}
<1>1. SUFFICES ASSUME Bad # {} PROVE FALSE
  OBVIOUS
<1>2. IsWellFoundedOn(R, Nat)
  BY NatLessThanWellFounded, Zenon DEF OpToRel
<1>3. Bad \subseteq Nat
  OBVIOUS
<1>4. PICK m \in Bad : \A y \in Bad : ~(<<y, m>> \in R)
  <2> HIDE DEF R, Bad
  <2> QED
    BY <1>1, <1>2, <1>3, WFMin
<1>5. m \in Nat /\ m # 0 /\ m - 1 \in Nat
  BY <1>4
<1>6. <<m - 1, m>> \in R
  BY <1>5
<1>7. m - 1 \in Good
  BY <1>4, <1>5, <1>6
<1>8. (m - 1) + 1 \in Good
  <2> HIDE DEF R, Bad
  <2> QED
    BY <1>5, <1>7
<1> QED
  BY <1>4, <1>5, <1>8

\* A loop of n turns: what holds before it and is kept by every turn.
LEMMA HoldsThroughout ==
  ASSUME NEW n \in Nat, NEW G, 0 \in G, \A i \in 1..n : i - 1 \in G => i \in G
  PROVE  0..n \subseteq G
<1> DEFINE H == {i \in Nat : i <= n => i \in G}
<1>1. 0 \in H
  OBVIOUS
<1>2. ASSUME NEW k \in Nat, k \in H PROVE k + 1 \in H
  <2>1. SUFFICES ASSUME k + 1 <= n PROVE k + 1 \in G
    OBVIOUS
  <2>2. k + 1 \in 1..n /\ (k + 1) - 1 = k /\ k \in G
    BY <1>2, <2>1
  <2> QED
    BY <2>2
<1>3. Nat \subseteq H
  <2> HIDE DEF H
  <2> QED
    BY <1>1, <1>2, Counting
<1> QED
  BY <1>3

\* A loop whose state stays in a set can be run.
IsRun(a, S, n, x, g) == a \in [0..n -> S] /\ a[0] = x /\ \A i \in 1..n : a[i] = g[i][a[i - 1]]

LEMMA Turns ==
  ASSUME NEW S, NEW n, n \in Nat, NEW x, x \in S, NEW g, g \in [1..n -> [S -> S]]
  PROVE  \E a : IsRun(a, S, n, x, g)
<1> DEFINE G == {m \in 0..n : \E a \in [0..m -> S] : \A i \in 0..m : a[i] = IF i = 0 THEN x ELSE g[i][a[i - 1]]}
<1>1. 0 \in G
  <2>1. PICK a : a = [i \in 0..0 |-> x]
    OBVIOUS
  <2>2. a \in [0..0 -> S] /\ \A i \in 0..0 : a[i] = IF i = 0 THEN x ELSE g[i][a[i - 1]]
    BY <2>1
  <2> QED
    BY <2>2
<1>2. ASSUME NEW i \in 1..n, i - 1 \in G PROVE i \in G
  <2>1. PICK k : k = i - 1
    OBVIOUS
  <2>2. k \in Nat /\ i = k + 1 /\ k \in G /\ i \in 0..n
    BY <1>2, <2>1
  <2>3. PICK a \in [0..k -> S] : \A j \in 0..k : a[j] = IF j = 0 THEN x ELSE g[j][a[j - 1]]
    BY <2>2
  <2>4. a[k] \in S
    BY <2>2
  <2>5. PICK y \in S : y = g[i][a[k]]
    BY <2>4
  <2>6. PICK b : b = [j \in 0..i |-> IF j = i THEN y ELSE a[j]]
    OBVIOUS
  <2>7. b[i] = y /\ \A j \in 0..k : b[j] = a[j]
    BY <2>2, <2>6
  <2>8. b \in [0..i -> S]
    BY <2>2, <2>6
  <2>9. ASSUME NEW j \in 0..i PROVE b[j] = IF j = 0 THEN x ELSE g[j][b[j - 1]]
    <3>1. CASE j = i
      BY <2>1, <2>2, <2>5, <2>7, <3>1
    <3>2. CASE j # i
      <4>1. j \in 0..k /\ (j # 0 => j - 1 \in 0..k)
        BY <2>2, <3>2
      <4> QED
        BY <2>3, <2>7, <4>1
    <3> QED
      BY <3>1, <3>2
  <2> QED
    BY <2>2, <2>8, <2>9
<1>3. n \in G
  <2>1. 0..n \subseteq G
    <3> HIDE DEF G
    <3> QED
      BY <1>1, <1>2, HoldsThroughout
  <2> QED
    BY <2>1
<1>4. PICK a \in [0..n -> S] : \A i \in 0..n : a[i] = IF i = 0 THEN x ELSE g[i][a[i - 1]]
  BY <1>3
<1>5. a[0] = x
  BY <1>4
<1>6. ASSUME NEW i \in 1..n PROVE a[i] = g[i][a[i - 1]]
  BY <1>4, i # 0
<1> QED
  BY <1>5, <1>6 DEF IsRun

LEMMA Stays ==
  ASSUME NEW n \in Nat, NEW S, NEW b, b[0] \in S, \A i \in 1..n : b[i - 1] \in S => b[i] \in S
  PROVE  \A i \in 0..n : b[i] \in S
<1> DEFINE G == {i \in 0..n : b[i] \in S}
<1>1. 0 \in G /\ \A i \in 1..n : i - 1 \in G => i \in G
  OBVIOUS
<1>2. 0..n \subseteq G
  <2> HIDE DEF G
  <2> QED
    BY <1>1, HoldsThroughout
<1> QED
  BY <1>2

\* What there is so far.
IsJoining(b, S, n, ss) ==
  b[0] = <<>> /\ (\A i \in 1..n : b[i] = b[i - 1] \o ss[i]) /\ (\A i \in 0..n : b[i] \in Seq(S)) /\ Concatenation(ss) = b[n]

LEMMA Joining ==
  ASSUME NEW S, NEW n \in Nat, NEW ss \in [1..n -> Seq(S)]
  PROVE  \E b : IsJoining(b, S, n, ss)
<1>1. PICK g : g = [i \in 1..n |-> [y \in Seq(S) |-> y \o ss[i]]]
  OBVIOUS
<1>2. g \in [1..n -> [Seq(S) -> Seq(S)]]
  BY <1>1
<1>3. <<>> \in Seq(S)
  OBVIOUS
<1>4. PICK a \in [0..n -> Seq(S)] : a[0] = <<>> /\ \A i \in 1..n : a[i] = g[i][a[i - 1]]
  <2> DEFINE T == Seq(S)
             e == <<>>
  <2>1. e \in T /\ g \in [1..n -> [T -> T]]
    BY <1>2
  <2>2. \E a : IsRun(a, T, n, e, g)
    <3> HIDE DEF T, e
    <3> QED
      BY <2>1, Turns
  <2> QED
    BY <2>2 DEF IsRun
<1>5. ASSUME NEW i \in 0..n PROVE a[i] = IF i = 0 THEN <<>> ELSE a[i - 1] \o ss[i]
  <2>1. CASE i = 0
    BY <1>4, <2>1
  <2>2. CASE i # 0
    <3>1. i \in 1..n /\ i - 1 \in 0..n
      BY <2>2
    <3>2. a[i - 1] \in Seq(S)
      BY <3>1
    <3> QED
      BY <1>1, <1>4, <2>2, <3>1, <3>2
  <2> QED
    BY <2>1, <2>2
<1>6. a = [i \in 0..n |-> IF i = 0 THEN <<>> ELSE a[i - 1] \o ss[i]]
  BY <1>5
<1>7. Len(ss) = n
  BY LenProperties, ss \in Seq(Seq(S))
<1>8. PICK b : /\ b = CHOOSE h : h = [i \in 0..n |-> IF i = 0 THEN <<>> ELSE h[i - 1] \o ss[i]]
               /\ b = [i \in 0..n |-> IF i = 0 THEN <<>> ELSE b[i - 1] \o ss[i]]
  BY <1>6
<1>9. Concatenation(ss) = b[n]
  BY <1>7, <1>8 DEF Concatenation
<1>10. \A i \in 0..n : b[i] = IF i = 0 THEN <<>> ELSE b[i - 1] \o ss[i]
  <2> DEFINE B(i) == IF i = 0 THEN <<>> ELSE b[i - 1] \o ss[i]
  <2>1. b = [i \in 0..n |-> B(i)]
    BY <1>8
  <2>2. \A i \in 0..n : b[i] = B(i)
    <3> HIDE DEF B
    <3> QED
      BY <2>1
  <2> QED
    BY <2>2
<1>11. b[0] = <<>>
  BY <1>10, 0 \in 0..n
<1>12. ASSUME NEW i \in 1..n, b[i - 1] \in Seq(S) PROVE b[i] \in Seq(S)
  <2>1. i \in 0..n /\ i # 0
    OBVIOUS
  <2>2. b[i] = b[i - 1] \o ss[i]
    BY <1>10, <2>1
  <2>3. ss[i] \in Seq(S)
    OBVIOUS
  <2> QED
    BY <1>12, <2>2, <2>3
<1>13. \A i \in 0..n : b[i] \in Seq(S)
  <2> DEFINE T == Seq(S)
  <2>1. b[0] \in T /\ \A i \in 1..n : b[i - 1] \in T => b[i] \in T
    BY <1>3, <1>11, <1>12
  <2>2. \A i \in 0..n : b[i] \in T
    <3> HIDE DEF T
    <3> QED
      BY <2>1, Stays
  <2> QED
    BY <2>2
<1>14. ASSUME NEW i \in 1..n PROVE b[i] = b[i - 1] \o ss[i]
  <2>1. i \in 0..n /\ i # 0
    OBVIOUS
  <2> QED
    BY <1>10, <2>1
<1> QED
  BY <1>9, <1>11, <1>13, <1>14 DEF IsJoining

LEMMA Concatenated ==
  ASSUME NEW S, NEW n \in Nat, NEW ss \in [1..n -> Seq(S)]
  PROVE  Concatenation(ss) \in Seq(S)
<1>1. PICK b : IsJoining(b, S, n, ss)
  BY Joining
<1> QED
  BY <1>1, n \in 0..n DEF IsJoining
-----------------------------------------------------------------------------
(***************************************************************************)
(* What is said, of lists of commands.                                     *)
(***************************************************************************)

Severities == {"ERROR", "WARNING", "INFO"}
Remark(W) == [severity : Severities, what : W]
Words(W) == Seq(Remark(W))

SpecialErrors == {"prohibited", "segment prohibited", "APPEND TEXT missing", "APPEND TEXT out of place",
                  "large region", "large figure"} \cup StructureErrors
SpecialWarnings == {"no libraries", "no such symbol", "symbol missing", "other edition", "segments accepted"}

\* What no property asks about.
UsualErrors ==
  {"EXTERNAL", "GDP", "GDP forbidden", "GDP not allowed", "GDP prohibited", "UTF-8",
   "alignment", "all or none", "base vector", "binding by id", "cells of a tile",
   "colour class", "compression", "control", "extent", "external", "external reference",
   "file name", "knots", "long data", "long form", "long text", "name does not match",
   "no BEGIN METAFILE", "no ICN", "no colour class", "no commands", "no description",
   "no pairs", "no pictures", "no profile", "not a grobject", "not a state list",
   "not the ATA profile", "not the S1000D profile", "pictures", "region index",
   "regions", "structure mismatch", "text height", "up vector", "version", "width"}

UsualWarnings ==
  {"CMYK", "ICN format", "U+FFFD", "aspect", "aspect of a tile", "attribute outside",
   "beyond the maximum", "binding by name", "bodies", "body mismatch", "bound twice",
   "colours mixed", "companion", "control points", "degenerate",
   "duplicate identifiers", "element in defaults", "empty identifier", "empty item",
   "empty keyword", "extension", "far coordinates", "hidden edge", "illegal controls",
   "library missing", "link backslash", "link on type", "link relative",
   "long form number", "long form type", "no END METAFILE", "no body", "no colon",
   "no edition", "no extent", "no issue", "no maximum", "not black", "not clamped",
   "not cubic", "not declared", "not grey", "oblique", "old compression",
   "other profile", "parts of the name", "record binary", "record truncated",
   "structure bodies", "unclosed", "unresolved", "unsupported designation"}

UsualNotes ==
  {"ATA", "ATA profile", "GDP ignored", "ICN", "RGB", "S1000D", "S1000D profile",
   "WebCGM", "all grey", "attribute", "binary encoding", "bindings", "bindings by hand",
   "colour model", "colour policy", "colours", "conic arcs", "custom type", "declared",
   "defaults", "edition", "external ignored", "hidden edges", "highlights",
   "indexed colour", "issue", "libraries", "library", "link", "maximum", "name matches",
   "no palette", "no security", "no type", "nothing filled", "one picture", "pairs",
   "records", "samples", "security", "structures", "symbol", "text heights", "tiles",
   "type", "view context", "visible edges", "whole palette", "width mode"}

Usual == UsualErrors \cup UsualWarnings \cup UsualNotes

LEMMA UsualIsUsual == Usual \cap (SpecialErrors \cup SpecialWarnings) = {}
<1>1. UsualErrors \cap SpecialErrors = {} /\ UsualErrors \cap SpecialWarnings = {}
  BY DEF UsualErrors, SpecialErrors, SpecialWarnings, StructureErrors
<1>2. UsualWarnings \cap SpecialErrors = {} /\ UsualWarnings \cap SpecialWarnings = {}
  BY DEF UsualWarnings, SpecialErrors, SpecialWarnings, StructureErrors
<1>3. UsualNotes \cap SpecialErrors = {} /\ UsualNotes \cap SpecialWarnings = {}
  BY DEF UsualNotes, SpecialErrors, SpecialWarnings, StructureErrors
<1> QED
  BY <1>1, <1>2, <1>3 DEF Usual

LEMMA SaidOne ==
  ASSUME NEW W, NEW what, what \in W
  PROVE  Err(what) \in Words(W) /\ Warn(what) \in Words(W) /\ Tell(what) \in Words(W)
BY DEF Err, Warn, Tell, Say, Words, Remark, Severities

LEMMA SaidNothing ==
  ASSUME NEW W
  PROVE  <<>> \in Words(W)
BY DEF Words

LEMMA SaidIf ==
  ASSUME NEW W, NEW c, NEW words, words \in Words(W)
  PROVE  If(c, words) \in Words(W)
BY DEF If, Words

LEMMA SaidBoth ==
  ASSUME NEW W, NEW words, NEW more, words \in Words(W), more \in Words(W)
  PROVE  words \o more \in Words(W)
BY DEF Words

LEMMA SaidTimes ==
  ASSUME NEW W, NEW n, n \in Nat, NEW what, what \in W
  PROVE  Times(n, Err(what)) \in Words(W) /\ Times(n, Warn(what)) \in Words(W) /\ Times(n, Tell(what)) \in Words(W)
BY DEF Times, Err, Warn, Tell, Say, Words, Remark, Severities

LEMMA SaidOfEach ==
  ASSUME NEW W, NEW n, n \in Nat, NEW ss, ss \in [1..n -> Words(W)]
  PROVE  Concatenation(ss) \in Words(W)
BY Concatenated DEF Words

LEMMA Lists ==
  ASSUME NEW s, IsList(s)
  PROVE  Len(s) \in Nat /\ DOMAIN s = 1..Len(s)
BY DEF IsList

LEMMA ListOf ==
  ASSUME NEW S, NEW s, s \in Seq(S)
  PROVE  IsList(s)
<1>1. Len(s) \in Nat /\ s \in [1..Len(s) -> {s[i] : i \in DOMAIN s}]
  OBVIOUS
<1> QED
  BY <1>1 DEF IsList

LEMMA PassingAre ==
  ASSUME NEW S, NEW n, n \in Nat, NEW ss, ss \in [1..n -> Seq(S)]
  PROVE  IsList(Concatenation(ss)) /\ Concatenation(ss) \in Seq(S)
BY Concatenated, ListOf

\* The commands of a kind are commands of that kind.
LEMMA AllAre ==
  ASSUME NEW code, NEW s, IsList(s)
  PROVE  /\ IsList(All(code, s))
         /\ All(code, s) \in Seq({c \in {s[i] : i \in DOMAIN s} : c.code = code})
<1> DEFINE S == {c \in {s[i] : i \in DOMAIN s} : c.code = code}
           ss == [i \in DOMAIN s |-> IF s[i].code = code THEN <<s[i]>> ELSE <<>>]
<1>1. Len(s) \in Nat /\ DOMAIN s = 1..Len(s)
  BY Lists
<1>2. ss \in [1..Len(s) -> Seq(S)]
  <2>1. ASSUME NEW i \in DOMAIN s PROVE ss[i] \in Seq(S)
    <3>1. CASE s[i].code = code
      <4>1. s[i] \in S
        BY <3>1
      <4>2. ss[i] = <<s[i]>>
        BY <3>1
      <4> HIDE DEF S, ss
      <4> QED
        BY <4>1, <4>2
    <3>2. CASE s[i].code # code
      BY <3>2
    <3> QED
      BY <3>1, <3>2
  <2>2. ss = [i \in 1..Len(s) |-> ss[i]]
    BY <1>1
  <2> HIDE DEF ss, S
  <2> QED
    BY <1>1, <2>1, <2>2
<1>3. All(code, s) = Concatenation(ss)
  BY DEF All, Those
<1>4. IsList(Concatenation(ss)) /\ Concatenation(ss) \in Seq(S)
  <2> HIDE DEF S, ss
  <2> QED
    BY <1>1, <1>2, PassingAre
<1> QED
  BY <1>3, <1>4

\* Passes that say what no property asks about, whatever the validator.
LEMMA StructureSaid ==
  ASSUME NEW f
  PROVE  \E words \in Words(Usual) : \A v : ValidateMetafileStructure(f, v) = Add(v, words)
<1>1. {"no commands", "no BEGIN METAFILE", "no END METAFILE"} \subseteq Usual
  BY DEF Usual, UsualErrors, UsualWarnings, UsualNotes
<1>2. \A c : /\ If(c, Err("no BEGIN METAFILE")) \in Words(Usual) /\ If(c, Warn("no END METAFILE")) \in Words(Usual)
             /\ Err("no commands") \in Words(Usual)
  BY <1>1, SaidOne, SaidIf
<1>3. \A c, d : If(c, Err("no BEGIN METAFILE")) \o If(d, Warn("no END METAFILE")) \in Words(Usual)
  BY <1>2, SaidBoth
<1> QED
  BY <1>2, <1>3 DEF ValidateMetafileStructure

LEMMA PictureCountSaid ==
  ASSUME NEW f
  PROVE  \E words \in Words(Usual) : \A v : ValidatePictureCount(f, v) = Add(v, words)
<1>1. {"no pictures", "one picture", "pictures"} \subseteq Usual
  BY DEF Usual, UsualErrors, UsualWarnings, UsualNotes
<1> QED
  BY <1>1, SaidOne DEF ValidatePictureCount

LEMMA VersionSaid ==
  ASSUME NEW f, IsMetafile(f)
  PROVE  \E words \in Words(Usual) : \A v : ValidateVersionSupport(f, v) = Add(v, words)
<1>1. "version" \in Usual
  BY DEF Usual, UsualErrors, UsualWarnings, UsualNotes
<1>2. \A c : VersionRemarks(c) \in Words(Usual)
  BY <1>1, SaidOne, SaidIf, SaidBoth DEF VersionRemarks
<1>3. PICK s : s = All(MetafileVersion, f.commands) /\ IsList(s)
  BY AllAre DEF IsMetafile
<1>4. [i \in DOMAIN s |-> VersionRemarks(s[i])] \in [1..Len(s) -> Words(Usual)]
  BY <1>2, <1>3, Lists
<1>5. Each(VersionRemarks, s) \in Words(Usual)
  BY <1>3, <1>4, Lists, SaidOfEach DEF Each
<1> QED
  BY <1>3, <1>5 DEF ValidateVersionSupport

LEMMA EncodingSaid ==
  ASSUME NEW f
  PROVE  \E words \in Words(Usual) : \A v : ValidateEncodingType(f, v) = Add(v, words)
<1>1. "binary encoding" \in Usual
  BY DEF Usual, UsualErrors, UsualWarnings, UsualNotes
<1> QED
  BY <1>1, SaidOne DEF ValidateEncodingType

LEMMA RepertoireSaid ==
  ASSUME NEW text, text.c0 + text.c1 \in Nat
  PROVE  CheckTextCharacterRepertoire(text) \in Words(Usual)
<1>1. {"UTF-8", "U+FFFD", "control"} \subseteq Usual
  BY DEF Usual, UsualErrors, UsualWarnings, UsualNotes
<1>2. PICK n : n = text.c0 + text.c1 /\ Times(n, Err("control")) \in Words(Usual)
  BY <1>1, SaidTimes
<1>3. If(text.invalid, Err("UTF-8")) \in Words(Usual) /\ If(text.replaced, Warn("U+FFFD")) \in Words(Usual)
  BY <1>1, SaidOne, SaidIf
<1>4. If(text.invalid, Err("UTF-8")) \o If(text.replaced, Warn("U+FFFD")) \o Times(n, Err("control")) \in Words(Usual)
  BY <1>2, <1>3, SaidBoth
<1> QED
  BY <1>2, <1>4, SaidIf DEF CheckTextCharacterRepertoire

LEMMA TextsSaid ==
  ASSUME NEW f, IsMetafile(f)
  PROVE  /\ \E words \in Words(Usual) : \A v : ValidateTextConstraints(f, v) = Add(v, words)
         /\ \E words \in Words(Usual) : \A v : ValidateNonGraphicalText(f, v) = Add(v, words)
<1>1. {"long text", "long data"} \subseteq Usual
  BY DEF Usual, UsualErrors, UsualWarnings, UsualNotes
<1>2. \A c : /\ If(c, Err("long text")) \in Words(Usual) /\ If(c, Err("long data")) \in Words(Usual)
             /\ <<>> \in Words(Usual)
  BY <1>1, SaidOne, SaidIf, SaidNothing
<1>3. PICK s : s = f.commands /\ IsList(s) /\ Len(s) \in Nat /\ DOMAIN s = 1..Len(s)
  BY Lists DEF IsMetafile
<1>4. ASSUME NEW i \in DOMAIN s
      PROVE  TextRemarks(s[i]) \in Words(Usual) /\ DataRemarks(s[i]) \in Words(Usual)
  <2>1. PICK c : c = s[i]
    OBVIOUS
  <2>2. c.code \in {Text, RestrictedText, AppendText, Message, ApplicationData} => c.text.c0 + c.text.c1 \in Nat
    BY <1>3, <2>1 DEF IsMetafile
  <2>3. c.code \in {Text, RestrictedText, AppendText, Message, ApplicationData} =>
           CheckTextCharacterRepertoire(c.text) \in Words(Usual)
    BY <2>2, RepertoireSaid
  <2>4. TextRemarks(c) \in Words(Usual)
    <3>1. CASE c.code \in {Text, RestrictedText}
      BY <3>1, <1>2, <2>3, SaidBoth DEF TextRemarks
    <3>2. CASE c.code = AppendText
      <4>1. AppendText \notin {Text, RestrictedText}
        BY DEF AppendText, Text, RestrictedText
      <4> QED
        BY <3>2, <4>1, <2>3 DEF TextRemarks
    <3>3. CASE c.code \notin {Text, RestrictedText, AppendText}
      BY <3>3, <1>2 DEF TextRemarks
    <3> QED
      BY <3>1, <3>2, <3>3
  <2>5. DataRemarks(c) \in Words(Usual)
    <3>1. CASE c.code \in {Message, ApplicationData}
      <4>1. Class(c) # 6
        BY <3>1 DEF Class, Message, ApplicationData
      <4> QED
        BY <3>1, <4>1, <1>2, <2>3, SaidBoth DEF DataRemarks
    <3>2. CASE c.code \notin {Message, ApplicationData}
      BY <3>2, <1>2 DEF DataRemarks
    <3> QED
      BY <3>1, <3>2
  <2> QED
    BY <2>1, <2>4, <2>5
<1>5. /\ [i \in DOMAIN s |-> TextRemarks(s[i])] \in [1..Len(s) -> Words(Usual)]
      /\ [i \in DOMAIN s |-> DataRemarks(s[i])] \in [1..Len(s) -> Words(Usual)]
  BY <1>3, <1>4
<1>6. Each(TextRemarks, s) \in Words(Usual) /\ Each(DataRemarks, s) \in Words(Usual)
  BY <1>3, <1>5, SaidOfEach DEF Each
<1> QED
  BY <1>3, <1>6 DEF ValidateTextConstraints, ValidateNonGraphicalText

LEMMA EncodingFindingsSaid ==
  ASSUME NEW f, IsMetafile(f)
  PROVE  \E words \in Words(Usual) : \A v : ReportCharacterEncodingFindings(f, v) = Add(v, words)
<1>1. {"unsupported designation", "illegal controls"} \subseteq Usual
  BY DEF Usual, UsualErrors, UsualWarnings, UsualNotes
<1>2. Len(f.unsupportedCharsets) \in Nat
  BY Lists DEF IsMetafile
<1>3. Times(Len(f.unsupportedCharsets), Warn("unsupported designation")) \in Words(Usual)
  BY <1>1, <1>2, SaidTimes
<1>4. If(f.illegalControls # {}, Warn("illegal controls")) \in Words(Usual)
  BY <1>1, SaidOne, SaidIf
<1> QED
  BY <1>3, <1>4, SaidBoth DEF ReportCharacterEncodingFindings

LEMMA AttributesSaid ==
  ASSUME NEW f, IsMetafile(f)
  PROVE  /\ \E words \in Words(Usual) : \A v : ValidateStructuredDataRecords(f, v) = Add(v, words)
         /\ \E words \in Words(Usual) : \A v : ValidateFragmentIDLongForm(f, v) = Add(v, words)
         /\ \E words \in Words(Usual) : \A v : ValidateEnhancedURIValidation(f, v) = Add(v, words)
<1>1. {"record truncated", "record binary", "records", "long form", "long form number", "long form type",
       "link", "view context"} \subseteq Usual
  BY DEF Usual, UsualErrors, UsualWarnings, UsualNotes
<1>2. \A c : RecordRemarks(c) \in Words(Usual)
  BY <1>1, SaidOne, SaidIf, SaidBoth DEF RecordRemarks
<1>3. \A c : LongFormRemarks(c) \in Words(Usual)
  <2>1. \A c, d, e : If(c, Warn("long form number")) \o If(d, Warn("long form type")) \o If(e, Tell("long form")) \in Words(Usual)
    BY <1>1, SaidOne, SaidIf, SaidBoth
  <2>2. <<>> \in Words(Usual) /\ Err("long form") \in Words(Usual)
    BY <1>1, SaidOne, SaidNothing
  <2> QED
    BY <2>1, <2>2 DEF LongFormRemarks
<1>4. \A c : LinkRemarks(c) \in Words(Usual)
  <2>1. \A c : If(c, Tell("link")) \in Words(Usual) /\ Tell("view context") \in Words(Usual) /\ <<>> \in Words(Usual)
    BY <1>1, SaidOne, SaidIf, SaidNothing
  <2> QED
    BY <2>1 DEF LinkRemarks
<1>5. PICK s : s = All(ApsAttribute, f.commands) /\ IsList(s)
  BY AllAre DEF IsMetafile
<1>6. /\ [i \in DOMAIN s |-> RecordRemarks(s[i])] \in [1..Len(s) -> Words(Usual)]
      /\ [i \in DOMAIN s |-> LongFormRemarks(s[i])] \in [1..Len(s) -> Words(Usual)]
      /\ [i \in DOMAIN s |-> LinkRemarks(s[i])] \in [1..Len(s) -> Words(Usual)]
  BY <1>2, <1>3, <1>4, <1>5, Lists
<1>7. Each(RecordRemarks, s) \in Words(Usual)
  BY <1>5, <1>6, Lists, SaidOfEach DEF Each
<1>8. Each(LongFormRemarks, s) \in Words(Usual)
  BY <1>5, <1>6, Lists, SaidOfEach DEF Each
<1>9. Each(LinkRemarks, s) \in Words(Usual)
  BY <1>5, <1>6, Lists, SaidOfEach DEF Each
<1>10. Each(RecordRemarks, s) \o If(s # <<>>, Tell("records")) \in Words(Usual)
  BY <1>1, <1>7, SaidOne, SaidIf, SaidBoth
<1> QED
  BY <1>5, <1>8, <1>9, <1>10 DEF ValidateStructuredDataRecords, ValidateFragmentIDLongForm, ValidateEnhancedURIValidation

\* No command has the number of COLOUR TABLE that the rule has.
LEMMA ColorTableSaid ==
  ASSUME NEW f, IsMetafile(f)
  PROVE  \E words \in Words(Usual) : \A v : ValidateColorTable(f, v) = Add(v, words)
<1>1. {"maximum", "no maximum", "no palette", "whole palette", "all or none"} \subseteq Usual
  BY DEF Usual, UsualErrors, UsualWarnings, UsualNotes
<1>2. PICK s : s = f.commands /\ IsList(s) /\ Len(s) \in Nat /\ DOMAIN s = 1..Len(s)
  BY Lists DEF IsMetafile
<1>3. Palettes(s) = <<>>
  <2>1. PICK ss : ss = [i \in DOMAIN s |-> IF s[i].code = PaletteElement /\ IsA(s[i], ColourTable)
                                           THEN <<s[i]>> ELSE <<>>]
    OBVIOUS
  <2>2. \A c : ~(c.code = PaletteElement /\ IsA(c, ColourTable))
    BY DEF IsA, PaletteElement, ColourTable
  <2>3. ss \in [1..Len(s) -> Seq({})]
    BY <1>2, <2>1, <2>2
  <2>4. Concatenation(ss) \in Seq({})
    BY <1>2, <2>3, PassingAre
  <2>5. Palettes(s) = Concatenation(ss)
    BY <2>1 DEF Palettes, Those
  <2> QED
    BY <2>4, <2>5
<1>4. \A last : BeyondRemarks(<<>>, last) \in Words(Usual)
  <2> SUFFICES ASSUME NEW last PROVE BeyondRemarks(<<>>, last) \in Words(Usual)
    OBVIOUS
  <2>1. PICK t, ts : t = <<>> /\ ts = [i \in DOMAIN t |-> Times(Cardinality({n \in IndicesOf(t[i]) : n > last}),
                                                                Warn("beyond the maximum"))]
    OBVIOUS
  <2>2. ts \in [1..0 -> Words(Usual)]
    BY <2>1
  <2>3. Concatenation(ts) \in Words(Usual)
    BY <2>2, SaidOfEach
  <2> QED
    BY <2>1, <2>3 DEF BeyondRemarks, Each
<1>5. \A c, d, e, a, b, last : If(c, Tell("maximum") \o BeyondRemarks(<<>>, last)) \o
           (IF a THEN If(b, Warn("no maximum")) ELSE IF d THEN Tell("no palette") ELSE
            IF e THEN Tell("whole palette") ELSE Err("all or none")) \in Words(Usual)
  <2>1. \A c, last : If(c, Tell("maximum") \o BeyondRemarks(<<>>, last)) \in Words(Usual)
    BY <1>1, <1>4, SaidOne, SaidIf, SaidBoth
  <2>2. \A b, d, e, a : (IF a THEN If(b, Warn("no maximum")) ELSE IF d THEN Tell("no palette") ELSE
            IF e THEN Tell("whole palette") ELSE Err("all or none")) \in Words(Usual)
    BY <1>1, SaidOne, SaidIf
  <2> QED
    BY <2>1, <2>2, SaidBoth
<1> QED
  BY <1>2, <1>3, <1>5 DEF ValidateColorTable

LEMMA SelectedAre ==
  ASSUME NEW s, IsList(s), NEW ss, ss = [i \in DOMAIN s |-> ss[i]],
         \A i \in DOMAIN s : ss[i] = <<s[i]>> \/ ss[i] = <<>>
  PROVE  IsList(Concatenation(ss)) /\ Concatenation(ss) \in Seq({s[i] : i \in DOMAIN s})
<1> DEFINE S == {s[i] : i \in DOMAIN s}
<1>1. Len(s) \in Nat /\ DOMAIN s = 1..Len(s)
  BY Lists
<1>2. ASSUME NEW i \in DOMAIN s PROVE ss[i] \in Seq(S)
  <2>1. s[i] \in S
    OBVIOUS
  <2> HIDE DEF S
  <2>2. <<s[i]>> \in Seq(S) /\ <<>> \in Seq(S)
    BY <2>1
  <2> QED
    BY <2>2
<1>3. ss \in [1..Len(s) -> Seq(S)]
  <2> HIDE DEF S
  <2> QED
    BY <1>1, <1>2
<1> QED
  BY <1>1, <1>3, PassingAre

LEMMA ColoursSaid ==
  ASSUME NEW f, IsMetafile(f)
  PROVE  \E words \in Words(Usual) : \A v : ValidateEnhancedColor(f, v) = Add(v, words)
<1>1. {"indexed colour", "colours mixed", "colours"} \subseteq Usual
  BY DEF Usual, UsualErrors, UsualWarnings, UsualNotes
<1>2. \A s : IsList(s) => IsList(Colourings(s)) /\ IsList(Indexed(s))
  <2> SUFFICES ASSUME NEW s, IsList(s) PROVE IsList(Colourings(s)) /\ IsList(Indexed(s))
    OBVIOUS
  <2>1. PICK ss, ts : /\ ss = [i \in DOMAIN s |-> IF s[i].code \in ColourCodes THEN <<s[i]>> ELSE <<>>]
                      /\ ts = [i \in DOMAIN s |-> IF s[i].indexed THEN <<s[i]>> ELSE <<>>]
    OBVIOUS
  <2>2. IsList(Concatenation(ss)) /\ IsList(Concatenation(ts))
    BY <2>1, SelectedAre
  <2> QED
    BY <2>1, <2>2 DEF Colourings, Indexed, Those
<1>3. PICK n : n = Len(Indexed(Colourings(f.commands))) /\ n \in Nat
  BY <1>2, Lists DEF IsMetafile
<1>4. Times(n, Tell("indexed colour")) \in Words(Usual)
  BY <1>1, <1>3, SaidTimes
<1>5. \A c, d : Times(n, Tell("indexed colour")) \o If(c, Warn("colours mixed")) \o If(d, Tell("colours")) \in Words(Usual)
  BY <1>1, <1>4, SaidOne, SaidIf, SaidBoth
<1> QED
  BY <1>3, <1>5 DEF ValidateEnhancedColor

LEMMA TilesSaid ==
  ASSUME NEW f, IsMetafile(f)
  PROVE  /\ \E words \in Words(Usual) : \A v : ValidateTileCompression(f, v) = Add(v, words)
         /\ \E words \in Words(Usual) : \A v : ValidateRasterAspectPreservation(f, v) = Add(v, words)
<1>1. {"old compression", "compression", "cells of a tile", "aspect of a tile", "tiles"} \subseteq Usual
  BY DEF Usual, UsualErrors, UsualWarnings, UsualNotes
<1>2. \A c : TileRemarks(c) \in Words(Usual)
  BY <1>1, SaidOne, SaidIf DEF TileRemarks
<1>3. \A c : TileArrayRemarks(c) \in Words(Usual)
  BY <1>1, SaidOne, SaidIf, SaidBoth DEF TileArrayRemarks
<1>4. PICK s, t : s = All(BeginTileArray, f.commands) /\ IsList(s) /\ t = f.commands /\ IsList(t)
  BY AllAre DEF IsMetafile
<1>5. /\ [i \in DOMAIN s |-> TileArrayRemarks(s[i])] \in [1..Len(s) -> Words(Usual)]
      /\ [i \in DOMAIN t |-> TileRemarks(t[i])] \in [1..Len(t) -> Words(Usual)]
  BY <1>2, <1>3, <1>4, Lists
<1>6. Each(TileArrayRemarks, s) \in Words(Usual)
  BY <1>4, <1>5, Lists, SaidOfEach DEF Each
<1>7. Each(TileRemarks, t) \in Words(Usual)
  BY <1>4, <1>5, Lists, SaidOfEach DEF Each
<1> QED
  BY <1>4, <1>6, <1>7 DEF ValidateTileCompression, ValidateRasterAspectPreservation

LEMMA ConicsSaid ==
  ASSUME NEW f
  PROVE  \E words \in Words(Usual) : \A v : ValidateConicArcFallback(f, v) = Add(v, words)
<1>1. "conic arcs" \in Usual
  BY DEF Usual, UsualErrors, UsualWarnings, UsualNotes
<1>2. \A c : If(c, Tell("conic arcs")) \in Words(Usual)
  BY <1>1, SaidOne, SaidIf
<1> QED
  BY <1>2 DEF ValidateConicArcFallback

LEMMA DegeneracySaid ==
  ASSUME NEW f, IsMetafile(f)
  PROVE  \E words \in Words(Usual) : \A v : ValidateDegeneracyRules(f, v) = Add(v, words)
<1>1. "degenerate" \in Usual
  BY DEF Usual, UsualErrors, UsualWarnings, UsualNotes
<1>2. PICK s : s = f.commands /\ IsList(s) /\ Len(s) \in Nat /\ DOMAIN s = 1..Len(s)
  BY Lists DEF IsMetafile
<1>3. PICK ss : ss = [i \in DOMAIN s |-> IF Degenerate(s[i]) THEN <<s[i]>> ELSE <<>>]
  OBVIOUS
<1>5. IsList(Concatenation(ss))
  BY <1>2, <1>3, SelectedAre
<1>6. Times(Len(Concatenation(ss)), Warn("degenerate")) \in Words(Usual)
  BY <1>1, <1>5, Lists, SaidTimes
<1> QED
  BY <1>2, <1>3, <1>6 DEF ValidateDegeneracyRules, Those

LEMMA MeasuresSaid ==
  ASSUME NEW f, IsMetafile(f)
  PROVE  /\ \E words \in Words(Usual) : \A v : ValidateCoordinateNormalization(f, v) = Add(v, words)
         /\ \E words \in Words(Usual) : \A v : ValidateTextBaselineAndUpVector(f, v) = Add(v, words)
         /\ \E words \in Words(Usual) : \A v : ValidateLineAndEdgeMetrics(f, v) = Add(v, words)
<1>1. {"extent", "far coordinates", "aspect", "no extent", "up vector", "base vector", "oblique", "alignment",
       "width", "width mode"} \subseteq Usual
  BY DEF Usual, UsualErrors, UsualWarnings, UsualNotes
<1>2. \A c : ExtentRemarks(c) \in Words(Usual)
  <2>1. \A c, d, e : If(c, Err("extent")) \o If(d, Warn("far coordinates")) \o If(e, Warn("aspect")) \o Tell("extent")
                       \in Words(Usual)
    BY <1>1, SaidOne, SaidIf, SaidBoth
  <2> QED
    BY <2>1 DEF ExtentRemarks
<1>3. \A c : OrientationRemarks(c) \in Words(Usual)
  <2>1. \A c, d, e : If(c, Err("up vector")) \o If(d, Err("base vector")) \o If(e, Warn("oblique")) \in Words(Usual)
    BY <1>1, SaidOne, SaidIf, SaidBoth
  <2>2. \A c, d : If(c, Err("alignment")) \o If(d, Err("alignment")) \in Words(Usual) /\ <<>> \in Words(Usual)
    BY <1>1, SaidOne, SaidIf, SaidBoth, SaidNothing
  <2> QED
    BY <2>1, <2>2 DEF OrientationRemarks
<1>4. \A c : WidthRemarks(c) \in Words(Usual)
  <2> SUFFICES ASSUME NEW c PROVE WidthRemarks(c) \in Words(Usual)
    OBVIOUS
  <2>1. Tell("width mode") \in Words(Usual) /\ <<>> \in Words(Usual) /\ Err("width") \in Words(Usual) /\ Warn("width") \in Words(Usual)
    BY <1>1, SaidOne, SaidNothing
  <2>2. If(c.width <= 0, Err("width")) \in Words(Usual) /\ If(c.width > 1000, Warn("width")) \in Words(Usual)
    BY <2>1 DEF If
  <2>3. If(c.width <= 0, Err("width")) \o If(c.width > 1000, Warn("width")) \in Words(Usual)
    BY <2>2, SaidBoth
  <2> QED
    BY <2>1, <2>3 DEF WidthRemarks
<1>5. PICK s, t : s = All(VdcExtent, f.commands) /\ IsList(s) /\ t = f.commands /\ IsList(t)
  BY AllAre DEF IsMetafile
<1>6. /\ [i \in DOMAIN s |-> ExtentRemarks(s[i])] \in [1..Len(s) -> Words(Usual)]
      /\ [i \in DOMAIN t |-> OrientationRemarks(t[i])] \in [1..Len(t) -> Words(Usual)]
      /\ [i \in DOMAIN t |-> WidthRemarks(t[i])] \in [1..Len(t) -> Words(Usual)]
  BY <1>2, <1>3, <1>4, <1>5, Lists
<1>7. Each(ExtentRemarks, s) \in Words(Usual)
  BY <1>5, <1>6, Lists, SaidOfEach DEF Each
<1>8. Each(OrientationRemarks, t) \in Words(Usual)
  BY <1>5, <1>6, Lists, SaidOfEach DEF Each
<1>9. Each(WidthRemarks, t) \in Words(Usual)
  BY <1>5, <1>6, Lists, SaidOfEach DEF Each
<1>10. \A c : Each(ExtentRemarks, s) \o If(c, Warn("no extent")) \in Words(Usual)
  BY <1>1, <1>7, SaidOne, SaidIf, SaidBoth
<1> QED
  BY <1>5, <1>8, <1>9, <1>10 DEF ValidateCoordinateNormalization, ValidateTextBaselineAndUpVector, ValidateLineAndEdgeMetrics

LEMMA DeclarationSaid ==
  ASSUME NEW f
  PROVE  \E words \in Words(Usual) : \A v : ValidateProfileDeclaration(f, v) = Add(v, words)
<1>1. {"not declared", "declared", "other profile"} \subseteq Usual
  BY DEF Usual, UsualErrors, UsualWarnings, UsualNotes
<1>2. Warn("not declared") \in Words(Usual) /\ Tell("declared") \in Words(Usual) /\ Warn("other profile") \in Words(Usual)
  BY <1>1, SaidOne
<1> QED
  BY <1>2, SaidBoth DEF ValidateProfileDeclaration
-----------------------------------------------------------------------------
\* What has been said, wherever and however often.
Heard(m) == {<<m[i].severity, m[i].what>> : i \in DOMAIN m}

Things(W) == Severities \X W

Spoken(v) == IsValidator(v) /\ IsList(v.messages) /\ v.picture \in Nat

\* The validator v and what it has become, having said H besides.
Grew(v, x, H) ==
  /\ Spoken(x) /\ x.kind = v.kind /\ x.version = v.version /\ x.allowSegments = v.allowSegments
  /\ Heard(x.messages) = Heard(v.messages) \cup H

LEMMA HeardBoth ==
  ASSUME NEW m, NEW n, IsList(m), IsList(n)
  PROVE  IsList(m \o n) /\ Heard(m \o n) = Heard(m) \cup Heard(n)
<1>1. PICK S : S = {m[i] : i \in DOMAIN m} \cup {n[i] : i \in DOMAIN n}
  OBVIOUS
<1>2. m \in Seq({m[i] : i \in DOMAIN m}) /\ n \in Seq({n[i] : i \in DOMAIN n})
  BY DEF IsList
<1>3. m \in Seq(S) /\ n \in Seq(S)
  BY <1>1, <1>2
<1>4. IsList(m \o n)
  <2>1. m \o n \in Seq(S)
    BY <1>3
  <2> QED
    BY <2>1, ListOf
<1>5. /\ Len(m) \in Nat /\ DOMAIN m = 1..Len(m) /\ Len(n) \in Nat /\ DOMAIN n = 1..Len(n)
      /\ DOMAIN (m \o n) = 1..(Len(m) + Len(n))
      /\ \A i \in 1..(Len(m) + Len(n)) : (m \o n)[i] = IF i <= Len(m) THEN m[i] ELSE n[i - Len(m)]
  BY <1>3
<1>6. ASSUME NEW t \in Heard(m \o n) PROVE t \in Heard(m) \cup Heard(n)
  <2>1. PICK i \in 1..(Len(m) + Len(n)) : t = <<(m \o n)[i].severity, (m \o n)[i].what>>
    BY <1>5 DEF Heard
  <2>2. CASE i <= Len(m)
    BY <1>5, <2>1, <2>2 DEF Heard
  <2>3. CASE ~(i <= Len(m))
    <3>1. i - Len(m) \in DOMAIN n /\ t = <<n[i - Len(m)].severity, n[i - Len(m)].what>>
      BY <1>5, <2>1, <2>3
    <3> QED
      BY <3>1 DEF Heard
  <2> QED
    BY <2>2, <2>3
<1>7. ASSUME NEW t \in Heard(m) \cup Heard(n) PROVE t \in Heard(m \o n)
  <2>1. CASE t \in Heard(m)
    <3>1. PICK i \in 1..Len(m) : t = <<m[i].severity, m[i].what>>
      BY <1>5, <2>1 DEF Heard
    <3>2. i \in DOMAIN (m \o n) /\ (m \o n)[i] = m[i]
      BY <1>5
    <3> QED
      BY <3>1, <3>2 DEF Heard
  <2>2. CASE t \in Heard(n)
    <3>1. PICK i \in 1..Len(n) : t = <<n[i].severity, n[i].what>>
      BY <1>5, <2>2 DEF Heard
    <3>2. i + Len(m) \in DOMAIN (m \o n) /\ (m \o n)[i + Len(m)] = n[i]
      BY <1>5
    <3> QED
      BY <3>1, <3>2 DEF Heard
  <2> QED
    BY <2>1, <2>2
<1> QED
  BY <1>4, <1>6, <1>7

LEMMA HeardAbout ==
  ASSUME NEW W, NEW words, words \in Words(W), NEW picture
  PROVE  /\ IsList(About(picture, words)) /\ IsList(words)
         /\ Heard(About(picture, words)) = Heard(words) /\ Heard(words) \subseteq Things(W)
<1>1. IsList(words) /\ Len(words) \in Nat /\ DOMAIN words = 1..Len(words)
  BY ListOf DEF Words
<1>2. \A i \in DOMAIN words : words[i].severity \in Severities /\ words[i].what \in W
  <2>1. \A i \in DOMAIN words : words[i] \in Remark(W)
    BY DEF Words
  <2> QED
    BY <2>1 DEF Remark
<1>3. PICK said : said = About(picture, words)
  OBVIOUS
<1>4. /\ DOMAIN said = DOMAIN words
      /\ \A i \in DOMAIN words : said[i].severity = words[i].severity /\ said[i].what = words[i].what
  BY <1>3 DEF About
<1>5. said \in Seq({said[i] : i \in 1..Len(words)})
  <2>1. said = [i \in 1..Len(words) |-> said[i]]
    BY <1>1, <1>3 DEF About
  <2>2. said \in [1..Len(words) -> {said[i] : i \in 1..Len(words)}]
    BY <2>1
  <2> QED
    BY <1>1, <2>2
<1>6. IsList(said)
  BY <1>5, ListOf
<1> QED
  BY <1>1, <1>2, <1>3, <1>4, <1>6 DEF Heard, Things

LEMMA PlacedGrew ==
  ASSUME NEW v, Spoken(v), NEW said, IsList(said), NEW picture, picture \in Nat
  PROVE  Grew(v, [v EXCEPT !.messages = v.messages \o said, !.picture = picture], Heard(said))
<1>1. PICK m, x : m = v.messages \o said /\ x = [v EXCEPT !.messages = m, !.picture = picture]
  OBVIOUS
<1>2. IsList(m) /\ Heard(m) = Heard(v.messages) \cup Heard(said)
  BY <1>1, HeardBoth DEF Spoken
<1>3. x = Validator(v.kind, v.version, v.allowSegments, m, picture, v.libraries)
  BY <1>1, PictureChanged DEF Spoken
<1>4. /\ IsValidator(x) /\ x.kind = v.kind /\ x.version = v.version /\ x.allowSegments = v.allowSegments
      /\ x.messages = m /\ x.picture = picture
  BY <1>3, ValidatorFields
<1> QED
  BY <1>1, <1>2, <1>4 DEF Grew, Spoken

LEMMA SaidGrew ==
  ASSUME NEW v, Spoken(v), NEW said, IsList(said)
  PROVE  Grew(v, [v EXCEPT !.messages = v.messages \o said], Heard(said))
<1>1. PICK m, x : m = v.messages \o said /\ x = [v EXCEPT !.messages = m]
  OBVIOUS
<1>2. IsList(m) /\ Heard(m) = Heard(v.messages) \cup Heard(said)
  BY <1>1, HeardBoth DEF Spoken
<1>3. x = Validator(v.kind, v.version, v.allowSegments, m, v.picture, v.libraries)
  BY <1>1, MessagesChanged DEF Spoken
<1>4. /\ IsValidator(x) /\ x.kind = v.kind /\ x.version = v.version /\ x.allowSegments = v.allowSegments
      /\ x.messages = m /\ x.picture = v.picture
  BY <1>3, ValidatorFields
<1> QED
  BY <1>1, <1>2, <1>4 DEF Grew, Spoken

LEMMA AddGrew ==
  ASSUME NEW W, NEW words, words \in Words(W), NEW v, Spoken(v)
  PROVE  Grew(v, Add(v, words), Heard(words)) /\ Heard(words) \subseteq Things(W)
<1>1. PICK said : said = About(v.picture, words)
  OBVIOUS
<1>2. IsList(said) /\ Heard(said) = Heard(words) /\ Heard(words) \subseteq Things(W)
  BY <1>1, HeardAbout
<1>3. Grew(v, [v EXCEPT !.messages = v.messages \o said], Heard(said))
  BY <1>2, SaidGrew
<1> QED
  BY <1>1, <1>2, <1>3 DEF Add

LEMMA GrewTwice ==
  ASSUME NEW v, NEW w, NEW x, NEW H, NEW K, Grew(v, w, H), Grew(w, x, K)
  PROVE  Grew(v, x, H \cup K)
BY DEF Grew

\* What is said at the commands that are looked for.
LEMMA PlacedAre ==
  ASSUME NEW W, NEW n, n \in Nat, NEW ss, ss = [j \in 1..n |-> ss[j]],
         \A j \in 1..n : \E words, picture : words \in Words(W) /\ ss[j] = About(picture, words)
  PROVE  IsList(Concatenation(ss)) /\ Heard(Concatenation(ss)) \subseteq Things(W)
<1> DEFINE S == UNION {{ss[j][i] : i \in DOMAIN ss[j]} : j \in 1..n}
<1>1. ASSUME NEW j \in 1..n
      PROVE  IsList(ss[j]) /\ \A i \in DOMAIN ss[j] : ss[j][i].severity \in Severities /\ ss[j][i].what \in W
  <2>1. PICK words, picture : words \in Words(W) /\ ss[j] = About(picture, words)
    OBVIOUS
  <2>2. IsList(ss[j]) /\ Heard(ss[j]) \subseteq Things(W)
    BY <2>1, HeardAbout
  <2>3. ASSUME NEW i \in DOMAIN ss[j] PROVE ss[j][i].severity \in Severities /\ ss[j][i].what \in W
    <3>1. <<ss[j][i].severity, ss[j][i].what>> \in Things(W)
      BY <2>2 DEF Heard
    <3> QED
      BY <3>1 DEF Things
  <2> QED
    BY <2>2, <2>3
<1>2. ASSUME NEW j \in 1..n PROVE ss[j] \in Seq(S)
  <2>1. ss[j] \in Seq({ss[j][i] : i \in DOMAIN ss[j]})
    BY <1>1 DEF IsList
  <2>2. {ss[j][i] : i \in DOMAIN ss[j]} \subseteq S
    OBVIOUS
  <2> HIDE DEF S
  <2> QED
    BY <2>1, <2>2
<1>3. \A m \in S : m.severity \in Severities /\ m.what \in W
  BY <1>1
<1>4. ss \in [1..n -> Seq(S)]
  <2> HIDE DEF S
  <2> QED
    BY <1>2
<1>5. IsList(Concatenation(ss)) /\ Concatenation(ss) \in Seq(S)
  <2> HIDE DEF S
  <2> QED
    BY <1>4, PassingAre
<1>6. Heard(Concatenation(ss)) \subseteq Things(W)
  <2> HIDE DEF S
  <2>1. \A i \in DOMAIN Concatenation(ss) : Concatenation(ss)[i] \in S
    BY <1>5
  <2> QED
    BY <1>3, <2>1 DEF Heard, Things
<1> QED
  BY <1>5, <1>6

LEMMA PictureAtAre ==
  ASSUME NEW s, NEW i \in Nat
  PROVE  PictureAt(s, i) \in Nat
<1>1. PICK T : T = {j \in 1..i : s[j].code = BeginPicture} /\ T \subseteq 1..i
  OBVIOUS
<1>2. IsFiniteSet(T)
  <2>1. PICK U : U = 1..i /\ IsFiniteSet(U)
    BY FS_Interval
  <2> QED
    BY <1>1, <2>1, FS_Subset
<1>3. Cardinality(T) \in Nat
  BY <1>2, FS_CardinalityType
<1> QED
  BY <1>1, <1>3 DEF PictureAt

LEMMA SplineSaid ==
  ASSUME NEW s
  PROVE  SplineRemarks(s) \in Words(Usual)
<1>1. {"knots", "not cubic", "control points", "not clamped"} \subseteq Usual
  BY DEF Usual, UsualErrors, UsualWarnings, UsualNotes
<1>2. PICK a, b, c, d : /\ a = ~KnotsInOrder(s) /\ b = (s.order # 4) /\ c = (s.controls > MaxControls)
                        /\ d = (s.order > 0 /\ Len(s.knots) >= 2 * s.order /\ ~Clamped(s))
  OBVIOUS
<1>3. If(a, Err("knots")) \o If(b, Warn("not cubic")) \o If(c, Warn("control points")) \o If(d, Warn("not clamped"))
        \in Words(Usual)
  BY <1>1, SaidOne, SaidIf, SaidBoth
<1> QED
  BY <1>2, <1>3 DEF SplineRemarks

\* Every GDP is reported, and everything of the class of EXTERNAL.
LEMMA PlacedSaid ==
  ASSUME NEW f, IsMetafile(f)
  PROVE  /\ \E H \in SUBSET Things(Usual) : \A v : Spoken(v) => Grew(v, ValidateNurbsKnotVectors(f, v), H)
         /\ \E H \in SUBSET Things(Usual) : \A v : Spoken(v) => Grew(v, ValidateGeneralizedDrawingPrimitives(f, v), H)
         /\ \E H \in SUBSET Things(Usual) : \A v : Spoken(v) => Grew(v, ValidateExternalElements(f, v), H)
<1>1. {"GDP", "GDP ignored", "external", "external ignored"} \subseteq Usual
  BY DEF Usual, UsualErrors, UsualWarnings, UsualNotes
<1>2. PICK s, all : s = f.commands /\ IsList(s) /\ Len(s) \in Nat /\ DOMAIN s = 1..Len(s)
                      /\ all = Indices(s) /\ DOMAIN all = 1..Len(s) /\ all \in Seq(1..Len(s)) /\ IsList(all)
  <2>1. PICK s : s = f.commands /\ IsList(s) /\ Len(s) \in Nat /\ DOMAIN s = 1..Len(s)
    BY Lists DEF IsMetafile
  <2>2. Indices(s) \in Seq(1..Len(s)) /\ DOMAIN Indices(s) = 1..Len(s)
    BY <2>1 DEF Indices
  <2> QED
    BY <2>1, <2>2, ListOf
<1>3. ASSUME NEW ss, ss = [i \in DOMAIN all |-> ss[i]],
             \A i \in DOMAIN all : ss[i] = <<all[i]>> \/ ss[i] = <<>>
      PROVE  /\ IsList(Concatenation(ss))
             /\ Concatenation(ss) # <<>> =>
                  PictureAt(s, Concatenation(ss)[Len(Concatenation(ss))]) \in Nat
  <2>1. PICK found : found = Concatenation(ss) /\ IsList(found) /\ found \in Seq({all[i] : i \in DOMAIN all})
    <3>1. IsList(all)
      BY <1>2
    <3>2. IsList(Concatenation(ss)) /\ Concatenation(ss) \in Seq({all[i] : i \in DOMAIN all})
      BY <1>3, <3>1, SelectedAre
    <3> QED
      BY <3>2
  <2>2. {all[i] : i \in DOMAIN all} \subseteq Nat
    BY <1>2
  <2>3. found # <<>> => found[Len(found)] \in Nat
    BY <2>1, <2>2
  <2> QED
    BY <2>1, <2>3, PictureAtAre
<1>4. \E H \in SUBSET Things(Usual) : \A v : Spoken(v) => Grew(v, ValidateNurbsKnotVectors(f, v), H)
  <2>1. PICK ss, found : /\ ss = [i \in DOMAIN all |-> IF s[all[i]].code \in {Spline, RationalSpline} THEN <<all[i]>> ELSE <<>>]
                         /\ found = Concatenation(ss) /\ IsList(found) /\ Len(found) \in Nat /\ DOMAIN found = 1..Len(found)
                         /\ found # <<>> => PictureAt(s, found[Len(found)]) \in Nat
    <3>1. PICK ss : ss = [i \in DOMAIN all |-> IF s[all[i]].code \in {Spline, RationalSpline} THEN <<all[i]>> ELSE <<>>]
      OBVIOUS
    <3> QED
      BY <3>1, <1>3, Lists
  <2>2. PICK ts, said : /\ ts = [j \in DOMAIN found |-> About(PictureAt(s, found[j]), SplineRemarks(s[found[j]]))]
                        /\ said = Concatenation(ts)
    OBVIOUS
  <2>3. IsList(said) /\ Heard(said) \subseteq Things(Usual)
    BY <1>1, <2>1, <2>2, SaidOne, SplineSaid, PlacedAre
  <2>4. ASSUME NEW v, Spoken(v) PROVE Grew(v, ValidateNurbsKnotVectors(f, v), Heard(said))
    <3>a. PICK picture : picture = IF found = <<>> THEN v.picture ELSE PictureAt(s, found[Len(found)])
      OBVIOUS
    <3>1. ValidateNurbsKnotVectors(f, v) = [v EXCEPT !.messages = v.messages \o said, !.picture = picture]
      BY <1>2, <2>1, <2>2, <3>a DEF ValidateNurbsKnotVectors, AddAt, Those, Each
    <3>b. picture \in Nat
      BY <2>1, <2>4, <3>a DEF Spoken
    <3>2. Grew(v, [v EXCEPT !.messages = v.messages \o said, !.picture = picture], Heard(said))
      BY <2>3, <2>4, <3>b, PlacedGrew
    <3> QED
      BY <3>1, <3>2
  <2> QED
    BY <2>3, <2>4
<1>5. \E H \in SUBSET Things(Usual) : \A v : Spoken(v) => Grew(v, ValidateGeneralizedDrawingPrimitives(f, v), H)
  <2>1. PICK ss, found : /\ ss = [i \in DOMAIN all |-> IF s[all[i]].code = Gdp THEN <<all[i]>> ELSE <<>>]
                         /\ found = Concatenation(ss) /\ IsList(found) /\ Len(found) \in Nat /\ DOMAIN found = 1..Len(found)
                         /\ found # <<>> => PictureAt(s, found[Len(found)]) \in Nat
    <3>1. PICK ss : ss = [i \in DOMAIN all |-> IF s[all[i]].code = Gdp THEN <<all[i]>> ELSE <<>>]
      OBVIOUS
    <3> QED
      BY <3>1, <1>3, Lists
  <2>2. PICK ts, said : /\ ts = [j \in DOMAIN found |-> About(PictureAt(s, found[j]), Err("GDP"))]
                        /\ said = Concatenation(ts)
    OBVIOUS
  <2>3. IsList(said) /\ Heard(said) \subseteq Things(Usual)
    BY <1>1, <2>1, <2>2, SaidOne, SplineSaid, PlacedAre
  <2>4. PICK words : words = If(All(Gdp, f.commands) # <<>>, Tell("GDP ignored")) /\ words \in Words(Usual)
    BY <1>1, SaidOne, SaidIf
  <2>5. ASSUME NEW v, Spoken(v) PROVE Grew(v, ValidateGeneralizedDrawingPrimitives(f, v), Heard(said) \cup Heard(words))
    <3>a. PICK picture : picture = IF found = <<>> THEN v.picture ELSE PictureAt(s, found[Len(found)])
      OBVIOUS
    <3>b. picture \in Nat
      BY <2>1, <2>5, <3>a DEF Spoken
    <3>1. ValidateGeneralizedDrawingPrimitives(f, v) = Add([v EXCEPT !.messages = v.messages \o said, !.picture = picture], words)
      BY <1>2, <2>1, <2>2, <2>4, <3>a DEF ValidateGeneralizedDrawingPrimitives, AddAt, Those, Each
    <3>2. PICK x : ValidateGeneralizedDrawingPrimitives(f, v) = Add(x, words) /\ Grew(v, x, Heard(said))
      BY <2>3, <2>5, <3>1, <3>b, PlacedGrew
    <3>3. Spoken(x)
      BY <3>2 DEF Grew
    <3>4. Grew(x, Add(x, words), Heard(words))
      BY <2>4, <3>3, AddGrew
    <3> QED
      BY <3>2, <3>4, GrewTwice
  <2>6. Heard(words) \subseteq Things(Usual)
    BY <2>4, HeardAbout
  <2> QED
    BY <2>3, <2>5, <2>6
<1>6. \E H \in SUBSET Things(Usual) : \A v : Spoken(v) => Grew(v, ValidateExternalElements(f, v), H)
  <2>1. PICK ss, found : /\ ss = [i \in DOMAIN all |-> IF Class(s[all[i]]) = 7 THEN <<all[i]>> ELSE <<>>]
                         /\ found = Concatenation(ss) /\ IsList(found) /\ Len(found) \in Nat /\ DOMAIN found = 1..Len(found)
                         /\ found # <<>> => PictureAt(s, found[Len(found)]) \in Nat
    <3>1. PICK ss : ss = [i \in DOMAIN all |-> IF Class(s[all[i]]) = 7 THEN <<all[i]>> ELSE <<>>]
      OBVIOUS
    <3> QED
      BY <3>1, <1>3, Lists
  <2>2. PICK ts, said : /\ ts = [j \in DOMAIN found |-> About(PictureAt(s, found[j]), Err("external"))]
                        /\ said = Concatenation(ts)
    OBVIOUS
  <2>3. IsList(said) /\ Heard(said) \subseteq Things(Usual)
    BY <1>1, <2>1, <2>2, SaidOne, SplineSaid, PlacedAre
  <2>4. PICK words : words = If(\E i \in DOMAIN f.commands : Class(f.commands[i]) = 7, Tell("external ignored")) /\ words \in Words(Usual)
    BY <1>1, SaidOne, SaidIf
  <2>5. ASSUME NEW v, Spoken(v) PROVE Grew(v, ValidateExternalElements(f, v), Heard(said) \cup Heard(words))
    <3>a. PICK picture : picture = IF found = <<>> THEN v.picture ELSE PictureAt(s, found[Len(found)])
      OBVIOUS
    <3>b. picture \in Nat
      BY <2>1, <2>5, <3>a DEF Spoken
    <3>1. ValidateExternalElements(f, v) = Add([v EXCEPT !.messages = v.messages \o said, !.picture = picture], words)
      BY <1>2, <2>1, <2>2, <2>4, <3>a DEF ValidateExternalElements, AddAt, Those, Each
    <3>2. PICK x : ValidateExternalElements(f, v) = Add(x, words) /\ Grew(v, x, Heard(said))
      BY <2>3, <2>5, <3>1, <3>b, PlacedGrew
    <3>3. Spoken(x)
      BY <3>2 DEF Grew
    <3>4. Grew(x, Add(x, words), Heard(words))
      BY <2>4, <3>3, AddGrew
    <3> QED
      BY <3>2, <3>4, GrewTwice
  <2>6. Heard(words) \subseteq Things(Usual)
    BY <2>4, HeardAbout
  <2> QED
    BY <2>3, <2>5, <2>6
<1> QED
  BY <1>4, <1>5, <1>6

LEMMA MinIsMember ==
  ASSUME NEW T, T \subseteq Nat, T # {}
  PROVE  Min(T) \in T
<1> DEFINE R == {ss \in Nat \X Nat : ss[1] < ss[2]}
<1>1. IsWellFoundedOn(R, Nat)
  BY NatLessThanWellFounded, Zenon DEF OpToRel
<1>2. PICK m \in T : \A y \in T : ~(<<y, m>> \in R)
  <2> HIDE DEF R
  <2> QED
    BY <1>1, WFMin
<1>3. \A y \in T : m <= y
  <2> SUFFICES ASSUME NEW y \in T PROVE m <= y
    OBVIOUS
  <2>1. y \in Nat /\ m \in Nat /\ ~(<<y, m>> \in R)
    BY <1>2
  <2> QED
    BY <2>1
<1> QED
  BY <1>2, <1>3 DEF Min

LEMMA DescriptionsAre ==
  ASSUME NEW f, IsMetafile(f)
  PROVE  /\ IsList(Descriptions(f))
         /\ \A i \in DOMAIN Descriptions(f) : IsList(Descriptions(f)[i].items)
<1>1. PICK all, s : all = All(MetafileDescription, f.commands) /\ s = f.commands /\ IsList(all) /\ IsList(s)
                 /\ all \in Seq({c \in {s[i] : i \in DOMAIN s} : c.code = MetafileDescription})
                 /\ Len(all) \in Nat /\ DOMAIN all = 1..Len(all)
  BY AllAre, Lists DEF IsMetafile
<1>2. PICK S, t : S = {all[i].description : i \in DOMAIN all} /\ t = [i \in 1..Len(all) |-> all[i].description]
  OBVIOUS
<1>3. t \in Seq(S)
  BY <1>1, <1>2
<1>4. Descriptions(f) = t
  BY <1>1, <1>2 DEF Descriptions
<1>5. IsList(t)
  BY <1>3, ListOf
<1>6. ASSUME NEW i \in DOMAIN t PROVE IsList(t[i].items)
  <2>1. i \in 1..Len(all) /\ t[i] = all[i].description
    BY <1>2
  <2>2. all[i] \in {c \in {s[j] : j \in DOMAIN s} : c.code = MetafileDescription}
    BY <1>1, <2>1
  <2>3. PICK j \in DOMAIN s : all[i] = s[j] /\ s[j].code = MetafileDescription
    BY <2>2
  <2>4. IsList(s[j].description.items)
    BY <1>1, <2>3 DEF IsMetafile
  <2> QED
    BY <2>1, <2>3, <2>4
<1> QED
  BY <1>4, <1>5, <1>6

LEMMA EdgesSaid ==
  ASSUME NEW f, IsMetafile(f)
  PROVE  \E words \in Words(Usual) : \A v : ValidateEdgeVisibility(f, v) = Add(v, words)
<1>1. {"hidden edge", "nothing filled", "hidden edges", "visible edges"} \subseteq Usual
  BY DEF Usual, UsualErrors, UsualWarnings, UsualNotes
<1>2. PICK s, all : s = f.commands /\ all = Indices(s) /\ IsList(all)
  <2>1. PICK s : s = f.commands /\ IsList(s) /\ Len(s) \in Nat /\ DOMAIN s = 1..Len(s)
    BY Lists DEF IsMetafile
  <2>2. Indices(s) \in Seq(1..Len(s))
    BY <2>1 DEF Indices
  <2> QED
    BY <2>1, <2>2, ListOf
<1>3. IsList(HiddenEdges(s))
  <2> DEFINE set(i) == {j \in 1..(i - 1) : s[j].code = EdgeVisibilityElement /\ IsA(s[j], EdgeVisibility)}
  <2>1. PICK ss : ss = [i \in DOMAIN all |-> IF /\ s[all[i]].code \in FilledPrimitives /\ set(all[i]) # {}
                                                /\ ~s[Max(set(all[i]))].visible
                                             THEN <<all[i]>> ELSE <<>>]
    OBVIOUS
  <2>2. HiddenEdges(s) = Concatenation(ss)
    BY <1>2, <2>1 DEF HiddenEdges, Those
  <2>3. IsList(Concatenation(ss))
    <3>1. ss = [i \in DOMAIN all |-> ss[i]] /\ \A i \in DOMAIN all : ss[i] = <<all[i]>> \/ ss[i] = <<>>
      BY <2>1
    <3> HIDE DEF set
    <3> QED
      BY <1>2, <3>1, SelectedAre
  <2> QED
    BY <2>2, <2>3
<1>4. PICK n : n = Len(HiddenEdges(s)) /\ n \in Nat
  BY <1>3, Lists
<1>5. Times(n, Warn("hidden edge")) \in Words(Usual)
  BY <1>1, <1>4, SaidTimes
<1>6. \A a, b : (IF a THEN Tell("nothing filled") ELSE IF b THEN Tell("hidden edges") ELSE Tell("visible edges"))
                  \in Words(Usual)
  BY <1>1, SaidOne
<1>7. \A a, b : Times(n, Warn("hidden edge"))
                  \o (IF a THEN Tell("nothing filled") ELSE IF b THEN Tell("hidden edges") ELSE Tell("visible edges"))
                  \in Words(Usual)
  BY <1>5, <1>6, SaidBoth
<1> QED
  BY <1>2, <1>4, <1>7 DEF ValidateEdgeVisibility

LEMMA ExternalsSaid ==
  ASSUME NEW f, IsMetafile(f)
  PROVE  /\ \E words \in Words(Usual) : \A v : ValidateAtaDrawingPrimitives(f, v) = Add(v, words)
         /\ \E words \in Words(Usual) : \A v : ValidateExternalReferences(f, v) = Add(v, words)
<1>1. {"GDP forbidden", "external reference"} \subseteq Usual
  BY DEF Usual, UsualErrors, UsualWarnings, UsualNotes
<1>2. PICK s : s = f.commands /\ IsList(s)
  BY DEF IsMetafile
<1>3. PICK ss : ss = [i \in DOMAIN s |-> IF Class(s[i]) = 7 THEN <<s[i]>> ELSE <<>>]
  OBVIOUS
<1>4. Externals(s) = Concatenation(ss)
  BY <1>3 DEF Externals, Those
<1>5. IsList(Concatenation(ss))
  BY <1>2, <1>3, SelectedAre
<1>6. Len(Externals(s)) \in Nat
  BY <1>4, <1>5, Lists
<1>7. CountOf(Gdp, s) \in Nat
  BY <1>2, AllAre, Lists DEF CountOf
<1>8. Times(Len(Externals(s)), Err("external reference")) \in Words(Usual)
  BY <1>1, <1>6, SaidTimes
<1>9. Times(CountOf(Gdp, s), Err("GDP forbidden")) \in Words(Usual)
  BY <1>1, <1>7, SaidTimes
<1> QED
  BY <1>2, <1>8, <1>9 DEF ValidateAtaDrawingPrimitives, ValidateExternalReferences

LEMMA ClassSaid ==
  ASSUME NEW f
  PROVE  /\ \E words \in Words(Usual) : \A v : ValidateColorClass(f, v) = Add(v, words)
         /\ \E words \in Words(Usual) : \A v : ValidateColorClassDeclaration(f, v) = Add(v, words)
<1>1. {"colour model", "no maximum", "colour class", "RGB", "CMYK", "no colour class"} \subseteq Usual
  BY DEF Usual, UsualErrors, UsualWarnings, UsualNotes
<1>2. \A a : /\ Tell("colour model") \in Words(Usual) /\ If(a, Warn("no maximum")) \in Words(Usual)
             /\ Tell("colour class") \in Words(Usual) /\ Err("no colour class") \in Words(Usual)
             /\ Err("colour class") \in Words(Usual)
             /\ Tell("RGB") \in Words(Usual) /\ Warn("CMYK") \in Words(Usual) /\ <<>> \in Words(Usual)
  BY <1>1, SaidOne, SaidIf, SaidNothing
<1>3. Times(3, Tell("colour class")) \in Words(Usual)
  BY <1>1, SaidTimes
<1>4. PICK model : model \in Words(Usual) /\
        model = (CASE f.model = "RGB" -> Tell("RGB") [] f.model = "CMYK" -> Warn("CMYK") [] OTHER -> <<>>)
  BY <1>2
<1>5. \A a : Tell("colour model") \o If(a, Warn("no maximum")) \o Tell("colour class") \o model \in Words(Usual)
  BY <1>2, <1>4, SaidBoth
<1>6. \E words \in Words(Usual) : \A v : ValidateColorClass(f, v) = Add(v, words)
  BY <1>4, <1>5 DEF ValidateColorClass
<1>7. \E words \in Words(Usual) : \A v : ValidateColorClassDeclaration(f, v) = Add(v, words)
  BY <1>2, <1>3 DEF ValidateColorClassDeclaration
<1> QED
  BY <1>6, <1>7

\* Of what an ATA validator says of descriptions, a property asks about editions.
LEMMA EditionsSaid ==
  ASSUME NEW f, IsMetafile(f), NEW version
  PROVE  ProfileDeclarationsAta(f, version) \in Words(Usual \cup {"other edition"})
<1>1. {"ATA profile", "not the ATA profile", "no edition", "edition", "other edition"} \subseteq Usual \cup {"other edition"}
  BY DEF Usual, UsualErrors, UsualWarnings, UsualNotes
<1>2. PICK W : W = Usual \cup {"other edition"}
  OBVIOUS
<1>3. \A d : DeclarationRemarks(d, version) \in Words(W)
  <2>1. /\ Tell("ATA profile") \in Words(W) /\ Err("not the ATA profile") \in Words(W)
        /\ Warn("no edition") \in Words(W) /\ Tell("edition") \in Words(W) /\ Warn("other edition") \in Words(W)
    BY <1>1, <1>2, SaidOne
  <2>2. \A a, b, c : (IF a THEN Tell("ATA profile") ELSE Err("not the ATA profile"))
                       \o (IF b THEN Warn("no edition") ELSE IF c THEN Tell("edition") ELSE Warn("other edition")) \in Words(W)
    BY <2>1, SaidBoth
  <2>3. ASSUME NEW d PROVE DeclarationRemarks(d, version) \in Words(W)
    <3>1. PICK e, id : e = QuotedValue("ProfileEd", d) /\ id = QuotedValue("ProfileId", d)
      OBVIOUS
    <3>2. PICK rest : rest \in Words(W) /\
            rest = (CASE e = "" -> Warn("no edition") [] e = version -> Tell("edition") [] OTHER -> Warn("other edition"))
      BY <2>1
    <3>3. (IF id = AtaProfile THEN Tell("ATA profile") ELSE Err("not the ATA profile")) \o rest \in Words(W)
      BY <2>1, <3>2, SaidBoth
    <3> QED
      BY <3>1, <3>2, <3>3 DEF DeclarationRemarks
  <2> QED
    BY <2>3
<1>4. PICK s : s = Descriptions(f) /\ IsList(s)
  BY DescriptionsAre
<1>5. [i \in DOMAIN s |-> DeclarationRemarks(s[i], version)] \in [1..Len(s) -> Words(W)]
  BY <1>3, <1>4, Lists
<1>6. Concatenation([i \in DOMAIN s |-> DeclarationRemarks(s[i], version)]) \in Words(W)
  BY <1>4, <1>5, Lists, SaidOfEach
<1> QED
  BY <1>2, <1>4, <1>6 DEF ProfileDeclarationsAta, Each

LEMMA MetadataSaid ==
  ASSUME NEW f, IsMetafile(f)
  PROVE  \E words \in Words(Usual) : \A v : ValidateMetadata(f, v) = Add(v, words)
<1>1. {"ICN", "ICN format", "issue", "security", "type", "no description", "no ICN", "no issue", "no security",
       "no type"} \subseteq Usual
  BY DEF Usual, UsualErrors, UsualWarnings, UsualNotes
<1>2. \A d : MetadataRemarks(d) \in Words(Usual)
  <2>1. Tell("ICN") \in Words(Usual) /\ Warn("ICN format") \in Words(Usual) /\ <<>> \in Words(Usual)
    BY <1>1, SaidOne, SaidNothing
  <2>2. \A a, b, c : If(a, Tell("issue")) \o If(b, Tell("security")) \o If(c, Tell("type")) \in Words(Usual)
    BY <1>1, SaidOne, SaidIf, SaidBoth
  <2>3. ASSUME NEW d PROVE MetadataRemarks(d) \in Words(Usual)
    <3>1. PICK icn : icn \in Words(Usual) /\
            icn = (CASE d.icn.name = "" -> <<>> [] d.icn.hyphens = 7 -> Tell("ICN") [] OTHER -> Warn("ICN format"))
      BY <2>1
    <3>2. \A a, b, c : icn \o If(a, Tell("issue")) \o If(b, Tell("security")) \o If(c, Tell("type")) \in Words(Usual)
      BY <1>1, <3>1, SaidOne, SaidIf, SaidBoth
    <3> QED
      BY <3>1, <3>2 DEF MetadataRemarks
  <2> QED
    BY <2>3
<1>3. PICK s : s = Descriptions(f) /\ IsList(s)
  BY DescriptionsAre
<1>4. [i \in DOMAIN s |-> MetadataRemarks(s[i])] \in [1..Len(s) -> Words(Usual)]
  BY <1>2, <1>3, Lists
<1>5. Each(MetadataRemarks, s) \in Words(Usual)
  BY <1>3, <1>4, Lists, SaidOfEach DEF Each
<1>6. \A a, b, c, d : If(a, Err("no ICN")) \o If(b, Warn("no issue")) \o If(c, Tell("no security")) \o If(d, Tell("no type"))
                        \in Words(Usual)
  BY <1>1, SaidOne, SaidIf, SaidBoth
<1>7. Err("no description") \in Words(Usual)
  BY <1>1, SaidOne
<1>8. PICK rest : rest \in Words(Usual) /\
        rest = IF s = <<>> THEN Err("no description")
               ELSE If(~\E i \in DOMAIN s : s[i].icn.name # "", Err("no ICN"))
                    \o If(~\E i \in DOMAIN s : Mentions(s[i], {"ISSUE"}), Warn("no issue"))
                    \o If(~\E i \in DOMAIN s : Mentions(s[i], SecurityWords), Tell("no security"))
                    \o If(~\E i \in DOMAIN s : Mentions(s[i], TypeWords), Tell("no type"))
  BY <1>6, <1>7
<1>9. Each(MetadataRemarks, s) \o rest \in Words(Usual)
  BY <1>5, <1>8, SaidBoth
<1>10. \A v : ValidateMetadata(f, v) = Add(v, Each(MetadataRemarks, s) \o rest)
  BY <1>3, <1>8 DEF ValidateMetadata
<1> QED
  BY <1>9, <1>10

LEMMA NamingSaid ==
  ASSUME NEW f
  PROVE  \E words \in Words(Usual) : \A v : ValidateCsdbNaming(f, v) = Add(v, words)
<1>1. {"file name", "extension", "parts of the name", "name matches", "name does not match"} \subseteq Usual
  BY DEF Usual, UsualErrors, UsualWarnings, UsualNotes
<1>2. PICK named, same, few, many :
        /\ named = NamedOf(Descriptions(f))
        /\ same = (named[1].icn.separated /\ named[1].icn.name = f.name.name)
        /\ few = (f.name.parts < 5) /\ many = (f.name.parts > 6)
  OBVIOUS
<1>3. PICK first, match : /\ first = If(~f.name.extension, Warn("extension"))
                                 \o If(few, Warn("parts of the name")) \o If(many, Tell("parts of the name"))
                          /\ match = IF named = <<>> THEN <<>>
                                     ELSE IF same THEN Tell("name matches") ELSE Err("name does not match")
  OBVIOUS
<1>4. first \in Words(Usual)
  BY <1>1, <1>3, SaidOne, SaidIf, SaidBoth
<1>5. match \in Words(Usual)
  BY <1>1, <1>3, SaidOne, SaidNothing
<1>6. Err("file name") \in Words(Usual) /\ Tell("file name") \in Words(Usual)
  BY <1>1, SaidOne
<1>7. PICK words : words = IF ~f.name.icn THEN Err("file name") ELSE first \o match \o Tell("file name")
  OBVIOUS
<1>8. words \in Words(Usual)
  BY <1>4, <1>5, <1>6, <1>7, SaidBoth
<1>9. \A v : ValidateCsdbNaming(f, v) = Add(v, words)
  BY <1>2, <1>3, <1>7 DEF ValidateCsdbNaming
<1> QED
  BY <1>8, <1>9

LEMMA StructuresSaid ==
  ASSUME NEW f, IsMetafile(f)
  PROVE  /\ \E words \in Words(Usual) : \A v : ValidateTextHeights(f, v) = Add(v, words)
         /\ \E words \in Words(Usual) : \A v : ValidateApsBinding(f, v) = Add(v, words)
         /\ \E words \in Words(Usual) : \A v : ValidateApsConstraints(f, v) = Add(v, words)
<1>1. {"text height", "text heights", "empty identifier", "custom type", "structure mismatch", "body mismatch",
       "duplicate identifiers", "bindings", "bindings by hand", "not a grobject", "not a state list"} \subseteq Usual
  BY DEF Usual, UsualErrors, UsualWarnings, UsualNotes
<1>2. \A c : HeightRemarks(c) \in Words(Usual)
  <2>1. \A a, b : If(a, IF b THEN Warn("text height") ELSE Err("text height")) \in Words(Usual)
    BY <1>1, SaidOne, SaidIf
  <2>2. ASSUME NEW c PROVE HeightRemarks(c) \in Words(Usual)
    <3>1. PICK a, b : a = (c.height > 10 /\ ~Within(10, c.height)) /\ b = Within(20, c.height)
      OBVIOUS
    <3> QED
      BY <2>1, <3>1 DEF HeightRemarks
  <2> QED
    BY <2>2
<1>3. \A c : BindingRemarks(c) \in Words(Usual) /\ ConstraintRemarks(c) \in Words(Usual)
  BY <1>1, SaidOne, SaidIf, SaidBoth DEF BindingRemarks, ConstraintRemarks
<1>4. PICK s, t : /\ s = All(CharacterHeight, f.commands) /\ IsList(s)
                  /\ t = All(BeginAps, f.commands) /\ IsList(t)
  BY AllAre DEF IsMetafile
<1>5. /\ [i \in DOMAIN s |-> HeightRemarks(s[i])] \in [1..Len(s) -> Words(Usual)]
      /\ [i \in DOMAIN t |-> BindingRemarks(t[i])] \in [1..Len(t) -> Words(Usual)]
      /\ [i \in DOMAIN t |-> ConstraintRemarks(t[i])] \in [1..Len(t) -> Words(Usual)]
  BY <1>2, <1>3, <1>4, Lists
<1>6. Each(HeightRemarks, s) \in Words(Usual)
  BY <1>4, <1>5, Lists, SaidOfEach DEF Each
<1>7. Each(BindingRemarks, t) \in Words(Usual)
  BY <1>4, <1>5, Lists, SaidOfEach DEF Each
<1>8. Each(ConstraintRemarks, t) \in Words(Usual)
  BY <1>4, <1>5, Lists, SaidOfEach DEF Each
<1>9. Each(HeightRemarks, s) \o Tell("text heights") \in Words(Usual)
  BY <1>1, <1>6, SaidOne, SaidBoth
<1>10. PICK few : few = (Cardinality({t[i].id : i \in DOMAIN t}) < Len(t))
  OBVIOUS
<1>11. \A a, b, c, d : Each(BindingRemarks, t) \o If(a, Err("structure mismatch")) \o If(b, Warn("body mismatch"))
                         \o If(c, Warn("duplicate identifiers")) \o Tell("bindings") \o If(d, Tell("bindings by hand"))
                         \in Words(Usual)
  BY <1>1, <1>7, SaidOne, SaidIf, SaidBoth
<1>12. \E words \in Words(Usual) : \A v : ValidateApsBinding(f, v) = Add(v, words)
  BY <1>4, <1>10, <1>11 DEF ValidateApsBinding
<1> QED
  BY <1>4, <1>8, <1>9, <1>12 DEF ValidateTextHeights, ValidateApsConstraints

LEMMA MonochromeSaid ==
  ASSUME NEW f
  PROVE  \E words \in Words(Usual) : \A v : ValidateMonochromePolicy(f, v) = Add(v, words)
<1>1. {"colour policy", "maximum", "not grey", "highlights", "samples", "all grey", "not black", "unresolved"} \subseteq Usual
  BY DEF Usual, UsualErrors, UsualWarnings, UsualNotes
<1>2. PICK maxima, last, monochrome, uses, resolved, grey, black :
        /\ maxima = All(MaximumColourIndex, f.commands) /\ last = (maxima[Len(maxima)].maximum >= 0)
        /\ monochrome = (maxima # <<>> /\ maxima[Len(maxima)].maximum \in 0..1)
        /\ uses = ColourUses(f) /\ resolved = Resolved(uses)
        /\ grey = (\A i \in DOMAIN resolved : ColourName(resolved[i]) \in Greys)
        /\ black = (\A i \in DOMAIN resolved : resolved[i].code \in StrokeColours => ColourName(resolved[i]) = "black")
  OBVIOUS
<1>3. Times(2, Tell("colour policy")) \in Words(Usual)
  BY <1>1, SaidTimes
<1>4. PICK middle : middle \in Words(Usual) /\
        middle = CASE ~grey -> (IF monochrome THEN Warn("not grey") ELSE Tell("highlights")) \o Tell("samples")
                   [] grey -> If(uses # <<>> /\ resolved = uses, Tell("all grey"))
  <2>1. (IF monochrome THEN Warn("not grey") ELSE Tell("highlights")) \in Words(Usual) /\ Tell("samples") \in Words(Usual)
    BY <1>1, SaidOne
  <2>2. (IF monochrome THEN Warn("not grey") ELSE Tell("highlights")) \o Tell("samples") \in Words(Usual)
    BY <2>1, SaidBoth
  <2>3. If(uses # <<>> /\ resolved = uses, Tell("all grey")) \in Words(Usual)
    BY <1>1, SaidOne, SaidIf
  <2> QED
    BY <1>2, <2>2, <2>3
<1>5. PICK words : words = Times(2, Tell("colour policy")) \o If(maxima # <<>> /\ last, Tell("maximum")) \o middle
                           \o If(~black /\ monochrome, Warn("not black")) \o If(resolved # uses, Warn("unresolved"))
  OBVIOUS
<1>6. words \in Words(Usual)
  BY <1>1, <1>3, <1>4, <1>5, SaidOne, SaidIf, SaidBoth
<1>7. \A v : ValidateMonochromePolicy(f, v) = Add(v, words)
  BY <1>2, <1>4, <1>5 DEF ValidateMonochromePolicy
<1> QED
  BY <1>6, <1>7

LEMMA FormatSaid ==
  ASSUME NEW f, IsMetafile(f)
  PROVE  \E words \in Words(Usual) : \A v : ValidateDescriptionFormat(f, v) = Add(v, words)
<1>1. {"empty item", "S1000D profile", "not the S1000D profile", "no colon", "empty keyword", "unclosed", "no profile",
       "pairs", "no pairs"} \subseteq Usual
  BY DEF Usual, UsualErrors, UsualWarnings, UsualNotes
<1>2. \A item : PairRemarks(item) \in Words(Usual)
  <2>1. \A a, b : If(a, Warn("empty item")) \o (IF b THEN Tell("S1000D profile") ELSE Err("not the S1000D profile"))
                    \in Words(Usual)
    <3>1. \A a, b : /\ If(a, Warn("empty item")) \in Words(Usual)
                    /\ (IF b THEN Tell("S1000D profile") ELSE Err("not the S1000D profile")) \in Words(Usual)
      BY <1>1, SaidOne, SaidIf
    <3> QED
      BY <3>1, SaidBoth
  <2>2. \A a, b : If(a, Warn("empty keyword")) \o If(b, Warn("empty item")) \in Words(Usual)
    BY <1>1, SaidOne, SaidIf, SaidBoth
  <2>3. Warn("no colon") \in Words(Usual)
    BY <1>1, SaidOne
  <2> QED
    BY <2>1, <2>2, <2>3 DEF PairRemarks
<1>3. ASSUME NEW d, IsList(d.items)
      PROVE  FormatRemarks(d) \in Words(Usual)
  <2>1. PICK s : s = d.items /\ IsList(s)
    BY <1>3
  <2>2. [i \in DOMAIN s |-> PairRemarks(s[i])] \in [1..Len(s) -> Words(Usual)]
    BY <1>2, <2>1, Lists
  <2>3. Each(PairRemarks, s) \in Words(Usual)
    BY <2>1, <2>2, Lists, SaidOfEach DEF Each
  <2>4. \A a : Each(PairRemarks, s) \o If(a, Err("no profile")) \o Tell("pairs") \in Words(Usual)
    BY <1>1, <2>3, SaidOne, SaidIf, SaidBoth
  <2>5. Err("no pairs") \in Words(Usual) /\ \A a : If(a, Warn("unclosed")) \in Words(Usual)
    BY <1>1, SaidOne, SaidIf
  <2>6. PICK rest : rest \in Words(Usual) /\
          rest = IF d.quoted /\ d.items # <<>>
                 THEN Each(PairRemarks, d.items) \o If(Keyed("ProfileId", d) = {}, Err("no profile")) \o Tell("pairs")
                 ELSE Err("no pairs")
    BY <2>1, <2>4, <2>5
  <2>7. If(d.unclosed, Warn("unclosed")) \o rest \in Words(Usual)
    BY <2>5, <2>6, SaidBoth
  <2> QED
    BY <2>6, <2>7 DEF FormatRemarks
<1>4. PICK all, without, seen :
        /\ all = Descriptions(f) /\ IsList(all) /\ Len(all) \in Nat /\ DOMAIN all = 1..Len(all)
        /\ without = {i \in DOMAIN all : ~(all[i].quoted /\ all[i].items # <<>>)}
        /\ seen = IF without = {} THEN all ELSE SubSeq(all, 1, Min(without))
  BY DescriptionsAre, Lists
<1>5. IsList(seen) /\ \A i \in DOMAIN seen : IsList(seen[i].items)
  <2>1. CASE without = {}
    BY <1>4, <2>1, DescriptionsAre
  <2>2. CASE without # {}
    <3>1. PICK m : m = Min(without) /\ m \in 1..Len(all)
      <4>1. without \subseteq 1..Len(all) /\ without \subseteq Nat
        BY <1>4
      <4>2. Min(without) \in without
        BY <2>2, <4>1, MinIsMember
      <4> QED
        BY <4>1, <4>2
    <3>2. PICK S : S = {all[i] : i \in DOMAIN all} /\ all \in Seq(S)
      BY <1>4 DEF IsList
    <3>3. seen \in Seq(S) /\ \A i \in DOMAIN seen : i \in DOMAIN all /\ seen[i] = all[i]
      <4>1. seen = SubSeq(all, 1, m)
        BY <1>4, <2>2, <3>1
      <4>2. PICK n \in Nat : n = Len(all) /\ DOMAIN all = 1..n /\ m \in 1..n
        BY <1>4, <3>1
      <4>3. m \in Nat /\ 1 <= m /\ m <= n /\ 1..m \subseteq DOMAIN all
        BY <4>2
      <4>4. \A i \in 1..m : all[i] \in S
        BY <3>2, <4>3
      <4>5. /\ SubSeq(all, 1, m) \in Seq(S) /\ Len(SubSeq(all, 1, m)) = m
            /\ \A i \in 1..m : SubSeq(all, 1, m)[i] = all[i]
        BY <4>3, <4>4, SubSeqProperties
      <4>6. DOMAIN seen = 1..m
        BY <4>1, <4>5
      <4> QED
        BY <4>1, <4>3, <4>5, <4>6
    <3> QED
      BY <1>4, <3>3, ListOf, DescriptionsAre
  <2> QED
    BY <2>1, <2>2
<1>6. [i \in DOMAIN seen |-> FormatRemarks(seen[i])] \in [1..Len(seen) -> Words(Usual)]
  BY <1>3, <1>5, Lists
<1>7. Each(FormatRemarks, seen) \in Words(Usual)
  BY <1>5, <1>6, Lists, SaidOfEach DEF Each
<1> QED
  BY <1>4, <1>7 DEF ValidateDescriptionFormat
-----------------------------------------------------------------------------
\* Words that are errors throughout.
Errs(W) == Seq([severity : {"ERROR"}, what : W])

LEMMA ErrsAre ==
  ASSUME NEW W
  PROVE  /\ <<>> \in Errs(W) /\ \A what \in W : Err(what) \in Errs(W)
         /\ \A c, words : words \in Errs(W) => If(c, words) \in Errs(W)
         /\ \A words, more \in Errs(W) : words \o more \in Errs(W) /\ (words \o more = <<>> <=> words = <<>> /\ more = <<>>)
         /\ Errs(W) \subseteq Words(W)
<1>1. [severity : {"ERROR"}, what : W] \subseteq Remark(W)
  BY DEF Remark, Severities
<1>2. Errs(W) \subseteq Words(W)
  <2>1. PICK S, T : S = [severity : {"ERROR"}, what : W] /\ T = Remark(W) /\ S \subseteq T
    BY <1>1
  <2>2. ASSUME NEW words \in Seq(S) PROVE words \in Seq(T)
    <3>1. Len(words) \in Nat /\ words \in [1..Len(words) -> S]
      OBVIOUS
    <3>2. words \in [1..Len(words) -> T]
      BY <2>1, <3>1
    <3> QED
      BY <3>1, <3>2
  <2> QED
    BY <2>1, <2>2 DEF Errs, Words
<1>3. \A what \in W : Err(what) \in Errs(W)
  BY DEF Err, Say, Errs
<1>4. \A words, more \in Errs(W) : words \o more \in Errs(W) /\ (words \o more = <<>> <=> words = <<>> /\ more = <<>>)
  BY DEF Errs
<1>5. <<>> \in Errs(W)
  BY DEF Errs
<1>6. \A c, words : words \in Errs(W) => If(c, words) \in Errs(W)
  BY <1>5 DEF If
<1> QED
  BY <1>2, <1>3, <1>4, <1>5, <1>6

\* What is said of texts in parts.
TextWords == {"APPEND TEXT missing", "APPEND TEXT out of place"}

TextStates == [awaiting : BOOLEAN, said : Errs(TextWords)]

TextStart == [awaiting |-> FALSE, said |-> <<>>]

LEMMA TextStep ==
  ASSUME NEW s \in TextStates, NEW c
  PROVE  TextSequence(s, c) \in TextStates
<1>1. MissingText \in Errs(TextWords) /\ MisplacedText \in Errs(TextWords)
  BY ErrsAre DEF TextWords, MissingText, MisplacedText
<1>2. PICK awaiting, more : /\ awaiting = (s.awaiting /\ c.code = AppendText)
                            /\ more = (c.code \in {Text, RestrictedText, AppendText} /\ ~c.final)
  OBVIOUS
<1>3. s.said \o If(s.awaiting /\ ~awaiting, MissingText) \o If(c.code = AppendText /\ ~awaiting, MisplacedText)
        \in Errs(TextWords)
  BY <1>1, ErrsAre DEF TextStates
<1> QED
  BY <1>2, <1>3 DEF TextSequence, TextStates

\* The state after each command.
LEMMA TextRun ==
  ASSUME NEW n \in Nat, NEW s, Len(s) = n
  PROVE  \E b : /\ b[0] = TextStart /\ \A i \in 1..n : b[i] = TextSequence(b[i - 1], s[i])
                /\ \A i \in 0..n : b[i] \in TextStates
                /\ Fold(TextSequence, TextStart, s) = b[n]
<1>1. PICK g : g = [i \in 1..n |-> [y \in TextStates |-> TextSequence(y, s[i])]]
  OBVIOUS
<1>2. g \in [1..n -> [TextStates -> TextStates]]
  BY <1>1, TextStep
<1>3. TextStart \in TextStates
  BY ErrsAre DEF TextStart, TextStates
<1>4. PICK a : IsRun(a, TextStates, n, TextStart, g)
  BY <1>2, <1>3, Turns
<1>5. ASSUME NEW i \in 0..n PROVE a[i] = IF i = 0 THEN TextStart ELSE TextSequence(a[i - 1], s[i])
  <2>1. CASE i = 0
    BY <1>4, <2>1 DEF IsRun
  <2>2. CASE i # 0
    <3>1. i \in 1..n /\ i - 1 \in 0..n
      BY <2>2
    <3>2. a[i - 1] \in TextStates
      BY <1>4, <3>1 DEF IsRun
    <3> QED
      BY <1>1, <1>4, <2>2, <3>1, <3>2 DEF IsRun
  <2> QED
    BY <2>1, <2>2
<1>6. a = [i \in 0..n |-> IF i = 0 THEN TextStart ELSE TextSequence(a[i - 1], s[i])]
  BY <1>4, <1>5 DEF IsRun
<1>7. PICK b : /\ b = CHOOSE h : h = [i \in 0..n |-> IF i = 0 THEN TextStart ELSE TextSequence(h[i - 1], s[i])]
               /\ b = [i \in 0..n |-> IF i = 0 THEN TextStart ELSE TextSequence(b[i - 1], s[i])]
  BY <1>6
<1>8. Fold(TextSequence, TextStart, s) = b[n]
  BY <1>7 DEF Fold
<1>9. b[0] = TextStart /\ \A i \in 1..n : b[i] = TextSequence(b[i - 1], s[i])
  <2> DEFINE B(i) == IF i = 0 THEN TextStart ELSE TextSequence(b[i - 1], s[i])
  <2>1. b = [i \in 0..n |-> B(i)]
    BY <1>7
  <2>2. \A i \in 0..n : b[i] = B(i)
    <3> HIDE DEF B
    <3> QED
      BY <2>1
  <2> QED
    BY <2>2
<1>10. \A i \in 0..n : b[i] \in TextStates
  BY <1>3, <1>9, TextStep, Stays
<1> QED
  BY <1>8, <1>9, <1>10

\* A part of a text that is not the last.
Part(s, i) == i \in DOMAIN s /\ s[i].code \in {Text, RestrictedText, AppendText} /\ ~s[i].final

\* Nothing is said just when parts and APPEND TEXTs follow each other.
LEMMA TextsHeard ==
  ASSUME NEW n \in Nat, NEW s, Len(s) = n, DOMAIN s = 1..n
  PROVE  /\ TextsOf(s) \in Errs(TextWords)
         /\ TextsOf(s) = <<>> <=>
              \A i \in 0..n : Part(s, i) <=> i + 1 \in 1..n /\ s[i + 1].code = AppendText
<1>1. PICK b : /\ b[0] = TextStart /\ \A i \in 1..n : b[i] = TextSequence(b[i - 1], s[i])
               /\ \A i \in 0..n : b[i] \in TextStates
               /\ Fold(TextSequence, TextStart, s) = b[n]
  BY TextRun
<1> DEFINE Fine(j) == Part(s, j - 1) <=> s[j].code = AppendText
           Inv(i) == /\ b[i].awaiting <=> Part(s, i)
                     /\ b[i].said = <<>> <=> \A j \in 1..i : Fine(j)
           G == {i \in 0..n : Inv(i)}
<1>2. 0 \in G
  BY <1>1 DEF TextStart, Part
<1>3. ASSUME NEW i \in 1..n, i - 1 \in G PROVE i \in G
  <2>1. PICK y : y = b[i - 1] /\ y \in TextStates
    <3>1. i - 1 \in 0..n
      OBVIOUS
    <3> QED
      BY <1>1, <3>1
  <2>2. PICK z : z = b[i] /\ z = TextSequence(y, s[i])
    BY <1>1, <2>1
  <2>3. y.awaiting <=> Part(s, i - 1)
    BY <1>3, <2>1
  <2>4. z.awaiting <=> Part(s, i)
    <3>1. PICK a \in BOOLEAN : a = (s[i].code \in {Text, RestrictedText, AppendText} /\ ~s[i].final)
      OBVIOUS
    <3>2. z.awaiting = a
      BY <2>2, <3>1 DEF TextSequence
    <3> QED
      BY <3>1, <3>2 DEF Part
  <2>5. z.said = <<>> <=> y.said = <<>> /\ Fine(i)
    <3>1. MissingText \in Errs(TextWords) /\ MisplacedText \in Errs(TextWords)
      BY ErrsAre DEF TextWords, MissingText, MisplacedText
    <3>2. PICK m, p : /\ m = If(y.awaiting /\ ~(y.awaiting /\ s[i].code = AppendText), MissingText)
                      /\ p = If(s[i].code = AppendText /\ ~(y.awaiting /\ s[i].code = AppendText), MisplacedText)
      OBVIOUS
    <3>3. m \in Errs(TextWords) /\ p \in Errs(TextWords) /\ y.said \in Errs(TextWords)
      BY <2>1, <3>1, <3>2, ErrsAre DEF TextStates
    <3>4. z.said = (y.said \o m) \o p
      <4>1. TextSequence(y, s[i]) =
              [awaiting |-> s[i].code \in {Text, RestrictedText, AppendText} /\ ~s[i].final,
               said |-> y.said \o If(y.awaiting /\ ~(y.awaiting /\ s[i].code = AppendText), MissingText)
                        \o If(s[i].code = AppendText /\ ~(y.awaiting /\ s[i].code = AppendText), MisplacedText)]
        BY Zenon DEF TextSequence
      <4>2. PICK a : TextSequence(y, s[i]) = [awaiting |-> a, said |-> y.said \o m \o p]
        BY <3>2, <4>1, Zenon
      <4> QED
        BY <2>2, <4>2
    <3>5. y.said \o m \in Errs(TextWords)
      BY <3>3, ErrsAre
    <3>6. z.said = <<>> <=> y.said = <<>> /\ m = <<>> /\ p = <<>>
      BY <3>3, <3>4, <3>5, ErrsAre
    <3>7. MissingText # <<>> /\ MisplacedText # <<>>
      BY DEF MissingText, MisplacedText, Err, Say
    <3>8. (m = <<>> <=> ~(y.awaiting /\ s[i].code # AppendText)) /\ (p = <<>> <=> ~(s[i].code = AppendText /\ ~y.awaiting))
      BY <3>2, <3>7 DEF If
    <3> QED
      BY <2>3, <3>6, <3>8
  <2>6. (\A j \in 1..i : Fine(j)) <=> (\A j \in 1..(i - 1) : Fine(j)) /\ Fine(i)
    <3> HIDE DEF Fine
    <3>1. 1..i = 1..(i - 1) \cup {i}
      OBVIOUS
    <3> QED
      BY <3>1
  <2>7. y.said = <<>> <=> \A j \in 1..(i - 1) : Fine(j)
    BY <1>3, <2>1
  <2>8. Inv(i)
    <3> HIDE DEF Fine
    <3> QED
      BY <2>2, <2>4, <2>5, <2>6, <2>7
  <2> QED
    BY <2>8
<1>4. n \in G
  <2>1. 0..n \subseteq G
    <3> HIDE DEF G
    <3> QED
      BY <1>2, <1>3, HoldsThroughout
  <2> QED
    BY <2>1
<1>5. PICK end : end = b[n] /\ end \in TextStates /\ TextsOf(s) = end.said \o If(end.awaiting, MissingText)
  <2>1. b[n] \in TextStates
    BY <1>1
  <2>2. TextsOf(s) = Fold(TextSequence, TextStart, s).said \o If(Fold(TextSequence, TextStart, s).awaiting, MissingText)
    BY DEF TextsOf, TextStart
  <2> QED
    BY <1>1, <2>1, <2>2
<1>6. /\ end.said \in Errs(TextWords) /\ If(end.awaiting, MissingText) \in Errs(TextWords)
      /\ If(end.awaiting, MissingText) = <<>> <=> ~end.awaiting
  <2>1. MissingText \in Errs(TextWords)
    BY ErrsAre DEF TextWords, MissingText
  <2>2. MissingText # <<>>
    BY DEF MissingText, Err, Say
  <2> QED
    BY <1>5, <2>1, <2>2, ErrsAre DEF TextStates, If
<1>7. TextsOf(s) \in Errs(TextWords) /\ (TextsOf(s) = <<>> <=> end.said = <<>> /\ ~end.awaiting)
  BY <1>5, <1>6, ErrsAre
<1>8. (end.said = <<>> <=> \A j \in 1..n : Fine(j)) /\ (end.awaiting <=> Part(s, n))
  BY <1>4, <1>5
<1>9. (\A j \in 1..n : Fine(j)) /\ ~Part(s, n) <=>
         \A i \in 0..n : Part(s, i) <=> i + 1 \in 1..n /\ s[i + 1].code = AppendText
  <2>1. ASSUME \A j \in 1..n : Fine(j), ~Part(s, n), NEW i \in 0..n
        PROVE  Part(s, i) <=> i + 1 \in 1..n /\ s[i + 1].code = AppendText
    <3>1. CASE i = n
      BY <2>1, <3>1
    <3>2. CASE i # n
      <4>1. PICK j : j = i + 1 /\ j \in 1..n /\ j - 1 = i
        BY <3>2
      <4> QED
        BY <2>1, <4>1
    <3> QED
      BY <3>1, <3>2
  <2>2. ASSUME \A i \in 0..n : Part(s, i) <=> i + 1 \in 1..n /\ s[i + 1].code = AppendText
        PROVE  (\A j \in 1..n : Fine(j)) /\ ~Part(s, n)
    <3>1. ASSUME NEW j \in 1..n PROVE Fine(j)
      <4>1. j - 1 \in 0..n /\ (j - 1) + 1 = j
        OBVIOUS
      <4> QED
        BY <2>2, <4>1
    <3>2. ~Part(s, n)
      <4>1. n \in 0..n /\ n + 1 \notin 1..n
        OBVIOUS
      <4> QED
        BY <2>2, <4>1
    <3> QED
      BY <3>1, <3>2
  <2> QED
    BY <2>1, <2>2
<1> QED
  BY <1>7, <1>8, <1>9
-----------------------------------------------------------------------------
\* Counting between a beginning and its end.
Counted(s, j, i, classes) == Cardinality({k \in j..i : Class(s[k]) \in classes})

\* The last beginning up to i is at j, and nothing has ended since.
Begun(s, j, i, begin, end) ==
  j \in 1..i /\ s[j].code = begin /\ \A k \in (j + 1)..i : s[k].code \notin {begin, end}

LEMMA CountedFirst ==
  ASSUME NEW s, NEW j \in Nat, NEW classes, Class(s[j]) \notin classes
  PROVE  Counted(s, j, j, classes) = 0
<1>1. {k \in j..j : Class(s[k]) \in classes} = {}
  OBVIOUS
<1> QED
  BY <1>1, FS_EmptySet DEF Counted

LEMMA CountedNext ==
  ASSUME NEW s, NEW j \in Nat, NEW i \in Nat, j <= i + 1, NEW classes
  PROVE  /\ Counted(s, j, i, classes) \in Nat
         /\ Counted(s, j, i + 1, classes)
              = IF Class(s[i + 1]) \in classes THEN Counted(s, j, i, classes) + 1 ELSE Counted(s, j, i, classes)
<1>1. PICK T, U : T = {k \in j..i : Class(s[k]) \in classes} /\ U = {k \in j..(i + 1) : Class(s[k]) \in classes}
  OBVIOUS
<1>2. IsFiniteSet(T)
  <2>1. PICK V : V = j..i /\ IsFiniteSet(V)
    BY FS_Interval
  <2>2. T \subseteq V
    BY <1>1, <2>1
  <2> QED
    BY <2>1, <2>2, FS_Subset
<1>3. i + 1 \notin T /\ U = IF Class(s[i + 1]) \in classes THEN T \cup {i + 1} ELSE T
  <2>1. j..(i + 1) = (j..i) \cup {i + 1} /\ i + 1 \notin j..i
    OBVIOUS
  <2>2. \A k : k \in U <=> k \in T \/ (k = i + 1 /\ Class(s[i + 1]) \in classes)
    BY <1>1, <2>1
  <2>3. i + 1 \notin T
    BY <1>1, <2>1
  <2>4. CASE Class(s[i + 1]) \in classes
    BY <2>2, <2>3, <2>4
  <2>5. CASE Class(s[i + 1]) \notin classes
    BY <2>2, <2>3, <2>5
  <2> QED
    BY <2>4, <2>5
<1>4. Cardinality(T) \in Nat
  BY <1>2, FS_CardinalityType
<1>5. Cardinality(T \cup {i + 1}) = Cardinality(T) + 1
  BY <1>2, <1>3, FS_AddElement
<1> QED
  BY <1>1, <1>3, <1>4, <1>5 DEF Counted

\* A flag and a counter: inside between a beginning and its end, and large once
\* an end has found the counter beyond a limit.
CountsSince(s, n, inside, counter, large, begin, end, classes, limit) ==
  /\ ~inside[0] /\ counter[0] = 0 /\ ~large[0]
  /\ \A i \in 0..n : inside[i] \in BOOLEAN /\ counter[i] \in Nat /\ large[i] \in BOOLEAN
  /\ \A i \in 1..n :
        /\ s[i].code = begin => inside[i] /\ counter[i] = 0 /\ (large[i] <=> large[i - 1])
        /\ s[i].code = end => /\ ~inside[i] /\ counter[i] \in {0, counter[i - 1]}
                              /\ large[i] <=> large[i - 1] \/ counter[i - 1] > limit
        /\ s[i].code \notin {begin, end} =>
             /\ inside[i] <=> inside[i - 1]
             /\ large[i] <=> large[i - 1]
             /\ counter[i] = IF inside[i - 1] /\ Class(s[i]) \in classes THEN counter[i - 1] + 1 ELSE counter[i - 1]

\* An end with its beginning, and more than the limit between them.
Beyond(s, e, begin, end, classes, limit) ==
  s[e].code = end /\ \E j \in 1..(e - 1) : Begun(s, j, e - 1, begin, end) /\ Counted(s, j, e, classes) > limit

LEMMA CountedWell ==
  ASSUME NEW n \in Nat, NEW s, NEW inside, NEW counter, NEW large, NEW begin, NEW end, NEW classes, NEW limit \in Nat,
         begin # end, begin[1] \notin classes, end[1] \notin classes,
         CountsSince(s, n, inside, counter, large, begin, end, classes, limit)
  PROVE  large[n] <=> \E e \in 1..n : Beyond(s, e, begin, end, classes, limit)
<1> DEFINE Inv(i) == /\ inside[i] <=> \E j \in 1..i : Begun(s, j, i, begin, end)
                     /\ \A j \in 1..i : Begun(s, j, i, begin, end) => counter[i] = Counted(s, j, i, classes)
                     /\ ~inside[i] /\ counter[i] > limit => large[i]
                     /\ large[i] <=> \E e \in 1..i : Beyond(s, e, begin, end, classes, limit)
           G == {i \in 0..n : Inv(i)}
<1>1. 0 \in G
  BY DEF CountsSince
<1>2. ASSUME NEW i \in 1..n, i - 1 \in G PROVE i \in G
  <2>1. PICK m : m = i - 1 /\ m \in 0..n /\ m \in Nat /\ i = m + 1 /\ m \in G
    BY <1>2
  <2>2. Inv(m)
    BY <2>1
  <2>3. /\ inside[m] \in BOOLEAN /\ counter[m] \in Nat /\ large[m] \in BOOLEAN
        /\ inside[i] \in BOOLEAN /\ counter[i] \in Nat /\ large[i] \in BOOLEAN
    BY <2>1 DEF CountsSince
  <2>4. 1..i = (1..m) \cup {i} /\ i \notin 1..m
    BY <2>1
  <2>5. (\E e \in 1..i : Beyond(s, e, begin, end, classes, limit)) <=>
           (\E e \in 1..m : Beyond(s, e, begin, end, classes, limit)) \/ Beyond(s, i, begin, end, classes, limit)
    BY <2>4
  <2>6. \A j \in 1..m : Begun(s, j, i, begin, end) <=> Begun(s, j, m, begin, end) /\ s[i].code \notin {begin, end}
    <3> SUFFICES ASSUME NEW j \in 1..m
                 PROVE  Begun(s, j, i, begin, end) <=> Begun(s, j, m, begin, end) /\ s[i].code \notin {begin, end}
      OBVIOUS
    <3>1. (j + 1)..i = ((j + 1)..m) \cup {i} /\ j \in 1..i
      BY <2>1
    <3> QED
      BY <3>1 DEF Begun
  <2>7. Begun(s, i, i, begin, end) <=> s[i].code = begin
    <3>1. (i + 1)..i = {} /\ i \in 1..i
      OBVIOUS
    <3> QED
      BY <3>1 DEF Begun
  <2>8. CASE s[i].code = begin
    <3>1. inside[i] /\ counter[i] = 0 /\ (large[i] <=> large[m])
      BY <2>1, <2>8 DEF CountsSince
    <3>2. Counted(s, i, i, classes) = 0
      BY <2>8, CountedFirst DEF Class
    <3>3. ~Beyond(s, i, begin, end, classes, limit)
      BY <2>8 DEF Beyond
    <3>4. \A j \in 1..i : Begun(s, j, i, begin, end) => j = i
      BY <2>4, <2>6, <2>8
    <3>5. Inv(i)
      BY <2>2, <2>5, <2>7, <2>8, <3>1, <3>2, <3>3, <3>4
    <3> QED
      BY <3>5
  <2>9. CASE s[i].code = end
    <3>1. ~inside[i] /\ counter[i] \in {0, counter[m]} /\ (large[i] <=> large[m] \/ counter[m] > limit)
      BY <2>1, <2>9 DEF CountsSince
    <3>2. \A j \in 1..i : ~Begun(s, j, i, begin, end)
      BY <2>4, <2>6, <2>7, <2>9
    <3>3. \A j \in 1..m : Begun(s, j, m, begin, end) => Counted(s, j, i, classes) = counter[m]
      <4> SUFFICES ASSUME NEW j \in 1..m, Begun(s, j, m, begin, end) PROVE Counted(s, j, i, classes) = counter[m]
        OBVIOUS
      <4>1. Class(s[m + 1]) \notin classes
        BY <2>1, <2>9 DEF Class
      <4>2. Counted(s, j, m + 1, classes) = Counted(s, j, m, classes)
        BY <2>1, <4>1, CountedNext
      <4> QED
        BY <2>1, <2>2, <4>2
    <3>4. Beyond(s, i, begin, end, classes, limit) <=> inside[m] /\ counter[m] > limit
      <4>1. i - 1 = m
        BY <2>1
      <4> QED
        BY <2>2, <2>9, <3>3, <4>1 DEF Beyond
    <3>5. large[i] <=> \E e \in 1..i : Beyond(s, e, begin, end, classes, limit)
      BY <2>2, <2>3, <2>5, <3>1, <3>4
    <3>6. counter[i] > limit => large[i]
      BY <2>3, <3>1
    <3>7. Inv(i)
      BY <3>1, <3>2, <3>5, <3>6
    <3> QED
      BY <3>7
  <2>10. CASE s[i].code \notin {begin, end}
    <3>1. /\ inside[i] <=> inside[m]
          /\ large[i] <=> large[m]
          /\ counter[i] = IF inside[m] /\ Class(s[i]) \in classes THEN counter[m] + 1 ELSE counter[m]
      BY <2>1, <2>10 DEF CountsSince
    <3>2. \A j \in 1..i : Begun(s, j, i, begin, end) <=> j \in 1..m /\ Begun(s, j, m, begin, end)
      BY <2>4, <2>6, <2>7, <2>10
    <3>3. ~Beyond(s, i, begin, end, classes, limit)
      BY <2>10 DEF Beyond
    <3>4. \A j \in 1..m : Begun(s, j, m, begin, end) => counter[i] = Counted(s, j, i, classes)
      <4> SUFFICES ASSUME NEW j \in 1..m, Begun(s, j, m, begin, end) PROVE counter[i] = Counted(s, j, i, classes)
        OBVIOUS
      <4>1. inside[m] /\ counter[m] = Counted(s, j, m, classes)
        BY <2>2
      <4>2. Counted(s, j, m + 1, classes)
              = IF Class(s[m + 1]) \in classes THEN Counted(s, j, m, classes) + 1 ELSE Counted(s, j, m, classes)
        BY <2>1, CountedNext
      <4> QED
        BY <2>1, <3>1, <4>1, <4>2
    <3>5. ~inside[i] /\ counter[i] > limit => large[i]
      BY <2>2, <3>1
    <3>6. large[i] <=> \E e \in 1..i : Beyond(s, e, begin, end, classes, limit)
      BY <2>2, <2>5, <3>1, <3>3
    <3>7. inside[i] <=> \E j \in 1..i : Begun(s, j, i, begin, end)
      <4>1. (\E j \in 1..i : Begun(s, j, i, begin, end)) <=> \E j \in 1..m : Begun(s, j, m, begin, end)
        BY <2>4, <3>2
      <4> QED
        BY <2>2, <3>1, <4>1
    <3>8. Inv(i)
      BY <3>2, <3>4, <3>5, <3>6, <3>7
    <3> QED
      BY <3>8
  <2> QED
    BY <2>8, <2>9, <2>10
<1>3. 0..n \subseteq G
  <2> HIDE DEF G
  <2> QED
    BY <1>1, <1>2, HoldsThroughout
<1> QED
  BY <1>3

LEMMA HeardOf ==
  ASSUME NEW what
  PROVE  /\ Heard(Err(what)) = {<<"ERROR", what>>} /\ Heard(Warn(what)) = {<<"WARNING", what>>}
         /\ Heard(Tell(what)) = {<<"INFO", what>>} /\ Heard(<<>>) = {}
<1>1. /\ DOMAIN Err(what) = {1} /\ Err(what)[1].severity = "ERROR" /\ Err(what)[1].what = what
      /\ DOMAIN Warn(what) = {1} /\ Warn(what)[1].severity = "WARNING" /\ Warn(what)[1].what = what
      /\ DOMAIN Tell(what) = {1} /\ Tell(what)[1].severity = "INFO" /\ Tell(what)[1].what = what
  BY DEF Err, Warn, Tell, Say
<1>2. DOMAIN <<>> = {}
  OBVIOUS
<1> QED
  BY <1>1, <1>2 DEF Heard

\* What is said of protection regions.
RegionWords == {"regions", "region index", "large region"}

RegionStates == [begun : Nat, inside : BOOLEAN, elements : Nat, said : Errs(RegionWords)]

RegionStart == [begun |-> 0, inside |-> FALSE, elements |-> 0, said |-> <<>>]

LEMMA RegionStep ==
  ASSUME NEW s \in RegionStates, NEW c
  PROVE  RegionElements(s, c) \in RegionStates
<1>0. PICK E : E = Errs(RegionWords)
  OBVIOUS
<1>1. Err("regions") \in E /\ Err("region index") \in E /\ Err("large region") \in E
  BY <1>0, ErrsAre DEF RegionWords
<1>2. PICK begun, said, elements, inside :
        /\ s = [begun |-> begun, inside |-> inside, elements |-> elements, said |-> said]
        /\ begun \in Nat /\ said \in E /\ elements \in Nat /\ inside \in BOOLEAN
  BY <1>0 DEF RegionStates
<1>9. s.begun = begun /\ s.said = said /\ s.elements = elements /\ s.inside = inside
  BY <1>2
<1>3. PICK a, b, d : a = (begun + 1 > MaxRegions) /\ b = (c.region # 1) /\ d = (elements > MaxInRegion)
  OBVIOUS
<1>4. PICK m : m = said \o If(a, Err("regions")) \o If(b, Err("region index")) /\ m \in E
  <2>1. If(a, Err("regions")) \in E /\ If(b, Err("region index")) \in E
    BY <1>0, <1>1, ErrsAre
  <2>2. said \o If(a, Err("regions")) \in E
    BY <1>0, <1>2, <2>1, ErrsAre
  <2> QED
    BY <1>0, <2>1, <2>2, ErrsAre
<1>5. PICK k : k = said \o If(d, Err("large region")) /\ k \in E
  BY <1>0, <1>1, <1>2, ErrsAre
<1>6. CASE c.code = BeginRegion
  <2>1. RegionElements(s, c)
          = [begun |-> s.begun + 1, inside |-> TRUE, elements |-> 0,
             said |-> s.said \o If(s.begun + 1 > MaxRegions, Err("regions")) \o If(c.region # 1, Err("region index"))]
    <3>1. BeginRegion # EndRegion
      BY DEF BeginRegion, EndRegion
    <3> QED
      BY <1>6, <3>1, Zenon DEF RegionElements
  <2>3. RegionElements(s, c) = [begun |-> begun + 1, inside |-> TRUE, elements |-> 0, said |-> m]
    BY <1>3, <1>4, <1>9, <2>1, Zenon
  <2>4. PICK next \in Nat : next = begun + 1
    BY <1>2
  <2>5. m \in E
    BY <1>4
  <2>6. [begun |-> next, inside |-> TRUE, elements |-> 0, said |-> m]
          \in [begun : Nat, inside : BOOLEAN, elements : Nat, said : E]
    BY <2>5
  <2>2. RegionElements(s, c) \in [begun : Nat, inside : BOOLEAN, elements : Nat, said : E]
    BY <2>3, <2>4, <2>6
  <2> QED
    BY <1>0, <2>1, <2>2 DEF RegionStates
<1>7. CASE c.code = EndRegion
  <2>a. RegionElements(s, c)
          = [s EXCEPT !.inside = FALSE, !.elements = 0,
                      !.said = s.said \o If(s.elements > MaxInRegion, Err("large region"))]
    <3>1. BeginRegion # EndRegion
      BY DEF BeginRegion, EndRegion
    <3> QED
      BY <1>7, <3>1 DEF RegionElements
  <2>b. s.said \o If(s.elements > MaxInRegion, Err("large region")) = k
    BY <1>3, <1>5, <1>9, Zenon
  <2>1. RegionElements(s, c) = [begun |-> begun, inside |-> FALSE, elements |-> 0, said |-> k]
    BY <1>2, <2>a, <2>b
  <2>2. [begun |-> begun, inside |-> FALSE, elements |-> 0, said |-> k]
          \in [begun : Nat, inside : BOOLEAN, elements : Nat, said : E]
    <3>1. k \in E
      BY <1>5
    <3> QED
      BY <1>2, <3>1
  <2> QED
    BY <1>0, <2>1, <2>2 DEF RegionStates
<1>8. CASE c.code \notin {BeginRegion, EndRegion}
  <2>1. RegionElements(s, c)
          = [begun |-> begun, inside |-> inside, said |-> said,
             elements |-> IF inside /\ Class(c) # 0 THEN elements + 1 ELSE elements]
    BY <1>2, <1>8 DEF RegionElements
  <2>2. PICK e \in Nat : e = IF inside /\ Class(c) # 0 THEN elements + 1 ELSE elements
    BY <1>2
  <2>3. [begun |-> begun, inside |-> inside, said |-> said, elements |-> e]
          \in [begun : Nat, inside : BOOLEAN, elements : Nat, said : E]
    BY <1>2
  <2> QED
    BY <1>0, <2>1, <2>2, <2>3 DEF RegionStates
<1> QED
  BY <1>6, <1>7, <1>8

LEMMA RegionBegins == RegionStart \in RegionStates
<1>1. PICK E : E = Errs(RegionWords) /\ <<>> \in E
  BY ErrsAre
<1>2. [begun |-> 0, inside |-> FALSE, elements |-> 0, said |-> <<>>]
        \in [begun : Nat, inside : BOOLEAN, elements : Nat, said : E]
  BY <1>1
<1> QED
  BY <1>1, <1>2 DEF RegionStart, RegionStates

LEMMA RegionRun ==
  ASSUME NEW n \in Nat, NEW s, Len(s) = n
  PROVE  \E b : /\ b[0] = RegionStart /\ \A i \in 1..n : b[i] = RegionElements(b[i - 1], s[i])
                /\ \A i \in 0..n : b[i] \in RegionStates
                /\ Fold(RegionElements, RegionStart, s) = b[n]
<1>1. PICK g : g = [i \in 1..n |-> [y \in RegionStates |-> RegionElements(y, s[i])]]
  OBVIOUS
<1>2. g \in [1..n -> [RegionStates -> RegionStates]]
  BY <1>1, RegionStep
<1>3. PICK x : x = RegionStart /\ x \in RegionStates
  BY RegionBegins
<1>4. PICK a : IsRun(a, RegionStates, n, x, g)
  BY <1>2, <1>3, Turns
<1>5. ASSUME NEW i \in 0..n PROVE a[i] = IF i = 0 THEN x ELSE RegionElements(a[i - 1], s[i])
  <2>1. CASE i = 0
    BY <1>4, <2>1 DEF IsRun
  <2>2. CASE i # 0
    <3>1. i \in 1..n /\ i - 1 \in 0..n
      BY <2>2
    <3>2. a[i - 1] \in RegionStates
      BY <1>4, <3>1 DEF IsRun
    <3> QED
      BY <1>1, <1>4, <2>2, <3>1, <3>2 DEF IsRun
  <2> QED
    BY <2>1, <2>2
<1>6. a = [i \in 0..n |-> IF i = 0 THEN x ELSE RegionElements(a[i - 1], s[i])]
  BY <1>4, <1>5 DEF IsRun
<1>7. PICK b : /\ b = CHOOSE h : h = [i \in 0..n |-> IF i = 0 THEN x ELSE RegionElements(h[i - 1], s[i])]
               /\ b = [i \in 0..n |-> IF i = 0 THEN x ELSE RegionElements(b[i - 1], s[i])]
  BY <1>6
<1>8. Fold(RegionElements, x, s) = b[n]
  BY <1>7 DEF Fold
<1>9. b[0] = x /\ \A i \in 1..n : b[i] = RegionElements(b[i - 1], s[i])
  <2> DEFINE B(i) == IF i = 0 THEN x ELSE RegionElements(b[i - 1], s[i])
  <2>1. b = [i \in 0..n |-> B(i)]
    BY <1>7
  <2>2. \A i \in 0..n : b[i] = B(i)
    <3> HIDE DEF B
    <3> QED
      BY <2>1
  <2> QED
    BY <2>2
<1>10. \A i \in 0..n : b[i] \in RegionStates
  BY <1>3, <1>9, RegionStep, Stays
<1> QED
  BY <1>3, <1>8, <1>9, <1>10

\* What is said with the picture it is about.
Plain(S, W) == [severity : S, what : W]
Placed(S, W) == [severity : S, what : W, picture : Nat]
Remarks(S, W) == Seq(Placed(S, W))

LEMMA RemarksAre ==
  ASSUME NEW S, NEW W
  PROVE  /\ <<>> \in Remarks(S, W)
         /\ \A m, k \in Remarks(S, W) : m \o k \in Remarks(S, W)
         /\ \A m \in Remarks(S, W) : IsList(m) /\ Heard(m) \subseteq S \X W
<1>1. \A m \in Remarks(S, W) : IsList(m)
  BY ListOf DEF Remarks
<1>2. ASSUME NEW m \in Remarks(S, W), NEW i \in DOMAIN m PROVE <<m[i].severity, m[i].what>> \in S \X W
  <2>1. \A j \in DOMAIN m : m[j] \in Placed(S, W)
    BY DEF Remarks
  <2>2. m[i] \in Placed(S, W)
    BY <2>1
  <2> QED
    BY <2>2 DEF Placed
<1>3. \A m \in Remarks(S, W) : Heard(m) \subseteq S \X W
  BY <1>2 DEF Heard
<1> QED
  BY <1>1, <1>3 DEF Remarks

LEMMA AboutAre ==
  ASSUME NEW S, NEW W, NEW words \in Seq(Plain(S, W)), NEW picture \in Nat
  PROVE  About(picture, words) \in Remarks(S, W)
<1>1. \A i \in DOMAIN words : words[i] \in Plain(S, W)
  OBVIOUS
<1>2. \A i \in DOMAIN words : words[i].severity \in S /\ words[i].what \in W
  BY <1>1 DEF Plain
<1>3. PICK T : T = Placed(S, W)
  OBVIOUS
<1>4. \A i \in DOMAIN words : [severity |-> words[i].severity, what |-> words[i].what, picture |-> picture] \in T
  BY <1>2, <1>3 DEF Placed
<1>5. Len(words) \in Nat /\ DOMAIN words = 1..Len(words)
  OBVIOUS
<1>6. PICK m : m = About(picture, words) /\ m \in [1..Len(words) -> T]
  <2>1. About(picture, words)
          = [i \in DOMAIN words |-> [severity |-> words[i].severity, what |-> words[i].what, picture |-> picture]]
    BY DEF About
  <2> DEFINE e(i) == [severity |-> words[i].severity, what |-> words[i].what, picture |-> picture]
  <2>2. About(picture, words) = [i \in DOMAIN words |-> e(i)] /\ \A i \in DOMAIN words : e(i) \in T
    BY <1>4, <2>1
  <2> HIDE DEF e
  <2>3. About(picture, words) \in [DOMAIN words -> T]
    BY <2>2
  <2> QED
    BY <1>5, <2>3
<1>7. m \in Seq(T)
  BY <1>5, <1>6
<1> QED
  BY <1>3, <1>6, <1>7 DEF Remarks

LEMMA HeardIf ==
  ASSUME NEW c, NEW words
  PROVE  Heard(If(c, words)) = IF c THEN Heard(words) ELSE {}
BY HeardOf DEF If

LargeRegion(s) == <<"ERROR", "large region">> \in Heard(s.said)

LEMMA RegionCounts ==
  ASSUME NEW s \in RegionStates, NEW c, Class(c) \in 0..15
  PROVE  LET z == RegionElements(s, c)
         IN  /\ c.code = BeginRegion => z.inside /\ z.elements = 0 /\ (LargeRegion(z) <=> LargeRegion(s))
             /\ c.code = EndRegion => /\ ~z.inside /\ z.elements = 0
                                      /\ LargeRegion(z) <=> LargeRegion(s) \/ s.elements > MaxInRegion
             /\ c.code \notin {BeginRegion, EndRegion} =>
                  /\ z.inside <=> s.inside
                  /\ z.said = s.said
                  /\ z.elements = IF s.inside /\ Class(c) \in 1..15 THEN s.elements + 1 ELSE s.elements
<1>0. PICK E : E = Errs(RegionWords)
  OBVIOUS
<1>1. Err("regions") \in E /\ Err("region index") \in E /\ Err("large region") \in E
  BY <1>0, ErrsAre DEF RegionWords
<1>2. PICK begun, said, elements, inside :
        /\ s = [begun |-> begun, inside |-> inside, elements |-> elements, said |-> said]
        /\ begun \in Nat /\ said \in E /\ elements \in Nat /\ inside \in BOOLEAN
  BY <1>0 DEF RegionStates
<1>3. s.begun = begun /\ s.said = said /\ s.elements = elements /\ s.inside = inside
  BY <1>2
<1>4. \A w \in E : IsList(w)
  BY <1>0, ListOf DEF Errs
<1>5. PICK z : z = RegionElements(s, c)
  OBVIOUS
<1>6. CASE c.code = BeginRegion
  <2>1. z = [begun |-> s.begun + 1, inside |-> TRUE, elements |-> 0,
             said |-> s.said \o If(s.begun + 1 > MaxRegions, Err("regions")) \o If(c.region # 1, Err("region index"))]
    <3>1. BeginRegion # EndRegion
      BY DEF BeginRegion, EndRegion
    <3> QED
      BY <1>5, <1>6, <3>1, Zenon DEF RegionElements
  <2>2. PICK k, l : k = If(s.begun + 1 > MaxRegions, Err("regions")) /\ l = If(c.region # 1, Err("region index"))
    OBVIOUS
  <2>3. k \in E /\ l \in E /\ Heard(k) \subseteq {<<"ERROR", "regions">>} /\ Heard(l) \subseteq {<<"ERROR", "region index">>}
    BY <1>0, <1>1, <2>2, ErrsAre, HeardOf, HeardIf
  <2>4. z.inside /\ z.elements = 0 /\ z.said = said \o k \o l
    <3>1. PICK m : m = s.said \o k \o l /\ z = [begun |-> s.begun + 1, inside |-> TRUE, elements |-> 0, said |-> m]
      BY <2>1, <2>2, Zenon
    <3> QED
      BY <1>3, <3>1
  <2>5. IsList(said) /\ IsList(k) /\ IsList(l)
    BY <1>2, <1>4, <2>3
  <2>6. Heard(z.said) = Heard(said) \cup Heard(k) \cup Heard(l)
    BY <2>4, <2>5, HeardBoth
  <2>7. LargeRegion(z) <=> LargeRegion(s)
    BY <1>3, <2>3, <2>6 DEF LargeRegion
  <2>8. BeginRegion # EndRegion
    BY DEF BeginRegion, EndRegion
  <2> QED
    BY <1>5, <1>6, <2>4, <2>7, <2>8
<1>7. CASE c.code = EndRegion
  <2>0. BeginRegion # EndRegion
    BY DEF BeginRegion, EndRegion
  <2>1. z = [s EXCEPT !.inside = FALSE, !.elements = 0, !.said = s.said \o If(s.elements > MaxInRegion, Err("large region"))]
    BY <1>5, <1>7, <2>0 DEF RegionElements
  <2>2. PICK k : k = If(s.elements > MaxInRegion, Err("large region"))
    OBVIOUS
  <2>3. k \in E /\ Heard(k) = IF s.elements > MaxInRegion THEN {<<"ERROR", "large region">>} ELSE {}
    BY <1>0, <1>1, <2>2, ErrsAre, HeardOf, HeardIf
  <2>4. ~z.inside /\ z.elements = 0 /\ z.said = said \o k
    <3>1. z = [s EXCEPT !.inside = FALSE, !.elements = 0, !.said = said \o k]
      BY <1>3, <2>1, <2>2, Zenon
    <3> QED
      BY <1>2, <3>1
  <2>5. IsList(said) /\ IsList(k)
    BY <1>2, <1>4, <2>3
  <2>6. Heard(z.said) = Heard(said) \cup Heard(k)
    BY <2>4, <2>5, HeardBoth
  <2>7. LargeRegion(z) <=> LargeRegion(s) \/ s.elements > MaxInRegion
    BY <1>3, <2>3, <2>6 DEF LargeRegion
  <2> QED
    BY <1>5, <1>7, <2>0, <2>4, <2>7
<1>8. CASE c.code \notin {BeginRegion, EndRegion}
  <2>1. z = IF s.inside /\ Class(c) # 0 THEN [s EXCEPT !.elements = @ + 1] ELSE s
    BY <1>5, <1>8 DEF RegionElements
  <2>2. Class(c) # 0 <=> Class(c) \in 1..15
    OBVIOUS
  <2> QED
    BY <1>2, <1>3, <1>5, <1>8, <2>1, <2>2
<1> QED
  BY <1>5, <1>6, <1>7, <1>8

\* Exactly those beyond the limit are reported.
LEMMA RegionsHeard ==
  ASSUME NEW n \in Nat, NEW s, IsList(s), Len(s) = n, \A i \in 1..n : Class(s[i]) \in 0..15
  PROVE  /\ RegionsOf(s) \in Errs(RegionWords)
         /\ <<"ERROR", "large region">> \in Heard(RegionsOf(s))
              <=> \E e \in 1..n : Beyond(s, e, BeginRegion, EndRegion, 1..15, MaxInRegion)
<1>1. PICK b : /\ b[0] = RegionStart /\ \A i \in 1..n : b[i] = RegionElements(b[i - 1], s[i])
               /\ \A i \in 0..n : b[i] \in RegionStates
               /\ Fold(RegionElements, RegionStart, s) = b[n]
  BY RegionRun
<1>2. PICK inside, counter, large :
        /\ inside = [i \in 0..n |-> b[i].inside] /\ counter = [i \in 0..n |-> b[i].elements]
        /\ large = [i \in 0..n |-> LargeRegion(b[i])]
  OBVIOUS
<1>3. ~inside[0] /\ counter[0] = 0 /\ ~large[0]
  <2>1. 0 \in 0..n /\ b[0].inside = FALSE /\ b[0].elements = 0 /\ b[0].said = <<>>
    BY <1>1 DEF RegionStart
  <2>2. ~LargeRegion(b[0])
    BY <2>1, HeardOf DEF LargeRegion
  <2> QED
    BY <1>2, <2>1, <2>2
<1>4. ASSUME NEW i \in 0..n PROVE inside[i] \in BOOLEAN /\ counter[i] \in Nat /\ large[i] \in BOOLEAN
  <2>1. b[i] \in RegionStates
    BY <1>1
  <2>2. b[i].inside \in BOOLEAN /\ b[i].elements \in Nat
    BY <2>1 DEF RegionStates
  <2>3. LargeRegion(b[i]) \in BOOLEAN
    BY DEF LargeRegion
  <2> QED
    BY <1>2, <2>2, <2>3
<1>5. ASSUME NEW i \in 1..n
      PROVE  /\ s[i].code = BeginRegion => inside[i] /\ counter[i] = 0 /\ (large[i] <=> large[i - 1])
             /\ s[i].code = EndRegion =>
                  /\ ~inside[i] /\ counter[i] \in {0, counter[i - 1]}
                  /\ large[i] <=> large[i - 1] \/ counter[i - 1] > MaxInRegion
             /\ s[i].code \notin {BeginRegion, EndRegion} =>
                  /\ inside[i] <=> inside[i - 1]
                  /\ large[i] <=> large[i - 1]
                  /\ counter[i] = IF inside[i - 1] /\ Class(s[i]) \in 1..15 THEN counter[i - 1] + 1 ELSE counter[i - 1]
  <2>1. PICK y : y = b[i - 1] /\ y \in RegionStates /\ i - 1 \in 0..n /\ i \in 0..n
    <3>1. i - 1 \in 0..n
      OBVIOUS
    <3> QED
      BY <1>1, <3>1
  <2>2. PICK z : z = b[i] /\ z = RegionElements(y, s[i])
    BY <1>1, <2>1
  <2>3. /\ inside[i - 1] = y.inside /\ counter[i - 1] = y.elements /\ (large[i - 1] <=> LargeRegion(y))
        /\ inside[i] = z.inside /\ counter[i] = z.elements /\ (large[i] <=> LargeRegion(z))
    BY <1>2, <2>1, <2>2
  <2>4. Class(s[i]) \in 0..15
    BY Lists
  <2>5. /\ s[i].code = BeginRegion => z.inside /\ z.elements = 0 /\ (LargeRegion(z) <=> LargeRegion(y))
        /\ s[i].code = EndRegion =>
             /\ ~z.inside /\ z.elements \in {0, y.elements}
             /\ LargeRegion(z) <=> LargeRegion(y) \/ y.elements > MaxInRegion
        /\ s[i].code \notin {BeginRegion, EndRegion} =>
             /\ z.inside <=> y.inside
             /\ z.said = y.said
             /\ z.elements = IF y.inside /\ Class(s[i]) \in 1..15 THEN y.elements + 1 ELSE y.elements
    <3>1. y \in RegionStates /\ z = RegionElements(y, s[i])
      BY <2>1, <2>2
    <3> HIDE DEF RegionStates
    <3> QED
      BY <2>4, <3>1, RegionCounts
  <2>6. z.said = y.said => (LargeRegion(z) <=> LargeRegion(y))
    BY DEF LargeRegion
  <2> QED
    BY <2>3, <2>5, <2>6
<1>6. CountsSince(s, n, inside, counter, large, BeginRegion, EndRegion, 1..15, MaxInRegion)
  BY <1>3, <1>4, <1>5 DEF CountsSince
<1>7. BeginRegion # EndRegion /\ BeginRegion[1] \notin 1..15 /\ EndRegion[1] \notin 1..15 /\ MaxInRegion \in Nat
  BY LimitsAssumption DEF BeginRegion, EndRegion
<1>8. large[n] <=> \E e \in 1..n : Beyond(s, e, BeginRegion, EndRegion, 1..15, MaxInRegion)
  BY <1>6, <1>7, CountedWell
<1>9. b[n] \in RegionStates /\ RegionsOf(s) = b[n].said /\ n \in 0..n
  BY <1>1 DEF RegionsOf, RegionStart
<1>10. b[n].said \in Errs(RegionWords)
  BY <1>9 DEF RegionStates
<1>11. large[n] <=> <<"ERROR", "large region">> \in Heard(RegionsOf(s))
  BY <1>2, <1>9 DEF LargeRegion
<1> QED
  BY <1>8, <1>9, <1>10, <1>11

-----------------------------------------------------------------------------
FigureStates == [messages : Remarks({"ERROR"}, {"large figure"}), picture : Nat, inside : BOOLEAN, primitives : Nat]

FigureStart(picture) == [messages |-> <<>>, picture |-> picture, inside |-> FALSE, primitives |-> 0]

LargeFigure(s) == <<"ERROR", "large figure">> \in Heard(s.messages)

LEMMA FigureCounts ==
  ASSUME NEW s \in FigureStates, NEW c
  PROVE  LET z == FigurePrimitives(s, c)
         IN  /\ z \in FigureStates
             /\ c.code = BeginFigure => z.inside /\ z.primitives = 0 /\ (LargeFigure(z) <=> LargeFigure(s))
             /\ c.code = EndFigure => /\ ~z.inside /\ z.primitives = s.primitives
                                      /\ LargeFigure(z) <=> LargeFigure(s) \/ s.primitives > MaxInFigure
             /\ c.code \notin {BeginFigure, EndFigure} =>
                  /\ z.inside <=> s.inside
                  /\ z.messages = s.messages
                  /\ z.primitives = IF s.inside /\ Class(c) \in {4} THEN s.primitives + 1 ELSE s.primitives
<1>0. PICK E : E = Remarks({"ERROR"}, {"large figure"})
  OBVIOUS
<1>1. \A picture \in Nat : About(picture, Err("large figure")) \in E
  <2>1. Err("large figure") \in Seq(Plain({"ERROR"}, {"large figure"}))
    BY DEF Err, Say, Plain
  <2> QED
    BY <1>0, <2>1, AboutAre
<1>2. PICK messages, picture, inside, primitives :
        /\ s = [messages |-> messages, picture |-> picture, inside |-> inside, primitives |-> primitives]
        /\ messages \in E /\ picture \in Nat /\ inside \in BOOLEAN /\ primitives \in Nat
  BY <1>0 DEF FigureStates
<1>3. s.messages = messages /\ s.picture = picture /\ s.inside = inside /\ s.primitives = primitives
  BY <1>2
<1>4. <<>> \in E /\ (\A m, k \in E : m \o k \in E) /\ \A m \in E : IsList(m)
  BY <1>0, RemarksAre
<1>5. PICK z : z = FigurePrimitives(s, c)
  OBVIOUS
<1>6. BeginFigure # EndFigure /\ BeginFigure # BeginPicture /\ EndFigure # BeginPicture
  BY DEF BeginFigure, EndFigure, BeginPicture
<1>7. CASE c.code = BeginFigure
  <2>1. z = [messages |-> messages, picture |-> picture, inside |-> TRUE, primitives |-> 0]
    BY <1>2, <1>5, <1>6, <1>7 DEF FigurePrimitives
  <2>2. z \in FigureStates
    <3>1. [messages |-> messages, picture |-> picture, inside |-> TRUE, primitives |-> 0]
            \in [messages : E, picture : Nat, inside : BOOLEAN, primitives : Nat]
      BY <1>2
    <3> QED
      BY <1>0, <2>1, <3>1 DEF FigureStates
  <2>3. z.inside /\ z.primitives = 0 /\ z.messages = messages
    BY <2>1
  <2> QED
    BY <1>3, <1>5, <1>6, <1>7, <2>2, <2>3 DEF LargeFigure
<1>8. CASE c.code = EndFigure
  <2>1. z = [Add(s, If(s.primitives > MaxInFigure, Err("large figure"))) EXCEPT !.inside = FALSE]
    BY <1>5, <1>6, <1>8 DEF FigurePrimitives
  <2>2. PICK k : k = About(s.picture, If(s.primitives > MaxInFigure, Err("large figure")))
    OBVIOUS
  <2>3. k \in E /\ Heard(k) = IF s.primitives > MaxInFigure THEN {<<"ERROR", "large figure">>} ELSE {}
    <3>1. PICK large, w : large = (s.primitives > MaxInFigure) /\ w = If(large, Err("large figure"))
      OBVIOUS
    <3>2. w \in Seq(Plain({"ERROR"}, {"large figure"}))
      <4>1. Err("large figure") \in Seq(Plain({"ERROR"}, {"large figure"}))
        BY DEF Err, Say, Plain
      <4>2. <<>> \in Seq(Plain({"ERROR"}, {"large figure"}))
        OBVIOUS
      <4> QED
        BY <3>1, <4>1, <4>2 DEF If
    <3>3. w \in Words({"large figure"})
      BY <3>1, SaidOne, SaidIf
    <3>4. k = About(picture, w)
      BY <1>3, <2>2, <3>1
    <3>5. k \in E /\ Heard(k) = Heard(w)
      BY <1>0, <1>2, <3>2, <3>3, <3>4, AboutAre, HeardAbout
    <3> QED
      BY <3>1, <3>5, HeardIf, HeardOf
  <2>4. z = [messages |-> messages \o k, picture |-> picture, inside |-> FALSE, primitives |-> primitives]
    <3>1. Add(s, If(s.primitives > MaxInFigure, Err("large figure"))) = [s EXCEPT !.messages = messages \o k]
      BY <1>3, <2>2 DEF Add
    <3>2. z = [[s EXCEPT !.messages = messages \o k] EXCEPT !.inside = FALSE]
      BY <2>1, <3>1
    <3> QED
      BY <1>2, <3>2
  <2>5. PICK m : m = messages \o k /\ m \in E
    BY <1>2, <1>4, <2>3
  <2>6. z \in FigureStates
    <3>1. m \in E
      BY <2>5
    <3>2. [messages |-> m, picture |-> picture, inside |-> FALSE, primitives |-> primitives]
            \in [messages : E, picture : Nat, inside : BOOLEAN, primitives : Nat]
      BY <1>2, <3>1
    <3> QED
      BY <1>0, <2>4, <2>5, <3>2 DEF FigureStates
  <2>7. ~z.inside /\ z.primitives = primitives /\ z.messages = messages \o k
    BY <2>4
  <2>8. IsList(messages) /\ IsList(k)
    BY <1>2, <1>4, <2>3
  <2>9. Heard(z.messages) = Heard(messages) \cup Heard(k)
    BY <2>7, <2>8, HeardBoth
  <2>10. LargeFigure(z) <=> LargeFigure(s) \/ s.primitives > MaxInFigure
    BY <1>3, <2>3, <2>9 DEF LargeFigure
  <2> QED
    BY <1>3, <1>5, <1>6, <1>8, <2>6, <2>7, <2>10
<1>9. CASE c.code \notin {BeginFigure, EndFigure}
  <2>1. CASE c.code = BeginPicture
    <3>1. z = [messages |-> messages, picture |-> picture + 1, inside |-> inside, primitives |-> primitives]
      BY <1>2, <1>5, <1>6, <2>1 DEF FigurePrimitives
    <3>2. PICK p \in Nat : p = picture + 1
      BY <1>2
    <3>3. [messages |-> messages, picture |-> p, inside |-> inside, primitives |-> primitives]
            \in [messages : E, picture : Nat, inside : BOOLEAN, primitives : Nat]
      BY <1>2
    <3>4. z \in FigureStates
      BY <1>0, <3>1, <3>2, <3>3 DEF FigureStates
    <3>5. Class(c) # 4
      BY <2>1 DEF Class, BeginPicture
    <3>6. z.inside = inside /\ z.messages = messages /\ z.primitives = primitives
      BY <3>1
    <3> QED
      BY <1>3, <1>5, <1>9, <3>4, <3>5, <3>6
  <2>2. CASE c.code # BeginPicture
    <3>1. PICK p \in Nat : p = IF inside /\ Class(c) = 4 THEN primitives + 1 ELSE primitives
      BY <1>2
    <3>2. z = [messages |-> messages, picture |-> picture, inside |-> inside, primitives |-> p]
      <4>1. z = IF s.inside /\ Class(c) = 4 THEN [s EXCEPT !.primitives = @ + 1] ELSE s
        BY <1>5, <1>9, <2>2 DEF FigurePrimitives
      <4> QED
        BY <1>2, <1>3, <3>1, <4>1
    <3>3. [messages |-> messages, picture |-> picture, inside |-> inside, primitives |-> p]
            \in [messages : E, picture : Nat, inside : BOOLEAN, primitives : Nat]
      BY <1>2
    <3>4. z \in FigureStates
      BY <1>0, <3>2, <3>3 DEF FigureStates
    <3>5. z.inside = inside /\ z.messages = messages /\ z.primitives = p
      BY <3>2
    <3> QED
      BY <1>3, <1>5, <1>9, <3>1, <3>4, <3>5
  <2> QED
    BY <2>1, <2>2
<1> QED
  BY <1>5, <1>7, <1>8, <1>9

LEMMA FigureStep ==
  ASSUME NEW s \in FigureStates, NEW c
  PROVE  FigurePrimitives(s, c) \in FigureStates
BY FigureCounts

LEMMA FigureBegins ==
  ASSUME NEW picture \in Nat
  PROVE  FigureStart(picture) \in FigureStates
<1>1. PICK E : E = Remarks({"ERROR"}, {"large figure"}) /\ <<>> \in E
  BY RemarksAre
<1>2. [messages |-> <<>>, picture |-> picture, inside |-> FALSE, primitives |-> 0]
        \in [messages : E, picture : Nat, inside : BOOLEAN, primitives : Nat]
  BY <1>1
<1> QED
  BY <1>1, <1>2 DEF FigureStart, FigureStates

LEMMA FigureRun ==
  ASSUME NEW n \in Nat, NEW s, Len(s) = n, NEW picture \in Nat
  PROVE  \E b : /\ b[0] = FigureStart(picture) /\ \A i \in 1..n : b[i] = FigurePrimitives(b[i - 1], s[i])
                /\ \A i \in 0..n : b[i] \in FigureStates
                /\ Fold(FigurePrimitives, FigureStart(picture), s) = b[n]
<1>1. PICK g : g = [i \in 1..n |-> [y \in FigureStates |-> FigurePrimitives(y, s[i])]]
  OBVIOUS
<1>2. g \in [1..n -> [FigureStates -> FigureStates]]
  BY <1>1, FigureStep
<1>3. PICK x : x = FigureStart(picture) /\ x \in FigureStates
  BY FigureBegins
<1>4. PICK a : IsRun(a, FigureStates, n, x, g)
  BY <1>2, <1>3, Turns
<1>5. ASSUME NEW i \in 0..n PROVE a[i] = IF i = 0 THEN x ELSE FigurePrimitives(a[i - 1], s[i])
  <2>1. CASE i = 0
    BY <1>4, <2>1 DEF IsRun
  <2>2. CASE i # 0
    <3>1. i \in 1..n /\ i - 1 \in 0..n
      BY <2>2
    <3>2. a[i - 1] \in FigureStates
      BY <1>4, <3>1 DEF IsRun
    <3> QED
      BY <1>1, <1>4, <2>2, <3>1, <3>2 DEF IsRun
  <2> QED
    BY <2>1, <2>2
<1>6. a = [i \in 0..n |-> IF i = 0 THEN x ELSE FigurePrimitives(a[i - 1], s[i])]
  BY <1>4, <1>5 DEF IsRun
<1>7. PICK b : /\ b = CHOOSE h : h = [i \in 0..n |-> IF i = 0 THEN x ELSE FigurePrimitives(h[i - 1], s[i])]
               /\ b = [i \in 0..n |-> IF i = 0 THEN x ELSE FigurePrimitives(b[i - 1], s[i])]
  BY <1>6
<1>8. Fold(FigurePrimitives, x, s) = b[n]
  BY <1>7 DEF Fold
<1>9. b[0] = x /\ \A i \in 1..n : b[i] = FigurePrimitives(b[i - 1], s[i])
  <2> DEFINE B(i) == IF i = 0 THEN x ELSE FigurePrimitives(b[i - 1], s[i])
  <2>1. b = [i \in 0..n |-> B(i)]
    BY <1>7
  <2>2. \A i \in 0..n : b[i] = B(i)
    <3> HIDE DEF B
    <3> QED
      BY <2>1
  <2> QED
    BY <2>2
<1>10. \A i \in 0..n : b[i] \in FigureStates
  BY <1>3, <1>9, FigureStep, Stays
<1> QED
  BY <1>3, <1>8, <1>9, <1>10

\* Exactly those beyond the limit are reported.
LEMMA FiguresHeard ==
  ASSUME NEW n \in Nat, NEW s, IsList(s), Len(s) = n, NEW picture \in Nat
  PROVE  /\ FiguresOf(s, picture).messages \in Remarks({"ERROR"}, {"large figure"})
         /\ FiguresOf(s, picture).picture \in Nat
         /\ <<"ERROR", "large figure">> \in Heard(FiguresOf(s, picture).messages)
              <=> \E e \in 1..n : Beyond(s, e, BeginFigure, EndFigure, {4}, MaxInFigure)
<1>1. PICK b : /\ b[0] = FigureStart(picture) /\ \A i \in 1..n : b[i] = FigurePrimitives(b[i - 1], s[i])
               /\ \A i \in 0..n : b[i] \in FigureStates
               /\ Fold(FigurePrimitives, FigureStart(picture), s) = b[n]
  BY FigureRun
<1>2. PICK inside, counter, large :
        /\ inside = [i \in 0..n |-> b[i].inside] /\ counter = [i \in 0..n |-> b[i].primitives]
        /\ large = [i \in 0..n |-> LargeFigure(b[i])]
  OBVIOUS
<1>3. ~inside[0] /\ counter[0] = 0 /\ ~large[0]
  <2>1. 0 \in 0..n /\ b[0].inside = FALSE /\ b[0].primitives = 0 /\ b[0].messages = <<>>
    BY <1>1 DEF FigureStart
  <2>2. ~LargeFigure(b[0])
    BY <2>1, HeardOf DEF LargeFigure
  <2> QED
    BY <1>2, <2>1, <2>2
<1>4. ASSUME NEW i \in 0..n PROVE inside[i] \in BOOLEAN /\ counter[i] \in Nat /\ large[i] \in BOOLEAN
  <2>1. b[i] \in FigureStates
    BY <1>1
  <2>2. b[i].inside \in BOOLEAN /\ b[i].primitives \in Nat
    BY <2>1 DEF FigureStates
  <2>3. LargeFigure(b[i]) \in BOOLEAN
    BY DEF LargeFigure
  <2> QED
    BY <1>2, <2>2, <2>3
<1>5. ASSUME NEW i \in 1..n
      PROVE  /\ s[i].code = BeginFigure => inside[i] /\ counter[i] = 0 /\ (large[i] <=> large[i - 1])
             /\ s[i].code = EndFigure =>
                  /\ ~inside[i] /\ counter[i] \in {0, counter[i - 1]}
                  /\ large[i] <=> large[i - 1] \/ counter[i - 1] > MaxInFigure
             /\ s[i].code \notin {BeginFigure, EndFigure} =>
                  /\ inside[i] <=> inside[i - 1]
                  /\ large[i] <=> large[i - 1]
                  /\ counter[i] = IF inside[i - 1] /\ Class(s[i]) \in {4} THEN counter[i - 1] + 1 ELSE counter[i - 1]
  <2>1. PICK y : y = b[i - 1] /\ y \in FigureStates /\ i - 1 \in 0..n /\ i \in 0..n
    <3>1. i - 1 \in 0..n
      OBVIOUS
    <3> QED
      BY <1>1, <3>1
  <2>2. PICK z : z = b[i] /\ z = FigurePrimitives(y, s[i])
    BY <1>1, <2>1
  <2>3. /\ inside[i - 1] = y.inside /\ counter[i - 1] = y.primitives /\ (large[i - 1] <=> LargeFigure(y))
        /\ inside[i] = z.inside /\ counter[i] = z.primitives /\ (large[i] <=> LargeFigure(z))
    BY <1>2, <2>1, <2>2
  <2>4. i \in DOMAIN s
    BY Lists
  <2>5. /\ s[i].code = BeginFigure => z.inside /\ z.primitives = 0 /\ (LargeFigure(z) <=> LargeFigure(y))
        /\ s[i].code = EndFigure =>
             /\ ~z.inside /\ z.primitives \in {0, y.primitives}
             /\ LargeFigure(z) <=> LargeFigure(y) \/ y.primitives > MaxInFigure
        /\ s[i].code \notin {BeginFigure, EndFigure} =>
             /\ z.inside <=> y.inside
             /\ z.messages = y.messages
             /\ z.primitives = IF y.inside /\ Class(s[i]) \in {4} THEN y.primitives + 1 ELSE y.primitives
    <3>1. y \in FigureStates /\ z = FigurePrimitives(y, s[i])
      BY <2>1, <2>2
    <3> HIDE DEF FigureStates
    <3> QED
      BY <2>4, <3>1, FigureCounts
  <2>6. z.messages = y.messages => (LargeFigure(z) <=> LargeFigure(y))
    BY DEF LargeFigure
  <2> QED
    BY <2>3, <2>5, <2>6
<1>6. CountsSince(s, n, inside, counter, large, BeginFigure, EndFigure, {4}, MaxInFigure)
  BY <1>3, <1>4, <1>5 DEF CountsSince
<1>7. BeginFigure # EndFigure /\ BeginFigure[1] \notin {4} /\ EndFigure[1] \notin {4} /\ MaxInFigure \in Nat
  BY LimitsAssumption DEF BeginFigure, EndFigure
<1>8. large[n] <=> \E e \in 1..n : Beyond(s, e, BeginFigure, EndFigure, {4}, MaxInFigure)
  BY <1>6, <1>7, CountedWell
<1>9. b[n] \in FigureStates /\ FiguresOf(s, picture).messages = b[n].messages /\ n \in 0..n
  BY <1>1 DEF FiguresOf, FigureStart
<1>10. b[n].messages \in Remarks({"ERROR"}, {"large figure"})
  BY <1>9 DEF FigureStates
<1>11. large[n] <=> <<"ERROR", "large figure">> \in Heard(FiguresOf(s, picture).messages)
  BY <1>2, <1>9 DEF LargeFigure
<1>12. FiguresOf(s, picture).picture \in Nat
  BY <1>1, <1>9 DEF FiguresOf, FigureStart, FigureStates
<1> QED
  BY <1>8, <1>9, <1>10, <1>11, <1>12

\* What is said of the elements of a list, one after the other.
LEMMA HeardOfEach ==
  ASSUME NEW n \in Nat, NEW ss, ss = [j \in 1..n |-> ss[j]], \A j \in 1..n : IsList(ss[j])
  PROVE  IsList(Concatenation(ss)) /\ Heard(Concatenation(ss)) = UNION {Heard(ss[j]) : j \in 1..n}
<1> DEFINE S == UNION {{ss[j][i] : i \in DOMAIN ss[j]} : j \in 1..n}
<1>1. ASSUME NEW j \in 1..n PROVE ss[j] \in Seq(S)
  <2>1. ss[j] \in Seq({ss[j][i] : i \in DOMAIN ss[j]})
    BY DEF IsList
  <2>2. {ss[j][i] : i \in DOMAIN ss[j]} \subseteq S
    OBVIOUS
  <2> HIDE DEF S
  <2> QED
    BY <2>1, <2>2
<1>2. ss \in [1..n -> Seq(S)]
  <2> HIDE DEF S
  <2> QED
    BY <1>1
<1>3. PICK b : IsJoining(b, S, n, ss)
  <2> HIDE DEF S
  <2> QED
    BY <1>2, Joining
<1> DEFINE G == {i \in 0..n : Heard(b[i]) = UNION {Heard(ss[j]) : j \in 1..i}}
<1>4. 0 \in G
  <2>1. Heard(b[0]) = {} /\ 1..0 = {}
    BY <1>3, HeardOf DEF IsJoining
  <2> QED
    BY <2>1
<1>5. ASSUME NEW i \in 1..n, i - 1 \in G PROVE i \in G
  <2>1. PICK m : m = i - 1 /\ m \in 0..n /\ i \in 0..n
    OBVIOUS
  <2>2. Heard(b[m]) = UNION {Heard(ss[j]) : j \in 1..m}
    BY <1>5, <2>1
  <2>3. IsList(b[m]) /\ b[i] = b[m] \o ss[i]
    <3>1. b[m] \in Seq(S) /\ b[i] = b[i - 1] \o ss[i]
      BY <1>3, <2>1 DEF IsJoining
    <3> HIDE DEF S
    <3> QED
      BY <2>1, <3>1, ListOf
  <2>4. Heard(b[i]) = Heard(b[m]) \cup Heard(ss[i])
    BY <2>3, HeardBoth
  <2>5. 1..i = 1..m \cup {i}
    BY <2>1
  <2>6. UNION {Heard(ss[j]) : j \in 1..i} = (UNION {Heard(ss[j]) : j \in 1..m}) \cup Heard(ss[i])
    BY <2>5
  <2> QED
    BY <2>1, <2>2, <2>4, <2>6
<1>6. n \in G
  <2> HIDE DEF G
  <2>1. 0..n \subseteq G
    BY <1>4, <1>5, HoldsThroughout
  <2> QED
    BY <2>1
<1>7. Concatenation(ss) = b[n] /\ IsList(b[n])
  <2>1. b[n] \in Seq(S) /\ Concatenation(ss) = b[n]
    BY <1>3, n \in 0..n DEF IsJoining
  <2> HIDE DEF S
  <2> QED
    BY <2>1, ListOf
<1> QED
  BY <1>6, <1>7

\* What is said of prohibited elements.
LEMMA ProhibitedHeard ==
  ASSUME NEW s, IsList(s)
  PROVE  /\ \A allow : ProhibitedElements(s, allow) \in Words(Usual \cup {"prohibited"})
         /\ Heard(ProhibitedElements(s, TRUE)) = Heard(ProhibitedElements(s, FALSE)) \ {<<"ERROR", "prohibited">>}
<1>1. "GDP not allowed" \in Usual /\ "GDP not allowed" # "prohibited"
  BY DEF Usual, UsualErrors, UsualWarnings, UsualNotes
<1>2. PICK W, n : W = Usual \cup {"prohibited"} /\ n = Len(s) /\ n \in Nat /\ DOMAIN s = 1..n
  BY Lists
<1> DEFINE r(allow, j) == If(~IsElementAllowed(allow, s[j].code), Err("prohibited")) \o If(s[j].code = Gdp, Err("GDP not allowed"))
           ss(allow) == [j \in 1..n |-> r(allow, j)]
<1>3. ASSUME NEW allow, NEW j \in 1..n
      PROVE  /\ r(allow, j) \in Words(W)
             /\ Heard(r(allow, j)) = (IF ~IsElementAllowed(allow, s[j].code) THEN {<<"ERROR", "prohibited">>} ELSE {})
                                       \cup (IF s[j].code = Gdp THEN {<<"ERROR", "GDP not allowed">>} ELSE {})
  <2>1. PICK a, b, k, l : /\ a = ~IsElementAllowed(allow, s[j].code) /\ b = (s[j].code = Gdp)
                          /\ k = If(a, Err("prohibited")) /\ l = If(b, Err("GDP not allowed"))
    OBVIOUS
  <2>2. k \in Words(W) /\ l \in Words(W)
    BY <1>1, <1>2, <2>1, SaidOne, SaidIf
  <2>3. IsList(k) /\ IsList(l)
    BY <2>2, HeardAbout
  <2>4. r(allow, j) = k \o l
    BY <2>1
  <2>6. Heard(k \o l) = Heard(k) \cup Heard(l) /\ k \o l \in Words(W)
    BY <2>2, <2>3, HeardBoth, SaidBoth
  <2>5. Heard(k) = (IF a THEN {<<"ERROR", "prohibited">>} ELSE {}) /\ Heard(l) = (IF b THEN {<<"ERROR", "GDP not allowed">>} ELSE {})
    BY <2>1, HeardIf, HeardOf
  <2> HIDE DEF r
  <2> QED
    BY <2>1, <2>4, <2>5, <2>6
<1>4. ASSUME NEW allow PROVE ProhibitedElements(s, allow) = Concatenation(ss(allow))
  BY <1>2 DEF ProhibitedElements, Each
<1>5. ASSUME NEW allow PROVE ProhibitedElements(s, allow) \in Words(W)
  <2>1. ss(allow) \in [1..n -> Words(W)]
    <3> HIDE DEF r
    <3> QED
      BY <1>3
  <2> HIDE DEF ss
  <2> QED
    BY <1>2, <1>4, <2>1, SaidOfEach
<1>6. ASSUME NEW j \in 1..n
      PROVE  IsList(r(TRUE, j)) /\ IsList(r(FALSE, j)) /\ Heard(r(TRUE, j)) = Heard(r(FALSE, j)) \ {<<"ERROR", "prohibited">>}
  <2>1. IsElementAllowed(TRUE, s[j].code)
    BY DEF IsElementAllowed
  <2>2. IsList(r(TRUE, j)) /\ IsList(r(FALSE, j))
    <3> HIDE DEF r
    <3> QED
      BY <1>3, HeardAbout
  <2>3. <<"ERROR", "GDP not allowed">> # <<"ERROR", "prohibited">>
    BY <1>1
  <2>4. PICK a, b, c : a = <<"ERROR", "GDP not allowed">> /\ b = <<"ERROR", "prohibited">> /\ c = (s[j].code = Gdp) /\ a # b
    BY <2>3
  <2>5. Heard(r(TRUE, j)) = {} \cup (IF c THEN {a} ELSE {})
    <3> HIDE DEF r
    <3> QED
      BY <1>3, <2>1, <2>4
  <2>6. PICK d : Heard(r(FALSE, j)) = (IF d THEN {b} ELSE {}) \cup (IF c THEN {a} ELSE {})
    <3> HIDE DEF r
    <3> QED
      BY <1>3, <2>4
  <2>7. Heard(r(TRUE, j)) = Heard(r(FALSE, j)) \ {b}
    BY <2>4, <2>5, <2>6
  <2> HIDE DEF r
  <2> QED
    BY <2>2, <2>4, <2>7
<1>7. Heard(Concatenation(ss(TRUE))) = Heard(Concatenation(ss(FALSE))) \ {<<"ERROR", "prohibited">>}
  <2> DEFINE st == ss(TRUE)
             sf == ss(FALSE)
  <2>1. /\ st = [j \in 1..n |-> st[j]] /\ sf = [j \in 1..n |-> sf[j]]
        /\ \A j \in 1..n : IsList(sf[j]) /\ IsList(st[j]) /\ Heard(st[j]) = Heard(sf[j]) \ {<<"ERROR", "prohibited">>}
    <3> HIDE DEF r
    <3> QED
      BY <1>6
  <2> HIDE DEF st, sf
  <2>2. PICK thing : thing = <<"ERROR", "prohibited">>
    OBVIOUS
  <2>4. \A j \in 1..n : IsList(sf[j]) /\ IsList(st[j]) /\ Heard(st[j]) = Heard(sf[j]) \ {thing}
    BY <2>1, <2>2
  <2>5. st = [j \in 1..n |-> st[j]] /\ sf = [j \in 1..n |-> sf[j]] /\ n \in Nat
    BY <1>2, <2>1
  <2>3. Heard(Concatenation(st)) = Heard(Concatenation(sf)) \ {thing}
    <3>1. Heard(Concatenation(st)) = UNION {Heard(st[j]) : j \in 1..n}
      BY ONLY <2>4, <2>5, HeardOfEach
    <3>2. Heard(Concatenation(sf)) = UNION {Heard(sf[j]) : j \in 1..n}
      BY ONLY <2>4, <2>5, HeardOfEach
    <3> QED
      BY <2>4, <3>1, <3>2
  <2> QED
    BY <2>2, <2>3 DEF st, sf
<1> QED
  BY <1>2, <1>4, <1>5, <1>7

LEMMA ElementSaid ==
  ASSUME NEW c, NEW inside
  PROVE  ElementRemarks(c, inside) \in Words(Usual)
<1>1. {"EXTERNAL", "GDP prohibited", "element in defaults", "attribute"} \subseteq Usual
  BY DEF Usual, UsualErrors, UsualWarnings, UsualNotes
<1>2. PICK a, b, d, e : a = (c.code = <<0, 11>>) /\ b = (c.code = Gdp) /\ d = (inside /\ Class(c) \notin {2, 3, 5}) /\ e = (Class(c) = 9)
  OBVIOUS
<1>3. If(a, Err("EXTERNAL")) \o If(b, Err("GDP prohibited")) \o If(d, Warn("element in defaults")) \o If(e, Tell("attribute"))
        \in Words(Usual)
  BY <1>1, SaidOne, SaidIf, SaidBoth
<1> QED
  BY <1>2, <1>3 DEF ElementRemarks

\* What is said of one element, and of the defaults.
OfElement(s, allow, i) ==
  CASE s[i].code = <<0, 12>> -> <<>>
    [] s[i].code \in {BeginSegment, EndSegment} -> If(~allow, Err("segment prohibited"))
    [] OTHER -> ElementRemarks(s[i], InDefaults(s, i))

OfDefaults(s) ==
  LET last == {i \in DOMAIN s : \A j \in i..Len(s) : s[j].code # <<0, 12>>}
  IN  If(\E i \in last : s[i].code \notin {<<0, 12>>, BeginSegment, EndSegment} /\ InDefaults(s, i), Tell("defaults"))

WithSegments == Usual \cup {"segment prohibited"}
SegmentThing == <<"ERROR", "segment prohibited">>

LEMMA UsualWithSegments ==
  ASSUME NEW w, w \in Words(Usual)
  PROVE  w \in Words(WithSegments) /\ IsList(w) /\ SegmentThing \notin Heard(w)
<1>1. "segment prohibited" \notin Usual
  BY DEF Usual, UsualErrors, UsualWarnings, UsualNotes
<1>2. Heard(w) \subseteq Things(Usual) /\ IsList(w)
  BY HeardAbout
<1>3. SegmentThing \notin Things(Usual)
  BY <1>1 DEF Things, SegmentThing
<1>4. w \in Words(WithSegments)
  <2>1. w \in Seq(Remark(Usual)) /\ Remark(Usual) \subseteq Remark(WithSegments)
    BY DEF Words, Remark, WithSegments
  <2>2. PICK R, T : R = Remark(Usual) /\ T = Remark(WithSegments) /\ R \subseteq T /\ w \in Seq(R)
    BY <2>1
  <2>3. w \in Seq(T)
    BY <2>2
  <2> QED
    BY <2>2, <2>3 DEF Words
<1> QED
  BY <1>2, <1>3, <1>4

LEMMA OfElementHeard ==
  ASSUME NEW s, NEW j
  PROVE  /\ \A allow : OfElement(s, allow, j) \in Words(WithSegments)
         /\ Heard(OfElement(s, TRUE, j)) = Heard(OfElement(s, FALSE, j)) \ {SegmentThing}
<1>0. BeginSegment # <<0, 12>> /\ EndSegment # <<0, 12>>
  BY DEF BeginSegment, EndSegment
<1>a. PICK thing, W : thing = SegmentThing /\ W = WithSegments
  OBVIOUS
<1>1. CASE s[j].code = <<0, 12>>
  <2>1. \A allow : OfElement(s, allow, j) = <<>>
    BY <1>0, <1>1 DEF OfElement
  <2>2. <<>> \in Words(WithSegments) /\ Heard(<<>>) = {}
    BY SaidNothing, HeardOf
  <2>3. OfElement(s, TRUE, j) = <<>> /\ OfElement(s, FALSE, j) = <<>>
    BY <2>1
  <2>4. Heard(OfElement(s, TRUE, j)) = {} /\ Heard(OfElement(s, FALSE, j)) = {}
    BY <2>2, <2>3
  <2> QED
    BY <2>1, <2>2, <2>4
<1>2. CASE s[j].code \in {BeginSegment, EndSegment}
  <2>1. \A allow : OfElement(s, allow, j) = If(~allow, Err("segment prohibited"))
    BY <1>0, <1>2 DEF OfElement
  <2>2. /\ Err("segment prohibited") \in Words(WithSegments) /\ Heard(Err("segment prohibited")) = {SegmentThing}
        /\ Heard(<<>>) = {}
    BY SaidOne, HeardOf DEF WithSegments, SegmentThing
  <2>3. OfElement(s, TRUE, j) = <<>> /\ OfElement(s, FALSE, j) = Err("segment prohibited")
    BY <2>1 DEF If
  <2>4. \A allow : OfElement(s, allow, j) \in Words(WithSegments)
    BY <2>1, <2>2, SaidIf
  <2>5. Heard(OfElement(s, TRUE, j)) = {} /\ Heard(OfElement(s, FALSE, j)) = {SegmentThing}
    BY <2>2, <2>3
  <2> QED
    BY <2>4, <2>5
<1>3. CASE s[j].code # <<0, 12>> /\ s[j].code \notin {BeginSegment, EndSegment}
  <2>1. PICK w : w = ElementRemarks(s[j], InDefaults(s, j)) /\ w \in Words(Usual)
    BY ElementSaid
  <2>2. \A allow : OfElement(s, allow, j) = w
    BY <1>3, <2>1 DEF OfElement
  <2>3. OfElement(s, TRUE, j) = w /\ OfElement(s, FALSE, j) = w
    BY <2>2
  <2>4. w \in Words(WithSegments) /\ SegmentThing \notin Heard(w)
    BY <2>1, UsualWithSegments
  <2>5. Heard(w) = Heard(w) \ {SegmentThing}
    BY <2>4
  <2>6. Heard(OfElement(s, TRUE, j)) = Heard(OfElement(s, FALSE, j)) \ {SegmentThing}
    BY <2>3, <2>5
  <2> QED
    BY <2>2, <2>4, <2>6
<1> QED
  BY <1>1, <1>2, <1>3

LEMMA OfElements ==
  ASSUME NEW s, IsList(s), NEW allow
  PROVE  /\ ElementsOfSet(s, allow) \in Words(WithSegments)
         /\ Heard(ElementsOfSet(s, allow)) = (UNION {Heard(OfElement(s, allow, j)) : j \in 1..Len(s)}) \cup Heard(OfDefaults(s))
         /\ SegmentThing \notin Heard(OfDefaults(s))
<1>1. PICK n : n = Len(s) /\ n \in Nat /\ DOMAIN s = 1..n
  BY Lists
<1>a. PICK st : st = [j \in 1..n |-> OfElement(s, allow, j)]
  OBVIOUS
<1>2. st = [j \in 1..n |-> OfElement(s, allow, j)] /\ \A j \in 1..n : st[j] = OfElement(s, allow, j)
  BY <1>a
<1>3. PICK tail : tail = OfDefaults(s) /\ tail \in Words(Usual)
  <2>1. PICK a : OfDefaults(s) = If(a, Tell("defaults"))
    BY DEF OfDefaults
  <2>2. "defaults" \in Usual
    BY DEF Usual, UsualErrors, UsualWarnings, UsualNotes
  <2>3. OfDefaults(s) \in Words(Usual)
    BY <2>1, <2>2, SaidOne, SaidIf
  <2> QED
    BY <2>3
<1>4. ElementsOfSet(s, allow) = Concatenation(st) \o tail
  <2>1. DOMAIN Indices(s) = 1..n /\ \A i \in 1..n : Indices(s)[i] = i
    BY <1>1 DEF Indices
  <2>2. [i \in DOMAIN Indices(s) |-> OfElement(s, allow, Indices(s)[i])] = st
    BY <1>2, <2>1
  <2>3. ElementsOfSet(s, allow) = Concatenation([i \in DOMAIN Indices(s) |-> OfElement(s, allow, Indices(s)[i])]) \o OfDefaults(s)
    BY DEF ElementsOfSet, Each, OfElement, OfDefaults
  <2> QED
    BY <1>3, <2>2, <2>3, Zenon
<1>5. \A j \in 1..n : st[j] \in Words(WithSegments)
  BY <1>2, OfElementHeard
<1>6. \A j \in 1..n : IsList(st[j])
  BY <1>5, HeardAbout
<1>7. st \in [1..n -> Words(WithSegments)] /\ st = [j \in 1..n |-> st[j]]
  BY <1>2, <1>5
<1>8. Concatenation(st) \in Words(WithSegments)
  BY <1>1, <1>7, SaidOfEach
<1>9. Heard(Concatenation(st)) = UNION {Heard(st[j]) : j \in 1..n}
  BY ONLY <1>1, <1>6, <1>7, HeardOfEach
<1>10. UNION {Heard(st[j]) : j \in 1..n} = UNION {Heard(OfElement(s, allow, j)) : j \in 1..n}
  BY <1>2
<1>11. IsList(Concatenation(st))
  BY <1>8, HeardAbout
<1>12. tail \in Words(WithSegments) /\ IsList(tail) /\ SegmentThing \notin Heard(tail)
  BY <1>3, UsualWithSegments
<1>13. Concatenation(st) \o tail \in Words(WithSegments)
  BY <1>8, <1>12, SaidBoth
<1>14. Heard(Concatenation(st) \o tail) = Heard(Concatenation(st)) \cup Heard(tail)
  BY <1>11, <1>12, HeardBoth
<1> QED
  BY <1>1, <1>3, <1>4, <1>9, <1>10, <1>12, <1>13, <1>14

\* What is said of elements that do not belong to the set.
LEMMA ElementsHeard ==
  ASSUME NEW s, IsList(s)
  PROVE  /\ \A allow : ElementsOfSet(s, allow) \in Words(WithSegments)
         /\ Heard(ElementsOfSet(s, TRUE)) = Heard(ElementsOfSet(s, FALSE)) \ {SegmentThing}
<1>1. PICK p, q : p = Heard(ElementsOfSet(s, TRUE)) /\ q = Heard(ElementsOfSet(s, FALSE))
  OBVIOUS
<1>2. PICK A, B : /\ A = [j \in 1..Len(s) |-> Heard(OfElement(s, TRUE, j))] /\ B = [j \in 1..Len(s) |-> Heard(OfElement(s, FALSE, j))]
  OBVIOUS
<1>3. \A j \in 1..Len(s) : A[j] = B[j] \ {SegmentThing}
  BY <1>2, OfElementHeard
<1>4. PICK t : t = Heard(OfDefaults(s)) /\ SegmentThing \notin t
  BY OfElements
<1>5. p = (UNION {A[j] : j \in 1..Len(s)}) \cup t
  BY <1>1, <1>2, <1>4, OfElements
<1>6. q = (UNION {B[j] : j \in 1..Len(s)}) \cup t
  BY <1>1, <1>2, <1>4, OfElements
<1>7. p = q \ {SegmentThing}
  BY <1>3, <1>4, <1>5, <1>6
<1> QED
  BY <1>1, <1>7, OfElements
-----------------------------------------------------------------------------
\* What is said of application structures.
AboutStructures == Usual \cup StructureErrors

LEMMA LinkSaid ==
  ASSUME NEW link
  PROVE  ValidateLinkUri(link) \in Words(AboutStructures)
<1>1. {"link blank", "link spaces", "link hashes", "link fragment", "link fragment name", "link scheme",
       "link relative", "link backslash"} \subseteq AboutStructures
  BY DEF AboutStructures, StructureErrors, Usual, UsualWarnings
<1>2. PICK k1, k2, k3, k4, k5, base :
        /\ k1 = If(link.spaces, Err("link spaces"))
        /\ k2 = If(link.hashes > 1, Err("link hashes"))
        /\ k3 = If(link.hashes = 1 /\ link.fragment = "", Err("link fragment"))
        /\ k4 = If(link.hashes > 1 \/ (link.hashes = 1 /\ link.fragment # "" /\ ~IsName(link.fragment)),
                   Err("link fragment name"))
        /\ k5 = If(link.base # "none" /\ link.backslash, Warn("link backslash"))
        /\ base = CASE link.base = "bad scheme" -> Err("link scheme")
                    [] link.base = "odd" -> Warn("link relative")
                    [] OTHER -> <<>>
  OBVIOUS
<1>3. base \in Words(AboutStructures)
  <2>1. Err("link scheme") \in Words(AboutStructures) /\ Warn("link relative") \in Words(AboutStructures)
        /\ <<>> \in Words(AboutStructures)
    BY <1>1, SaidOne, SaidNothing
  <2> QED
    BY <1>2, <2>1
<1>a. /\ Err("link blank") \in Words(AboutStructures) /\ Err("link spaces") \in Words(AboutStructures)
      /\ Err("link hashes") \in Words(AboutStructures) /\ Err("link fragment") \in Words(AboutStructures)
      /\ Err("link fragment name") \in Words(AboutStructures) /\ Warn("link backslash") \in Words(AboutStructures)
      /\ <<>> \in Words(AboutStructures)
  BY <1>1, SaidOne, SaidNothing
<1>b. /\ k1 \in Words(AboutStructures) /\ k2 \in Words(AboutStructures) /\ k3 \in Words(AboutStructures)
      /\ k4 \in Words(AboutStructures) /\ k5 \in Words(AboutStructures)
  BY <1>2, <1>a DEF If
<1>4. k1 \o k2 \o k3 \o k4 \o base \o k5 \in Words(AboutStructures)
  BY <1>3, <1>b, SaidBoth
<1>6. ValidateLinkUri(link) = IF link.blank THEN Err("link blank") ELSE k1 \o k2 \o k3 \o k4 \o base \o k5
  <2>1. ValidateLinkUri(link)
          = IF link.blank THEN Err("link blank")
            ELSE If(link.spaces, Err("link spaces"))
                 \o If(link.hashes > 1, Err("link hashes"))
                 \o If(link.hashes = 1 /\ link.fragment = "", Err("link fragment"))
                 \o If(link.hashes > 1 \/ (link.hashes = 1 /\ link.fragment # "" /\ ~IsName(link.fragment)),
                       Err("link fragment name"))
                 \o (CASE link.base = "bad scheme" -> Err("link scheme")
                       [] link.base = "odd" -> Warn("link relative")
                       [] OTHER -> <<>>)
                 \o If(link.base # "none" /\ link.backslash, Warn("link backslash"))
    BY Zenon DEF ValidateLinkUri
  <2> QED
    BY <1>2, <2>1, Zenon
<1> QED
  BY <1>4, <1>6, <1>a

LEMMA SeverityAre ==
  ASSUME NEW W, NEW words, words \in Words(W), NEW severity
  PROVE  OfSeverity(severity, words) \in Words(W)
<1>1. IsList(words)
  BY HeardAbout
<1>2. PICK ss : ss = [i \in DOMAIN words |-> IF words[i].severity = severity THEN <<words[i]>> ELSE <<>>]
  OBVIOUS
<1>3. ss = [i \in DOMAIN words |-> ss[i]] /\ \A i \in DOMAIN words : ss[i] = <<words[i]>> \/ ss[i] = <<>>
  BY <1>2
<1>4. Concatenation(ss) \in Seq({words[i] : i \in DOMAIN words})
  BY <1>1, <1>3, SelectedAre
<1>5. OfSeverity(severity, words) = Concatenation(ss)
  BY <1>2 DEF OfSeverity, Those
<1>8. \A i \in DOMAIN words : words[i] \in Remark(W)
  BY DEF Words
<1>6. PICK S, T : S = {words[i] : i \in DOMAIN words} /\ T = Remark(W) /\ S \subseteq T
  BY <1>8
<1>7. Concatenation(ss) \in Seq(T)
  BY <1>4, <1>6
<1> QED
  BY <1>5, <1>6, <1>7 DEF Words

\* The structures that are open, among those that there are.
Open(I, T) == [id : I, type : T, hasBody : BOOLEAN]

StructureStates(I, T, F) ==
  [open : Seq(Open(I, T)), seen : SUBSET I, types : SUBSET T, links : Seq(F), said : Words(AboutStructures)]

StructureState(open, seen, types, links, said) ==
  [open |-> open, seen |-> seen, types |-> types, links |-> links, said |-> said]

LEMMA StructureStateFields ==
  ASSUME NEW I, NEW T, NEW F, NEW s \in StructureStates(I, T, F)
  PROVE  /\ s = StructureState(s.open, s.seen, s.types, s.links, s.said)
         /\ s.open \in Seq(Open(I, T)) /\ s.seen \in SUBSET I /\ s.types \in SUBSET T /\ s.links \in Seq(F)
         /\ s.said \in Words(AboutStructures)
<1>1. PICK O, W, A, B, L : O = Seq(Open(I, T)) /\ W = Words(AboutStructures) /\ A = SUBSET I /\ B = SUBSET T /\ L = Seq(F)
  OBVIOUS
<1>2. s \in [open : O, seen : A, types : B, links : L, said : W]
  BY <1>1 DEF StructureStates
<1>3. s = StructureState(s.open, s.seen, s.types, s.links, s.said)
  BY <1>2 DEF StructureState
<1>4. s.open \in O /\ s.seen \in A /\ s.types \in B /\ s.links \in L /\ s.said \in W
  BY <1>2
<1> QED
  BY <1>1, <1>3, <1>4

LEMMA StructureStateAre ==
  ASSUME NEW I, NEW T, NEW F, NEW open, open \in Seq(Open(I, T)), NEW seen, seen \in SUBSET I, NEW types, types \in SUBSET T,
         NEW links, links \in Seq(F), NEW said, said \in Words(AboutStructures)
  PROVE  StructureState(open, seen, types, links, said) \in StructureStates(I, T, F)
<1>1. PICK O, W, A, B, L : /\ O = Seq(Open(I, T)) /\ W = Words(AboutStructures) /\ A = SUBSET I /\ B = SUBSET T /\ L = Seq(F)
                           /\ open \in O /\ seen \in A /\ types \in B /\ links \in L /\ said \in W
  OBVIOUS
<1>2. [open |-> open, seen |-> seen, types |-> types, links |-> links, said |-> said]
        \in [open : O, seen : A, types : B, links : L, said : W]
  BY <1>1
<1> QED
  BY <1>1, <1>2 DEF StructureStates, StructureState

\* What a command brings with it.
Fits(c, I, T, F) ==
  /\ c.code = BeginAps => c.id \in I /\ c.type \in T
  /\ c.code = ApsAttribute => c.link.fragment \in F

LEMMA BeginStructureAre ==
  ASSUME NEW I, NEW T, NEW F, NEW s \in StructureStates(I, T, F), NEW c, c.id \in I, c.type \in T
  PROVE  BeginStructure(s, c) \in StructureStates(I, T, F)
<1>1. {"structure without identifier", "identifier", "duplicate identifier"} \subseteq AboutStructures
  BY DEF AboutStructures, StructureErrors
<1>2. PICK W : W = Words(AboutStructures)
  OBVIOUS
<1>3. PICK open, seen, types, links, said :
        /\ s = StructureState(open, seen, types, links, said)
        /\ open \in Seq(Open(I, T)) /\ seen \in SUBSET I /\ types \in SUBSET T /\ links \in Seq(F) /\ said \in W
  BY <1>2, StructureStateFields
<1>4. s.open = open /\ s.seen = seen /\ s.types = types /\ s.links = links /\ s.said = said
  BY <1>3 DEF StructureState
<1>5. PICK w : /\ w = CASE c.id = "" -> Err("structure without identifier")
                         [] c.id # "" /\ ~IsName(c.id) -> Err("identifier")
                         [] OTHER -> If(c.id \in seen, Err("duplicate identifier"))
               /\ w \in W
  <2>1. PICK a : a = (c.id \in seen)
    OBVIOUS
  <2>2. If(a, Err("duplicate identifier")) \in W /\ Err("structure without identifier") \in W /\ Err("identifier") \in W
    BY <1>1, <1>2, SaidOne, SaidIf
  <2> QED
    BY <2>1, <2>2
<1>6. PICK x : x = [id |-> c.id, type |-> c.type, hasBody |-> FALSE] /\ x \in Open(I, T)
  <2>1. PICK id \in I, type \in T : id = c.id /\ type = c.type
    OBVIOUS
  <2>2. [id |-> id, type |-> type, hasBody |-> FALSE] \in Open(I, T)
    BY DEF Open
  <2> QED
    BY <2>1, <2>2
<1>7. PICK o, i, t, m : /\ o = Append(open, x) /\ i = (IF IsName(c.id) THEN seen \cup {c.id} ELSE seen)
                        /\ t = (IF c.type = "" THEN types ELSE types \cup {c.type}) /\ m = said \o w
  OBVIOUS
<1>8. BeginStructure(s, c) = StructureState(o, i, t, links, m)
  <2>1. BeginStructure(s, c) = [s EXCEPT !.open = o, !.seen = i, !.types = t, !.said = m]
    BY <1>4, <1>5, <1>6, <1>7 DEF BeginStructure
  <2> QED
    BY <1>3, <2>1 DEF StructureState
<1>9. o \in Seq(Open(I, T))
  <2>1. PICK O : O = Open(I, T) /\ open \in Seq(O) /\ x \in O
    BY <1>3, <1>6
  <2>2. Append(open, x) \in Seq(O)
    BY <2>1
  <2> QED
    BY <1>7, <2>1, <2>2
<1>10. i \in SUBSET I /\ t \in SUBSET T
  BY <1>3, <1>7
<1>11. m \in Words(AboutStructures)
  BY <1>2, <1>3, <1>5, <1>7, SaidBoth
<1> QED
  BY <1>3, <1>8, <1>9, <1>10, <1>11, StructureStateAre

LEMMA BeginStructureBodyAre ==
  ASSUME NEW I, NEW T, NEW F, NEW s \in StructureStates(I, T, F)
  PROVE  BeginStructureBody(s) \in StructureStates(I, T, F)
<1>1. {"body without structure", "bodies"} \subseteq AboutStructures
  BY DEF AboutStructures, StructureErrors, Usual, UsualWarnings
<1>2. PICK W, O : W = Words(AboutStructures) /\ O = Open(I, T)
  OBVIOUS
<1>3. PICK open, seen, types, links, said :
        /\ s = StructureState(open, seen, types, links, said)
        /\ open \in Seq(O) /\ seen \in SUBSET I /\ types \in SUBSET T /\ links \in Seq(F) /\ said \in W
  BY <1>2, StructureStateFields
<1>4. s.open = open /\ s.seen = seen /\ s.types = types /\ s.links = links /\ s.said = said
  BY <1>3 DEF StructureState
<1>5. CASE Len(open) = 0
  <2>1. PICK m : m = said \o Err("body without structure")
    OBVIOUS
  <2>2. m \in Words(AboutStructures)
    BY <1>1, <1>2, <1>3, <2>1, SaidOne, SaidBoth
  <2>3. BeginStructureBody(s) = StructureState(open, seen, types, links, m)
    <3>1. BeginStructureBody(s) = [s EXCEPT !.said = m]
      BY <1>4, <1>5, <2>1 DEF BeginStructureBody
    <3> QED
      BY <1>3, <3>1 DEF StructureState
  <2> QED
    BY <1>2, <1>3, <2>2, <2>3, StructureStateAre
<1>6. CASE Len(open) # 0
  <2>1. PICK top : top = Len(open) /\ top \in 1..Len(open) /\ top \in DOMAIN open
    BY <1>3, <1>6
  <2>2. PICK m : m = said \o If(open[top].hasBody, Warn("bodies"))
    OBVIOUS
  <2>3. m \in Words(AboutStructures)
    BY <1>1, <1>2, <1>3, <2>2, SaidOne, SaidIf, SaidBoth
  <2>4. PICK o : o = [open EXCEPT ![top] = [open[top] EXCEPT !.hasBody = TRUE]]
    OBVIOUS
  <2>5. o \in Seq(O)
    <3>1. PICK x : x = open[top] /\ x \in O
      BY <1>3, <2>1
    <3>a. x \in [id : I, type : T, hasBody : BOOLEAN]
      BY <1>2, <3>1 DEF Open
    <3>b. [x EXCEPT !.hasBody = TRUE] \in [id : I, type : T, hasBody : BOOLEAN]
      BY <3>a
    <3>c. [x EXCEPT !.hasBody = TRUE] \in O
      BY <1>2, <3>b DEF Open
    <3>2. PICK y : y = [x EXCEPT !.hasBody = TRUE] /\ y \in O
      BY <3>c
    <3>3. [open EXCEPT ![top] = y] \in Seq(O)
      BY <1>3, <2>1, <3>2
    <3> QED
      BY <2>4, <3>1, <3>2, <3>3
  <2>6. BeginStructureBody(s) = StructureState(o, seen, types, links, m)
    <3>1. BeginStructureBody(s)
            = [s EXCEPT !.said = m, !.open = [open EXCEPT ![top] = [open[top] EXCEPT !.hasBody = TRUE]]]
      BY <1>4, <1>6, <2>1, <2>2 DEF BeginStructureBody
    <3>2. BeginStructureBody(s) = [s EXCEPT !.said = m, !.open = o]
      BY <2>4, <3>1
    <3> QED
      BY <1>3, <3>2 DEF StructureState
  <2> QED
    BY <1>2, <1>3, <2>3, <2>5, <2>6, StructureStateAre
<1> QED
  BY <1>5, <1>6

LEMMA EndStructureAre ==
  ASSUME NEW I, NEW T, NEW F, NEW s \in StructureStates(I, T, F)
  PROVE  EndStructure(s) \in StructureStates(I, T, F)
<1>1. {"end without structure", "no body"} \subseteq AboutStructures
  BY DEF AboutStructures, StructureErrors, Usual, UsualWarnings
<1>2. PICK W, O : W = Words(AboutStructures) /\ O = Open(I, T)
  OBVIOUS
<1>3. PICK open, seen, types, links, said :
        /\ s = StructureState(open, seen, types, links, said)
        /\ open \in Seq(O) /\ seen \in SUBSET I /\ types \in SUBSET T /\ links \in Seq(F) /\ said \in W
  BY <1>2, StructureStateFields
<1>4. s.open = open /\ s.seen = seen /\ s.types = types /\ s.links = links /\ s.said = said
  BY <1>3 DEF StructureState
<1>5. CASE Len(open) = 0
  <2>1. PICK m : m = said \o Err("end without structure")
    OBVIOUS
  <2>2. m \in Words(AboutStructures)
    BY <1>1, <1>2, <1>3, <2>1, SaidOne, SaidBoth
  <2>3. EndStructure(s) = StructureState(open, seen, types, links, m)
    <3>1. EndStructure(s) = [s EXCEPT !.said = m]
      BY <1>4, <1>5, <2>1 DEF EndStructure
    <3> QED
      BY <1>3, <3>1 DEF StructureState
  <2> QED
    BY <1>2, <1>3, <2>2, <2>3, StructureStateAre
<1>6. CASE Len(open) # 0
  <2>1. PICK o, m : o = SubSeq(open, 1, Len(open) - 1) /\ m = said \o If(~open[Len(open)].hasBody, Warn("no body"))
    OBVIOUS
  <2>2. o \in Seq(O)
    <3>a. PICK l : l = Len(open) /\ l \in Nat /\ l # 0
      BY <1>3, <1>6
    <3>b. l - 1 \in Nat /\ l - 1 <= l
      BY <3>a
    <3>1. PICK n \in Nat : n = Len(open) - 1 /\ n <= Len(open)
      BY <3>a, <3>b
    <3>2. SubSeq(open, 1, n) \in Seq(O)
      BY <1>3, <3>1
    <3> QED
      BY <2>1, <3>1, <3>2
  <2>3. m \in Words(AboutStructures)
    <3>1. PICK w : w = If(~open[Len(open)].hasBody, Warn("no body"))
      OBVIOUS
    <3>2. w \in W
      BY <1>1, <1>2, <3>1, SaidOne, SaidNothing DEF If
    <3> QED
      BY <1>2, <1>3, <2>1, <3>1, <3>2, SaidBoth
  <2>4. EndStructure(s) = StructureState(o, seen, types, links, m)
    <3>1. EndStructure(s) = [s EXCEPT !.said = m, !.open = o]
      BY <1>4, <1>6, <2>1 DEF EndStructure
    <3> QED
      BY <1>3, <3>1 DEF StructureState
  <2> QED
    BY <1>2, <1>3, <2>2, <2>3, <2>4, StructureStateAre
<1> QED
  BY <1>5, <1>6

LEMMA StructureAttributeAre ==
  ASSUME NEW I, NEW T, NEW F, NEW s \in StructureStates(I, T, F), NEW c, c.link.fragment \in F
  PROVE  StructureAttribute(s, c) \in StructureStates(I, T, F)
<1>1. {"attribute outside", "attribute after body", "link on type"} \subseteq AboutStructures
  BY DEF AboutStructures, StructureErrors, Usual, UsualWarnings
<1>2. PICK W, O : W = Words(AboutStructures) /\ O = Open(I, T)
  OBVIOUS
<1>3. PICK open, seen, types, links, said :
        /\ s = StructureState(open, seen, types, links, said)
        /\ open \in Seq(O) /\ seen \in SUBSET I /\ types \in SUBSET T /\ links \in Seq(F) /\ said \in W
  BY <1>2, StructureStateFields
<1>4. s.open = open /\ s.seen = seen /\ s.types = types /\ s.links = links /\ s.said = said
  BY <1>3 DEF StructureState
<1>5. PICK found : found = (IF IsLinkUri(c) THEN ValidateLinkUri(c.link) ELSE <<>>) /\ found \in W
  BY <1>2, LinkSaid, SaidNothing
<1>6. PICK errors, warnings : /\ errors = OfSeverity("ERROR", found) /\ warnings = OfSeverity("WARNING", found)
                              /\ errors \in W /\ warnings \in W
  BY <1>2, <1>5, SeverityAre
<1>7. PICK k1, k2 : /\ k1 = If(open[Len(open)].hasBody, Err("attribute after body"))
                    /\ k2 = If(IsLinkUri(c) /\ open[Len(open)].type \notin {"", "linkuri", "hotspot"}, Warn("link on type"))
  OBVIOUS
<1>8. k1 \in W /\ k2 \in W /\ Warn("attribute outside") \in W
  BY <1>1, <1>2, <1>7, SaidOne, SaidNothing DEF If
<1>9. PICK here : here = (IF Len(open) = 0 THEN Warn("attribute outside") ELSE k1 \o k2) /\ here \in W
  BY <1>2, <1>8, SaidBoth
<1>10. PICK m : m = said \o here \o errors \o warnings
  OBVIOUS
<1>11. m \in Words(AboutStructures)
  BY <1>2, <1>3, <1>6, <1>9, <1>10, SaidBoth
<1>12. PICK l : l = (IF IsLinkUri(c) /\ IsLocalLink(c.link) THEN Append(links, c.link.fragment) ELSE links)
  OBVIOUS
<1>13. l \in Seq(F)
  <2>1. PICK fragment \in F : fragment = c.link.fragment
    OBVIOUS
  <2>2. Append(links, fragment) \in Seq(F)
    BY <1>3
  <2> QED
    BY <1>3, <1>12, <2>1, <2>2
<1>14. StructureAttribute(s, c) = StructureState(open, seen, types, l, m)
  <2>1. StructureAttribute(s, c)
          = [s EXCEPT !.links = (IF IsLinkUri(c) /\ IsLocalLink(c.link) THEN Append(s.links, c.link.fragment) ELSE s.links),
                      !.said = s.said \o (IF Len(s.open) = 0 THEN Warn("attribute outside")
                                          ELSE If(s.open[Len(s.open)].hasBody, Err("attribute after body"))
                                               \o If(IsLinkUri(c) /\ s.open[Len(s.open)].type \notin {"", "linkuri", "hotspot"},
                                                     Warn("link on type")))
                                \o OfSeverity("ERROR", IF IsLinkUri(c) THEN ValidateLinkUri(c.link) ELSE <<>>)
                                \o OfSeverity("WARNING", IF IsLinkUri(c) THEN ValidateLinkUri(c.link) ELSE <<>>)]
    BY DEF StructureAttribute
  <2>2. StructureAttribute(s, c) = [s EXCEPT !.links = l, !.said = m]
    BY <1>4, <1>5, <1>6, <1>7, <1>9, <1>10, <1>12, <2>1, Zenon
  <2> QED
    BY <1>3, <2>2 DEF StructureState
<1> QED
  BY <1>2, <1>3, <1>11, <1>13, <1>14, StructureStateAre

LEMMA StructureStep ==
  ASSUME NEW I, NEW T, NEW F, NEW s \in StructureStates(I, T, F), NEW c, Fits(c, I, T, F)
  PROVE  StructureElements(s, c) \in StructureStates(I, T, F)
<1>1. BeginAps # BeginApsBody /\ BeginAps # EndAps /\ BeginAps # ApsAttribute
      /\ BeginApsBody # EndAps /\ BeginApsBody # ApsAttribute /\ EndAps # ApsAttribute
  BY DEF BeginAps, BeginApsBody, EndAps, ApsAttribute
<1>2. CASE c.code = BeginAps
  <2>1. c.id \in I /\ c.type \in T
    BY <1>2 DEF Fits
  <2>2. StructureElements(s, c) = BeginStructure(s, c)
    BY <1>1, <1>2, Zenon DEF StructureElements
  <2> QED
    BY <2>1, <2>2, BeginStructureAre
<1>3. CASE c.code = BeginApsBody
  BY <1>1, <1>3, BeginStructureBodyAre DEF StructureElements
<1>4. CASE c.code = EndAps
  BY <1>1, <1>4, EndStructureAre DEF StructureElements
<1>5. CASE c.code = ApsAttribute
  BY <1>1, <1>5, StructureAttributeAre DEF StructureElements, Fits
<1>6. CASE c.code \notin {BeginAps, BeginApsBody, EndAps, ApsAttribute}
  BY <1>6 DEF StructureElements
<1> QED
  BY <1>2, <1>3, <1>4, <1>5, <1>6

StructureStart == [open |-> <<>>, seen |-> {}, types |-> {}, links |-> <<>>, said |-> <<>>]

LEMMA StructureBegins ==
  ASSUME NEW I, NEW T, NEW F
  PROVE  StructureStart \in StructureStates(I, T, F)
<1>1. /\ <<>> \in Seq(Open(I, T)) /\ {} \in SUBSET I /\ {} \in SUBSET T /\ <<>> \in Seq(F)
      /\ <<>> \in Words(AboutStructures)
  BY SaidNothing
<1>2. StructureState(<<>>, {}, {}, <<>>, <<>>) \in StructureStates(I, T, F)
  BY <1>1, StructureStateAre
<1> QED
  BY <1>2 DEF StructureStart, StructureState

AllFit(s, n, I, T, F) == \A i \in 1..n : Fits(s[i], I, T, F)

LEMMA StructureRun ==
  ASSUME NEW n \in Nat, NEW s, Len(s) = n,
         NEW I, NEW T, NEW F, AllFit(s, n, I, T, F)
  PROVE  \E b : /\ b[0] = StructureStart /\ \A i \in 1..n : b[i] = StructureElements(b[i - 1], s[i])
                /\ \A i \in 0..n : b[i] \in StructureStates(I, T, F)
                /\ Fold(StructureElements, StructureStart, s) = b[n]
<1>1. PICK g : g = [i \in 1..n |-> [y \in StructureStates(I, T, F) |-> StructureElements(y, s[i])]]
  OBVIOUS
<1>a. \A i \in 1..n : Fits(s[i], I, T, F)
  BY DEF AllFit
<1>2. g \in [1..n -> [StructureStates(I, T, F) -> StructureStates(I, T, F)]]
  BY <1>1, <1>a, StructureStep
<1>3. PICK x : x = StructureStart /\ x \in StructureStates(I, T, F)
  BY StructureBegins
<1>4. PICK a : IsRun(a, StructureStates(I, T, F), n, x, g)
  BY <1>2, <1>3, Turns
<1>5. ASSUME NEW i \in 0..n PROVE a[i] = IF i = 0 THEN x ELSE StructureElements(a[i - 1], s[i])
  <2>1. CASE i = 0
    BY <1>4, <2>1 DEF IsRun
  <2>2. CASE i # 0
    <3>1. i \in 1..n /\ i - 1 \in 0..n
      BY <2>2
    <3>2. a[i - 1] \in StructureStates(I, T, F)
      BY <1>4, <3>1 DEF IsRun
    <3> QED
      BY <1>1, <1>4, <2>2, <3>1, <3>2 DEF IsRun
  <2> QED
    BY <2>1, <2>2
<1>6. a = [i \in 0..n |-> IF i = 0 THEN x ELSE StructureElements(a[i - 1], s[i])]
  BY <1>4, <1>5 DEF IsRun
<1>7. PICK b : /\ b = CHOOSE h : h = [i \in 0..n |-> IF i = 0 THEN x ELSE StructureElements(h[i - 1], s[i])]
               /\ b = [i \in 0..n |-> IF i = 0 THEN x ELSE StructureElements(b[i - 1], s[i])]
  BY <1>6
<1>8. Fold(StructureElements, x, s) = b[n]
  BY <1>7 DEF Fold
<1>9. b[0] = x /\ \A i \in 1..n : b[i] = StructureElements(b[i - 1], s[i])
  <2> DEFINE B(i) == IF i = 0 THEN x ELSE StructureElements(b[i - 1], s[i])
  <2>1. b = [i \in 0..n |-> B(i)]
    BY <1>7
  <2>2. \A i \in 0..n : b[i] = B(i)
    <3> HIDE DEF B
    <3> QED
      BY <2>1
  <2> QED
    BY <2>2
<1>10. \A i \in 0..n : b[i] \in StructureStates(I, T, F)
  <2>1. PICK S : S = StructureStates(I, T, F)
    OBVIOUS
  <2>2. b[0] \in S
    BY <1>3, <1>9, <2>1
  <2>3. \A i \in 1..n : b[i - 1] \in S => b[i] \in S
    BY <1>9, <1>a, <2>1, StructureStep
  <2>4. \A i \in 0..n : b[i] \in S
    BY ONLY n \in Nat, <2>2, <2>3, Stays
  <2> QED
    BY <2>1, <2>4
<1> QED
  BY <1>3, <1>8, <1>9, <1>10

LEMMA DistinctAre ==
  ASSUME NEW s, IsList(s)
  PROVE  IsList(Distinct(s))
<1>a. PICK n : n = Len(s) /\ n \in Nat /\ DOMAIN s = 1..n
  BY Lists
<1>b. PICK S : S = {s[i] : i \in DOMAIN s}
  OBVIOUS
<1>1. n = Len(s) /\ n \in Nat /\ DOMAIN s = 1..n /\ \A i \in 1..n : s[i] \in S
  BY <1>a, <1>b
<1>2. PICK ss : ss = [i \in 1..n |-> If(\A j \in 1..(i - 1) : s[j] # s[i], <<s[i]>>)]
  OBVIOUS
<1>3. ASSUME NEW i \in 1..n PROVE ss[i] \in Seq(S)
  <2>1. ss[i] = <<s[i]>> \/ ss[i] = <<>>
    BY <1>2 DEF If
  <2>2. <<s[i]>> \in Seq(S) /\ <<>> \in Seq(S)
    BY <1>1
  <2> QED
    BY <2>1, <2>2
<1>4. ss \in [1..n -> Seq(S)]
  BY <1>2, <1>3
<1>5. IsList(Concatenation(ss))
  BY <1>1, <1>4, PassingAre
<1>6. Distinct(s) = Concatenation(ss)
  <2>1. DOMAIN Indices(s) = 1..n /\ \A i \in 1..n : Indices(s)[i] = i
    BY <1>1 DEF Indices
  <2>2. Distinct(s) = Concatenation([i \in DOMAIN Indices(s) |->
                        If(\A j \in 1..(Indices(s)[i] - 1) : s[j] # s[Indices(s)[i]], <<s[Indices(s)[i]]>>)])
    BY DEF Distinct, Each
  <2>3. [i \in DOMAIN Indices(s) |->
           If(\A j \in 1..(Indices(s)[i] - 1) : s[j] # s[Indices(s)[i]], <<s[Indices(s)[i]]>>)] = ss
    <3> DEFINE e(i) == If(\A j \in 1..(i - 1) : s[j] # s[i], <<s[i]>>)
    <3>1. ss = [i \in 1..n |-> e(i)]
      BY <1>2
    <3>2. [i \in DOMAIN Indices(s) |-> e(Indices(s)[i])] = [i \in 1..n |-> e(i)]
      <4> HIDE DEF e
      <4> QED
        BY <2>1
    <3> QED
      BY <3>1, <3>2
  <2> QED
    BY <2>2, <2>3
<1> QED
  BY <1>5, <1>6

LEMMA NamesBoundAre ==
  ASSUME NEW names, IsList(names), NEW known, NEW W, NEW missing, missing \in Words(W), NEW repeated, repeated \in Words(W)
  PROVE  NamesBound(names, known, missing, repeated) \in Words(W)
<1>1. PICK s : s = Distinct(names) /\ IsList(s) /\ Len(s) \in Nat /\ DOMAIN s = 1..Len(s)
  BY DistinctAre, Lists
<1>2. PICK ss : ss = [i \in DOMAIN s |-> IF s[i] \notin known THEN missing
                                         ELSE If(CountWhere(names, LAMBDA m : m = s[i]) > 1, repeated)]
  OBVIOUS
<1>3. ASSUME NEW i \in DOMAIN s PROVE ss[i] \in Words(W)
  <2>1. PICK a : ss[i] = IF s[i] \notin known THEN missing ELSE If(a, repeated)
    BY <1>2
  <2>2. If(a, repeated) \in Words(W)
    BY SaidIf
  <2> QED
    BY <2>1, <2>2
<1>4. ss \in [1..Len(s) -> Words(W)]
  BY <1>1, <1>2, <1>3
<1>5. Concatenation(ss) \in Words(W)
  BY <1>1, <1>4, SaidOfEach
<1>6. NamesBound(names, known, missing, repeated) = Concatenation(ss)
  BY <1>1, <1>2 DEF NamesBound, Each
<1> QED
  BY <1>5, <1>6

LEMMA BindingsSaid ==
  ASSUME NEW xcf, IsList(xcf.ids), IsList(xcf.types), NEW ids, NEW types
  PROVE  ValidateXcfBindings(xcf, ids, types) \in Words(AboutStructures)
<1>1. {"companion", "binding by id", "binding by name", "bound twice", "bindings"} \subseteq AboutStructures
  BY DEF AboutStructures, StructureErrors, Usual, UsualErrors, UsualWarnings, UsualNotes
<1>2. PICK W : W = Words(AboutStructures)
  OBVIOUS
<1>3. /\ Warn("companion") \in W /\ <<>> \in W /\ Err("binding by id") \in W /\ Warn("binding by name") \in W
      /\ Warn("bound twice") \in W /\ Tell("bindings") \in W
  BY <1>1, <1>2, SaidOne, SaidNothing
<1>4. PICK k, l : /\ k = NamesBound(xcf.ids, ids, Err("binding by id"), Warn("bound twice"))
                  /\ l = NamesBound(xcf.types, types, Warn("binding by name"), Warn("bound twice"))
                  /\ k \in W /\ l \in W
  BY <1>2, <1>3, NamesBoundAre
<1>5. PICK m : m = If(xcf.ids # <<>> \/ xcf.types # <<>>, Tell("bindings")) /\ m \in W
  BY <1>3 DEF If
<1>6. k \o l \o m \in W
  BY <1>2, <1>4, <1>5, SaidBoth
<1>7. ValidateXcfBindings(xcf, ids, types) \in {<<>>, Warn("companion"), k \o l \o m}
  BY <1>4, <1>5 DEF ValidateXcfBindings
<1> QED
  BY <1>2, <1>3, <1>6, <1>7

\* The errors that are about structures, and besides them what no property asks about.
LEMMA StructureRemarksSaid ==
  ASSUME NEW f, IsMetafile(f)
  PROVE  StructureRemarks(f) \in Words(AboutStructures)
<1>1. {"structures open", "structure ends", "structure bodies", "link target", "structures"} \subseteq AboutStructures
  BY DEF AboutStructures, StructureErrors, Usual, UsualErrors, UsualWarnings, UsualNotes
<1>2. PICK W : W = Words(AboutStructures)
  OBVIOUS
<1>3. PICK s, n : s = f.commands /\ n = Len(s) /\ n \in Nat /\ DOMAIN s = 1..n /\ IsList(s)
  BY Lists DEF IsMetafile
<1>4. PICK I, T, F : /\ I = {s[i].id : i \in 1..n} /\ T = {s[i].type : i \in 1..n}
                     /\ F = {s[i].link.fragment : i \in 1..n}
  OBVIOUS
<1>5. AllFit(s, n, I, T, F)
  BY <1>4 DEF Fits, AllFit
<1>6. PICK end : end = Fold(StructureElements, StructureStart, s) /\ end \in StructureStates(I, T, F)
  <2>1. PICK b : /\ b[0] = StructureStart /\ \A i \in 1..n : b[i] = StructureElements(b[i - 1], s[i])
                 /\ \A i \in 0..n : b[i] \in StructureStates(I, T, F)
                 /\ Fold(StructureElements, StructureStart, s) = b[n]
    <3>1. Len(s) = n /\ n \in Nat
      BY <1>3
    <3> QED
      BY <1>5, <3>1, StructureRun, Zenon
  <2>2. n \in 0..n
    BY <1>3
  <2> QED
    BY <2>1, <2>2
<1>7. end.said \in W /\ end.links \in Seq(F)
  BY <1>2, <1>6, StructureStateFields
<1>8. PICK missing : missing = Missing(end.links, end.seen) /\ Len(missing) \in Nat
  <2>1. PICK l : l = end.links /\ IsList(l)
    BY <1>7, ListOf
  <2>2. PICK ss : ss = [i \in DOMAIN l |-> IF l[i] \notin end.seen THEN <<l[i]>> ELSE <<>>]
    OBVIOUS
  <2>3. ss = [i \in DOMAIN l |-> ss[i]] /\ \A i \in DOMAIN l : ss[i] = <<l[i]>> \/ ss[i] = <<>>
    BY <2>2
  <2>4. IsList(Concatenation(ss))
    BY <2>1, <2>3, SelectedAre
  <2>5. Missing(end.links, end.seen) = Concatenation(ss)
    BY <2>1, <2>2 DEF Missing, Those
  <2> QED
    BY <2>4, <2>5, Lists
<1>9. PICK k1, k2, k3, k4, k5 :
        /\ k1 = If(end.open # <<>>, Err("structures open"))
        /\ k2 = If(CountOf(BeginAps, s) # CountOf(EndAps, s), Err("structure ends"))
        /\ k3 = If(CountOf(BeginAps, s) # CountOf(BeginApsBody, s), Warn("structure bodies"))
        /\ k4 = Times(Len(missing), Err("link target"))
        /\ k5 = ValidateXcfBindings(f.xcf, end.seen, end.types)
  OBVIOUS
<1>10. /\ Err("structures open") \in W /\ Err("structure ends") \in W /\ Warn("structure bodies") \in W
       /\ Tell("structures") \in W /\ <<>> \in W
  BY <1>1, <1>2, SaidOne, SaidNothing
<1>11. k1 \in W /\ k2 \in W /\ k3 \in W
  BY <1>9, <1>10 DEF If
<1>12. k4 \in W
  BY <1>1, <1>2, <1>8, <1>9, SaidTimes
<1>13. k5 \in W
  BY <1>2, <1>9, BindingsSaid DEF IsMetafile
<1>14. end.said \o k1 \o k2 \o k3 \o k4 \o k5 \o Tell("structures") \in W
  BY <1>2, <1>7, <1>10, <1>11, <1>12, <1>13, SaidBoth
<1>15. StructureRemarks(f) = end.said \o k1 \o k2 \o k3 \o k4 \o k5 \o Tell("structures")
  <2>1. end = Fold(StructureElements, [open |-> <<>>, seen |-> {}, types |-> {}, links |-> <<>>, said |-> <<>>], f.commands)
    BY <1>3, <1>6 DEF StructureStart
  <2>2. StructureRemarks(f)
          = end.said
            \o If(end.open # <<>>, Err("structures open"))
            \o If(CountOf(BeginAps, f.commands) # CountOf(EndAps, f.commands), Err("structure ends"))
            \o If(CountOf(BeginAps, f.commands) # CountOf(BeginApsBody, f.commands), Warn("structure bodies"))
            \o Times(Len(Missing(end.links, end.seen)), Err("link target"))
            \o ValidateXcfBindings(f.xcf, end.seen, end.types)
            \o Tell("structures")
    BY <2>1 DEF StructureRemarks
  <2> QED
    BY <1>3, <1>8, <1>9, <2>2, Zenon
<1> QED
  BY <1>2, <1>14, <1>15
-----------------------------------------------------------------------------
\* What is said of symbols is never an error.
SymbolWords ==
  {"libraries", "library", "library missing", "no libraries", "no such symbol", "symbol", "symbol missing"}

Quiet == {"WARNING", "INFO"}
QuietRemark == Plain(Quiet, SymbolWords)
QuietWords == Seq(QuietRemark)
SymbolRemarks == Remarks(Quiet, SymbolWords)

LEMMA QuietAre ==
  /\ <<>> \in QuietWords
  /\ \A what \in SymbolWords : Warn(what) \in QuietWords /\ Tell(what) \in QuietWords
  /\ \A c, words : words \in QuietWords => If(c, words) \in QuietWords
  /\ \A words, more \in QuietWords : words \o more \in QuietWords
<1>1. \A what \in SymbolWords : /\ [severity |-> "WARNING", what |-> what] \in QuietRemark
                                /\ [severity |-> "INFO", what |-> what] \in QuietRemark
  BY DEF QuietRemark, Plain, Quiet
<1>2. ASSUME NEW what \in SymbolWords PROVE Warn(what) \in QuietWords /\ Tell(what) \in QuietWords
  <2>1. PICK R, a, b : /\ R = QuietRemark /\ a = [severity |-> "WARNING", what |-> what]
                       /\ b = [severity |-> "INFO", what |-> what] /\ a \in R /\ b \in R
    BY <1>1
  <2>2. <<a>> \in Seq(R) /\ <<b>> \in Seq(R)
    BY <2>1
  <2> QED
    BY <2>1, <2>2 DEF Warn, Tell, Say, QuietWords
<1>3. <<>> \in QuietWords /\ \A words, more \in QuietWords : words \o more \in QuietWords
  BY DEF QuietWords
<1> QED
  BY <1>2, <1>3 DEF If

LEMMA QuietInWords == QuietWords \subseteq Words(SymbolWords)
<1>1. QuietRemark \subseteq Remark(SymbolWords)
  BY DEF QuietRemark, Plain, Quiet, Remark, Severities
<1>2. PICK R, S : R = QuietRemark /\ S = Remark(SymbolWords) /\ R \subseteq S
  BY <1>1
<1>3. Seq(R) \subseteq Seq(S)
  BY <1>2
<1> QED
  BY <1>2, <1>3 DEF QuietWords, Words

\* The warnings that a property asks about.
SymbolTrouble == {"no libraries", "no such symbol", "symbol missing"}

Trouble(H) == \E what \in SymbolTrouble : <<"WARNING", what>> \in H

\* A symbol that the libraries locate.
Serves(libraries, index) ==
  \/ index >= 0 /\ index < Len(libraries) /\ libraries[index + 1] \in {"local", "remote"}
  \/ index > 0 /\ index = Len(libraries) /\ libraries[index] \in {"local", "remote"}

LEMMA EntryServes ==
  ASSUME NEW l \in Seq(LibraryKinds), NEW index \in Int
  PROVE  LET e == LibraryEntry(index, l)
         IN  /\ e \in Nat
             /\ Serves(l, index) <=> l # <<>> /\ e # 0 /\ l[e] # "nameless" /\ l[e] \notin {"missing", "empty"}
<1>1. PICK n : n = Len(l) /\ n \in Nat /\ \A i \in 1..n : l[i] \in LibraryKinds
  OBVIOUS
<1>2. l = <<>> => n = 0
  BY <1>1
<1>3. \A i \in 1..n : l[i] \in {"local", "remote"} <=> l[i] # "nameless" /\ l[i] \notin {"missing", "empty"}
  BY <1>1 DEF LibraryKinds
<1>4. CASE index \in 0..(n - 1)
  <2>1. LibraryEntry(index, l) = index + 1 /\ index + 1 \in 1..n /\ index + 1 # 0 /\ index + 1 \in Nat
    BY <1>1, <1>4 DEF LibraryEntry
  <2>2. Serves(l, index) <=> l[index + 1] \in {"local", "remote"}
    BY <1>1, <1>4 DEF Serves
  <2>3. l # <<>>
    BY <1>2, <1>4
  <2> QED
    BY <1>3, <2>1, <2>2, <2>3
<1>5. CASE index = n /\ index > 0
  <2>1. LibraryEntry(index, l) = index /\ index \in 1..n /\ index # 0 /\ index \in Nat
    BY <1>1, <1>5 DEF LibraryEntry
  <2>2. Serves(l, index) <=> l[index] \in {"local", "remote"}
    BY <1>1, <1>5 DEF Serves
  <2>3. l # <<>>
    BY <1>2, <1>5
  <2> QED
    BY <1>3, <2>1, <2>2, <2>3
<1>6. CASE index \notin 0..(n - 1) /\ ~(index = n /\ index > 0)
  <2>1. LibraryEntry(index, l) = 0
    BY <1>1, <1>6 DEF LibraryEntry
  <2>2. ~Serves(l, index)
    BY <1>1, <1>6 DEF Serves
  <2> QED
    BY <2>1, <2>2
<1> QED
  BY <1>4, <1>5, <1>6

LEMMA LibrariesSaid ==
  ASSUME NEW libraries, IsList(libraries)
  PROVE  DeclareLibraries(libraries) \in QuietWords /\ ~Trouble(Heard(DeclareLibraries(libraries)))
<1>1. {"libraries", "library", "library missing"} \subseteq SymbolWords
  BY DEF SymbolWords
<1>2. \A entry : LibraryRemarks(entry) \in QuietWords
  BY <1>1, QuietAre DEF LibraryRemarks
<1>3. PICK n : n = Len(libraries) /\ n \in Nat /\ DOMAIN libraries = 1..n
  BY Lists
<1>4. PICK ss : ss = [i \in 1..n |-> LibraryRemarks(libraries[i])]
  OBVIOUS
<1>5. ss \in [1..n -> QuietWords]
  BY <1>2, <1>4
<1>6. Concatenation(ss) \in QuietWords
  BY <1>3, <1>5, Concatenated DEF QuietWords
<1>7. Each(LibraryRemarks, libraries) = Concatenation(ss)
  BY <1>3, <1>4 DEF Each
<1>8. PICK k : k = If(libraries # <<>>, Tell("libraries")) /\ k \in QuietWords
  BY <1>1, QuietAre DEF If
<1>9. k \o Concatenation(ss) \in QuietWords
  BY <1>6, <1>8, QuietAre
<1>10. PICK W : W = {"libraries", "library", "library missing"}
  OBVIOUS
<1>11. DeclareLibraries(libraries) \in Words(W)
  <2>1. \A entry : LibraryRemarks(entry) \in Words(W)
    <3>1. Tell("library") \in Words(W) /\ Warn("library missing") \in Words(W) /\ <<>> \in Words(W)
      BY <1>10, SaidOne, SaidNothing
    <3> QED
      BY <3>1 DEF LibraryRemarks
  <2>2. ss \in [1..n -> Words(W)]
    BY <1>4, <2>1
  <2>3. Concatenation(ss) \in Words(W)
    BY <1>3, <2>2, SaidOfEach
  <2>4. k \in Words(W)
    BY <1>8, <1>10, SaidOne, SaidIf
  <2>5. k \o Concatenation(ss) \in Words(W)
    BY <2>3, <2>4, SaidBoth
  <2> QED
    BY <1>7, <1>8, <2>5 DEF DeclareLibraries
<1>12. Heard(DeclareLibraries(libraries)) \subseteq Things(W)
  BY <1>11, HeardAbout
<1>13. ~Trouble(Heard(DeclareLibraries(libraries)))
  BY <1>10, <1>12 DEF Trouble, SymbolTrouble, Things
<1> QED
  BY <1>7, <1>8, <1>9, <1>13 DEF DeclareLibraries

SymbolState(messages, picture, libraries, warned, lost) ==
  [messages |-> messages, picture |-> picture, libraries |-> libraries, warned |-> warned, lost |-> lost]

SymbolStates(L) ==
  [messages : SymbolRemarks, picture : Nat, libraries : L, warned : BOOLEAN, lost : SUBSET Nat]

LEMMA SymbolStateFields ==
  ASSUME NEW L, NEW s \in SymbolStates(L)
  PROVE  /\ s = SymbolState(s.messages, s.picture, s.libraries, s.warned, s.lost)
         /\ s.messages \in SymbolRemarks /\ s.picture \in Nat /\ s.libraries \in L /\ s.warned \in BOOLEAN /\ s.lost \in SUBSET Nat
BY DEF SymbolStates, SymbolState

LEMMA SymbolStateAre ==
  ASSUME NEW L, NEW messages, messages \in SymbolRemarks, NEW picture, picture \in Nat, NEW libraries, libraries \in L,
         NEW warned, warned \in BOOLEAN, NEW lost, lost \in SUBSET Nat
  PROVE  SymbolState(messages, picture, libraries, warned, lost) \in SymbolStates(L)
BY DEF SymbolStates, SymbolState

LEMMA SymbolSaid ==
  ASSUME NEW L, NEW s \in SymbolStates(L), NEW words, words \in QuietWords
  PROVE  \E m \in SymbolRemarks : /\ Add(s, words) = SymbolState(m, s.picture, s.libraries, s.warned, s.lost)
                                 /\ Heard(m) = Heard(s.messages) \cup Heard(words)
<1>1. PICK messages, picture, libraries, warned, lost :
        /\ s = SymbolState(messages, picture, libraries, warned, lost) /\ messages \in SymbolRemarks /\ picture \in Nat
  BY SymbolStateFields
<1>2. s.messages = messages /\ s.picture = picture /\ s.libraries = libraries /\ s.warned = warned /\ s.lost = lost
  BY <1>1 DEF SymbolState
<1>3. PICK k : k = About(picture, words) /\ k \in SymbolRemarks
  BY <1>1, AboutAre DEF QuietWords, QuietRemark, SymbolRemarks
<1>4. PICK m : m = messages \o k /\ m \in SymbolRemarks
  BY <1>1, <1>3, RemarksAre DEF SymbolRemarks
<1>5. Add(s, words) = [s EXCEPT !.messages = m]
  BY <1>2, <1>3, <1>4 DEF Add
<1>6. Add(s, words) = SymbolState(m, picture, libraries, warned, lost)
  BY <1>1, <1>5 DEF SymbolState
<1>7. Heard(k) = Heard(words) /\ IsList(k)
  BY <1>3, QuietInWords, HeardAbout
<1>8. Heard(m) = Heard(messages) \cup Heard(words)
  <2>1. IsList(messages)
    BY <1>1, RemarksAre DEF SymbolRemarks
  <2> QED
    BY <1>4, <1>7, <2>1, HeardBoth
<1> QED
  BY <1>2, <1>4, <1>6, <1>8

\* What is remembered of the libraries has been said.
Remembered(s) == s.warned \/ s.lost # {} => Trouble(Heard(s.messages))

\* One state and the next, with trouble or without.
Turned(L, s, z, libraries, trouble) ==
  /\ z \in SymbolStates(L) /\ z.libraries = libraries /\ Remembered(z)
  /\ Trouble(Heard(z.messages)) <=> Trouble(Heard(s.messages)) \/ trouble

LEMMA SymbolTurned ==
  ASSUME NEW L, NEW s \in SymbolStates(L), Remembered(s), NEW words, NEW m \in SymbolRemarks,
         Heard(m) = Heard(s.messages) \cup Heard(words), NEW picture \in Nat, NEW libraries \in L,
         NEW warned \in BOOLEAN, warned => s.warned \/ Trouble(Heard(m)),
         NEW lost \in SUBSET Nat, lost # {} => s.lost # {} \/ Trouble(Heard(m)),
         NEW trouble, Trouble(Heard(m)) <=> Trouble(Heard(s.messages)) \/ trouble
  PROVE  Turned(L, s, SymbolState(m, picture, libraries, warned, lost), libraries, trouble)
<1>1. PICK z : z = SymbolState(m, picture, libraries, warned, lost)
  OBVIOUS
<1>2. z \in SymbolStates(L)
  BY <1>1, SymbolStateAre
<1>3. z.messages = m /\ z.libraries = libraries /\ z.warned = warned /\ z.lost = lost
  BY <1>1 DEF SymbolState
<1>4. Trouble(Heard(s.messages)) => Trouble(Heard(m))
  BY DEF Trouble
<1>5. Remembered(z)
  BY <1>3, <1>4 DEF Remembered
<1> QED
  BY <1>1, <1>2, <1>3, <1>5 DEF Turned

LEMMA TroubleBoth ==
  ASSUME NEW G, NEW H
  PROVE  Trouble(G \cup H) <=> Trouble(G) \/ Trouble(H)
BY DEF Trouble

LEMMA TroubleOf ==
  /\ \A what \in SymbolTrouble : Trouble(Heard(Warn(what)))
  /\ \A what : ~Trouble(Heard(Tell(what)))
  /\ ~Trouble(Heard(<<>>))
<1>1. \A what : Heard(Warn(what)) = {<<"WARNING", what>>} /\ Heard(Tell(what)) = {<<"INFO", what>>} /\ Heard(<<>>) = {}
  BY HeardOf
<1>2. \A what, who : <<"WARNING", who>> \in Heard(Warn(what)) <=> who = what
  BY <1>1
<1>3. \A what, who : <<"WARNING", who>> \notin Heard(Tell(what)) /\ <<"WARNING", who>> \notin Heard(<<>>)
  BY <1>1
<1> QED
  BY <1>2, <1>3 DEF Trouble

LEMMA UseSymbolTurns ==
  ASSUME NEW L, \A l \in L : l \in Seq(LibraryKinds), NEW s \in SymbolStates(L), Remembered(s), NEW c, c.index \in Int
  PROVE  Turned(L, s, UseSymbol(s, c), s.libraries, ~Serves(s.libraries, c.index))
<1>1. {"no libraries", "no such symbol", "symbol", "symbol missing"} \subseteq SymbolWords
  BY DEF SymbolWords
<1>2. /\ s.messages \in SymbolRemarks /\ s.picture \in Nat /\ s.libraries \in L /\ s.warned \in BOOLEAN
      /\ s.lost \in SUBSET Nat
  BY SymbolStateFields
<1>3. PICK entry : /\ entry = LibraryEntry(c.index, s.libraries) /\ entry \in Nat
                   /\ Serves(s.libraries, c.index)
                        <=> s.libraries # <<>> /\ entry # 0 /\ s.libraries[entry] # "nameless" /\ s.libraries[entry] \notin {"missing", "empty"}
  <2>1. s.libraries \in Seq(LibraryKinds)
    BY <1>2
  <2> QED
    BY <2>1, EntryServes
<1>4. PICK lost \in BOOLEAN : lost <=> s.libraries[entry] \in {"missing", "empty"}
  OBVIOUS
<1>5. CASE s.libraries = <<>>
  <2>1. PICK w : w = If(~s.warned, Warn("no libraries")) /\ w \in QuietWords
    BY <1>1, QuietAre DEF If
  <2>2. PICK m \in SymbolRemarks : /\ Add(s, w) = SymbolState(m, s.picture, s.libraries, s.warned, s.lost)
                                  /\ Heard(m) = Heard(s.messages) \cup Heard(w)
    BY <2>1, SymbolSaid
  <2>3. UseSymbol(s, c) = [Add(s, w) EXCEPT !.warned = TRUE]
    BY <1>5, <2>1 DEF UseSymbol
  <2>4. UseSymbol(s, c) = SymbolState(m, s.picture, s.libraries, TRUE, s.lost)
    <3>1. PICK picture, libraries, lost1 : picture = s.picture /\ libraries = s.libraries /\ lost1 = s.lost
      OBVIOUS
    <3>2. PICK y, w1 : y = SymbolState(m, picture, libraries, s.warned, lost1) /\ w1 = [y EXCEPT !.warned = TRUE]
      OBVIOUS
    <3>3. /\ DOMAIN y = {"messages", "picture", "libraries", "warned", "lost"}
          /\ y.messages = m /\ y.picture = picture /\ y.libraries = libraries /\ y.lost = lost1
      BY <3>2 DEF SymbolState
    <3>4. w1.messages = m /\ w1.picture = picture /\ w1.libraries = libraries /\ w1.warned = TRUE /\ w1.lost = lost1
      BY <3>2, <3>3
    <3>5. w1 = [n \in DOMAIN y |-> w1[n]]
      BY <3>2
    <3>6. w1 = SymbolState(m, picture, libraries, TRUE, lost1)
      BY <3>3, <3>4, <3>5 DEF SymbolState
    <3>7. UseSymbol(s, c) = w1
      BY <2>2, <2>3, <3>1, <3>2
    <3> QED
      BY <3>1, <3>6, <3>7
  <2>5. Trouble(Heard(m))
    <3>1. CASE s.warned
      BY <2>2, <3>1, TroubleBoth DEF Remembered
    <3>2. CASE ~s.warned
      <4>1. w = Warn("no libraries")
        BY <2>1, <3>2 DEF If
      <4>2. Trouble(Heard(w))
        BY <4>1, TroubleOf DEF SymbolTrouble
      <4> QED
        BY <2>2, <4>2, TroubleBoth
    <3> QED
      BY <3>1, <3>2
  <2>6. PICK trouble : trouble = ~Serves(s.libraries, c.index) /\ trouble
    BY <1>3, <1>5
  <2>7. Turned(L, s, SymbolState(m, s.picture, s.libraries, TRUE, s.lost), s.libraries, trouble)
    BY <1>2, <2>2, <2>5, <2>6, SymbolTurned
  <2> QED
    BY <2>4, <2>6, <2>7
<1>6. CASE s.libraries # <<>> /\ (entry = 0 \/ s.libraries[entry] = "nameless")
  <2>1. PICK w : w = Warn("no such symbol") /\ w \in QuietWords /\ Trouble(Heard(w))
    BY <1>1, QuietAre, TroubleOf DEF SymbolTrouble
  <2>2. PICK m \in SymbolRemarks : /\ Add(s, w) = SymbolState(m, s.picture, s.libraries, s.warned, s.lost)
                                  /\ Heard(m) = Heard(s.messages) \cup Heard(w)
    BY <2>1, SymbolSaid
  <2>3. UseSymbol(s, c) = Add(s, w)
    BY <1>3, <1>6, <2>1 DEF UseSymbol
  <2>5. Trouble(Heard(m))
    BY <2>1, <2>2, TroubleBoth
  <2>6. PICK trouble : trouble = ~Serves(s.libraries, c.index) /\ trouble
    BY <1>3, <1>6
  <2>7. Turned(L, s, SymbolState(m, s.picture, s.libraries, s.warned, s.lost), s.libraries, trouble)
    BY <1>2, <2>2, <2>5, <2>6, SymbolTurned
  <2> QED
    BY <2>2, <2>3, <2>6, <2>7
<1>7. CASE s.libraries # <<>> /\ ~(entry = 0 \/ s.libraries[entry] = "nameless")
  <2>1. PICK k : k = If(lost /\ entry \notin s.lost, Warn("symbol missing")) /\ k \in QuietWords
    BY <1>1, QuietAre DEF If
  <2>2. PICK w : w = Tell("symbol") \o k /\ w \in QuietWords /\ Heard(w) = Heard(Tell("symbol")) \cup Heard(k)
    <3>1. PICK t : t = Tell("symbol") /\ t \in QuietWords
      BY <1>1, QuietAre
    <3>2. t \o k \in QuietWords
      BY <2>1, <3>1, QuietAre
    <3>3. IsList(t) /\ IsList(k)
      BY <2>1, <3>1, QuietInWords, HeardAbout
    <3> QED
      BY <3>1, <3>2, <3>3, HeardBoth
  <2>3. PICK m \in SymbolRemarks : /\ Add(s, w) = SymbolState(m, s.picture, s.libraries, s.warned, s.lost)
                                  /\ Heard(m) = Heard(s.messages) \cup Heard(w)
    BY <2>2, SymbolSaid
  <2>4. PICK gone : gone = IF lost THEN s.lost \cup {entry} ELSE s.lost
    OBVIOUS
  <2>5. gone \in SUBSET Nat
    BY <1>2, <1>3, <2>4
  <2>6. UseSymbol(s, c) = [Add(s, w) EXCEPT !.lost = IF lost THEN Add(s, w).lost \cup {entry} ELSE Add(s, w).lost]
    BY <1>3, <1>4, <1>7, <2>1, <2>2 DEF UseSymbol
  <2>7. UseSymbol(s, c) = SymbolState(m, s.picture, s.libraries, s.warned, gone)
    <3>1. Add(s, w) = SymbolState(m, s.picture, s.libraries, s.warned, s.lost)
      BY <2>3
    <3>2. Add(s, w).lost = s.lost
      BY <3>1 DEF SymbolState
    <3>3. UseSymbol(s, c) = [SymbolState(m, s.picture, s.libraries, s.warned, s.lost) EXCEPT !.lost = gone]
      BY <2>4, <2>6, <3>1, <3>2
    <3> QED
      BY <3>3 DEF SymbolState
  <2>8. Trouble(Heard(m)) <=> Trouble(Heard(s.messages)) \/ Trouble(Heard(k))
    <3>1. Trouble(Heard(w)) <=> Trouble(Heard(k))
      BY <2>2, TroubleBoth, TroubleOf
    <3> QED
      BY <2>3, <3>1, TroubleBoth
  <2>9. Trouble(Heard(k)) <=> lost /\ entry \notin s.lost
    BY <2>1, TroubleOf DEF If, SymbolTrouble
  <2>10. lost => Trouble(Heard(m))
    <3>1. s.lost # {} => Trouble(Heard(s.messages))
      BY DEF Remembered
    <3> QED
      BY <2>8, <2>9, <3>1
  <2>11. Trouble(Heard(m)) <=> Trouble(Heard(s.messages)) \/ lost
    BY <2>8, <2>9, <2>10
  <2>12. gone # {} => s.lost # {} \/ Trouble(Heard(m))
    BY <2>4, <2>10
  <2>13. lost <=> ~Serves(s.libraries, c.index)
    BY <1>3, <1>4, <1>7
  <2>14. PICK trouble : trouble = ~Serves(s.libraries, c.index) /\ (trouble <=> lost)
    BY <2>13
  <2>15. Turned(L, s, SymbolState(m, s.picture, s.libraries, s.warned, gone), s.libraries, trouble)
    BY <1>2, <2>3, <2>5, <2>11, <2>12, <2>14, SymbolTurned
  <2> QED
    BY <2>7, <2>14, <2>15
<1> QED
  BY <1>5, <1>6, <1>7

\* The library lists of the commands are among L, and indices are numbers.
SymbolsFit(commands, n, L) ==
  /\ <<>> \in L /\ \A l \in L : l \in Seq(LibraryKinds)
  /\ \A i \in 1..n : /\ commands[i].code = SymbolLibraryList => commands[i].libraries \in L
                     /\ commands[i].code = PolySymbol => commands[i].index \in Int

\* The libraries in force after a command, and a symbol that they do not locate.
Following(commands, libraries, i) ==
  IF commands[i].code = SymbolLibraryList THEN commands[i].libraries ELSE libraries

Unserved(commands, libraries, i) == commands[i].code = PolySymbol /\ ~Serves(libraries, commands[i].index)

LEMMA SymbolStep ==
  ASSUME NEW n, n \in Nat, NEW commands, NEW L, SymbolsFit(commands, n, L), NEW s, s \in SymbolStates(L), Remembered(s),
         NEW i, i \in 1..n
  PROVE  Turned(L, s, SymbolElements(commands, s, i), Following(commands, s.libraries, i), Unserved(commands, s.libraries, i))
<1>1. PICK c, at : c = commands[i] /\ at = [s EXCEPT !.picture = PictureAt(commands, i)]
  OBVIOUS
<1>2. PICK messages, picture, libraries, warned, lost :
        /\ s = SymbolState(messages, picture, libraries, warned, lost) /\ messages \in SymbolRemarks /\ picture \in Nat
        /\ libraries \in L /\ warned \in BOOLEAN /\ lost \in SUBSET Nat
  BY SymbolStateFields
<1>3. PICK p : p = PictureAt(commands, i) /\ p \in Nat
  <2>1. i \in Nat
    OBVIOUS
  <2> QED
    BY <2>1, PictureAtAre
<1>4. at = SymbolState(messages, p, libraries, warned, lost)
  <2>1. at = [s EXCEPT !.picture = p]
    BY <1>1, <1>3
  <2> QED
    BY <1>2, <2>1 DEF SymbolState
<1>5. at \in SymbolStates(L)
  BY <1>2, <1>3, <1>4, SymbolStateAre
<1>6. \A l \in L : l \in Seq(LibraryKinds)
  BY DEF SymbolsFit
<1>7. SymbolLibraryList # PolySymbol
  BY DEF SymbolLibraryList, PolySymbol
<1>a. /\ at.messages = messages /\ at.picture = p /\ at.libraries = libraries /\ at.warned = warned /\ at.lost = lost
      /\ s.messages = messages /\ s.libraries = libraries /\ s.warned = warned /\ s.lost = lost
  BY <1>2, <1>4 DEF SymbolState
<1>b. Remembered(at)
  BY <1>a DEF Remembered
<1>8. CASE c.code = SymbolLibraryList
  <2>1. PICK l : l = c.libraries /\ l \in L /\ IsList(l)
    <3>1. c.libraries \in L
      BY <1>1, <1>8 DEF SymbolsFit
    <3> QED
      BY <1>6, <3>1, ListOf
  <2>2. PICK words : words = DeclareLibraries(l) /\ words \in QuietWords /\ ~Trouble(Heard(words))
    BY <2>1, LibrariesSaid
  <2>3. PICK m \in SymbolRemarks : /\ Add(at, words) = SymbolState(m, at.picture, at.libraries, at.warned, at.lost)
                                  /\ Heard(m) = Heard(at.messages) \cup Heard(words)
    BY <1>5, <2>2, SymbolSaid
  <2>4. SymbolElements(commands, s, i) = [Add(at, words) EXCEPT !.libraries = l]
    BY <1>1, <1>7, <1>8, <2>1, <2>2 DEF SymbolElements
  <2>5. SymbolElements(commands, s, i) = SymbolState(m, p, l, warned, lost)
    BY <1>a, <2>3, <2>4 DEF SymbolState
  <2>6. PICK trouble : trouble = Unserved(commands, s.libraries, i) /\ ~trouble
    BY <1>1, <1>7, <1>8 DEF Unserved
  <2>7. Trouble(Heard(m)) <=> Trouble(Heard(s.messages)) \/ trouble
    BY <1>a, <2>2, <2>3, <2>6, TroubleBoth
  <2>8. Heard(m) = Heard(s.messages) \cup Heard(words)
    BY <1>a, <2>3
  <2>9. Turned(L, s, SymbolState(m, p, l, warned, lost), l, trouble)
    <3>1. warned => s.warned \/ Trouble(Heard(m))
      BY <1>a
    <3>2. lost # {} => s.lost # {} \/ Trouble(Heard(m))
      BY <1>a
    <3> QED
      BY <1>2, <1>3, <2>1, <2>3, <2>7, <2>8, <3>1, <3>2, SymbolTurned
  <2>10. Following(commands, s.libraries, i) = l
    BY <1>1, <1>8, <2>1 DEF Following
  <2> QED
    BY <2>5, <2>6, <2>9, <2>10
<1>9. CASE c.code = PolySymbol
  <2>1. SymbolElements(commands, s, i) = UseSymbol(at, c)
    BY <1>1, <1>7, <1>9 DEF SymbolElements
  <2>2. c.index \in Int
    BY <1>1, <1>9 DEF SymbolsFit
  <2>3. Turned(L, at, UseSymbol(at, c), at.libraries, ~Serves(at.libraries, c.index))
    BY <1>5, <1>6, <1>b, <2>2, UseSymbolTurns
  <2>4. Following(commands, s.libraries, i) = at.libraries /\ (Unserved(commands, s.libraries, i) <=> ~Serves(at.libraries, c.index))
    BY <1>1, <1>7, <1>9, <1>a DEF Following, Unserved
  <2>5. s.messages = at.messages
    BY <1>a
  <2> QED
    BY <2>1, <2>3, <2>4, <2>5 DEF Turned
<1>10. CASE c.code \notin {SymbolLibraryList, PolySymbol}
  <2>1. SymbolElements(commands, s, i) = s
    BY <1>1, <1>10 DEF SymbolElements
  <2>2. Following(commands, s.libraries, i) = s.libraries /\ ~Unserved(commands, s.libraries, i)
    BY <1>1, <1>10 DEF Following, Unserved
  <2> QED
    BY <2>1, <2>2 DEF Turned
<1> QED
  BY <1>8, <1>9, <1>10

SymbolStart(picture) == [messages |-> <<>>, picture |-> picture, libraries |-> <<>>, warned |-> FALSE, lost |-> {}]

LEMMA SymbolBegins ==
  ASSUME NEW commands, NEW n, NEW L, SymbolsFit(commands, n, L), NEW picture, picture \in Nat
  PROVE  /\ SymbolStart(picture) \in SymbolStates(L) /\ Remembered(SymbolStart(picture))
         /\ SymbolStart(picture).libraries = <<>> /\ ~Trouble(Heard(SymbolStart(picture).messages))
<1>1. <<>> \in SymbolRemarks /\ <<>> \in L /\ FALSE \in BOOLEAN /\ {} \in SUBSET Nat
  BY RemarksAre DEF SymbolRemarks, SymbolsFit
<1>2. SymbolState(<<>>, picture, <<>>, FALSE, {}) \in SymbolStates(L)
  BY <1>1, SymbolStateAre
<1>3. PICK z : z = SymbolStart(picture)
  OBVIOUS
<1>5. z.messages = <<>> /\ z.libraries = <<>> /\ ~z.warned /\ z.lost = {}
  BY <1>3 DEF SymbolStart
<1>4. Remembered(z) /\ ~Trouble(Heard(z.messages)) /\ z.libraries = <<>>
  BY <1>5, TroubleOf DEF Remembered
<1> QED
  BY <1>2, <1>3, <1>4 DEF SymbolStart, SymbolState

LEMMA SymbolRun ==
  ASSUME NEW n, n \in Nat, NEW commands, Len(commands) = n, NEW L, SymbolsFit(commands, n, L), NEW picture, picture \in Nat
  PROVE  \E b : /\ b[0] = SymbolStart(picture) /\ \A i \in 1..n : b[i] = SymbolElements(commands, b[i - 1], i)
                /\ \A i \in 0..n : b[i] \in SymbolStates(L) /\ Remembered(b[i])
                /\ SymbolReferences(commands, picture) = b[n]
<1>0. PICK S, ix : /\ S = {y \in SymbolStates(L) : Remembered(y)} /\ ix = Indices(commands)
                   /\ Len(ix) = n /\ \A i \in 1..n : ix[i] = i
  <2>1. PICK S, ix : S = {y \in SymbolStates(L) : Remembered(y)} /\ ix = Indices(commands)
    OBVIOUS
  <2>2. ix = [i \in 1..n |-> i]
    BY <2>1 DEF Indices
  <2>3. ix \in Seq(Nat)
    BY <2>2
  <2>4. DOMAIN ix = 1..n /\ DOMAIN ix = 1..Len(ix) /\ Len(ix) \in Nat
    BY <2>2, <2>3
  <2>5. Len(ix) = n
    BY <2>4
  <2>6. \A i \in 1..n : ix[i] = i
    BY <2>2
  <2> QED
    BY <2>1, <2>5, <2>6
<1>a. \A y \in S, i \in 1..n : SymbolElements(commands, y, ix[i]) \in S
  <2>1. ASSUME NEW y \in S, NEW i \in 1..n PROVE SymbolElements(commands, y, i) \in S
    <3>1. y \in SymbolStates(L) /\ Remembered(y)
      BY <1>0
    <3>2. Turned(L, y, SymbolElements(commands, y, i), Following(commands, y.libraries, i), Unserved(commands, y.libraries, i))
      BY <3>1, SymbolStep
    <3> QED
      BY <1>0, <3>2 DEF Turned
  <2> QED
    BY <1>0, <2>1
<1>1. PICK g : g = [i \in 1..n |-> [y \in S |-> SymbolElements(commands, y, ix[i])]]
  OBVIOUS
<1>2. g \in [1..n -> [S -> S]]
  BY <1>1, <1>a
<1>3. PICK x : x = SymbolStart(picture) /\ x \in S
  BY <1>0, SymbolBegins
<1>4. PICK a : IsRun(a, S, n, x, g)
  BY <1>2, <1>3, Turns
<1>5. ASSUME NEW i \in 0..n PROVE a[i] = IF i = 0 THEN x ELSE SymbolElements(commands, a[i - 1], ix[i])
  <2>1. CASE i = 0
    BY <1>4, <2>1 DEF IsRun
  <2>2. CASE i # 0
    <3>1. i \in 1..n /\ i - 1 \in 0..n
      BY <2>2
    <3>2. a[i - 1] \in S
      BY <1>4, <3>1 DEF IsRun
    <3> QED
      BY <1>1, <1>4, <2>2, <3>1, <3>2 DEF IsRun
  <2> QED
    BY <2>1, <2>2
<1>6. a = [i \in 0..n |-> IF i = 0 THEN x ELSE SymbolElements(commands, a[i - 1], ix[i])]
  BY <1>4, <1>5 DEF IsRun
<1>7. PICK b : /\ b = CHOOSE h : h = [i \in 0..n |-> IF i = 0 THEN x ELSE SymbolElements(commands, h[i - 1], ix[i])]
               /\ b = [i \in 0..n |-> IF i = 0 THEN x ELSE SymbolElements(commands, b[i - 1], ix[i])]
  BY <1>6
<1>8. Fold(LAMBDA y, i : SymbolElements(commands, y, i), x, ix) = b[n]
  BY <1>0, <1>7 DEF Fold
<1>9. b[0] = x /\ \A i \in 1..n : b[i] = SymbolElements(commands, b[i - 1], ix[i])
  <2> DEFINE B(i) == IF i = 0 THEN x ELSE SymbolElements(commands, b[i - 1], ix[i])
  <2>1. b = [i \in 0..n |-> B(i)]
    BY <1>7
  <2>2. \A i \in 0..n : b[i] = B(i)
    <3> HIDE DEF B
    <3> QED
      BY <2>1
  <2> QED
    BY <2>2
<1>10. \A i \in 0..n : b[i] \in S
  BY <1>3, <1>9, <1>a, Stays
<1>11. SymbolReferences(commands, picture) = Fold(LAMBDA y, i : SymbolElements(commands, y, i), x, ix)
  BY <1>0, <1>3 DEF SymbolReferences, SymbolStart
<1>12. b[0] = SymbolStart(picture) /\ \A i \in 1..n : b[i] = SymbolElements(commands, b[i - 1], i)
  BY <1>0, <1>3, <1>9
<1>13. \A i \in 0..n : b[i] \in SymbolStates(L) /\ Remembered(b[i])
  BY <1>0, <1>10
<1>14. SymbolReferences(commands, picture) = b[n]
  BY <1>8, <1>11
<1> QED
  BY <1>12, <1>13, <1>14

\* The libraries in force after the first commands: those of the last list.
LibrariesUpTo(s, i) ==
  LET lists == {j \in 1..i : s[j].code = SymbolLibraryList}
  IN  IF lists = {} THEN <<>> ELSE s[Max(lists)].libraries

LEMMA LibrariesNext ==
  ASSUME NEW s, NEW i \in Nat \ {0}
  PROVE  LibrariesUpTo(s, 0) = <<>> /\ LibrariesUpTo(s, i) = Following(s, LibrariesUpTo(s, i - 1), i)
<1>1. LibrariesUpTo(s, 0) = <<>>
  BY DEF LibrariesUpTo
<1>2. PICK A, B : A = {j \in 1..i : s[j].code = SymbolLibraryList} /\ B = {j \in 1..(i - 1) : s[j].code = SymbolLibraryList}
  OBVIOUS
<1>3. CASE s[i].code = SymbolLibraryList
  <2>1. i \in A /\ \A j \in A : i >= j
    BY <1>2, <1>3
  <2>2. \A x \in A : (\A y \in A : x >= y) => x = i
    BY <1>2, <2>1
  <2>3. Max(A) = i
    BY <2>1, <2>2 DEF Max
  <2>4. A # {}
    BY <2>1
  <2>5. LibrariesUpTo(s, i) = s[i].libraries
    BY <1>2, <2>3, <2>4 DEF LibrariesUpTo
  <2> QED
    BY <1>1, <1>3, <2>5 DEF Following
<1>4. CASE s[i].code # SymbolLibraryList
  <2>1. A = B
    BY <1>2, <1>4
  <2>2. LibrariesUpTo(s, i) = LibrariesUpTo(s, i - 1)
    BY <1>2, <2>1 DEF LibrariesUpTo
  <2> QED
    BY <1>1, <1>4, <2>2 DEF Following
<1> QED
  BY <1>3, <1>4

\* A symbol among the first commands that is not located.
Astray(s, n) == \E i \in 1..n : Unserved(s, LibrariesUpTo(s, i - 1), i)

LEMMA SymbolsTroubled ==
  ASSUME NEW n, n \in Nat, NEW commands, Len(commands) = n, NEW L, SymbolsFit(commands, n, L), NEW picture, picture \in Nat
  PROVE  /\ SymbolReferences(commands, picture) \in SymbolStates(L)
         /\ Trouble(Heard(SymbolReferences(commands, picture).messages)) <=> Astray(commands, n)
<1>1. PICK b : /\ b[0] = SymbolStart(picture) /\ \A i \in 1..n : b[i] = SymbolElements(commands, b[i - 1], i)
               /\ \A i \in 0..n : b[i] \in SymbolStates(L) /\ Remembered(b[i])
               /\ SymbolReferences(commands, picture) = b[n]
  BY SymbolRun
<1> DEFINE Good(i) == /\ b[i].libraries = LibrariesUpTo(commands, i)
                      /\ Trouble(Heard(b[i].messages)) <=> Astray(commands, i)
           G == {i \in 0..n : Good(i)}
<1>2. 0 \in G
  <2>1. b[0].libraries = <<>> /\ ~Trouble(Heard(b[0].messages))
    BY <1>1, SymbolBegins
  <2>2. LibrariesUpTo(commands, 0) = <<>>
    BY DEF LibrariesUpTo
  <2>3. ~Astray(commands, 0)
    BY DEF Astray
  <2> QED
    BY <2>1, <2>2, <2>3
<1>3. ASSUME NEW i \in 1..n, i - 1 \in G PROVE i \in G
  <2>1. Good(i - 1)
    BY <1>3
  <2>2. PICK s, l : s = b[i - 1] /\ l = s.libraries /\ s \in SymbolStates(L) /\ Remembered(s)
    BY <1>1
  <2>3. b[i] = SymbolElements(commands, s, i)
    BY <1>1, <2>2
  <2>4. Turned(L, s, b[i], Following(commands, l, i), Unserved(commands, l, i))
    BY <2>2, <2>3, SymbolStep
  <2>5. l = LibrariesUpTo(commands, i - 1)
    BY <2>1, <2>2
  <2>6. b[i].libraries = LibrariesUpTo(commands, i)
    <3>1. i \in Nat \ {0}
      OBVIOUS
    <3>2. LibrariesUpTo(commands, i) = Following(commands, l, i)
      BY <2>5, <3>1, LibrariesNext
    <3> QED
      BY <2>4, <3>2 DEF Turned
  <2>7. Trouble(Heard(b[i].messages)) <=> Astray(commands, i - 1) \/ Unserved(commands, LibrariesUpTo(commands, i - 1), i)
    BY <2>1, <2>2, <2>4, <2>5 DEF Turned
  <2>8. Astray(commands, i) <=> Astray(commands, i - 1) \/ Unserved(commands, LibrariesUpTo(commands, i - 1), i)
    <3>1. 1..i = (1..(i - 1)) \cup {i}
      OBVIOUS
    <3> QED
      BY <3>1 DEF Astray
  <2> QED
    BY <2>6, <2>7, <2>8
<1>4. 0..n \subseteq G
  <2> HIDE DEF G
  <2> QED
    BY <1>2, <1>3, HoldsThroughout
<1>5. Good(n)
  BY <1>4
<1> QED
  BY <1>1, <1>5

\* What is heard of the symbols of a file.
SymbolHearings(f) ==
  {H \in SUBSET (Quiet \X SymbolWords) : Trouble(H) <=> Astray(f.commands, Len(f.commands))}

\* None of it is an error, and a symbol astray is heard of.
LEMMA SymbolsSaid ==
  ASSUME NEW f, IsMetafile(f), NEW v, Spoken(v)
  PROVE  \E H \in SymbolHearings(f) : Grew(v, ValidateSymbolReferences(f, v), H)
<1>1. PICK s, n : s = f.commands /\ n = Len(s) /\ n \in Nat /\ DOMAIN s = 1..n /\ IsList(s)
  BY Lists DEF IsMetafile
<1>2. PICK L : L = {s[i].libraries : i \in {j \in 1..n : s[j].code = SymbolLibraryList}} \cup {<<>>}
  OBVIOUS
<1>3. SymbolsFit(s, n, L)
  <2>1. \A i \in 1..n : /\ s[i].code = SymbolLibraryList => s[i].libraries \in L
                        /\ s[i].code = PolySymbol => s[i].index \in Int
    BY <1>1, <1>2 DEF IsMetafile
  <2>2. \A l \in L : l \in Seq(LibraryKinds)
    <3>1. \A i \in 1..n : s[i].code = SymbolLibraryList => s[i].libraries \in Seq(LibraryKinds)
      BY <1>1 DEF IsMetafile
    <3>0. <<>> \in Seq(LibraryKinds)
      OBVIOUS
    <3>2. PICK K : K = Seq(LibraryKinds) /\ <<>> \in K
      BY <3>0
    <3>3. \A l \in L : l \in K
      BY <1>2, <3>1, <3>2
    <3> QED
      BY <3>2, <3>3
  <2> QED
    BY <1>2, <2>1, <2>2 DEF SymbolsFit
<1>4. PICK end : /\ end = SymbolReferences(s, v.picture) /\ end \in SymbolStates(L)
                 /\ Trouble(Heard(end.messages)) <=> Astray(s, n)
  BY <1>1, <1>3, SymbolsTroubled DEF Spoken
<1>5. PICK said, picture : said = end.messages /\ picture = end.picture /\ said \in SymbolRemarks /\ picture \in Nat
  BY <1>4, SymbolStateFields
<1>6. IsList(said) /\ Heard(said) \subseteq Quiet \X SymbolWords
  BY <1>5, RemarksAre DEF SymbolRemarks
<1>7. PICK x : x = [v EXCEPT !.messages = v.messages \o said, !.picture = picture] /\ Grew(v, x, Heard(said))
  BY <1>5, <1>6, PlacedGrew
<1>a. IsValidator(x)
  BY <1>7 DEF Grew, Spoken
<1>b. PICK ls : ls = end.libraries
  OBVIOUS
<1>c. [x EXCEPT !.libraries = ls] = Validator(x.kind, x.version, x.allowSegments, x.messages, x.picture, ls)
  BY <1>a, LibrariesChanged
<1>8. PICK y : y = [x EXCEPT !.libraries = end.libraries] /\ y = Validator(x.kind, x.version, x.allowSegments, x.messages, x.picture, ls)
  BY <1>b, <1>c
<1>9. IsValidator(y) /\ y.kind = x.kind /\ y.version = x.version /\ y.allowSegments = x.allowSegments /\ y.messages = x.messages /\ y.picture = x.picture
  BY <1>8, ValidatorFields
<1>10. Grew(v, y, Heard(said))
  BY <1>7, <1>9 DEF Grew, Spoken
<1>11. ValidateSymbolReferences(f, v) = y
  BY <1>1, <1>4, <1>5, <1>7, <1>8 DEF ValidateSymbolReferences, AddAll
<1>12. Heard(said) \in SymbolHearings(f)
  BY <1>1, <1>4, <1>5, <1>6 DEF SymbolHearings
<1> QED
  BY <1>10, <1>11, <1>12
-----------------------------------------------------------------------------
(***************************************************************************)
(* What the passes say one after the other.                                *)
(***************************************************************************)

LEMMA GrewAdd ==
  ASSUME NEW v, NEW w, NEW H, Grew(v, w, H), NEW W, NEW words, words \in Words(W)
  PROVE  Grew(v, Add(w, words), H \cup Heard(words))
<1>1. Grew(w, Add(w, words), Heard(words))
  BY AddGrew DEF Grew
<1> QED
  BY <1>1, GrewTwice

\* The error about figures that are too large, if one is.
LargeFigures(f) ==
  IF \E e \in DOMAIN f.commands : Beyond(f.commands, e, BeginFigure, EndFigure, {4}, MaxInFigure)
  THEN {<<"ERROR", "large figure">>} ELSE {}

LEMMA FigureGrew ==
  ASSUME NEW f, IsMetafile(f), NEW v, Spoken(v)
  PROVE  Grew(v, ValidateFigureComplexity(f, v), LargeFigures(f))
<1>1. PICK s, n : s = f.commands /\ n = Len(s) /\ n \in Nat /\ DOMAIN s = 1..n /\ IsList(s)
  BY Lists DEF IsMetafile
<1>2. PICK end : end = FiguresOf(s, v.picture)
  OBVIOUS
<1>3. /\ end.messages \in Remarks({"ERROR"}, {"large figure"}) /\ end.picture \in Nat
      /\ <<"ERROR", "large figure">> \in Heard(end.messages)
           <=> \E e \in 1..n : Beyond(s, e, BeginFigure, EndFigure, {4}, MaxInFigure)
  BY <1>1, <1>2, FiguresHeard DEF Spoken
<1>4. IsList(end.messages) /\ Heard(end.messages) \subseteq {"ERROR"} \X {"large figure"}
  BY <1>3, RemarksAre
<1>5. {"ERROR"} \X {"large figure"} = {<<"ERROR", "large figure">>}
  OBVIOUS
<1>6. Heard(end.messages) = LargeFigures(f)
  BY <1>1, <1>3, <1>4, <1>5 DEF LargeFigures
<1>7. ValidateFigureComplexity(f, v) = [v EXCEPT !.messages = v.messages \o end.messages, !.picture = end.picture]
  BY <1>1, <1>2 DEF ValidateFigureComplexity, AddAll
<1>8. PICK said, picture : said = end.messages /\ picture = end.picture /\ IsList(said) /\ picture \in Nat
  BY <1>3, <1>4
<1>9. Grew(v, [v EXCEPT !.messages = v.messages \o said, !.picture = picture], Heard(said))
  BY <1>8, PlacedGrew
<1> QED
  BY <1>6, <1>7, <1>8, <1>9

LEMMA RegionsWords ==
  ASSUME NEW f, IsMetafile(f)
  PROVE  RegionsOf(f.commands) \in Words(RegionWords)
<1>1. PICK s, n : s = f.commands /\ n = Len(s) /\ n \in Nat /\ DOMAIN s = 1..n /\ IsList(s)
  BY Lists DEF IsMetafile
<1>2. \A i \in 1..n : Class(s[i]) \in 0..15
  BY <1>1 DEF IsMetafile
<1>3. RegionsOf(s) \in Errs(RegionWords)
  BY <1>1, <1>2, RegionsHeard
<1> QED
  BY <1>1, <1>3, ErrsAre

LEMMA ContentGrew ==
  ASSUME NEW f, IsMetafile(f)
  PROVE  \E U \in SUBSET Things(Usual) : \A v : Spoken(v) => Grew(v, ValidateContent(f, v), U \cup Heard(ProhibitedElements(f.commands, v.allowSegments)) \cup Heard(TextsOf(f.commands)))
<1>0. PICK s : s = f.commands /\ IsList(s) /\ Len(s) \in Nat /\ DOMAIN s = 1..Len(s)
  BY Lists DEF IsMetafile
<1>1. PICK w1 \in Words(Usual) : \A v : ValidateMetafileStructure(f, v) = Add(v, w1)
  BY StructureSaid
<1>2. PICK w2 \in Words(Usual) : \A v : ValidatePictureCount(f, v) = Add(v, w2)
  BY PictureCountSaid
<1>3. PICK w3 \in Words(Usual) : \A v : ValidateVersionSupport(f, v) = Add(v, w3)
  BY VersionSaid
<1>4. PICK w4 \in Words(Usual) : \A v : ValidateEncodingType(f, v) = Add(v, w4)
  BY EncodingSaid
<1>6. PICK w6 \in Words(Usual) : \A v : ValidateTextConstraints(f, v) = Add(v, w6)
  BY TextsSaid
<1>a. PICK U : U = Heard(w1) \cup Heard(w2) \cup Heard(w3) \cup Heard(w4) \cup Heard(w6)
  OBVIOUS
<1>b. U \subseteq Things(Usual)
  <2>1. Heard(w1) \subseteq Things(Usual) /\ Heard(w2) \subseteq Things(Usual) /\ Heard(w3) \subseteq Things(Usual) /\ Heard(w4) \subseteq Things(Usual) /\ Heard(w6) \subseteq Things(Usual) 
    BY HeardAbout
  <2> QED
    BY <1>a, <2>1
<1>c. ASSUME NEW v, Spoken(v) PROVE Grew(v, ValidateContent(f, v), U \cup Heard(ProhibitedElements(f.commands, v.allowSegments)) \cup Heard(TextsOf(f.commands)))
  <2>1. PICK x1, k1 : /\ x1 = ValidateMetafileStructure(f, v) /\ k1 = Heard(w1)
                         /\ Grew(v, x1, k1)
    <3>1. ValidateMetafileStructure(f, v) = Add(v, w1)
      BY <1>1
    <3>2. Grew(v, Add(v, w1), Heard(w1))
      BY <1>1, <1>c, AddGrew
    <3> QED
      BY <3>1, <3>2
  <2>2. PICK x2, k2 : /\ x2 = ValidatePictureCount(f, x1) /\ k2 = k1 \cup Heard(w2)
                         /\ Grew(v, x2, k2)
    <3>1. ValidatePictureCount(f, x1) = Add(x1, w2)
      BY <1>2
    <3> QED
      BY <3>1, <2>1, <1>2, GrewAdd
  <2>3. PICK x3, k3 : /\ x3 = ValidateVersionSupport(f, x2) /\ k3 = k2 \cup Heard(w3)
                         /\ Grew(v, x3, k3)
    <3>1. ValidateVersionSupport(f, x2) = Add(x2, w3)
      BY <1>3
    <3> QED
      BY <3>1, <2>2, <1>3, GrewAdd
  <2>4. PICK x4, k4 : /\ x4 = ValidateEncodingType(f, x3) /\ k4 = k3 \cup Heard(w4)
                         /\ Grew(v, x4, k4)
    <3>1. ValidateEncodingType(f, x3) = Add(x3, w4)
      BY <1>4
    <3> QED
      BY <3>1, <2>3, <1>4, GrewAdd
  <2>5. PICK x5, k5 : /\ x5 = ValidateProhibitedElements(f, x4) /\ k5 = k4 \cup Heard(ProhibitedElements(s, v.allowSegments))
                         /\ Grew(v, x5, k5)
    <3>1. PICK w : w = ProhibitedElements(s, v.allowSegments) /\ w \in Words(Usual \cup {"prohibited"})
      BY <1>0, ProhibitedHeard
    <3>2. ValidateProhibitedElements(f, x4) = Add(x4, w)
      BY <1>0, <2>4, <3>1 DEF ValidateProhibitedElements, Grew
    <3> QED
      BY <2>4, <3>1, <3>2, GrewAdd
  <2>6. PICK x6, k6 : /\ x6 = ValidateTextConstraints(f, x5) /\ k6 = k5 \cup Heard(w6)
                         /\ Grew(v, x6, k6)
    <3>1. ValidateTextConstraints(f, x5) = Add(x5, w6)
      BY <1>6
    <3> QED
      BY <3>1, <2>5, <1>6, GrewAdd
  <2>7. PICK x7, k7 : /\ x7 = ValidateTextSequencing(f, x6) /\ k7 = k6 \cup Heard(TextsOf(s))
                         /\ Grew(v, x7, k7)
    <3>1. PICK w : w = TextsOf(s) /\ w \in Words(TextWords)
      BY <1>0, TextsHeard, ErrsAre
    <3>2. ValidateTextSequencing(f, x6) = Add(x6, w)
      BY <1>0, <3>1 DEF ValidateTextSequencing
    <3> QED
      BY <2>6, <3>1, <3>2, GrewAdd
  <2>8. ValidateContent(f, v) = x7
    BY <2>1, <2>2, <2>3, <2>4, <2>5, <2>6, <2>7 DEF ValidateContent
  <2>9. k7 = U \cup Heard(ProhibitedElements(s, v.allowSegments)) \cup Heard(TextsOf(s))
    BY <1>a, <2>1, <2>2, <2>3, <2>4, <2>5, <2>6, <2>7
  <2> QED
    BY <1>0, <2>7, <2>8, <2>9
<1> QED
  BY <1>b, <1>c

LEMMA StructureGrew ==
  ASSUME NEW f, IsMetafile(f)
  PROVE  \E U \in SUBSET Things(Usual) : \A v : Spoken(v) => Grew(v, ValidateStructure(f, v), U \cup Heard(StructureRemarks(f)))
<1>0. PICK s : s = f.commands /\ IsList(s) /\ Len(s) \in Nat /\ DOMAIN s = 1..Len(s)
  BY Lists DEF IsMetafile
<1>1. PICK w1 \in Words(Usual) : \A v : ValidateStructuredDataRecords(f, v) = Add(v, w1)
  BY AttributesSaid
<1>3. PICK w3 \in Words(Usual) : \A v : ValidateNonGraphicalText(f, v) = Add(v, w3)
  BY TextsSaid
<1>a. PICK U : U = Heard(w1) \cup Heard(w3)
  OBVIOUS
<1>b. U \subseteq Things(Usual)
  <2>1. Heard(w1) \subseteq Things(Usual) /\ Heard(w3) \subseteq Things(Usual) 
    BY HeardAbout
  <2> QED
    BY <1>a, <2>1
<1>c. ASSUME NEW v, Spoken(v) PROVE Grew(v, ValidateStructure(f, v), U \cup Heard(StructureRemarks(f)))
  <2>1. PICK x1, k1 : /\ x1 = ValidateStructuredDataRecords(f, v) /\ k1 = Heard(w1)
                         /\ Grew(v, x1, k1)
    <3>1. ValidateStructuredDataRecords(f, v) = Add(v, w1)
      BY <1>1
    <3>2. Grew(v, Add(v, w1), Heard(w1))
      BY <1>1, <1>c, AddGrew
    <3> QED
      BY <3>1, <3>2
  <2>2. PICK x2, k2 : /\ x2 = ValidateApsStructure(f, x1) /\ k2 = k1 \cup Heard(StructureRemarks(f))
                         /\ Grew(v, x2, k2)
    <3>1. PICK w : w = StructureRemarks(f) /\ w \in Words(AboutStructures)
      BY <1>0, StructureRemarksSaid
    <3>2. ValidateApsStructure(f, x1) = Add(x1, w)
      BY <1>0, <3>1 DEF ValidateApsStructure
    <3> QED
      BY <2>1, <3>1, <3>2, GrewAdd
  <2>3. PICK x3, k3 : /\ x3 = ValidateNonGraphicalText(f, x2) /\ k3 = k2 \cup Heard(w3)
                         /\ Grew(v, x3, k3)
    <3>1. ValidateNonGraphicalText(f, x2) = Add(x2, w3)
      BY <1>3
    <3> QED
      BY <3>1, <2>2, <1>3, GrewAdd
  <2>4. ValidateStructure(f, v) = x3
    BY <2>1, <2>2, <2>3 DEF ValidateStructure
  <2>5. k3 = U \cup Heard(StructureRemarks(f))
    BY <1>a, <2>1, <2>2, <2>3
  <2> QED
    BY <1>0, <2>3, <2>4, <2>5
<1> QED
  BY <1>b, <1>c

LEMMA UsesGrew ==
  ASSUME NEW f, IsMetafile(f)
  PROVE  \E U \in SUBSET Things(Usual) : \A v : Spoken(v) => \E Q \in SymbolHearings(f) : Grew(v, ValidateUses(f, v), U \cup Heard(RegionsOf(f.commands)) \cup LargeFigures(f) \cup Q)
<1>0. PICK s : s = f.commands /\ IsList(s) /\ Len(s) \in Nat /\ DOMAIN s = 1..Len(s)
  BY Lists DEF IsMetafile
<1>1. PICK w1 \in Words(Usual) : \A v : ValidateColorTable(f, v) = Add(v, w1)
  BY ColorTableSaid
<1>3. PICK h3 \in SUBSET Things(Usual) : \A v : Spoken(v) => Grew(v, ValidateNurbsKnotVectors(f, v), h3)
  BY PlacedSaid
<1>4. PICK w4 \in Words(Usual) : \A v : ValidateConicArcFallback(f, v) = Add(v, w4)
  BY ConicsSaid
<1>5. PICK h5 \in SUBSET Things(Usual) : \A v : Spoken(v) => Grew(v, ValidateGeneralizedDrawingPrimitives(f, v), h5)
  BY PlacedSaid
<1>7. PICK h7 \in SUBSET Things(Usual) : \A v : Spoken(v) => Grew(v, ValidateExternalElements(f, v), h7)
  BY PlacedSaid
<1>9. PICK w9 \in Words(Usual) : \A v : ValidateTileCompression(f, v) = Add(v, w9)
  BY TilesSaid
<1>a. PICK U : U = Heard(w1) \cup h3 \cup Heard(w4) \cup h5 \cup h7 \cup Heard(w9)
  OBVIOUS
<1>b. U \subseteq Things(Usual)
  <2>1. Heard(w1) \subseteq Things(Usual) /\ h3 \subseteq Things(Usual) /\ Heard(w4) \subseteq Things(Usual) /\ h5 \subseteq Things(Usual) /\ h7 \subseteq Things(Usual) /\ Heard(w9) \subseteq Things(Usual) 
    BY HeardAbout
  <2> QED
    BY <1>a, <2>1
<1>c. ASSUME NEW v, Spoken(v) PROVE \E Q \in SymbolHearings(f) : Grew(v, ValidateUses(f, v), U \cup Heard(RegionsOf(f.commands)) \cup LargeFigures(f) \cup Q)
  <2>1. PICK x1, k1 : /\ x1 = ValidateColorTable(f, v) /\ k1 = Heard(w1)
                         /\ Grew(v, x1, k1)
    <3>1. ValidateColorTable(f, v) = Add(v, w1)
      BY <1>1
    <3>2. Grew(v, Add(v, w1), Heard(w1))
      BY <1>1, <1>c, AddGrew
    <3> QED
      BY <3>1, <3>2
  <2>2. PICK x2, k2 : /\ x2 = ValidateProtectionRegions(f, x1) /\ k2 = k1 \cup Heard(RegionsOf(s))
                         /\ Grew(v, x2, k2)
    <3>1. PICK w : w = RegionsOf(s) /\ w \in Words(RegionWords)
      BY <1>0, RegionsWords
    <3>2. ValidateProtectionRegions(f, x1) = Add(x1, w)
      BY <1>0, <3>1 DEF ValidateProtectionRegions
    <3> QED
      BY <2>1, <3>1, <3>2, GrewAdd
  <2>3. PICK x3, k3 : /\ x3 = ValidateNurbsKnotVectors(f, x2) /\ k3 = k2 \cup h3
                         /\ Grew(v, x3, k3)
    <3>1. Spoken(x2)
      BY <2>2 DEF Grew
    <3>2. Grew(x2, ValidateNurbsKnotVectors(f, x2), h3)
      BY <1>3, <3>1
    <3> QED
      BY <2>2, <3>2, GrewTwice
  <2>4. PICK x4, k4 : /\ x4 = ValidateConicArcFallback(f, x3) /\ k4 = k3 \cup Heard(w4)
                         /\ Grew(v, x4, k4)
    <3>1. ValidateConicArcFallback(f, x3) = Add(x3, w4)
      BY <1>4
    <3> QED
      BY <3>1, <2>3, <1>4, GrewAdd
  <2>5. PICK x5, k5 : /\ x5 = ValidateGeneralizedDrawingPrimitives(f, x4) /\ k5 = k4 \cup h5
                         /\ Grew(v, x5, k5)
    <3>1. Spoken(x4)
      BY <2>4 DEF Grew
    <3>2. Grew(x4, ValidateGeneralizedDrawingPrimitives(f, x4), h5)
      BY <1>5, <3>1
    <3> QED
      BY <2>4, <3>2, GrewTwice
  <2>6. PICK x6, Q, k6 : /\ x6 = ValidateSymbolReferences(f, x5) /\ Q \in SymbolHearings(f) /\ k6 = k5 \cup Q
                         /\ Grew(v, x6, k6)
    <3>1. Spoken(x5)
      BY <2>5 DEF Grew
    <3>2. PICK q : q \in SymbolHearings(f) /\ Grew(x5, ValidateSymbolReferences(f, x5), q)
      BY <3>1, SymbolsSaid
    <3>3. Grew(v, ValidateSymbolReferences(f, x5), k5 \cup q)
      BY <2>5, <3>2, GrewTwice
    <3> QED
      BY <3>2, <3>3
  <2>7. PICK x7, k7 : /\ x7 = ValidateExternalElements(f, x6) /\ k7 = k6 \cup h7
                         /\ Grew(v, x7, k7)
    <3>1. Spoken(x6)
      BY <2>6 DEF Grew
    <3>2. Grew(x6, ValidateExternalElements(f, x6), h7)
      BY <1>7, <3>1
    <3> QED
      BY <2>6, <3>2, GrewTwice
  <2>8. PICK x8, k8 : /\ x8 = ValidateFigureComplexity(f, x7) /\ k8 = k7 \cup LargeFigures(f)
                         /\ Grew(v, x8, k8)
    <3>1. Spoken(x7)
      BY <2>7 DEF Grew
    <3>2. Grew(x7, ValidateFigureComplexity(f, x7), LargeFigures(f))
      BY <3>1, FigureGrew
    <3> QED
      BY <2>7, <3>2, GrewTwice
  <2>9. PICK x9, k9 : /\ x9 = ValidateTileCompression(f, x8) /\ k9 = k8 \cup Heard(w9)
                         /\ Grew(v, x9, k9)
    <3>1. ValidateTileCompression(f, x8) = Add(x8, w9)
      BY <1>9
    <3> QED
      BY <3>1, <2>8, <1>9, GrewAdd
  <2>10. ValidateUses(f, v) = x9
    BY <2>1, <2>2, <2>3, <2>4, <2>5, <2>6, <2>7, <2>8, <2>9 DEF ValidateUses
  <2>11. k9 = U \cup Heard(RegionsOf(s)) \cup LargeFigures(f) \cup Q
    BY <1>a, <2>1, <2>2, <2>3, <2>4, <2>5, <2>6, <2>7, <2>8, <2>9
  <2> QED
    BY <1>0, <2>6, <2>9, <2>10, <2>11
<1> QED
  BY <1>b, <1>c

LEMMA MeasuresGrew ==
  ASSUME NEW f, IsMetafile(f)
  PROVE  \E U \in SUBSET Things(Usual) : \A v : Spoken(v) => Grew(v, ValidateMeasures(f, v), U)
<1>0. PICK s : s = f.commands /\ IsList(s) /\ Len(s) \in Nat /\ DOMAIN s = 1..Len(s)
  BY Lists DEF IsMetafile
<1>1. PICK w1 \in Words(Usual) : \A v : ValidateProfileDeclaration(f, v) = Add(v, w1)
  BY DeclarationSaid
<1>2. PICK w2 \in Words(Usual) : \A v : ValidateCoordinateNormalization(f, v) = Add(v, w2)
  BY MeasuresSaid
<1>3. PICK w3 \in Words(Usual) : \A v : ValidateTextBaselineAndUpVector(f, v) = Add(v, w3)
  BY MeasuresSaid
<1>4. PICK w4 \in Words(Usual) : \A v : ValidateLineAndEdgeMetrics(f, v) = Add(v, w4)
  BY MeasuresSaid
<1>a. PICK U : U = Heard(w1) \cup Heard(w2) \cup Heard(w3) \cup Heard(w4)
  OBVIOUS
<1>b. U \subseteq Things(Usual)
  <2>1. Heard(w1) \subseteq Things(Usual) /\ Heard(w2) \subseteq Things(Usual) /\ Heard(w3) \subseteq Things(Usual) /\ Heard(w4) \subseteq Things(Usual) 
    BY HeardAbout
  <2> QED
    BY <1>a, <2>1
<1>c. ASSUME NEW v, Spoken(v) PROVE Grew(v, ValidateMeasures(f, v), U)
  <2>1. PICK x1, k1 : /\ x1 = ValidateProfileDeclaration(f, v) /\ k1 = Heard(w1)
                         /\ Grew(v, x1, k1)
    <3>1. ValidateProfileDeclaration(f, v) = Add(v, w1)
      BY <1>1
    <3>2. Grew(v, Add(v, w1), Heard(w1))
      BY <1>1, <1>c, AddGrew
    <3> QED
      BY <3>1, <3>2
  <2>2. PICK x2, k2 : /\ x2 = ValidateCoordinateNormalization(f, x1) /\ k2 = k1 \cup Heard(w2)
                         /\ Grew(v, x2, k2)
    <3>1. ValidateCoordinateNormalization(f, x1) = Add(x1, w2)
      BY <1>2
    <3> QED
      BY <3>1, <2>1, <1>2, GrewAdd
  <2>3. PICK x3, k3 : /\ x3 = ValidateTextBaselineAndUpVector(f, x2) /\ k3 = k2 \cup Heard(w3)
                         /\ Grew(v, x3, k3)
    <3>1. ValidateTextBaselineAndUpVector(f, x2) = Add(x2, w3)
      BY <1>3
    <3> QED
      BY <3>1, <2>2, <1>3, GrewAdd
  <2>4. PICK x4, k4 : /\ x4 = ValidateLineAndEdgeMetrics(f, x3) /\ k4 = k3 \cup Heard(w4)
                         /\ Grew(v, x4, k4)
    <3>1. ValidateLineAndEdgeMetrics(f, x3) = Add(x3, w4)
      BY <1>4
    <3> QED
      BY <3>1, <2>3, <1>4, GrewAdd
  <2>5. ValidateMeasures(f, v) = x4
    BY <2>1, <2>2, <2>3, <2>4 DEF ValidateMeasures
  <2>6. k4 = U
    BY <1>a, <2>1, <2>2, <2>3, <2>4
  <2> QED
    BY <1>0, <2>4, <2>5, <2>6
<1> QED
  BY <1>b, <1>c

LEMMA ElementsGrew ==
  ASSUME NEW f, IsMetafile(f)
  PROVE  \E U \in SUBSET Things(Usual) : \A v : Spoken(v) => Grew(v, ValidateElements(f, v), U \cup Heard(ElementsOfSet(f.commands, v.allowSegments)))
<1>0. PICK s : s = f.commands /\ IsList(s) /\ Len(s) \in Nat /\ DOMAIN s = 1..Len(s)
  BY Lists DEF IsMetafile
<1>1. PICK w1 \in Words(Usual) : \A v : ValidateFragmentIDLongForm(f, v) = Add(v, w1)
  BY AttributesSaid
<1>2. PICK w2 \in Words(Usual) : \A v : ValidateDegeneracyRules(f, v) = Add(v, w2)
  BY DegeneracySaid
<1>4. PICK w4 \in Words(Usual) : \A v : ValidateRasterAspectPreservation(f, v) = Add(v, w4)
  BY TilesSaid
<1>5. PICK w5 \in Words(Usual) : \A v : ValidateEnhancedURIValidation(f, v) = Add(v, w5)
  BY AttributesSaid
<1>6. PICK w6 \in Words(Usual) : \A v : ValidateEnhancedColor(f, v) = Add(v, w6)
  BY ColoursSaid
<1>7. PICK w7 \in Words(Usual) : \A v : ReportCharacterEncodingFindings(f, v) = Add(v, w7)
  BY EncodingFindingsSaid
<1>a. PICK U : U = Heard(w1) \cup Heard(w2) \cup Heard(w4) \cup Heard(w5) \cup Heard(w6) \cup Heard(w7)
  OBVIOUS
<1>b. U \subseteq Things(Usual)
  <2>1. Heard(w1) \subseteq Things(Usual) /\ Heard(w2) \subseteq Things(Usual) /\ Heard(w4) \subseteq Things(Usual) /\ Heard(w5) \subseteq Things(Usual) /\ Heard(w6) \subseteq Things(Usual) /\ Heard(w7) \subseteq Things(Usual) 
    BY HeardAbout
  <2> QED
    BY <1>a, <2>1
<1>c. ASSUME NEW v, Spoken(v) PROVE Grew(v, ValidateElements(f, v), U \cup Heard(ElementsOfSet(f.commands, v.allowSegments)))
  <2>1. PICK x1, k1 : /\ x1 = ValidateFragmentIDLongForm(f, v) /\ k1 = Heard(w1)
                         /\ Grew(v, x1, k1)
    <3>1. ValidateFragmentIDLongForm(f, v) = Add(v, w1)
      BY <1>1
    <3>2. Grew(v, Add(v, w1), Heard(w1))
      BY <1>1, <1>c, AddGrew
    <3> QED
      BY <3>1, <3>2
  <2>2. PICK x2, k2 : /\ x2 = ValidateDegeneracyRules(f, x1) /\ k2 = k1 \cup Heard(w2)
                         /\ Grew(v, x2, k2)
    <3>1. ValidateDegeneracyRules(f, x1) = Add(x1, w2)
      BY <1>2
    <3> QED
      BY <3>1, <2>1, <1>2, GrewAdd
  <2>3. PICK x3, k3 : /\ x3 = ValidateElementSetRestrictions(f, x2) /\ k3 = k2 \cup Heard(ElementsOfSet(s, v.allowSegments))
                         /\ Grew(v, x3, k3)
    <3>1. PICK w : w = ElementsOfSet(s, v.allowSegments) /\ w \in Words(WithSegments)
      BY <1>0, ElementsHeard
    <3>2. ValidateElementSetRestrictions(f, x2) = Add(x2, w)
      BY <1>0, <2>2, <3>1 DEF ValidateElementSetRestrictions, Grew
    <3> QED
      BY <2>2, <3>1, <3>2, GrewAdd
  <2>4. PICK x4, k4 : /\ x4 = ValidateRasterAspectPreservation(f, x3) /\ k4 = k3 \cup Heard(w4)
                         /\ Grew(v, x4, k4)
    <3>1. ValidateRasterAspectPreservation(f, x3) = Add(x3, w4)
      BY <1>4
    <3> QED
      BY <3>1, <2>3, <1>4, GrewAdd
  <2>5. PICK x5, k5 : /\ x5 = ValidateEnhancedURIValidation(f, x4) /\ k5 = k4 \cup Heard(w5)
                         /\ Grew(v, x5, k5)
    <3>1. ValidateEnhancedURIValidation(f, x4) = Add(x4, w5)
      BY <1>5
    <3> QED
      BY <3>1, <2>4, <1>5, GrewAdd
  <2>6. PICK x6, k6 : /\ x6 = ValidateEnhancedColor(f, x5) /\ k6 = k5 \cup Heard(w6)
                         /\ Grew(v, x6, k6)
    <3>1. ValidateEnhancedColor(f, x5) = Add(x5, w6)
      BY <1>6
    <3> QED
      BY <3>1, <2>5, <1>6, GrewAdd
  <2>7. PICK x7, k7 : /\ x7 = ReportCharacterEncodingFindings(f, x6) /\ k7 = k6 \cup Heard(w7)
                         /\ Grew(v, x7, k7)
    <3>1. ReportCharacterEncodingFindings(f, x6) = Add(x6, w7)
      BY <1>7
    <3> QED
      BY <3>1, <2>6, <1>7, GrewAdd
  <2>8. ValidateElements(f, v) = x7
    BY <2>1, <2>2, <2>3, <2>4, <2>5, <2>6, <2>7 DEF ValidateElements
  <2>9. k7 = U \cup Heard(ElementsOfSet(s, v.allowSegments))
    BY <1>a, <2>1, <2>2, <2>3, <2>4, <2>5, <2>6, <2>7
  <2> QED
    BY <1>0, <2>7, <2>8, <2>9
<1> QED
  BY <1>b, <1>c

LEMMA NewIsValidator ==
  ASSUME NEW kind, NEW version, NEW allow
  PROVE  /\ IsValidator(NewValidator(kind, version, allow))
         /\ NewValidator(kind, version, allow).kind = kind
         /\ NewValidator(kind, version, allow).version = version
         /\ NewValidator(kind, version, allow).allowSegments = allow
<1>1. NewValidator(kind, version, allow) = Validator(kind, version, allow, <<>>, 0, <<>>)
  BY DEF NewValidator, Validator
<1> QED
  BY <1>1, ValidatorFields

LEMMA BeginSpoken ==
  ASSUME NEW v, IsValidator(v)
  PROVE  /\ Spoken(Begin(v)) /\ Heard(Begin(v).messages) = {}
         /\ Begin(v).kind = v.kind /\ Begin(v).version = v.version /\ Begin(v).allowSegments = v.allowSegments
<1>1. PICK b : b = Begin(v) /\ b = Validator(v.kind, v.version, v.allowSegments, <<>>, 0, v.libraries)
  BY PictureChanged DEF Begin
<1>2. /\ IsValidator(b) /\ b.kind = v.kind /\ b.version = v.version /\ b.allowSegments = v.allowSegments
      /\ b.messages = <<>> /\ b.picture = 0
  BY <1>1, ValidatorFields
<1>3. IsList(<<>>) /\ Heard(<<>>) = {}
  BY DEF IsList, Heard
<1> QED
  BY <1>1, <1>2, <1>3 DEF Spoken

\* What is said of WebCGM that some property asks about; where segments are
\* accepted, that they are and what is said of symbols.
WebCgmHeard(f, allow) ==
  Heard(ProhibitedElements(f.commands, allow)) \cup Heard(ElementsOfSet(f.commands, allow))
  \cup Heard(TextsOf(f.commands)) \cup Heard(StructureRemarks(f)) \cup Heard(RegionsOf(f.commands)) \cup LargeFigures(f)

Besides == SymbolWords \cup {"segments accepted"}

\* The same U whatever the validator.
Hearings(f) == {H \in SUBSET (Quiet \X Besides) : Trouble(H) <=> Astray(f.commands, Len(f.commands))}

SaysAsWebCgm(f, U, x, allow) ==
  Spoken(x) /\ \E Q \in Hearings(f) : Heard(x.messages) = U \cup WebCgmHeard(f, allow) \cup Q

LEMMA WebCgmSays ==
  ASSUME NEW f, IsMetafile(f)
  PROVE  \E U \in SUBSET Things(Usual) : \A v : IsValidator(v) => SaysAsWebCgm(f, U, ValidateWebCgm(f, v), v.allowSegments)
<1>1. PICK u1 \in SUBSET Things(Usual) : \A v : Spoken(v) =>
        Grew(v, ValidateContent(f, v), u1 \cup Heard(ProhibitedElements(f.commands, v.allowSegments)) \cup Heard(TextsOf(f.commands)))
  BY ContentGrew
<1>2. PICK u2 \in SUBSET Things(Usual) : \A v : Spoken(v) => Grew(v, ValidateStructure(f, v), u2 \cup Heard(StructureRemarks(f)))
  BY StructureGrew
<1>3. PICK u3 \in SUBSET Things(Usual) : \A v : Spoken(v) =>
        \E Q \in SymbolHearings(f) :
          Grew(v, ValidateUses(f, v), u3 \cup Heard(RegionsOf(f.commands)) \cup LargeFigures(f) \cup Q)
  BY UsesGrew
<1>4. PICK u4 \in SUBSET Things(Usual) : \A v : Spoken(v) => Grew(v, ValidateMeasures(f, v), u4)
  BY MeasuresGrew
<1>5. PICK u5 \in SUBSET Things(Usual) : \A v : Spoken(v) =>
        Grew(v, ValidateElements(f, v), u5 \cup Heard(ElementsOfSet(f.commands, v.allowSegments)))
  BY ElementsGrew
<1>6. PICK U : U = {<<"INFO", "WebCGM">>} \cup u1 \cup u2 \cup u3 \cup u4 \cup u5
  OBVIOUS
<1>7. U \subseteq Things(Usual)
  <2>1. <<"INFO", "WebCGM">> \in Things(Usual)
    BY DEF Things, Severities, Usual, UsualNotes
  <2> QED
    BY <1>6, <2>1
<1>8. ASSUME NEW v, IsValidator(v) PROVE SaysAsWebCgm(f, U, ValidateWebCgm(f, v), v.allowSegments)
  <2>1. PICK b, a : a = v.allowSegments /\ b = Begin(v) /\ Spoken(b) /\ b.allowSegments = a /\ Heard(b.messages) = {}
    BY <1>8, BeginSpoken
  <2>2. PICK w, q : /\ w = Tell("WebCGM") \o If(a, Tell("segments accepted")) /\ q \in SUBSET (Quiet \X Besides) /\ ~Trouble(q)
                    /\ w \in Words(Usual \cup {"segments accepted"})
                    /\ Heard(w) = {<<"INFO", "WebCGM">>} \cup q
    <3>a. "WebCGM" \in Usual
      BY DEF Usual, UsualNotes
    <3>0. PICK W : W = Usual \cup {"segments accepted"} /\ "WebCGM" \in W /\ "segments accepted" \in W
      <4>1. PICK W : W = Usual \cup {"segments accepted"}
        OBVIOUS
      <4>2. "WebCGM" \in W /\ "segments accepted" \in W
        BY <3>a, <4>1
      <4> QED
        BY <4>1, <4>2
    <3>1. PICK t, i : t = Tell("WebCGM") /\ i = If(a, Tell("segments accepted")) /\ t \in Words(W) /\ i \in Words(W)
      BY <3>0, SaidOne, SaidIf
    <3>2. Heard(t) = {<<"INFO", "WebCGM">>} /\ Heard(i) = IF a THEN {<<"INFO", "segments accepted">>} ELSE {}
      BY <3>1, HeardOf, HeardIf
    <3>3. t \o i \in Words(W) /\ Heard(t \o i) = Heard(t) \cup Heard(i)
      BY <3>1, SaidBoth, HeardBoth, HeardAbout
    <3>b. <<"INFO", "segments accepted">> \in Quiet \X Besides
      BY DEF Quiet, Besides
    <3>4. Heard(i) \in SUBSET (Quiet \X Besides)
      BY <3>2, <3>b
    <3>5. ~Trouble(Heard(i))
      <4>1. i = Tell("segments accepted") \/ i = <<>>
        BY <3>1 DEF If
      <4> QED
        BY <4>1, TroubleOf
    <3> QED
      BY <3>0, <3>1, <3>2, <3>3, <3>4, <3>5
  <2>3. PICK x0, k0 : x0 = Add(b, w) /\ k0 = Heard(w) /\ Grew(b, x0, k0)
    BY <2>1, <2>2, AddGrew
  <2>4. PICK x1, k1 : /\ x1 = ValidateContent(f, x0) /\ Grew(b, x1, k1)
                      /\ k1 = k0 \cup (u1 \cup Heard(ProhibitedElements(f.commands, a)) \cup Heard(TextsOf(f.commands)))
    <3>1. Spoken(x0) /\ x0.allowSegments = a
      BY <2>1, <2>3 DEF Grew
    <3>2. Grew(x0, ValidateContent(f, x0), u1 \cup Heard(ProhibitedElements(f.commands, a)) \cup Heard(TextsOf(f.commands)))
      BY <1>1, <3>1
    <3> QED
      BY <2>3, <3>2, GrewTwice
  <2>5. PICK x2, k2 : x2 = ValidateStructure(f, x1) /\ Grew(b, x2, k2) /\ k2 = k1 \cup (u2 \cup Heard(StructureRemarks(f)))
    <3>1. Spoken(x1)
      BY <2>4 DEF Grew
    <3>2. Grew(x1, ValidateStructure(f, x1), u2 \cup Heard(StructureRemarks(f)))
      BY <1>2, <3>1
    <3>3. Grew(b, ValidateStructure(f, x1), k1 \cup (u2 \cup Heard(StructureRemarks(f))))
      BY <2>4, <3>2, GrewTwice
    <3> QED
      BY <3>3
  <2>6. PICK x3, k3, Q : /\ x3 = ValidateUses(f, x2) /\ Grew(b, x3, k3) /\ Q \in SymbolHearings(f)
                         /\ k3 = k2 \cup (u3 \cup Heard(RegionsOf(f.commands)) \cup LargeFigures(f) \cup Q)
    <3>1. Spoken(x2)
      BY <2>5 DEF Grew
    <3>2. PICK r : /\ r \in SymbolHearings(f)
                   /\ Grew(x2, ValidateUses(f, x2), u3 \cup Heard(RegionsOf(f.commands)) \cup LargeFigures(f) \cup r)
      BY <1>3, <3>1
    <3>3. Grew(b, ValidateUses(f, x2), k2 \cup (u3 \cup Heard(RegionsOf(f.commands)) \cup LargeFigures(f) \cup r))
      BY <2>5, <3>2, GrewTwice
    <3> QED
      BY <3>2, <3>3
  <2>7. PICK x4, k4 : x4 = ValidateMeasures(f, x3) /\ Grew(b, x4, k4) /\ k4 = k3 \cup u4
    <3>1. Spoken(x3)
      BY <2>6 DEF Grew
    <3>2. Grew(x3, ValidateMeasures(f, x3), u4)
      BY <1>4, <3>1
    <3> QED
      BY <2>6, <3>2, GrewTwice
  <2>8. PICK x5, k5 : /\ x5 = ValidateElements(f, x4) /\ Grew(b, x5, k5)
                      /\ k5 = k4 \cup (u5 \cup Heard(ElementsOfSet(f.commands, a)))
    <3>1. Spoken(x4) /\ x4.allowSegments = a
      BY <2>1, <2>7 DEF Grew
    <3>2. Grew(x4, ValidateElements(f, x4), u5 \cup Heard(ElementsOfSet(f.commands, a)))
      BY <1>5, <3>1
    <3>3. Grew(b, ValidateElements(f, x4), k4 \cup (u5 \cup Heard(ElementsOfSet(f.commands, a))))
      BY <2>7, <3>2, GrewTwice
    <3> QED
      BY <3>3
  <2>9. ValidateWebCgm(f, v) = x5
    BY <2>1, <2>2, <2>3, <2>4, <2>5, <2>6, <2>7, <2>8 DEF ValidateWebCgm
  <2>10. k5 = U \cup WebCgmHeard(f, a) \cup (Q \cup q)
    <3>1. k5 = (({<<"INFO", "WebCGM">>} \cup q) \cup (u1 \cup Heard(ProhibitedElements(f.commands, a)) \cup Heard(TextsOf(f.commands)))
                \cup (u2 \cup Heard(StructureRemarks(f)))
                \cup (u3 \cup Heard(RegionsOf(f.commands)) \cup LargeFigures(f) \cup Q) \cup u4)
               \cup (u5 \cup Heard(ElementsOfSet(f.commands, a)))
      BY <2>2, <2>3, <2>4, <2>5, <2>6, <2>7, <2>8
    <3> QED
      BY ONLY <1>6, <3>1 DEF WebCgmHeard
  <2>11. Q \cup q \in Hearings(f)
    <3>1. Q \cup q \in SUBSET (Quiet \X Besides)
      BY <2>2, <2>6 DEF Besides, SymbolHearings
    <3>2. Trouble(Q) <=> Astray(f.commands, Len(f.commands))
      BY <2>6 DEF SymbolHearings
    <3>3. Trouble(Q \cup q) <=> Trouble(Q)
      BY <2>2, TroubleBoth
    <3> QED
      BY <3>1, <3>2, <3>3 DEF Hearings
  <2>12. Spoken(x5) /\ Heard(x5.messages) = k5
    BY <2>1, <2>8 DEF Grew
  <2> QED
    BY <2>1, <2>9, <2>10, <2>11, <2>12 DEF SaysAsWebCgm
<1> QED
  BY <1>7, <1>8

LEMMA WebCgmSpoken ==
  ASSUME NEW f, IsMetafile(f), NEW kind, NEW version, NEW allow
  PROVE  IsList(ValidateWebCgm(f, NewValidator(kind, version, allow)).messages)
BY WebCgmSays, NewIsValidator DEF SaysAsWebCgm, Spoken

LEMMA AtaHeard ==
  ASSUME NEW f, IsMetafile(f)
  PROVE  \E U \in SUBSET Things(Usual) : \A v : IsValidator(v) =>
           /\ Spoken(ValidateAta(f, v))
           /\ Heard(ValidateAta(f, v).messages) = U \cup Heard(ValidateWebCgm(f, NewValidator("WebCGM", "", FALSE)).messages) \cup Heard(ProfileDeclarationsAta(f, v.version))
<1>1. PICK w1 \in Words(Usual) : \A v : ValidateEdgeVisibility(f, v) = Add(v, w1)
  BY EdgesSaid
<1>2. PICK w2 \in Words(Usual) : \A v : ValidateAtaDrawingPrimitives(f, v) = Add(v, w2)
  BY ExternalsSaid
<1>3. PICK w3 \in Words(Usual) : \A v : ValidateExternalReferences(f, v) = Add(v, w3)
  BY ExternalsSaid
<1>4. PICK w4 \in Words(Usual) : \A v : ValidateColorClass(f, v) = Add(v, w4)
  BY ClassSaid
<1>6. PICK w6 \in Words(Usual) : \A v : ValidateColorClassDeclaration(f, v) = Add(v, w6)
  BY ClassSaid
<1>a. PICK U : U = {<<"INFO", "ATA">>} \cup Heard(w1) \cup Heard(w2) \cup Heard(w3) \cup Heard(w4) \cup Heard(w6)
  OBVIOUS
<1>b. U \subseteq Things(Usual)
  <2>1. Heard(w1) \subseteq Things(Usual) /\ Heard(w2) \subseteq Things(Usual) /\ Heard(w3) \subseteq Things(Usual) /\ Heard(w4) \subseteq Things(Usual) /\ Heard(w6) \subseteq Things(Usual)
    BY HeardAbout
  <2>2. <<"INFO", "ATA">> \in Things(Usual)
    BY DEF Things, Severities, Usual, UsualNotes
  <2> QED
    BY <1>a, <2>1, <2>2
<1>d. PICK M : M = ValidateWebCgm(f, NewValidator("WebCGM", "", FALSE)).messages /\ IsList(M)
  BY WebCgmSpoken
<1>c. ASSUME NEW v, IsValidator(v) PROVE Spoken(ValidateAta(f, v)) /\ Heard(ValidateAta(f, v).messages) = U \cup Heard(ValidateWebCgm(f, NewValidator("WebCGM", "", FALSE)).messages) \cup Heard(ProfileDeclarationsAta(f, v.version))
  <2>a. PICK b : b = Begin(v) /\ Spoken(b) /\ b.version = v.version /\ Heard(b.messages) = {}
    BY <1>c, BeginSpoken
  <2>b. PICK y, l : y = Add(b, Tell("ATA")) /\ l = {<<"INFO", "ATA">>} /\ Grew(b, y, l)
    <3>1. "ATA" \in Usual
      BY DEF Usual, UsualNotes
    <3>2. Tell("ATA") \in Words(Usual) /\ Heard(Tell("ATA")) = {<<"INFO", "ATA">>}
      BY <3>1, SaidOne, HeardOf
    <3>3. Grew(b, Add(b, Tell("ATA")), Heard(Tell("ATA")))
      BY <2>a, <3>2, AddGrew
    <3> QED
      BY <3>2, <3>3
  <2>0. PICK x0, k0 : x0 = [y EXCEPT !.messages = y.messages \o M] /\ k0 = l \cup Heard(M) /\ Grew(b, x0, k0)
    <3>a. Spoken(y)
      BY <2>b DEF Grew
    <3>1. Grew(y, [y EXCEPT !.messages = y.messages \o M], Heard(M))
      BY <1>d, <3>a, SaidGrew
    <3>2. Grew(b, [y EXCEPT !.messages = y.messages \o M], l \cup Heard(M))
      BY <2>b, <3>1, GrewTwice
    <3> QED
      BY <3>2
  <2>1. PICK x1, k1 : x1 = ValidateEdgeVisibility(f, x0) /\ k1 = k0 \cup Heard(w1) /\ Grew(b, x1, k1)
    <3>1. ValidateEdgeVisibility(f, x0) = Add(x0, w1)
      BY <1>1
    <3> QED
      BY <3>1, <2>0, <1>1, GrewAdd
  <2>2. PICK x2, k2 : x2 = ValidateAtaDrawingPrimitives(f, x1) /\ k2 = k1 \cup Heard(w2) /\ Grew(b, x2, k2)
    <3>1. ValidateAtaDrawingPrimitives(f, x1) = Add(x1, w2)
      BY <1>2
    <3> QED
      BY <3>1, <2>1, <1>2, GrewAdd
  <2>3. PICK x3, k3 : x3 = ValidateExternalReferences(f, x2) /\ k3 = k2 \cup Heard(w3) /\ Grew(b, x3, k3)
    <3>1. ValidateExternalReferences(f, x2) = Add(x2, w3)
      BY <1>3
    <3> QED
      BY <3>1, <2>2, <1>3, GrewAdd
  <2>4. PICK x4, k4 : x4 = ValidateColorClass(f, x3) /\ k4 = k3 \cup Heard(w4) /\ Grew(b, x4, k4)
    <3>1. ValidateColorClass(f, x3) = Add(x3, w4)
      BY <1>4
    <3> QED
      BY <3>1, <2>3, <1>4, GrewAdd
  <2>5. PICK x5, k5 : x5 = ValidateProfileDeclarationAta(f, x4) /\ k5 = k4 \cup Heard(ProfileDeclarationsAta(f, v.version)) /\ Grew(b, x5, k5)
    <3>1. PICK w : w = ProfileDeclarationsAta(f, v.version) /\ w \in Words(Usual \cup {"other edition"})
      BY EditionsSaid
    <3>2. ValidateProfileDeclarationAta(f, x4) = Add(x4, w)
      BY <2>a, <2>4, <3>1 DEF ValidateProfileDeclarationAta, Grew
    <3> QED
      BY <2>4, <3>1, <3>2, GrewAdd
  <2>6. PICK x6, k6 : x6 = ValidateColorClassDeclaration(f, x5) /\ k6 = k5 \cup Heard(w6) /\ Grew(b, x6, k6)
    <3>1. ValidateColorClassDeclaration(f, x5) = Add(x5, w6)
      BY <1>6
    <3> QED
      BY <3>1, <2>5, <1>6, GrewAdd
  <2>c. ValidateAta(f, v) = x6
    BY <1>d, <2>a, <2>b, <2>0, <2>1, <2>2, <2>3, <2>4, <2>5, <2>6 DEF ValidateAta
  <2>d. k6 = U \cup Heard(M) \cup Heard(ProfileDeclarationsAta(f, v.version))
    BY <1>a, <2>b, <2>0, <2>1, <2>2, <2>3, <2>4, <2>5, <2>6
  <2>e. Spoken(x6) /\ Heard(x6.messages) = k6
    BY <2>a, <2>6 DEF Grew
  <2> QED
    BY <1>d, <2>c, <2>d, <2>e
<1> QED
  BY <1>b, <1>c

LEMMA AtaSpoken ==
  ASSUME NEW f, IsMetafile(f), NEW kind, NEW version, NEW allow
  PROVE  IsList(ValidateAta(f, NewValidator(kind, version, allow)).messages)
BY AtaHeard, NewIsValidator DEF Spoken

LEMMA S1000DHeard ==
  ASSUME NEW f, IsMetafile(f)
  PROVE  \E U \in SUBSET Things(Usual) : \A v : IsValidator(v) =>
           /\ Spoken(ValidateS1000D(f, v))
           /\ Heard(ValidateS1000D(f, v).messages) = U \cup Heard(ValidateAta(f, NewValidator("ATA", "2.9", FALSE)).messages)
<1>1. PICK w1 \in Words(Usual) : \A v : ValidateMetadata(f, v) = Add(v, w1)
  BY MetadataSaid
<1>2. PICK w2 \in Words(Usual) : \A v : ValidateCsdbNaming(f, v) = Add(v, w2)
  BY NamingSaid
<1>3. PICK w3 \in Words(Usual) : \A v : ValidateTextHeights(f, v) = Add(v, w3)
  BY StructuresSaid
<1>4. PICK w4 \in Words(Usual) : \A v : ValidateApsBinding(f, v) = Add(v, w4)
  BY StructuresSaid
<1>5. PICK w5 \in Words(Usual) : \A v : ValidateMonochromePolicy(f, v) = Add(v, w5)
  BY MonochromeSaid
<1>6. PICK w6 \in Words(Usual) : \A v : ValidateApsConstraints(f, v) = Add(v, w6)
  BY StructuresSaid
<1>7. PICK w7 \in Words(Usual) : \A v : ValidateDescriptionFormat(f, v) = Add(v, w7)
  BY FormatSaid
<1>a. PICK U : U = {<<"INFO", "S1000D">>} \cup Heard(w1) \cup Heard(w2) \cup Heard(w3) \cup Heard(w4) \cup Heard(w5) \cup Heard(w6) \cup Heard(w7)
  OBVIOUS
<1>b. U \subseteq Things(Usual)
  <2>1. Heard(w1) \subseteq Things(Usual) /\ Heard(w2) \subseteq Things(Usual) /\ Heard(w3) \subseteq Things(Usual) /\ Heard(w4) \subseteq Things(Usual) /\ Heard(w5) \subseteq Things(Usual) /\ Heard(w6) \subseteq Things(Usual) /\ Heard(w7) \subseteq Things(Usual)
    BY HeardAbout
  <2>2. <<"INFO", "S1000D">> \in Things(Usual)
    BY DEF Things, Severities, Usual, UsualNotes
  <2> QED
    BY <1>a, <2>1, <2>2
<1>d. PICK M : M = ValidateAta(f, NewValidator("ATA", "2.9", FALSE)).messages /\ IsList(M)
  BY AtaSpoken
<1>c. ASSUME NEW v, IsValidator(v) PROVE Spoken(ValidateS1000D(f, v)) /\ Heard(ValidateS1000D(f, v).messages) = U \cup Heard(ValidateAta(f, NewValidator("ATA", "2.9", FALSE)).messages)
  <2>a. PICK b : b = Begin(v) /\ Spoken(b) /\ b.version = v.version /\ Heard(b.messages) = {}
    BY <1>c, BeginSpoken
  <2>b. PICK y, l : y = Add(b, Tell("S1000D")) /\ l = {<<"INFO", "S1000D">>} /\ Grew(b, y, l)
    <3>1. "S1000D" \in Usual
      BY DEF Usual, UsualNotes
    <3>2. Tell("S1000D") \in Words(Usual) /\ Heard(Tell("S1000D")) = {<<"INFO", "S1000D">>}
      BY <3>1, SaidOne, HeardOf
    <3>3. Grew(b, Add(b, Tell("S1000D")), Heard(Tell("S1000D")))
      BY <2>a, <3>2, AddGrew
    <3> QED
      BY <3>2, <3>3
  <2>0. PICK x0, k0 : x0 = [y EXCEPT !.messages = y.messages \o M] /\ k0 = l \cup Heard(M) /\ Grew(b, x0, k0)
    <3>a. Spoken(y)
      BY <2>b DEF Grew
    <3>1. Grew(y, [y EXCEPT !.messages = y.messages \o M], Heard(M))
      BY <1>d, <3>a, SaidGrew
    <3>2. Grew(b, [y EXCEPT !.messages = y.messages \o M], l \cup Heard(M))
      BY <2>b, <3>1, GrewTwice
    <3> QED
      BY <3>2
  <2>1. PICK x1, k1 : x1 = ValidateMetadata(f, x0) /\ k1 = k0 \cup Heard(w1) /\ Grew(b, x1, k1)
    <3>1. ValidateMetadata(f, x0) = Add(x0, w1)
      BY <1>1
    <3> QED
      BY <3>1, <2>0, <1>1, GrewAdd
  <2>2. PICK x2, k2 : x2 = ValidateCsdbNaming(f, x1) /\ k2 = k1 \cup Heard(w2) /\ Grew(b, x2, k2)
    <3>1. ValidateCsdbNaming(f, x1) = Add(x1, w2)
      BY <1>2
    <3> QED
      BY <3>1, <2>1, <1>2, GrewAdd
  <2>3. PICK x3, k3 : x3 = ValidateTextHeights(f, x2) /\ k3 = k2 \cup Heard(w3) /\ Grew(b, x3, k3)
    <3>1. ValidateTextHeights(f, x2) = Add(x2, w3)
      BY <1>3
    <3> QED
      BY <3>1, <2>2, <1>3, GrewAdd
  <2>4. PICK x4, k4 : x4 = ValidateApsBinding(f, x3) /\ k4 = k3 \cup Heard(w4) /\ Grew(b, x4, k4)
    <3>1. ValidateApsBinding(f, x3) = Add(x3, w4)
      BY <1>4
    <3> QED
      BY <3>1, <2>3, <1>4, GrewAdd
  <2>5. PICK x5, k5 : x5 = ValidateMonochromePolicy(f, x4) /\ k5 = k4 \cup Heard(w5) /\ Grew(b, x5, k5)
    <3>1. ValidateMonochromePolicy(f, x4) = Add(x4, w5)
      BY <1>5
    <3> QED
      BY <3>1, <2>4, <1>5, GrewAdd
  <2>6. PICK x6, k6 : x6 = ValidateApsConstraints(f, x5) /\ k6 = k5 \cup Heard(w6) /\ Grew(b, x6, k6)
    <3>1. ValidateApsConstraints(f, x5) = Add(x5, w6)
      BY <1>6
    <3> QED
      BY <3>1, <2>5, <1>6, GrewAdd
  <2>7. PICK x7, k7 : x7 = ValidateDescriptionFormat(f, x6) /\ k7 = k6 \cup Heard(w7) /\ Grew(b, x7, k7)
    <3>1. ValidateDescriptionFormat(f, x6) = Add(x6, w7)
      BY <1>7
    <3> QED
      BY <3>1, <2>6, <1>7, GrewAdd
  <2>c. ValidateS1000D(f, v) = x7
    BY <1>d, <2>a, <2>b, <2>0, <2>1, <2>2, <2>3, <2>4, <2>5, <2>6, <2>7 DEF ValidateS1000D
  <2>d. k7 = U \cup Heard(M)
    BY <1>a, <2>b, <2>0, <2>1, <2>2, <2>3, <2>4, <2>5, <2>6, <2>7
  <2>e. Spoken(x7) /\ Heard(x7.messages) = k7
    BY <2>a, <2>7 DEF Grew
  <2> QED
    BY <1>d, <2>c, <2>d, <2>e
<1> QED
  BY <1>b, <1>c

LEMMA S1000DSpoken ==
  ASSUME NEW f, IsMetafile(f), NEW kind, NEW version, NEW allow
  PROVE  IsList(ValidateS1000D(f, NewValidator(kind, version, allow)).messages)
BY S1000DHeard, NewIsValidator DEF Spoken
-----------------------------------------------------------------------------
(***************************************************************************)
(* Which profile a request comes to.                                       *)
(***************************************************************************)
KnownProfiles == {"ATA", "S1000D", "WebCGM", "ISO", "PIP", "CALS"}

LEMMA AtaKnown ==
  /\ \A n \in {"2.6", "2.7", "2.8", "2.9"} : AtaOf[n] = <<"ATA", n>>
  /\ DOMAIN AtaOf = {"2.6", "2.7", "2.8", "2.9"}
BY DEF AtaOf

LEMMA VersionFound ==
  ASSUME NEW words
  PROVE  AtaVersion(words) \in {"2.6", "2.7", "2.8", "2.9"}
<1>1. PICK V : V = Versions /\ IsList(V) /\ {V[i] : i \in DOMAIN V} = {"2.6", "2.7", "2.8", "2.9"}
  <2>1. PICK S : S = {"2.6", "2.7", "2.8", "2.9"}
    OBVIOUS
  <2>2. "2.6" \in S /\ "2.7" \in S /\ "2.8" \in S /\ "2.9" \in S
    BY <2>1
  <2>3. Versions \in Seq(S)
    BY <2>2 DEF Versions
  <2>4. IsList(Versions)
    BY <2>3, ListOf
  <2>5. DOMAIN Versions = 1..4 /\ Versions[1] = "2.9" /\ Versions[2] = "2.8" /\ Versions[3] = "2.7" /\ Versions[4] = "2.6"
    BY DEF Versions
  <2>6. {Versions[i] : i \in DOMAIN Versions} = {"2.6", "2.7", "2.8", "2.9"}
    BY <2>5
  <2> QED
    BY <2>4, <2>6
<1>2. PICK ss : ss = [i \in DOMAIN V |-> IF V[i] \in words THEN <<V[i]>> ELSE <<>>]
  OBVIOUS
<1>3. PICK found : found = Concatenation(ss) /\ found \in Seq({V[i] : i \in DOMAIN V})
  <2>1. ss = [i \in DOMAIN V |-> ss[i]] /\ \A i \in DOMAIN V : ss[i] = <<V[i]>> \/ ss[i] = <<>>
    BY <1>2
  <2>2. Concatenation(ss) \in Seq({V[i] : i \in DOMAIN V})
    BY <1>1, <2>1, SelectedAre
  <2> QED
    BY <2>2
<1>4. found # <<>> => found[1] \in {V[i] : i \in DOMAIN V}
  BY <1>3
<1>5. found = Those(Versions, LAMBDA n : n \in words)
  BY <1>1, <1>2, <1>3 DEF Those
<1>6. AtaVersion(words) = IF found = <<>> THEN "2.9" ELSE found[1]
  BY <1>5 DEF AtaVersion
<1> QED
  BY <1>1, <1>4, <1>6

LEMMA DescribedKnown ==
  ASSUME NEW d, DescribedProfile(d) # <<"unknown">>
  PROVE  DescribedProfile(d)[1] \in KnownProfiles
<1>1. \A words : AtaOf[AtaVersion(words)][1] = "ATA"
  <2>1. \A n \in {"2.6", "2.7", "2.8", "2.9"} : AtaOf[n][1] = "ATA"
    BY AtaKnown
  <2> QED
    BY <2>1, VersionFound
<1>2. PICK words : words = Mentioned(d)
  OBVIOUS
<1>3. CASE "GREXCHANGE" \in words
  BY <1>1, <1>2, <1>3 DEF DescribedProfile, KnownProfiles
<1>4. CASE "GREXCHANGE" \notin words
  BY <1>2, <1>4 DEF DescribedProfile, KnownProfiles
<1> QED
  BY <1>3, <1>4

LEMMA DetectedKnown ==
  ASSUME NEW f, IsMetafile(f)
  PROVE  DetectProfile(f).profile[1] \in KnownProfiles
<1>1. PICK ds, n : ds = Descriptions(f) /\ IsList(ds) /\ n = Len(ds) /\ n \in Nat /\ DOMAIN ds = 1..n
  BY DescriptionsAre, Lists
<1>2. PICK ps : ps = [i \in 1..n |-> DescribedProfile(ds[i])]
  OBVIOUS
<1>3. PICK S : S = {p \in {ps[i] : i \in 1..n} : p # <<"unknown">>}
  OBVIOUS
<1>4. \A p \in S : p[1] \in KnownProfiles
  <2>1. \A i \in 1..n : ps[i] # <<"unknown">> => ps[i][1] \in KnownProfiles
    BY <1>2, DescribedKnown
  <2> QED
    BY <1>3, <2>1
<1>5. PICK ss : ss = [i \in 1..n |-> IF ps[i] # <<"unknown">> THEN <<ps[i]>> ELSE <<>>]
  OBVIOUS
<1>6. ss \in [1..n -> Seq(S)]
  <2>1. ASSUME NEW i \in 1..n PROVE ss[i] \in Seq(S)
    <3>1. CASE ps[i] # <<"unknown">>
      <4>1. ps[i] \in S /\ ss[i] = <<ps[i]>>
        BY <1>3, <1>5, <3>1
      <4> QED
        BY <4>1
    <3>2. CASE ps[i] = <<"unknown">>
      <4>1. ss[i] = <<>>
        BY <1>5, <3>2
      <4> QED
        BY <4>1
    <3> QED
      BY <3>1, <3>2
  <2> QED
    BY <1>5, <2>1
<1>7. PICK described : described = Concatenation(ss) /\ described \in Seq(S)
  BY <1>1, <1>6, PassingAre
<1>8. described = Those([i \in DOMAIN Descriptions(f) |-> DescribedProfile(Descriptions(f)[i])], LAMBDA p : p # <<"unknown">>)
  <2>1. DOMAIN ps = 1..n
    BY <1>2
  <2>2. Those(ps, LAMBDA p : p # <<"unknown">>) = described
    BY <1>5, <1>7, <2>1 DEF Those
  <2>3. ps = [i \in DOMAIN Descriptions(f) |-> DescribedProfile(Descriptions(f)[i])]
    BY <1>1, <1>2
  <2> QED
    BY <2>2, <2>3
<1>9. described # <<>> => described[Len(described)] \in S
  BY <1>7
<1>10. DetectProfile(f).profile \in {<<"WebCGM">>, <<"ISO">>} \/ (described # <<>> /\ DetectProfile(f).profile = described[Len(described)])
  BY <1>8 DEF DetectProfile
<1> QED
  BY <1>4, <1>9, <1>10 DEF KnownProfiles

LEMMA EffectiveKnown ==
  ASSUME NEW f, IsMetafile(f), NEW requested
  PROVE  EffectiveProfile(f, requested) = <<"unsupported">> \/ EffectiveProfile(f, requested)[1] \in KnownProfiles
<1>1. DetectProfileWithMetadata(f).detected = DetectProfile(f)
  BY DEF DetectProfileWithMetadata
<1>2. RequestedProfile(requested) = <<"unsupported">> \/ RequestedProfile(requested)[1] \in KnownProfiles
  <2>1. AtaOf["2.9"][1] = "ATA"
    BY AtaKnown
  <2> QED
    BY <2>1 DEF RequestedProfile, KnownProfiles
<1>3. PICK e : e = DetectProfileWithMetadata(f).edition
  OBVIOUS
<1>4. e \in {"2.6", "2.7", "2.8"} => AtaOf[e][1] \in KnownProfiles
  BY AtaKnown DEF KnownProfiles
<1> QED
  BY <1>1, <1>2, <1>3, <1>4, DetectedKnown DEF EffectiveProfile
-----------------------------------------------------------------------------
(***************************************************************************)
(* What a report tells.                                                    *)
(***************************************************************************)
LEMMA SaidIsHeard ==
  ASSUME NEW m, NEW severity, NEW what
  PROVE  what \in Said(severity, m) <=> <<severity, what>> \in Heard(m)
<1>1. what \in Said(severity, m) <=> \E i \in DOMAIN m : m[i].severity = severity /\ m[i].what = what
  BY DEF Said
<1>2. <<severity, what>> \in Heard(m) <=> \E i \in DOMAIN m : <<severity, what>> = <<m[i].severity, m[i].what>>
  BY DEF Heard
<1> QED
  BY <1>1, <1>2

Ordinary == Usual \cup {"other edition"}

\* What is heard of a file, by whatever validator.
SaysOf(f, m, U, allow, Q) ==
  /\ U \subseteq Things(Ordinary) /\ Q \in Hearings(f) /\ allow \in BOOLEAN
  /\ Heard(m) = U \cup WebCgmHeard(f, allow) \cup Q

LEMMA UsualIsOrdinary == Things(Usual) \subseteq Things(Ordinary)
BY DEF Things, Ordinary

\* The words of the parts.
LEMMA PartsAre ==
  ASSUME NEW f, IsMetafile(f), NEW allow
  PROVE  /\ Heard(ProhibitedElements(f.commands, allow)) \subseteq Things(Usual \cup {"prohibited"})
         /\ Heard(ElementsOfSet(f.commands, allow)) \subseteq Things(Usual \cup {"segment prohibited"})
         /\ Heard(TextsOf(f.commands)) \subseteq Things(TextWords)
         /\ Heard(StructureRemarks(f)) \subseteq Things(AboutStructures)
         /\ Heard(RegionsOf(f.commands)) \subseteq Things(RegionWords)
         /\ LargeFigures(f) \subseteq {<<"ERROR", "large figure">>}
<1>1. PICK s : s = f.commands /\ IsList(s) /\ Len(s) \in Nat /\ DOMAIN s = 1..Len(s)
  BY Lists DEF IsMetafile
<1>2. /\ ProhibitedElements(s, allow) \in Words(Usual \cup {"prohibited"})
      /\ ElementsOfSet(s, allow) \in Words(Usual \cup {"segment prohibited"})
  BY <1>1, ProhibitedHeard, ElementsHeard DEF WithSegments
<1>3. TextsOf(s) \in Words(TextWords)
  BY <1>1, TextsHeard, ErrsAre
<1>4. StructureRemarks(f) \in Words(AboutStructures) /\ RegionsOf(s) \in Words(RegionWords)
  BY <1>1, StructureRemarksSaid, RegionsWords
<1>5. LargeFigures(f) \subseteq {<<"ERROR", "large figure">>}
  BY DEF LargeFigures
<1> QED
  BY <1>1, <1>2, <1>3, <1>4, <1>5, HeardAbout

SegmentWords == {"prohibited", "segment prohibited"}
LimitWords == {"large region", "large figure"}

LEMMA WordsDiffer ==
  /\ \A what \in SegmentWords \cup TextWords \cup LimitWords \cup {"other edition"} : what \notin Usual /\ what \notin AboutStructures
  /\ SegmentWords \cap (TextWords \cup LimitWords \cup RegionWords \cup Ordinary) = {}
  /\ TextWords \cap (LimitWords \cup RegionWords \cup Ordinary) = {}
  /\ LimitWords \cap Ordinary = {} /\ "large figure" \notin RegionWords /\ "large region" \in RegionWords
  /\ "other edition" \notin SegmentWords \cup TextWords \cup LimitWords \cup RegionWords \cup Besides
<1>1. SegmentWords \cup TextWords \cup LimitWords \cup {"other edition"} \subseteq SpecialErrors \cup SpecialWarnings
  BY DEF SegmentWords, TextWords, LimitWords, SpecialErrors, SpecialWarnings
<1>2. (SegmentWords \cup TextWords \cup LimitWords \cup {"other edition"}) \cap StructureErrors = {}
  BY DEF SegmentWords, TextWords, LimitWords, StructureErrors
<1>3. \A what \in SegmentWords \cup TextWords \cup LimitWords \cup {"other edition"} : what \notin Usual
  BY <1>1, UsualIsUsual
<1>4. \A what \in SegmentWords \cup TextWords \cup LimitWords : what # "other edition"
  BY DEF SegmentWords, TextWords, LimitWords
<1>5. SegmentWords \cap (TextWords \cup LimitWords \cup RegionWords) = {} /\ TextWords \cap (LimitWords \cup RegionWords) = {}
  BY DEF SegmentWords, TextWords, LimitWords, RegionWords
<1>6. /\ "large figure" \notin RegionWords /\ "large region" \in RegionWords
      /\ "other edition" \notin SegmentWords \cup TextWords \cup LimitWords \cup RegionWords \cup Besides
  BY DEF SegmentWords, TextWords, LimitWords, RegionWords, Besides, SymbolWords
<1> QED
  BY <1>2, <1>3, <1>4, <1>5, <1>6 DEF AboutStructures, Ordinary

\* What the errors in the parts may be.
PartErrors(f, allow) ==
  \A what : /\ <<"ERROR", what>> \in Heard(ProhibitedElements(f.commands, allow)) => what \in Usual \cup {"prohibited"}
            /\ <<"ERROR", what>> \in Heard(ElementsOfSet(f.commands, allow)) => what \in Usual \cup {"segment prohibited"}
            /\ <<"ERROR", what>> \in Heard(TextsOf(f.commands)) => what \in TextWords
            /\ <<"ERROR", what>> \in Heard(StructureRemarks(f)) => what \in AboutStructures
            /\ <<"ERROR", what>> \in Heard(RegionsOf(f.commands)) => what \in RegionWords
            /\ <<"ERROR", what>> \in LargeFigures(f) => what = "large figure"

LEMMA PartErrorsAre ==
  ASSUME NEW f, IsMetafile(f), NEW allow
  PROVE  PartErrors(f, allow)
<1>1. ASSUME NEW S, NEW W, S \subseteq Things(W), NEW what, <<"ERROR", what>> \in S
      PROVE  what \in W
  BY <1>1 DEF Things
<1>2. PICK V, W : V = Usual \cup {"prohibited"} /\ W = Usual \cup {"segment prohibited"}
  OBVIOUS
<1>3. /\ Heard(ProhibitedElements(f.commands, allow)) \subseteq Things(V)
      /\ Heard(ElementsOfSet(f.commands, allow)) \subseteq Things(W)
      /\ Heard(TextsOf(f.commands)) \subseteq Things(TextWords)
      /\ Heard(StructureRemarks(f)) \subseteq Things(AboutStructures)
      /\ Heard(RegionsOf(f.commands)) \subseteq Things(RegionWords)
      /\ LargeFigures(f) \subseteq {<<"ERROR", "large figure">>}
  BY <1>2, PartsAre
<1>4. ASSUME NEW what
      PROVE  /\ <<"ERROR", what>> \in Heard(ProhibitedElements(f.commands, allow)) => what \in V
             /\ <<"ERROR", what>> \in Heard(ElementsOfSet(f.commands, allow)) => what \in W
             /\ <<"ERROR", what>> \in Heard(TextsOf(f.commands)) => what \in TextWords
             /\ <<"ERROR", what>> \in Heard(StructureRemarks(f)) => what \in AboutStructures
             /\ <<"ERROR", what>> \in Heard(RegionsOf(f.commands)) => what \in RegionWords
  BY ONLY <1>1, <1>3
<1>5. ASSUME NEW what, <<"ERROR", what>> \in LargeFigures(f)
      PROVE  what = "large figure"
  <2>1. <<"ERROR", what>> \in {<<"ERROR", "large figure">>}
    BY ONLY <1>3, <1>5
  <2> QED
    BY ONLY <2>1
<1> QED
  BY ONLY <1>2, <1>4, <1>5 DEF PartErrors

\* Each error comes from one of the parts.
FromParts(f, m, U, allow) ==
  \A what : what \in ErrorsOf(m) <=>
     \/ <<"ERROR", what>> \in U
     \/ <<"ERROR", what>> \in Heard(ProhibitedElements(f.commands, allow))
     \/ <<"ERROR", what>> \in Heard(ElementsOfSet(f.commands, allow))
     \/ <<"ERROR", what>> \in Heard(TextsOf(f.commands))
     \/ <<"ERROR", what>> \in Heard(StructureRemarks(f))
     \/ <<"ERROR", what>> \in Heard(RegionsOf(f.commands))
     \/ <<"ERROR", what>> \in LargeFigures(f)

LEMMA ErrorsOfParts ==
  ASSUME NEW f, NEW m, NEW U, NEW Q, NEW allow, SaysOf(f, m, U, allow, Q)
  PROVE  FromParts(f, m, U, allow) /\ \A what : <<"ERROR", what>> \in U => what \in Ordinary
<1>1. \A what : what \in ErrorsOf(m) <=> <<"ERROR", what>> \in Heard(m)
  BY SaidIsHeard DEF ErrorsOf
<1>2. \A what : <<"ERROR", what>> \notin Q
  <2>1. Q \subseteq Quiet \X Besides
    BY DEF SaysOf, Hearings
  <2> QED
    BY <2>1 DEF Quiet
<1>3. \A what : <<"ERROR", what>> \in U => what \in Ordinary
  BY DEF SaysOf, Things
<1>4. \A what : what \in ErrorsOf(m) <=> <<"ERROR", what>> \in U \cup WebCgmHeard(f, allow)
  BY <1>1, <1>2 DEF SaysOf
<1> QED
  BY <1>3, <1>4 DEF WebCgmHeard, FromParts

\* Who is to blame for what.
LEMMA ErrorsAre ==
  ASSUME NEW f, IsMetafile(f), NEW m, NEW U, NEW Q, NEW allow, SaysOf(f, m, U, allow, Q)
  PROVE  /\ "large region" \in ErrorsOf(m) <=> <<"ERROR", "large region">> \in Heard(RegionsOf(f.commands))
         /\ "large figure" \in ErrorsOf(m) <=> <<"ERROR", "large figure">> \in LargeFigures(f)
         /\ \A what \in TextWords : what \in ErrorsOf(m) <=> <<"ERROR", what>> \in Heard(TextsOf(f.commands))
<1>3. \A what : <<"ERROR", what>> \in U => what \in Ordinary
  BY ErrorsOfParts
<1>5. PartErrors(f, allow)
  BY PartErrorsAre
<1>6. FromParts(f, m, U, allow)
  BY ErrorsOfParts
<1>7. "large region" \in LimitWords /\ "large figure" \in LimitWords /\ {"prohibited", "segment prohibited"} = SegmentWords
  BY DEF LimitWords, SegmentWords
<1>8. "large region" # "large figure"
  OBVIOUS
<1>9. "large region" \in ErrorsOf(m) <=> <<"ERROR", "large region">> \in Heard(RegionsOf(f.commands))
  BY <1>3, <1>5, <1>6, <1>7, <1>8, WordsDiffer DEF PartErrors, FromParts
<1>10. "large figure" \in ErrorsOf(m) <=> <<"ERROR", "large figure">> \in LargeFigures(f)
  BY <1>3, <1>5, <1>6, <1>7, <1>8, WordsDiffer DEF PartErrors, FromParts
<1>11. ASSUME NEW what \in TextWords
       PROVE  what \in ErrorsOf(m) <=> <<"ERROR", what>> \in Heard(TextsOf(f.commands))
  <2>1. what \notin Ordinary /\ what \notin Usual /\ what \notin SegmentWords /\ what \notin AboutStructures
        /\ what \notin RegionWords /\ what # "large figure"
    BY <1>7, WordsDiffer
  <2> QED
    BY <1>3, <1>5, <1>6, <1>7, <2>1 DEF PartErrors, FromParts
<1> QED
  BY <1>9, <1>10, <1>11

\* Whoever validates.
LEMMA ValidatedSays ==
  ASSUME NEW f, IsMetafile(f), NEW p, p[1] \in KnownProfiles
  PROVE  \E U, Q, allow : SaysOf(f, Validate(f, CreateValidator(p)).messages, U, allow, Q)
<1>1. PICK U \in SUBSET Things(Usual) : \A v : IsValidator(v) => SaysAsWebCgm(f, U, ValidateWebCgm(f, v), v.allowSegments)
  BY WebCgmSays
<1>2. ASSUME NEW version, NEW allow \in BOOLEAN
      PROVE  \E Q : SaysOf(f, ValidateWebCgm(f, NewValidator("WebCGM", version, allow)).messages, U, allow, Q)
  <2>1. PICK v : v = NewValidator("WebCGM", version, allow)
    OBVIOUS
  <2>0. IsValidator(v) /\ v.allowSegments = allow
    BY <2>1, NewIsValidator
  <2>2. SaysAsWebCgm(f, U, ValidateWebCgm(f, v), allow)
    BY <1>1, <2>0
  <2> QED
    BY <2>1, <2>2, UsualIsOrdinary DEF SaysAsWebCgm, SaysOf
<1>3. ASSUME NEW version
      PROVE  \E A, Q : SaysOf(f, ValidateAta(f, NewValidator("ATA", version, FALSE)).messages, A, FALSE, Q)
  <2>1. PICK v : v = NewValidator("ATA", version, FALSE)
    OBVIOUS
  <2>0. IsValidator(v)
    BY <2>1, NewIsValidator
  <2>2. PICK A \in SUBSET Things(Usual) :
          Heard(ValidateAta(f, v).messages)
            = A \cup Heard(ValidateWebCgm(f, NewValidator("WebCGM", "", FALSE)).messages) \cup Heard(ProfileDeclarationsAta(f, v.version))
    BY <2>0, AtaHeard
  <2>3. PICK Q : SaysOf(f, ValidateWebCgm(f, NewValidator("WebCGM", "", FALSE)).messages, U, FALSE, Q)
    BY <1>2
  <2>4. Heard(ProfileDeclarationsAta(f, v.version)) \subseteq Things(Ordinary)
    BY EditionsSaid, HeardAbout DEF Ordinary
  <2>5. PICK B : B = A \cup U \cup Heard(ProfileDeclarationsAta(f, v.version)) /\ B \subseteq Things(Ordinary)
    BY <2>4, UsualIsOrdinary
  <2>6. Heard(ValidateAta(f, v).messages) = B \cup WebCgmHeard(f, FALSE) \cup Q
    BY <2>2, <2>3, <2>5 DEF SaysOf
  <2>7. SaysOf(f, ValidateAta(f, v).messages, B, FALSE, Q)
    BY <2>3, <2>5, <2>6 DEF SaysOf
  <2> QED
    BY <2>1, <2>7
<1>4. CASE p[1] = "ATA"
  <2>1. CreateValidator(p) = NewValidator("ATA", p[2], FALSE)
    BY <1>4 DEF CreateValidator
  <2>0. NewValidator("ATA", p[2], FALSE).kind = "ATA"
    BY DEF NewValidator
  <2>2. Validate(f, CreateValidator(p)) = ValidateAta(f, NewValidator("ATA", p[2], FALSE))
    BY <2>0, <2>1 DEF Validate
  <2> QED
    BY <1>3, <2>2
<1>5. CASE p[1] = "S1000D"
  <2>1. PICK v : v = NewValidator("S1000D", "", FALSE)
    OBVIOUS
  <2>0. IsValidator(v)
    BY <2>1, NewIsValidator
  <2>7. v.kind = "S1000D"
    BY <2>1 DEF NewValidator
  <2>2. CreateValidator(p) = v
    BY <1>5, <2>1 DEF CreateValidator
  <2>3. Validate(f, CreateValidator(p)) = ValidateS1000D(f, v)
    BY <2>2, <2>7 DEF Validate
  <2>4. PICK A \in SUBSET Things(Usual) :
          Heard(ValidateS1000D(f, v).messages) = A \cup Heard(ValidateAta(f, NewValidator("ATA", "2.9", FALSE)).messages)
    BY <2>0, S1000DHeard
  <2>5. PICK B, Q : SaysOf(f, ValidateAta(f, NewValidator("ATA", "2.9", FALSE)).messages, B, FALSE, Q)
    BY <1>3
  <2>6. SaysOf(f, ValidateS1000D(f, v).messages, A \cup B, FALSE, Q)
    BY <2>4, <2>5, UsualIsOrdinary DEF SaysOf
  <2> QED
    BY <2>3, <2>6
<1>6. CASE p[1] \notin {"ATA", "S1000D"}
  <2>1. PICK allow \in BOOLEAN : CreateValidator(p) = NewValidator("WebCGM", "", allow)
    BY <1>6 DEF CreateValidator
  <2>0. NewValidator("WebCGM", "", allow).kind = "WebCGM"
    BY DEF NewValidator
  <2>2. Validate(f, CreateValidator(p)) = ValidateWebCgm(f, NewValidator("WebCGM", "", allow))
    BY <2>0, <2>1 DEF Validate
  <2> QED
    BY <1>2, <2>2
<1> QED
  BY <1>4, <1>5, <1>6

\* Where segments are accepted, the errors about them are absent.
LEMMA SegmentsAside ==
  ASSUME NEW f, IsMetafile(f), NEW U, NEW m, NEW Q, SaysOf(f, m, U, TRUE, Q), NEW n, NEW R, SaysOf(f, n, U, FALSE, R)
  PROVE  ErrorsOf(m) = ErrorsOf(n) \ SegmentErrors
<1>1. PICK s : s = f.commands /\ IsList(s)
  BY DEF IsMetafile
<1>2. FromParts(f, m, U, TRUE) /\ FromParts(f, n, U, FALSE) /\ \A what : <<"ERROR", what>> \in U => what \in Ordinary
  BY ErrorsOfParts
<1>3. PartErrors(f, TRUE)
  BY PartErrorsAre
<1>4. /\ Heard(ProhibitedElements(s, TRUE)) = Heard(ProhibitedElements(s, FALSE)) \ {<<"ERROR", "prohibited">>}
      /\ Heard(ElementsOfSet(s, TRUE)) = Heard(ElementsOfSet(s, FALSE)) \ {<<"ERROR", "segment prohibited">>}
  BY <1>1, ProhibitedHeard, ElementsHeard DEF SegmentThing
<1>5. ASSUME NEW what, what \notin SegmentErrors
      PROVE  what \in ErrorsOf(m) <=> what \in ErrorsOf(n)
  <2>1. what # "prohibited" /\ what # "segment prohibited"
    BY <1>5 DEF SegmentErrors
  <2>2. /\ <<"ERROR", what>> \in Heard(ProhibitedElements(s, TRUE)) <=> <<"ERROR", what>> \in Heard(ProhibitedElements(s, FALSE))
        /\ <<"ERROR", what>> \in Heard(ElementsOfSet(s, TRUE)) <=> <<"ERROR", what>> \in Heard(ElementsOfSet(s, FALSE))
    BY <1>4, <2>1
  <2> QED
    BY <1>1, <1>2, <2>2 DEF FromParts
<1>6. ASSUME NEW what, what \in SegmentErrors
      PROVE  what \notin ErrorsOf(m)
  <2>1. what \in SegmentWords
    BY <1>6 DEF SegmentErrors, SegmentWords
  <2>2. what \notin Ordinary /\ what \notin Usual /\ what \notin TextWords /\ what \notin AboutStructures
        /\ what \notin RegionWords /\ what # "large figure"
    BY <2>1, WordsDiffer DEF LimitWords
  <2>3. /\ <<"ERROR", "prohibited">> \notin Heard(ProhibitedElements(s, TRUE))
        /\ <<"ERROR", "segment prohibited">> \notin Heard(ElementsOfSet(s, TRUE))
    BY <1>4
  <2>4. "prohibited" # "segment prohibited" /\ what \in {"prohibited", "segment prohibited"}
    BY <1>6 DEF SegmentErrors
  <2>5. <<"ERROR", what>> \notin Heard(ProhibitedElements(s, TRUE)) /\ <<"ERROR", what>> \notin Heard(ElementsOfSet(s, TRUE))
    BY <1>1, <1>3, <2>2, <2>3, <2>4 DEF PartErrors
  <2> QED
    BY <1>1, <1>2, <1>3, <2>2, <2>5 DEF PartErrors, FromParts
<1> QED
  BY <1>5, <1>6

\* What is heard of more is more to blame.
LEMMA MoreErrors ==
  ASSUME NEW m, NEW n, Heard(m) \subseteq Heard(n)
  PROVE  ErrorsOf(m) \subseteq ErrorsOf(n)
<1>1. \A what : what \in ErrorsOf(m) => what \in ErrorsOf(n)
  BY SaidIsHeard DEF ErrorsOf
<1> QED
  BY <1>1

WebCgmErrors(f) == ErrorsOf(Validate(f, CreateValidator(<<"WebCGM">>)).messages)
ProfileErrors(f, p) == ErrorsOf(Validate(f, CreateValidator(p)).messages)

LEMMA WebCgmCreated ==
  ASSUME NEW f
  PROVE  Validate(f, CreateValidator(<<"WebCGM">>)) = ValidateWebCgm(f, NewValidator("WebCGM", "", FALSE))
<1>1. CreateValidator(<<"WebCGM">>) = NewValidator("WebCGM", "", FALSE)
  BY DEF CreateValidator
<1>2. NewValidator("WebCGM", "", FALSE).kind = "WebCGM"
  BY DEF NewValidator
<1> QED
  BY <1>1, <1>2 DEF Validate

\* A profile that is built on WebCGM, a profile that differs in the segments.
LEMMA ProfilesBuilt ==
  ASSUME NEW f, IsMetafile(f), NEW p, p[1] \in KnownProfiles
  PROVE  /\ p[1] \in {"ATA", "S1000D"} => WebCgmErrors(f) \subseteq ProfileErrors(f, p)
         /\ p[1] = "WebCGM" => ProfileErrors(f, p) = WebCgmErrors(f)
         /\ p[1] \notin {"ATA", "S1000D", "WebCGM"} => ProfileErrors(f, p) = WebCgmErrors(f) \ SegmentErrors
<1>1. PICK m : m = Validate(f, CreateValidator(<<"WebCGM">>)).messages
  OBVIOUS
<1>2. m = ValidateWebCgm(f, NewValidator("WebCGM", "", FALSE)).messages
  BY <1>1, WebCgmCreated
<1>3. ASSUME NEW version
      PROVE  Heard(m) \subseteq Heard(ValidateAta(f, NewValidator("ATA", version, FALSE)).messages)
  <2>1. PICK v : v = NewValidator("ATA", version, FALSE)
    OBVIOUS
  <2>2. IsValidator(v)
    BY <2>1, NewIsValidator
  <2>3. PICK A \in SUBSET Things(Usual) :
          Heard(ValidateAta(f, v).messages)
            = A \cup Heard(ValidateWebCgm(f, NewValidator("WebCGM", "", FALSE)).messages) \cup Heard(ProfileDeclarationsAta(f, v.version))
    BY <2>2, AtaHeard
  <2> QED
    BY <1>2, <2>1, <2>3
<1>4. CASE p[1] = "ATA"
  <2>1. CreateValidator(p) = NewValidator("ATA", p[2], FALSE)
    BY <1>4 DEF CreateValidator
  <2>2. NewValidator("ATA", p[2], FALSE).kind = "ATA"
    BY DEF NewValidator
  <2>3. Validate(f, CreateValidator(p)) = ValidateAta(f, NewValidator("ATA", p[2], FALSE))
    BY <2>1, <2>2 DEF Validate
  <2>4. PICK n : n = Validate(f, CreateValidator(p)).messages
    OBVIOUS
  <2>5. PICK version : version = p[2]
    OBVIOUS
  <2>6. Heard(m) \subseteq Heard(n)
    BY <1>3, <2>3, <2>4, <2>5
  <2>7. WebCgmErrors(f) \subseteq ProfileErrors(f, p)
    BY <1>1, <2>4, <2>6, MoreErrors DEF WebCgmErrors, ProfileErrors
  <2> QED
    BY <1>4, <2>7
<1>5. CASE p[1] = "S1000D"
  <2>1. PICK v : v = NewValidator("S1000D", "", FALSE)
    OBVIOUS
  <2>2. IsValidator(v)
    BY <2>1, NewIsValidator
  <2>3. v.kind = "S1000D"
    BY <2>1 DEF NewValidator
  <2>4. CreateValidator(p) = v
    BY <1>5, <2>1 DEF CreateValidator
  <2>5. Validate(f, CreateValidator(p)) = ValidateS1000D(f, v)
    BY <2>3, <2>4 DEF Validate
  <2>6. PICK A \in SUBSET Things(Usual) :
          Heard(ValidateS1000D(f, v).messages) = A \cup Heard(ValidateAta(f, NewValidator("ATA", "2.9", FALSE)).messages)
    BY <2>2, S1000DHeard
  <2>7. Heard(m) \subseteq Heard(ValidateS1000D(f, v).messages)
    BY <1>3, <2>6
  <2>8. WebCgmErrors(f) \subseteq ProfileErrors(f, p)
    BY <1>1, <2>5, <2>7, MoreErrors DEF WebCgmErrors, ProfileErrors
  <2> QED
    BY <1>5, <2>8
<1>6. CASE p[1] = "WebCGM"
  <2>1. CreateValidator(p) = CreateValidator(<<"WebCGM">>)
    BY <1>6 DEF CreateValidator
  <2> QED
    BY <1>6, <2>1 DEF WebCgmErrors, ProfileErrors
<1>7. CASE p[1] \in {"ISO", "PIP", "CALS"}
  <2>1. CreateValidator(p) = NewValidator("WebCGM", "", TRUE)
    BY <1>7 DEF CreateValidator
  <2>2. NewValidator("WebCGM", "", TRUE).kind = "WebCGM"
    BY DEF NewValidator
  <2>3. Validate(f, CreateValidator(p)) = ValidateWebCgm(f, NewValidator("WebCGM", "", TRUE))
    BY <2>1, <2>2 DEF Validate
  <2>4. PICK v, w, yes, no : v = NewValidator("WebCGM", "", TRUE) /\ w = NewValidator("WebCGM", "", FALSE) /\ yes = TRUE /\ no = FALSE
    OBVIOUS
  <2>5. IsValidator(v) /\ IsValidator(w)
    BY <2>4, NewIsValidator
  <2>6. v.allowSegments = TRUE /\ w.allowSegments = FALSE
    BY <2>4 DEF NewValidator
  <2>7. PICK U \in SUBSET Things(Usual) : \A x : IsValidator(x) => SaysAsWebCgm(f, U, ValidateWebCgm(f, x), x.allowSegments)
    BY WebCgmSays
  <2>8. PICK Q \in Hearings(f) : Heard(ValidateWebCgm(f, v).messages) = U \cup WebCgmHeard(f, TRUE) \cup Q
    BY <2>5, <2>6, <2>7 DEF SaysAsWebCgm
  <2>9. PICK R \in Hearings(f) : Heard(ValidateWebCgm(f, w).messages) = U \cup WebCgmHeard(f, FALSE) \cup R
    BY <2>5, <2>6, <2>7 DEF SaysAsWebCgm
  <2>10. SaysOf(f, ValidateWebCgm(f, v).messages, U, TRUE, Q) /\ SaysOf(f, ValidateWebCgm(f, w).messages, U, FALSE, R)
    BY <2>8, <2>9, UsualIsOrdinary DEF SaysOf
  <2>11. PICK a, b : a = ValidateWebCgm(f, v).messages /\ b = ValidateWebCgm(f, w).messages
    OBVIOUS
  <2>12. SaysOf(f, a, U, TRUE, Q) /\ SaysOf(f, b, U, FALSE, R)
    BY <2>10, <2>11
  <2>13. ErrorsOf(a) = ErrorsOf(b) \ SegmentErrors
    BY <2>12, SegmentsAside
  <2> QED
    BY <1>1, <1>2, <1>7, <2>3, <2>4, <2>11, <2>13 DEF WebCgmErrors, ProfileErrors
<1> QED
  BY <1>4, <1>5, <1>6, <1>7 DEF KnownProfiles
-----------------------------------------------------------------------------
(***************************************************************************)
(* Reports.                                                                *)
(***************************************************************************)

\* A report is about the file at hand, by the profile that was effective.
ReportInv ==
  /\ client \in {"interface", "program"}
  /\ client = "interface" => validator = NoValidator /\ file \in Files \cup {Unreadable}
  /\ client = "program" => report = NoReport
  /\ Reported => /\ file \in Files
                 /\ report.effective = EffectiveProfile(file, report.requested)
                 /\ report.effective # <<"unsupported">>
                 /\ report.messages = Validate(file, CreateValidator(report.effective)).messages

LEMMA NothingReported == NoReport.code # "ok"
BY DEF NoReport

LEMMA ValidatedReport ==
  ASSUME NEW requested, Validated(requested).code = "ok"
  PROVE  /\ file # Unreadable
         /\ Validated(requested).effective = EffectiveProfile(file, requested)
         /\ Validated(requested).requested = requested
         /\ EffectiveProfile(file, requested) # <<"unsupported">>
         /\ Validated(requested).messages = Validate(file, CreateValidator(EffectiveProfile(file, requested))).messages
<1>1. PICK profile : profile = EffectiveProfile(file, requested)
  OBVIOUS
<1>2. file # Unreadable
  BY DEF Validated
<1>3. profile # <<"unsupported">>
  BY <1>1 DEF Validated
<1>4. PICK m : m = Validate(file, CreateValidator(profile)).messages
  OBVIOUS
<1>5. Validated(requested) = [code |-> "ok", requested |-> requested, effective |-> profile, messages |-> m]
  BY <1>1, <1>2, <1>3, <1>4 DEF Validated
<1> QED
  BY <1>1, <1>2, <1>3, <1>4, <1>5

LEMMA ReportsFollow == Spec => []ReportInv
<1>1. Init => ReportInv
  BY NothingReported DEF Init, ReportInv, Reported
<1>2. ReportInv /\ [Next]_vars => ReportInv'
  <2> SUFFICES ASSUME ReportInv, [Next]_vars PROVE ReportInv'
    OBVIOUS
  <2>1. CASE ValidateProfile
    <3>1. PICK requested \in Requests : report' = Validated(requested)
      BY <2>1 DEF ValidateProfile
    <3>2. client = "interface" /\ client' = client /\ file' = file /\ validator' = validator
      BY <2>1 DEF ValidateProfile
    <3>3. validator = NoValidator /\ file \in Files \cup {Unreadable}
      BY <3>2 DEF ReportInv
    <3>4. ASSUME report'.code = "ok"
          PROVE  /\ file \in Files /\ report'.effective = EffectiveProfile(file, report'.requested)
                 /\ report'.effective # <<"unsupported">>
                 /\ report'.messages = Validate(file, CreateValidator(report'.effective)).messages
      <4>1. Validated(requested).code = "ok"
        BY <3>1, <3>4
      <4> QED
        BY <3>1, <3>3, <4>1, ValidatedReport
    <3> QED
      BY <3>2, <3>3, <3>4 DEF ReportInv, Reported
  <2>2. CASE Create
    <3>1. client = "program" /\ client' = client /\ report' = report
      BY <2>2 DEF Create
    <3> QED
      BY <3>1, NothingReported DEF ReportInv, Reported
  <2>3. CASE ValidateNext
    <3>1. validator # NoValidator /\ client' = client /\ report' = report
      BY <2>3 DEF ValidateNext
    <3> QED
      BY <3>1, NothingReported DEF ReportInv, Reported
  <2>4. CASE UNCHANGED vars
    BY <2>4 DEF ReportInv, Reported, vars
  <2> QED
    BY <2>1, <2>2, <2>3, <2>4 DEF Next
<1> QED
  BY <1>1, <1>2, PTL DEF Spec

\* What may be said of every report.
LEMMA ReportedOf ==
  ASSUME ReportInv, Reported
  PROVE  /\ file \in Files /\ IsMetafile(file) /\ report.effective[1] \in KnownProfiles
         /\ report.messages = Validate(file, CreateValidator(report.effective)).messages
         /\ report.effective = EffectiveProfile(file, report.requested)
<1>1. /\ file \in Files /\ report.effective = EffectiveProfile(file, report.requested)
      /\ report.effective # <<"unsupported">>
      /\ report.messages = Validate(file, CreateValidator(report.effective)).messages
  BY DEF ReportInv
<1>2. IsMetafile(file)
  BY <1>1, FilesAssumption
<1> QED
  BY <1>1, <1>2, EffectiveKnown

LEMMA ProfilesAgreeIn ==
  ASSUME ReportInv
  PROVE  ProfilesAgree
<1> SUFFICES ASSUME Reported PROVE ProfilesAgree
  BY DEF ProfilesAgree
<1>1. PICK f, p, m : f = file /\ p = report.effective /\ m = report.messages
  OBVIOUS
<1>2. IsMetafile(f) /\ p[1] \in KnownProfiles /\ m = Validate(f, CreateValidator(p)).messages
  BY <1>1, ReportedOf
<1>3. /\ p[1] \in {"ATA", "S1000D"} => WebCgmErrors(f) \subseteq ProfileErrors(f, p)
      /\ p[1] = "WebCGM" => ProfileErrors(f, p) = WebCgmErrors(f)
      /\ p[1] \notin {"ATA", "S1000D", "WebCGM"} => ProfileErrors(f, p) = WebCgmErrors(f) \ SegmentErrors
  BY <1>2, ProfilesBuilt
<1>4. /\ ProfileErrors(f, p) = ErrorsOf(report.messages)
      /\ WebCgmErrors(f) = ErrorsOf(Validate(file, CreateValidator(<<"WebCGM">>)).messages)
  BY <1>1, <1>2 DEF ProfileErrors, WebCgmErrors
<1>5. CASE p[1] \in {"ATA", "S1000D"}
  BY <1>1, <1>3, <1>4, <1>5 DEF ProfilesAgree
<1>6. CASE p[1] = "WebCGM"
  BY <1>1, <1>3, <1>4, <1>6 DEF ProfilesAgree
<1>7. CASE p[1] \notin {"ATA", "S1000D", "WebCGM"}
  BY <1>1, <1>3, <1>4, <1>7 DEF ProfilesAgree
<1> QED
  BY <1>5, <1>6, <1>7

\* Whatever the profile, the errors that WebCGM has are reported (the validate()
\* of the three validators, createValidator); those about segments are absent
\* just where segments are accepted.
THEOREM ProfilesAlwaysAgree == Spec => []ProfilesAgree
BY ReportsFollow, ProfilesAgreeIn, PTL

\* The errors are whoever's, but about texts, regions and figures the same.
LEMMA ReportedSays ==
  ASSUME ReportInv, Reported
  PROVE  /\ IsMetafile(file) /\ IsList(Commands) /\ Len(Commands) \in Nat /\ DOMAIN Commands = 1..Len(Commands)
         /\ "large region" \in ErrorsOf(report.messages) <=> <<"ERROR", "large region">> \in Heard(RegionsOf(Commands))
         /\ "large figure" \in ErrorsOf(report.messages) <=> <<"ERROR", "large figure">> \in LargeFigures(file)
         /\ \A what \in TextWords : what \in ErrorsOf(report.messages) <=> <<"ERROR", what>> \in Heard(TextsOf(Commands))
<1>1. PICK f, p, m : f = file /\ p = report.effective /\ m = report.messages
  OBVIOUS
<1>2. IsMetafile(f) /\ p[1] \in KnownProfiles /\ m = Validate(f, CreateValidator(p)).messages
  BY <1>1, ReportedOf
<1>3. PICK U, Q, allow : SaysOf(f, Validate(f, CreateValidator(p)).messages, U, allow, Q)
  BY <1>2, ValidatedSays
<1>4. SaysOf(f, m, U, allow, Q)
  BY <1>2, <1>3
<1>5. /\ "large region" \in ErrorsOf(m) <=> <<"ERROR", "large region">> \in Heard(RegionsOf(f.commands))
      /\ "large figure" \in ErrorsOf(m) <=> <<"ERROR", "large figure">> \in LargeFigures(f)
      /\ \A what \in TextWords : what \in ErrorsOf(m) <=> <<"ERROR", what>> \in Heard(TextsOf(f.commands))
  BY <1>2, <1>4, ErrorsAre
<1>6. IsList(f.commands) /\ Len(f.commands) \in Nat /\ DOMAIN f.commands = 1..Len(f.commands)
  BY <1>2, Lists DEF IsMetafile
<1> QED
  BY <1>1, <1>2, <1>5, <1>6 DEF Commands

LEMMA TextsCheckedIn ==
  ASSUME ReportInv
  PROVE  TextsChecked
<1> SUFFICES ASSUME Reported PROVE TextsChecked
  BY DEF TextsChecked
<1>1. PICK s, n : s = Commands /\ n = Len(s) /\ n \in Nat /\ DOMAIN s = 1..n
  BY ReportedSays
<1>2. PICK m : m = report.messages /\ \A what \in TextWords : what \in ErrorsOf(m) <=> <<"ERROR", what>> \in Heard(TextsOf(s))
  BY <1>1, ReportedSays
<1>3. /\ TextsOf(s) \in Errs(TextWords)
      /\ TextsOf(s) = <<>> <=> \A i \in 0..n : Part(s, i) <=> i + 1 \in 1..n /\ s[i + 1].code = AppendText
  BY <1>1, TextsHeard
<1>4. PICK t, S : t = TextsOf(s) /\ t \in Seq(S) /\ S = [severity : {"ERROR"}, what : TextWords]
  BY <1>3 DEF Errs
<1>5. ErrorsOf(m) \cap TextWords = {} <=> t = <<>>
  <2>0. t \in Seq(S)
    BY <1>4
  <2>1. DOMAIN t = 1..Len(t) /\ Len(t) \in Nat /\ \A i \in 1..Len(t) : t[i] \in S
    BY ONLY <2>0
  <2>2. ASSUME t # <<>> PROVE ErrorsOf(m) \cap TextWords # {}
    <3>1. Len(t) >= 1
      BY <1>4, <2>1, <2>2
    <3>2. 1 \in DOMAIN t /\ t[1].severity = "ERROR" /\ t[1].what \in TextWords
      BY <1>4, <2>1, <3>1
    <3>3. PICK w : w = t[1].what
      OBVIOUS
    <3>4. <<"ERROR", w>> \in Heard(t)
      BY <3>2, <3>3 DEF Heard
    <3> QED
      BY <1>2, <1>4, <3>2, <3>3, <3>4
  <2>3. ASSUME t = <<>> PROVE ErrorsOf(m) \cap TextWords = {}
    <3>1. Heard(t) = {}
      BY <2>3 DEF Heard
    <3> QED
      BY <1>2, <1>4, <3>1
  <2> QED
    BY <2>2, <2>3
<1>6. \A i \in 0..n : (IsPart(i) <=> i + 1 \in Of(AppendText)) <=> (Part(s, i) <=> i + 1 \in 1..n /\ s[i + 1].code = AppendText)
  BY <1>1 DEF IsPart, IsText, Part, Of
<1>7. DOMAIN Commands \cup {0} = 0..n
  BY <1>1
<1> QED
  BY <1>2, <1>3, <1>4, <1>5, <1>6, <1>7 DEF TextsChecked, TextWords

\* The parts of a text are found (validateTextSequencing): whether one is
\* missing or out of place is reported, whatever the profile.
THEOREM TextsAlwaysChecked == Spec => []TextsChecked
BY ReportsFollow, TextsCheckedIn, PTL

\* What is in regions and figures, by their ends.
LEMMA InsideBeyond ==
  ASSUME NEW begin, NEW end, NEW classes, NEW limit \in Nat,
         NEW n \in Nat, DOMAIN Commands = 1..n
  PROVE  (\E k \in Inside(begin, end, classes) : k > limit) <=> \E e \in 1..n : Beyond(Commands, e, begin, end, classes, limit)
<1>1. PICK s : s = Commands
  OBVIOUS
<1>2. \A b, e : <<b, e>> \in Spans(begin, end) <=>
         /\ b \in 1..n /\ e \in 1..n /\ s[b].code = begin /\ s[e].code = end /\ b < e
         /\ \A k \in 1..n : b < k /\ k < e => s[k].code \notin {begin, end}
  BY <1>1 DEF Spans, Of
<1>3. \A k : k \in Inside(begin, end, classes) <=> \E p \in Spans(begin, end) : k = Counted(s, p[1], p[2], classes)
  BY <1>1 DEF Inside, Counted
<1>4. \A p \in Spans(begin, end) : p = <<p[1], p[2]>>
  BY DEF Spans
<1>5. (\E k \in Inside(begin, end, classes) : k > limit)
        <=> \E b, e : <<b, e>> \in Spans(begin, end) /\ Counted(s, b, e, classes) > limit
  <2>1. ASSUME NEW k \in Inside(begin, end, classes), k > limit
        PROVE  \E b, e : <<b, e>> \in Spans(begin, end) /\ Counted(s, b, e, classes) > limit
    <3>1. PICK p \in Spans(begin, end) : k = Counted(s, p[1], p[2], classes)
      BY <1>3
    <3>2. <<p[1], p[2]>> \in Spans(begin, end) /\ Counted(s, p[1], p[2], classes) > limit
      BY <1>4, <2>1, <3>1
    <3> QED
      BY <3>2
  <2>2. ASSUME NEW b, NEW e, <<b, e>> \in Spans(begin, end), Counted(s, b, e, classes) > limit
        PROVE  \E k \in Inside(begin, end, classes) : k > limit
    <3>1. PICK p : p = <<b, e>> /\ p[1] = b /\ p[2] = e /\ p \in Spans(begin, end)
      BY <2>2
    <3>2. Counted(s, b, e, classes) \in Inside(begin, end, classes)
      BY <1>3, <3>1
    <3> QED
      BY <2>2, <3>2
  <2> QED
    BY <2>1, <2>2
<1>6. ASSUME NEW e \in 1..n
      PROVE  Beyond(s, e, begin, end, classes, limit)
               <=> \E b : <<b, e>> \in Spans(begin, end) /\ Counted(s, b, e, classes) > limit
  <2>1. \A b \in 1..(e - 1) : Begun(s, b, e - 1, begin, end) /\ s[e].code = end <=> <<b, e>> \in Spans(begin, end)
    BY <1>2 DEF Begun
  <2>2. \A b : <<b, e>> \in Spans(begin, end) => b \in 1..(e - 1)
    BY <1>2
  <2> QED
    BY <1>2, <2>1, <2>2 DEF Beyond
<1>7. \A b, e : <<b, e>> \in Spans(begin, end) => e \in 1..n
  BY <1>2
<1> QED
  BY <1>1, <1>5, <1>6, <1>7

LEMMA LimitsCheckedIn ==
  ASSUME ReportInv
  PROVE  LimitsChecked
<1> SUFFICES ASSUME Reported PROVE LimitsChecked
  BY DEF LimitsChecked
<1>1. PICK s, n : s = Commands /\ n = Len(s) /\ n \in Nat /\ DOMAIN s = 1..n /\ IsList(s)
  BY ReportedSays
<1>2. IsMetafile(file) /\ file.commands = s
  BY <1>1, ReportedSays DEF Commands
<1>3. MaxInRegion \in Nat /\ MaxInFigure \in Nat
  BY LimitsAssumption
<1>4. \A i \in 1..n : Class(s[i]) \in 0..15
  BY <1>1, <1>2 DEF IsMetafile
<1>5. "large region" \in ErrorsOf(report.messages)
        <=> \E e \in 1..n : Beyond(s, e, BeginRegion, EndRegion, 1..15, MaxInRegion)
  <2>1. <<"ERROR", "large region">> \in Heard(RegionsOf(s))
          <=> \E e \in 1..n : Beyond(s, e, BeginRegion, EndRegion, 1..15, MaxInRegion)
    BY <1>1, <1>4, RegionsHeard
  <2> QED
    BY <1>1, <2>1, ReportedSays
<1>6. "large figure" \in ErrorsOf(report.messages)
        <=> \E e \in 1..n : Beyond(s, e, BeginFigure, EndFigure, {4}, MaxInFigure)
  <2>1. <<"ERROR", "large figure">> \in LargeFigures(file)
          <=> \E e \in 1..n : Beyond(s, e, BeginFigure, EndFigure, {4}, MaxInFigure)
    BY <1>1, <1>2 DEF LargeFigures
  <2> QED
    BY <2>1, ReportedSays
<1>7. (\E k \in Inside(BeginRegion, EndRegion, 1..15) : k > MaxInRegion)
        <=> \E e \in 1..n : Beyond(s, e, BeginRegion, EndRegion, 1..15, MaxInRegion)
  BY <1>1, <1>3, InsideBeyond
<1>8. (\E k \in Inside(BeginFigure, EndFigure, {4}) : k > MaxInFigure)
        <=> \E e \in 1..n : Beyond(s, e, BeginFigure, EndFigure, {4}, MaxInFigure)
  BY <1>1, <1>3, InsideBeyond
<1> QED
  BY <1>5, <1>6, <1>7, <1>8 DEF LimitsChecked

\* The counters of validateProtectionRegions and validateFigureComplexity, which
\* are set back where a region or a figure begins, count just what is in each.
THEOREM LimitsAlwaysChecked == Spec => []LimitsChecked
BY ReportsFollow, LimitsCheckedIn, PTL

-----------------------------------------------------------------------------
(***************************************************************************)
(* Editions.                                                               *)
(***************************************************************************)

\* The only description of a file declares a profile and an edition.
Declares(f, e) ==
  /\ Len(Descriptions(f)) = 1 /\ e \in DOMAIN AtaOf
  /\ QuotedValue("ProfileEd", Descriptions(f)[1]) = e
  /\ FirstWord(QuotedValue("ProfileId", Descriptions(f)[1])) # ""

LEMMA EditionFound ==
  ASSUME NEW f, NEW e, Declares(f, e)
  PROVE  EffectiveProfile(f, "ata") = <<"ATA", e>>
<1>1. PICK d : d = Descriptions(f)[1]
  OBVIOUS
<1>2. QuotedValue("ProfileEd", d) = e /\ FirstWord(QuotedValue("ProfileId", d)) # "" /\ e \in {"2.6", "2.7", "2.8", "2.9"}
  BY <1>1, AtaKnown DEF Declares
<1>3. e # ""
  BY <1>2
<1>4. d.quoted /\ Keyed("ProfileEd", d) # {}
  BY <1>2, <1>3 DEF QuotedValue
<1>5. FirstValue("ProfileEd", d) = e
  BY <1>2, <1>4 DEF QuotedValue, FirstValue
<1>6. FirstValue("ProfileId", d) = QuotedValue("ProfileId", d)
  BY <1>4 DEF QuotedValue, FirstValue
<1>7. FirstWord(FirstValue("ProfileId", d)) # ""
  BY <1>2, <1>6
<1>8. ParseFromDescription(d) = [id |-> FirstWord(FirstValue("ProfileId", d)), edition |-> e, confidence |-> 9]
  BY <1>5, <1>7 DEF ParseFromDescription
<1>9. Descriptions(f) # <<>>
  <2>1. PICK n : n = Len(Descriptions(f)) /\ n = 1
    BY DEF Declares
  <2>2. ASSUME Descriptions(f) = <<>> PROVE FALSE
    <3>1. n = Len(<<>>)
      BY <2>1, <2>2
    <3>2. Len(<<>>) = 0
      OBVIOUS
    <3> QED
      BY <2>1, <3>1, <3>2
  <2> QED
    BY <2>2
<1>10. DetectProfileWithMetadata(f).edition = e
  BY <1>1, <1>8, <1>9 DEF DetectProfileWithMetadata
<1>11. EffectiveProfile(f, "ata") = IF e \in {"2.6", "2.7", "2.8"} THEN AtaOf[e] ELSE RequestedProfile("ata")
  BY <1>10 DEF EffectiveProfile
<1>12. RequestedProfile("ata") = AtaOf["2.9"]
  BY DEF RequestedProfile
<1> QED
  BY <1>2, <1>11, <1>12, AtaKnown

LEMMA EditionSaid ==
  ASSUME NEW f, IsMetafile(f), NEW e, Declares(f, e)
  PROVE  Heard(ProfileDeclarationsAta(f, e)) \subseteq Things(Usual)
<1>1. PICK ds, d : ds = Descriptions(f) /\ d = ds[1] /\ IsList(ds) /\ Len(ds) = 1
  BY DescriptionsAre DEF Declares
<1>2. DOMAIN ds = 1..1
  BY <1>1, Lists
<1>3. QuotedValue("ProfileEd", d) = e /\ e # ""
  BY <1>1, AtaKnown DEF Declares
<1>4. DeclarationRemarks(d, e)
        = (IF QuotedValue("ProfileId", d) = AtaProfile THEN Tell("ATA profile") ELSE Err("not the ATA profile")) \o Tell("edition")
  BY <1>3 DEF DeclarationRemarks
<1>5. DeclarationRemarks(d, e) \in Words(Usual)
  <2>1. {"ATA profile", "not the ATA profile", "edition"} \subseteq Usual
    BY DEF Usual, UsualErrors, UsualNotes
  <2>2. Tell("ATA profile") \in Words(Usual) /\ Err("not the ATA profile") \in Words(Usual) /\ Tell("edition") \in Words(Usual)
    BY <2>1, SaidOne
  <2>3. \A a : (IF a THEN Tell("ATA profile") ELSE Err("not the ATA profile")) \o Tell("edition") \in Words(Usual)
    BY <2>2, SaidBoth
  <2> QED
    BY <1>4, <2>3
<1>6. PICK ss : ss = [i \in DOMAIN ds |-> DeclarationRemarks(ds[i], e)]
  OBVIOUS
<1>7. ss \in [1..1 -> Words(Usual)]
  BY <1>1, <1>2, <1>5, <1>6
<1>8. Concatenation(ss) \in Words(Usual)
  BY <1>7, SaidOfEach
<1>9. ProfileDeclarationsAta(f, e) = Concatenation(ss)
  BY <1>1, <1>6 DEF ProfileDeclarationsAta, Each
<1> QED
  BY <1>8, <1>9, HeardAbout

\* No WebCGM rule asks for an edition.
LEMMA NoEditionInWebCgm ==
  ASSUME NEW f, IsMetafile(f), NEW m, NEW U \in SUBSET Things(Usual), NEW Q, NEW allow, SaysOf(f, m, U, allow, Q)
  PROVE  <<"WARNING", "other edition">> \notin Heard(m)
<1>1. PICK w : w = "other edition"
  OBVIOUS
<1>2. PICK V, W : V = Usual \cup {"prohibited"} /\ W = Usual \cup {"segment prohibited"}
  OBVIOUS
<1>3. /\ Heard(ProhibitedElements(f.commands, allow)) \subseteq Things(V)
      /\ Heard(ElementsOfSet(f.commands, allow)) \subseteq Things(W)
      /\ Heard(TextsOf(f.commands)) \subseteq Things(TextWords)
      /\ Heard(StructureRemarks(f)) \subseteq Things(AboutStructures)
      /\ Heard(RegionsOf(f.commands)) \subseteq Things(RegionWords)
      /\ LargeFigures(f) \subseteq {<<"ERROR", "large figure">>}
  BY <1>2, PartsAre
<1>4. w \notin Usual /\ w \notin V /\ w \notin W /\ w \notin TextWords /\ w \notin AboutStructures /\ w \notin RegionWords /\ w \notin Besides
  <2>1. w # "prohibited" /\ w # "segment prohibited"
    BY <1>1
  <2> QED
    BY <1>1, <1>2, <2>1, WordsDiffer
<1>5. ASSUME NEW S, NEW X, S \subseteq Things(X), w \notin X PROVE <<"WARNING", w>> \notin S
  BY <1>5 DEF Things
<1>6. /\ <<"WARNING", w>> \notin Heard(ProhibitedElements(f.commands, allow))
      /\ <<"WARNING", w>> \notin Heard(ElementsOfSet(f.commands, allow))
      /\ <<"WARNING", w>> \notin Heard(TextsOf(f.commands))
      /\ <<"WARNING", w>> \notin Heard(StructureRemarks(f))
      /\ <<"WARNING", w>> \notin Heard(RegionsOf(f.commands))
  BY ONLY <1>3, <1>4, <1>5
<1>7. <<"WARNING", w>> \notin U
  BY <1>4, <1>5
<1>8. <<"WARNING", w>> \notin LargeFigures(f)
  BY ONLY <1>3
<1>9. <<"WARNING", w>> \notin Q
  <2>1. Q \subseteq Quiet \X Besides
    BY DEF SaysOf, Hearings
  <2> QED
    BY <1>4, <2>1
<1>10. Heard(m) = U \cup WebCgmHeard(f, allow) \cup Q
  BY DEF SaysOf
<1> QED
  BY <1>1, <1>6, <1>7, <1>8, <1>9, <1>10 DEF WebCgmHeard

LEMMA EditionRespected ==
  ASSUME NEW f, IsMetafile(f), NEW e, Declares(f, e)
  PROVE  "other edition" \notin WarningsOf(Validate(f, CreateValidator(<<"ATA", e>>)).messages)
<1>1. CreateValidator(<<"ATA", e>>) = NewValidator("ATA", e, FALSE)
  BY DEF CreateValidator
<1>2. PICK v, w : v = NewValidator("ATA", e, FALSE) /\ w = NewValidator("WebCGM", "", FALSE)
  OBVIOUS
<1>3. v.kind = "ATA" /\ v.version = e /\ w.allowSegments = FALSE
  BY <1>2 DEF NewValidator
<1>4. IsValidator(v) /\ IsValidator(w)
  BY <1>2, NewIsValidator
<1>5. Validate(f, CreateValidator(<<"ATA", e>>)) = ValidateAta(f, v)
  BY <1>1, <1>2, <1>3 DEF Validate
<1>6. PICK A \in SUBSET Things(Usual) :
        Heard(ValidateAta(f, v).messages)
          = A \cup Heard(ValidateWebCgm(f, NewValidator("WebCGM", "", FALSE)).messages) \cup Heard(ProfileDeclarationsAta(f, v.version))
  BY <1>4, AtaHeard
<1>7. PICK m : m = ValidateWebCgm(f, w).messages
  OBVIOUS
<1>8. Heard(ValidateAta(f, v).messages) = A \cup Heard(m) \cup Heard(ProfileDeclarationsAta(f, e))
  BY <1>2, <1>3, <1>6, <1>7
<1>9. PICK U \in SUBSET Things(Usual) : \A x : IsValidator(x) => SaysAsWebCgm(f, U, ValidateWebCgm(f, x), x.allowSegments)
  BY WebCgmSays
<1>10. PICK Q \in Hearings(f) : Heard(m) = U \cup WebCgmHeard(f, FALSE) \cup Q
  BY <1>3, <1>4, <1>7, <1>9 DEF SaysAsWebCgm
<1>11. SaysOf(f, m, U, FALSE, Q)
  BY <1>10, UsualIsOrdinary DEF SaysOf
<1>12. <<"WARNING", "other edition">> \notin Heard(m)
  BY <1>11, NoEditionInWebCgm
<1>13. "other edition" \notin Usual
  BY WordsDiffer
<1>14. <<"WARNING", "other edition">> \notin Things(Usual)
  BY <1>13 DEF Things
<1>15. <<"WARNING", "other edition">> \notin Heard(ValidateAta(f, v).messages)
  BY <1>8, <1>12, <1>14, EditionSaid
<1> QED
  BY <1>5, <1>15, SaidIsHeard DEF WarningsOf

LEMMA EditionHonouredIn ==
  ASSUME ReportInv
  PROVE  EditionHonoured
<1> SUFFICES ASSUME Reported, report.requested = "ata", Len(Descriptions(file)) = 1,
                    FirstWord(QuotedValue("ProfileId", Descriptions(file)[1])) # "",
                    QuotedValue("ProfileEd", Descriptions(file)[1]) \in DOMAIN AtaOf
             PROVE  "other edition" \notin WarningsOf(report.messages)
  BY DEF EditionHonoured
<1>1. PICK f, e : f = file /\ e = QuotedValue("ProfileEd", Descriptions(file)[1])
  OBVIOUS
<1>2. Declares(f, e)
  BY <1>1 DEF Declares
<1>3. IsMetafile(f) /\ report.messages = Validate(f, CreateValidator(report.effective)).messages
      /\ report.effective = EffectiveProfile(f, "ata")
  BY <1>1, ReportedOf
<1>4. report.effective = <<"ATA", e>>
  BY <1>2, <1>3, EditionFound
<1> QED
  BY <1>2, <1>3, <1>4, EditionRespected

\* The edition that a file declares is the edition that it is validated against
\* (opencgm_validate_profile): validateProfileDeclarationATA reports no other.
THEOREM EditionsAlwaysHonoured == Spec => []EditionHonoured
BY ReportsFollow, EditionHonouredIn, PTL
-----------------------------------------------------------------------------
(***************************************************************************)
(* Symbols.                                                                *)
(***************************************************************************)

\* No other rule asks for the libraries of symbols.
LEMMA TroubleIsOfSymbols ==
  ASSUME NEW f, IsMetafile(f), NEW m, NEW U, NEW Q, NEW allow, SaysOf(f, m, U, allow, Q)
  PROVE  Trouble(Heard(m)) <=> Astray(f.commands, Len(f.commands))
<1>1. PICK V, W, s : V = Usual \cup {"prohibited"} /\ W = Usual \cup {"segment prohibited"} /\ s = f.commands
  OBVIOUS
<1>2. /\ Heard(ProhibitedElements(s, allow)) \subseteq Things(V)
      /\ Heard(ElementsOfSet(s, allow)) \subseteq Things(W)
      /\ Heard(TextsOf(s)) \subseteq Things(TextWords)
      /\ Heard(StructureRemarks(f)) \subseteq Things(AboutStructures)
      /\ Heard(RegionsOf(s)) \subseteq Things(RegionWords)
      /\ LargeFigures(f) \subseteq {<<"ERROR", "large figure">>}
  BY <1>1, PartsAre
<1>3. U \subseteq Things(Ordinary)
  BY DEF SaysOf
<1>4. ASSUME NEW what \in SymbolTrouble
      PROVE  /\ what \notin Ordinary /\ what \notin V /\ what \notin W /\ what \notin TextWords
             /\ what \notin AboutStructures /\ what \notin RegionWords
  <2>1. what \in SpecialWarnings
    BY DEF SymbolTrouble, SpecialWarnings
  <2>2. what \notin Usual
    BY <2>1, UsualIsUsual
  <2>3. what # "other edition" /\ what # "prohibited" /\ what # "segment prohibited"
    BY DEF SymbolTrouble
  <2>4. what \notin TextWords /\ what \notin RegionWords
    BY DEF SymbolTrouble, TextWords, RegionWords
  <2>5. what \notin StructureErrors
    BY DEF SymbolTrouble, StructureErrors
  <2> QED
    BY <1>1, <2>2, <2>3, <2>4, <2>5 DEF Ordinary, AboutStructures
<1>5. ASSUME NEW H, NEW X, H \subseteq Things(X), \A what \in SymbolTrouble : what \notin X PROVE ~Trouble(H)
  BY <1>5 DEF Things, Trouble
<1>6. /\ ~Trouble(Heard(ProhibitedElements(s, allow))) /\ ~Trouble(Heard(ElementsOfSet(s, allow)))
      /\ ~Trouble(Heard(TextsOf(s))) /\ ~Trouble(Heard(StructureRemarks(f))) /\ ~Trouble(Heard(RegionsOf(s)))
      /\ ~Trouble(U)
  BY ONLY <1>2, <1>3, <1>4, <1>5
<1>7. ~Trouble(LargeFigures(f))
  <2>1. \A what : <<"WARNING", what>> \notin LargeFigures(f)
    BY ONLY <1>2
  <2> QED
    BY <2>1 DEF Trouble
<1>8. ~Trouble(WebCgmHeard(f, allow))
  <2>1. PICK A, B, C, D, E, G : /\ A = Heard(ProhibitedElements(s, allow)) /\ B = Heard(ElementsOfSet(s, allow))
                                /\ C = Heard(TextsOf(s)) /\ D = Heard(StructureRemarks(f)) /\ E = Heard(RegionsOf(s))
                                /\ G = LargeFigures(f)
    OBVIOUS
  <2>2. ~Trouble(A) /\ ~Trouble(B) /\ ~Trouble(C) /\ ~Trouble(D) /\ ~Trouble(E) /\ ~Trouble(G)
    BY <1>6, <1>7, <2>1
  <2>3. WebCgmHeard(f, allow) = A \cup B \cup C \cup D \cup E \cup G
    BY <1>1, <2>1 DEF WebCgmHeard
  <2>4. ~Trouble(A \cup B \cup C \cup D \cup E \cup G)
    BY ONLY <2>2 DEF Trouble
  <2> QED
    BY <2>3, <2>4
<1>9. Heard(m) = U \cup WebCgmHeard(f, allow) \cup Q /\ (Trouble(Q) <=> Astray(f.commands, Len(f.commands)))
  BY DEF SaysOf, Hearings
<1>10. PICK A : A = WebCgmHeard(f, allow) /\ ~Trouble(A)
  BY <1>8
<1>11. Trouble(U \cup A \cup Q) <=> Trouble(Q)
  BY ONLY <1>6, <1>10 DEF Trouble
<1>12. Heard(m) = U \cup A \cup Q
  BY <1>9, <1>10
<1> QED
  BY <1>9, <1>11, <1>12

LEMMA SymbolsCheckedIn ==
  ASSUME ReportInv
  PROVE  SymbolsChecked
<1> SUFFICES ASSUME Reported PROVE SymbolsChecked
  BY DEF SymbolsChecked
<1>1. PICK f, p, m : f = file /\ p = report.effective /\ m = report.messages
  OBVIOUS
<1>2. IsMetafile(f) /\ p[1] \in KnownProfiles /\ m = Validate(f, CreateValidator(p)).messages
  BY <1>1, ReportedOf
<1>3. PICK U, Q, allow : SaysOf(f, Validate(f, CreateValidator(p)).messages, U, allow, Q)
  BY <1>2, ValidatedSays
<1>4. Trouble(Heard(m)) <=> Astray(f.commands, Len(f.commands))
  BY <1>2, <1>3, TroubleIsOfSymbols
<1>5. WarningsOf(m) \cap SymbolTrouble = {} <=> ~Trouble(Heard(m))
  <2>1. \A what : what \in WarningsOf(m) <=> <<"WARNING", what>> \in Heard(m)
    BY SaidIsHeard DEF WarningsOf
  <2> QED
    BY <2>1 DEF Trouble
<1>6. PICK s, n : s = f.commands /\ n = Len(s) /\ n \in Nat /\ DOMAIN s = 1..n /\ s = Commands
  BY <1>1, <1>2, Lists DEF IsMetafile, Commands
<1>7. ASSUME NEW i \in 1..n PROVE LibrariesAt(i) = LibrariesUpTo(s, i - 1)
  <2>1. {j \in Of(SymbolLibraryList) : j < i} = {j \in 1..(i - 1) : s[j].code = SymbolLibraryList}
    BY <1>6 DEF Of
  <2> QED
    BY <1>6, <2>1 DEF LibrariesAt, LibrariesUpTo
<1>8. ASSUME NEW i \in 1..n PROVE Located(i) <=> Serves(LibrariesUpTo(s, i - 1), s[i].index)
  BY <1>6, <1>7 DEF Located, Serves
<1>9. Of(PolySymbol) = {i \in 1..n : s[i].code = PolySymbol}
  BY <1>6 DEF Of
<1>10. (\A i \in Of(PolySymbol) : Located(i)) <=> ~Astray(s, n)
  BY <1>8, <1>9 DEF Astray, Unserved
<1> QED
  BY <1>1, <1>4, <1>5, <1>6, <1>10 DEF SymbolsChecked, SymbolTrouble

\* Whichever list of libraries is in force and whatever has been warned of
\* before (validateSymbolReferences), a file without a warning about symbols
\* has none that is lost, and a file with one has.
THEOREM SymbolsAlwaysChecked == Spec => []SymbolsChecked
BY ReportsFollow, SymbolsCheckedIn, PTL
-----------------------------------------------------------------------------
(***************************************************************************)
(* Nesting.                                                                *)
(***************************************************************************)

Begins(s, code, i) == Cardinality({j \in 1..i : s[j].code = code})

\* How many structures have been begun and not ended after i commands.
Nested(s, i) == Begins(s, BeginAps, i) - Begins(s, EndAps, i)

LEMMA BeginsNext ==
  ASSUME NEW s, NEW code, NEW i \in Nat
  PROVE  /\ Begins(s, code, 0) = 0 /\ Begins(s, code, i) \in Nat
         /\ Begins(s, code, i + 1) = IF s[i + 1].code = code THEN Begins(s, code, i) + 1 ELSE Begins(s, code, i)
<1>1. PICK T, U : T = {j \in 1..i : s[j].code = code} /\ U = {j \in 1..(i + 1) : s[j].code = code}
  OBVIOUS
<1>2. IsFiniteSet(T)
  <2>1. PICK V : V = 1..i /\ IsFiniteSet(V)
    BY FS_Interval
  <2>2. T \subseteq V
    BY <1>1, <2>1
  <2> QED
    BY <2>1, <2>2, FS_Subset
<1>3. i + 1 \notin T /\ U = IF s[i + 1].code = code THEN T \cup {i + 1} ELSE T
  <2>1. 1..(i + 1) = (1..i) \cup {i + 1} /\ i + 1 \notin 1..i
    OBVIOUS
  <2>2. \A k : k \in U <=> k \in T \/ (k = i + 1 /\ s[i + 1].code = code)
    BY <1>1, <2>1
  <2>3. i + 1 \notin T
    BY <1>1, <2>1
  <2>4. CASE s[i + 1].code = code
    BY <2>2, <2>3, <2>4
  <2>5. CASE s[i + 1].code # code
    BY <2>2, <2>3, <2>5
  <2> QED
    BY <2>4, <2>5
<1>4. Cardinality(T) \in Nat
  BY <1>2, FS_CardinalityType
<1>5. Cardinality(T \cup {i + 1}) = Cardinality(T) + 1
  BY <1>2, <1>3, FS_AddElement
<1>6. Begins(s, code, 0) = 0
  <2>1. {j \in 1..0 : s[j].code = code} = {}
    OBVIOUS
  <2> QED
    BY <2>1, FS_EmptySet DEF Begins
<1> QED
  BY <1>1, <1>3, <1>4, <1>5, <1>6 DEF Begins

LEMMA NestedNext ==
  ASSUME NEW s, NEW i \in Nat
  PROVE  /\ Nested(s, 0) = 0 /\ Nested(s, i) \in Int
         /\ s[i + 1].code = BeginAps => Nested(s, i + 1) = Nested(s, i) + 1
         /\ s[i + 1].code = EndAps => Nested(s, i + 1) = Nested(s, i) - 1
         /\ s[i + 1].code \notin {BeginAps, EndAps} => Nested(s, i + 1) = Nested(s, i)
<1>1. BeginAps # EndAps
  BY DEF BeginAps, EndAps
<1>2. PICK a, b, x, y : /\ a = Begins(s, BeginAps, i) /\ b = Begins(s, EndAps, i)
                        /\ x = Begins(s, BeginAps, i + 1) /\ y = Begins(s, EndAps, i + 1)
  OBVIOUS
<1>3. /\ a \in Nat /\ b \in Nat
      /\ x = (IF s[i + 1].code = BeginAps THEN a + 1 ELSE a)
      /\ y = (IF s[i + 1].code = EndAps THEN b + 1 ELSE b)
  BY <1>2, BeginsNext
<1>4. Nested(s, i) = a - b /\ Nested(s, i + 1) = x - y
  BY <1>2 DEF Nested
<1>5. Nested(s, 0) = 0
  BY BeginsNext DEF Nested
<1> QED
  BY <1>1, <1>3, <1>4, <1>5

\* The structures that have been begun and not ended, by where they begin.
StillOpen(s, i) == {j \in 1..i : s[j].code = BeginAps /\ \A k \in j..i : Nested(s, k) >= Nested(s, j)}

LEMMA OpenNext ==
  ASSUME NEW s, NEW i \in Nat, NEW j
  PROVE  j \in StillOpen(s, i + 1)
           <=> \/ j \in StillOpen(s, i) /\ Nested(s, j) <= Nested(s, i + 1)
               \/ j = i + 1 /\ s[i + 1].code = BeginAps
<1>1. 1..(i + 1) = (1..i) \cup {i + 1} /\ i + 1 \notin 1..i
  OBVIOUS
<1>2. Nested(s, i + 1) \in Int
  BY NestedNext
<1>3. CASE j \in 1..i
  <2>1. j..(i + 1) = (j..i) \cup {i + 1} /\ j # i + 1
    BY <1>3
  <2>2. Nested(s, j) \in Int
    BY <1>3, NestedNext
  <2> QED
    BY <1>1, <1>2, <1>3, <2>1, <2>2 DEF StillOpen
<1>4. CASE j = i + 1
  <2>1. \A k \in j..(i + 1) : k = j
    BY <1>4
  <2> QED
    BY <1>1, <1>2, <1>4, <2>1 DEF StillOpen
<1>5. CASE j \notin 1..(i + 1)
  BY <1>1, <1>5 DEF StillOpen
<1> QED
  BY <1>1, <1>3, <1>4, <1>5

LEMMA OpenAre ==
  ASSUME NEW s, NEW i \in Nat, NEW j \in StillOpen(s, i)
  PROVE  /\ j \in 1..i /\ s[j].code = BeginAps /\ Nested(s, j) \in Int /\ Nested(s, j) <= Nested(s, i)
         /\ \A l \in StillOpen(s, i) : j < l => Nested(s, j) < Nested(s, l)
<1>1. j \in 1..i /\ s[j].code = BeginAps /\ \A k \in j..i : Nested(s, k) >= Nested(s, j)
  BY DEF StillOpen
<1>2. Nested(s, j) \in Int /\ Nested(s, i) \in Int
  BY <1>1, NestedNext
<1>3. Nested(s, j) <= Nested(s, i)
  BY <1>1, <1>2
<1>4. ASSUME NEW l \in StillOpen(s, i), j < l PROVE Nested(s, j) < Nested(s, l)
  <2>1. l \in 1..i /\ s[l].code = BeginAps
    BY DEF StillOpen
  <2>2. PICK k \in Nat : l = k + 1
    BY <2>1
  <2>3. k \in j..i /\ Nested(s, k) \in Int /\ Nested(s, l) = Nested(s, k) + 1
    BY <1>1, <1>4, <2>1, <2>2, NestedNext
  <2>4. Nested(s, k) >= Nested(s, j)
    BY <1>1, <2>3
  <2> QED
    BY <1>2, <2>3, <2>4
<1> QED
  BY <1>1, <1>2, <1>3, <1>4

\* At each depth a structure is open.
LEMMA OpenAtEach ==
  ASSUME NEW s, NEW n \in Nat, NEW k \in 1..Nested(s, n)
  PROVE  \E j \in StillOpen(s, n) : Nested(s, j) = k
<1> DEFINE Good(i) == \A d \in 1..Nested(s, i) : \E j \in StillOpen(s, i) : Nested(s, j) = d
           G == {i \in 0..n : Good(i)}
<1>1. 0 \in G
  <2>1. Nested(s, 0) = 0
    BY NestedNext
  <2> QED
    BY <2>1
<1>2. ASSUME NEW i \in 1..n, i - 1 \in G PROVE i \in G
  <2>1. PICK m : m = i - 1 /\ m \in Nat /\ i = m + 1 /\ m \in G
    BY <1>2
  <2>2. Nested(s, m) \in Int /\ Nested(s, i) \in Int
    BY <2>1, NestedNext
  <2>3. ASSUME NEW d \in 1..Nested(s, i) PROVE \E j \in StillOpen(s, i) : Nested(s, j) = d
    <3>1. CASE d <= Nested(s, m)
      <4>1. PICK j \in StillOpen(s, m) : Nested(s, j) = d
        BY <2>1, <2>2, <2>3, <3>1
      <4>2. Nested(s, j) <= Nested(s, m + 1)
        BY <2>1, <2>2, <2>3, <4>1
      <4>3. j \in StillOpen(s, m + 1)
        BY <2>1, <4>1, <4>2, OpenNext
      <4> QED
        BY <2>1, <4>1, <4>3
    <3>2. CASE d > Nested(s, m)
      <4>1. s[i].code = BeginAps /\ Nested(s, i) = Nested(s, m) + 1
        BY <2>1, <2>2, <2>3, <3>2, NestedNext
      <4>2. Nested(s, i) = d
        BY <2>2, <2>3, <3>2, <4>1
      <4>3. i \in StillOpen(s, m + 1)
        BY <2>1, <4>1, OpenNext
      <4> QED
        BY <2>1, <4>2, <4>3
    <3> QED
      BY <2>2, <2>3, <3>1, <3>2
  <2> QED
    BY <2>3
<1>3. 0..n \subseteq G
  <2> HIDE DEF G
  <2> QED
    BY <1>1, <1>2, HoldsThroughout
<1>4. n \in G
  BY <1>3
<1> QED
  BY <1>4

\* The innermost is as deep as the commands are.
LEMMA Innermost ==
  ASSUME NEW s, NEW i \in Nat, Nested(s, i) > 0
  PROVE  /\ Max(StillOpen(s, i)) \in StillOpen(s, i) /\ Nested(s, Max(StillOpen(s, i))) = Nested(s, i)
         /\ \A j \in StillOpen(s, i) : Nested(s, j) = Nested(s, i) => j = Max(StillOpen(s, i))
<1>1. PICK S, d : S = StillOpen(s, i) /\ d = Nested(s, i) /\ d \in Int /\ d > 0
  BY NestedNext
<1>2. PICK j \in S : Nested(s, j) = d
  BY <1>1, OpenAtEach
<1>3. \A l \in S : l \in Nat /\ Nested(s, l) \in Int /\ Nested(s, l) <= d /\ (j < l => Nested(s, j) < Nested(s, l))
  BY <1>1, <1>2, OpenAre
<1>4. \A l \in S : j >= l
  BY <1>1, <1>2, <1>3
<1>5. ASSUME NEW m \in S, \A l \in S : m >= l PROVE m = j
  BY <1>2, <1>3, <1>4, <1>5
<1>6. Max(S) = j
  BY <1>2, <1>4, <1>5 DEF Max
<1>7. ASSUME NEW l \in S, Nested(s, l) = d PROVE l = j
  <2>1. l < j => Nested(s, l) < Nested(s, j)
    BY <1>1, <1>2, OpenAre
  <2> QED
    BY <1>1, <1>2, <1>3, <1>4, <1>7, <2>1
<1> QED
  BY <1>1, <1>2, <1>6, <1>7
-----------------------------------------------------------------------------
(***************************************************************************)
(* What is held against structures.                                        *)
(***************************************************************************)

Innocent(m) == \A what \in StructureErrors : <<"ERROR", what>> \notin Heard(m)

LEMMA InnocentBoth ==
  ASSUME NEW W, NEW m, m \in Words(W), NEW k, k \in Words(W)
  PROVE  Innocent(m \o k) <=> Innocent(m) /\ Innocent(k)
<1>1. IsList(m) /\ IsList(k)
  BY HeardAbout
<1>2. Heard(m \o k) = Heard(m) \cup Heard(k)
  BY <1>1, HeardBoth
<1> QED
  BY <1>2 DEF Innocent

LEMMA InnocentOf ==
  /\ Innocent(<<>>) /\ \A what : Innocent(Warn(what)) /\ Innocent(Tell(what))
  /\ \A what \in StructureErrors : ~Innocent(Err(what))
  /\ \A what : what \notin StructureErrors => Innocent(Err(what))
  /\ \A c, m : Innocent(If(c, m)) <=> (c => Innocent(m))
<1>1. Heard(<<>>) = {}
  BY HeardOf
<1>2. ASSUME NEW what PROVE /\ Innocent(Warn(what)) /\ Innocent(Tell(what))
                            /\ what \in StructureErrors => ~Innocent(Err(what))
                            /\ what \notin StructureErrors => Innocent(Err(what))
  <2>1. /\ Heard(Err(what)) = {<<"ERROR", what>>} /\ Heard(Warn(what)) = {<<"WARNING", what>>}
        /\ Heard(Tell(what)) = {<<"INFO", what>>}
    BY HeardOf
  <2> QED
    BY <2>1 DEF Innocent
<1>3. ASSUME NEW c, NEW m PROVE Innocent(If(c, m)) <=> (c => Innocent(m))
  BY <1>1 DEF If, Innocent
<1> QED
  BY <1>1, <1>2, <1>3 DEF Innocent

LEMMA InnocentTimes ==
  ASSUME NEW n \in Nat, NEW what \in StructureErrors
  PROVE  Innocent(Times(n, Err(what))) <=> n = 0
<1>1. Times(n, Err(what)) = [i \in 1..n |-> Err(what)[1]]
  BY DEF Times
<1>2. Err(what)[1].severity = "ERROR" /\ Err(what)[1].what = what
  BY DEF Err, Say
<1>3. Heard(Times(n, Err(what))) = {<<"ERROR", what>> : i \in 1..n}
  BY <1>1, <1>2 DEF Heard
<1>4. CASE n = 0
  BY <1>3, <1>4 DEF Innocent
<1>5. CASE n # 0
  <2>1. <<"ERROR", what>> \in Heard(Times(n, Err(what)))
    BY <1>3, <1>5, 1 \in 1..n
  <2> QED
    BY <1>5, <2>1 DEF Innocent
<1> QED
  BY <1>4, <1>5

\* Its errors are about structures.
Accuses(m) == IsList(m) /\ \A what : <<"ERROR", what>> \in Heard(m) => what \in StructureErrors

LEMMA AccusesAre ==
  /\ Accuses(<<>>) /\ \A what : Accuses(Warn(what))
  /\ \A what \in StructureErrors : Accuses(Err(what))
  /\ \A c, m : Accuses(m) => Accuses(If(c, m))
  /\ \A m, k : Accuses(m) /\ Accuses(k) => Accuses(m \o k)
<1>1. Accuses(<<>>)
  BY HeardOf, SaidNothing, HeardAbout DEF Accuses
<1>2. ASSUME NEW what PROVE Accuses(Warn(what)) /\ (what \in StructureErrors => Accuses(Err(what)))
  <2>1. Err(what) \in Words({what}) /\ Warn(what) \in Words({what})
    BY SaidOne
  <2>2. IsList(Err(what)) /\ IsList(Warn(what))
    BY <2>1, HeardAbout
  <2>3. Heard(Err(what)) = {<<"ERROR", what>>} /\ Heard(Warn(what)) = {<<"WARNING", what>>}
    BY HeardOf
  <2> QED
    BY <2>2, <2>3 DEF Accuses
<1>3. \A c, m : Accuses(m) => Accuses(If(c, m))
  BY <1>1 DEF If
<1>4. ASSUME NEW m, NEW k, Accuses(m), Accuses(k) PROVE Accuses(m \o k)
  <2>1. IsList(m \o k) /\ Heard(m \o k) = Heard(m) \cup Heard(k)
    BY <1>4, HeardBoth DEF Accuses
  <2> QED
    BY <1>4, <2>1 DEF Accuses
<1> QED
  BY <1>1, <1>2, <1>3, <1>4

LEMMA LinkAccuses ==
  ASSUME NEW link
  PROVE  Accuses(ValidateLinkUri(link))
<1>1. {"link blank", "link spaces", "link hashes", "link fragment", "link fragment name", "link scheme"} \subseteq StructureErrors
  BY DEF StructureErrors
<1>2. PICK k1, k2, k3, k4, k5, base :
        /\ k1 = If(link.spaces, Err("link spaces"))
        /\ k2 = If(link.hashes > 1, Err("link hashes"))
        /\ k3 = If(link.hashes = 1 /\ link.fragment = "", Err("link fragment"))
        /\ k4 = If(link.hashes > 1 \/ (link.hashes = 1 /\ link.fragment # "" /\ ~IsName(link.fragment)),
                   Err("link fragment name"))
        /\ k5 = If(link.base # "none" /\ link.backslash, Warn("link backslash"))
        /\ base = CASE link.base = "bad scheme" -> Err("link scheme")
                    [] link.base = "odd" -> Warn("link relative")
                    [] OTHER -> <<>>
  OBVIOUS
<1>3. /\ Accuses(Err("link blank")) /\ Accuses(Err("link spaces")) /\ Accuses(Err("link hashes"))
      /\ Accuses(Err("link fragment")) /\ Accuses(Err("link fragment name")) /\ Accuses(Err("link scheme"))
      /\ Accuses(Warn("link relative")) /\ Accuses(Warn("link backslash")) /\ Accuses(<<>>)
  BY <1>1, AccusesAre
<1>4. Accuses(base)
  BY <1>2, <1>3
<1>5. Accuses(k1) /\ Accuses(k2) /\ Accuses(k3) /\ Accuses(k4) /\ Accuses(k5)
  BY <1>2, <1>3 DEF If
<1>6. Accuses(k1 \o k2 \o k3 \o k4 \o base \o k5)
  BY <1>4, <1>5, AccusesAre
<1>7. ValidateLinkUri(link) = IF link.blank THEN Err("link blank") ELSE k1 \o k2 \o k3 \o k4 \o base \o k5
  <2>1. ValidateLinkUri(link)
          = IF link.blank THEN Err("link blank")
            ELSE If(link.spaces, Err("link spaces"))
                 \o If(link.hashes > 1, Err("link hashes"))
                 \o If(link.hashes = 1 /\ link.fragment = "", Err("link fragment"))
                 \o If(link.hashes > 1 \/ (link.hashes = 1 /\ link.fragment # "" /\ ~IsName(link.fragment)),
                       Err("link fragment name"))
                 \o (CASE link.base = "bad scheme" -> Err("link scheme")
                       [] link.base = "odd" -> Warn("link relative")
                       [] OTHER -> <<>>)
                 \o If(link.base # "none" /\ link.backslash, Warn("link backslash"))
    BY Zenon DEF ValidateLinkUri
  <2> QED
    BY <1>2, <2>1, Zenon
<1> QED
  BY <1>3, <1>6, <1>7

\* What passes a test of severity.
LEMMA SeverityHeard ==
  ASSUME NEW m, IsList(m), NEW severity, NEW other, NEW what
  PROVE  <<other, what>> \in Heard(OfSeverity(severity, m)) <=> other = severity /\ <<other, what>> \in Heard(m)
<1>1. PICK n : n = Len(m) /\ n \in Nat /\ DOMAIN m = 1..n
  BY Lists
<1>2. PICK ss : ss = [i \in 1..n |-> IF m[i].severity = severity THEN <<m[i]>> ELSE <<>>]
  OBVIOUS
<1>3. ss = [j \in 1..n |-> ss[j]] /\ \A j \in 1..n : ss[j] = <<m[j]>> \/ ss[j] = <<>>
  BY <1>2
<1>4. ASSUME NEW j \in 1..n PROVE IsList(ss[j])
  <2>1. PICK x : x = m[j]
    OBVIOUS
  <2>2. <<x>> \in Seq({x}) /\ <<>> \in Seq({x})
    OBVIOUS
  <2> QED
    BY <1>3, <2>1, <2>2, ListOf
<1>5. OfSeverity(severity, m) = Concatenation(ss)
  BY <1>1, <1>2 DEF OfSeverity, Those
<1>6. Heard(Concatenation(ss)) = UNION {Heard(ss[j]) : j \in 1..n}
  BY <1>1, <1>3, <1>4, HeardOfEach
<1>7. PICK t : t = <<other, what>>
  OBVIOUS
<1>8. ASSUME NEW j \in 1..n
      PROVE  t \in Heard(ss[j]) <=> m[j].severity = severity /\ t = <<m[j].severity, m[j].what>>
  <2>1. CASE m[j].severity = severity
    <3>1. ss[j] = <<m[j]>>
      BY <1>2, <2>1
    <3>2. Heard(ss[j]) = {<<m[j].severity, m[j].what>>}
      BY <3>1 DEF Heard
    <3> QED
      BY <2>1, <3>2
  <2>2. CASE m[j].severity # severity
    <3>1. ss[j] = <<>>
      BY <1>2, <2>2
    <3> QED
      BY <2>2, <3>1, HeardOf
  <2> QED
    BY <2>1, <2>2
<1>9. t \in Heard(m) <=> \E j \in 1..n : t = <<m[j].severity, m[j].what>>
  BY <1>1 DEF Heard
<1>10. t \in Heard(OfSeverity(severity, m)) <=> \E j \in 1..n : t \in Heard(ss[j])
  BY <1>5, <1>6
<1>11. \A j \in 1..n : t = <<m[j].severity, m[j].what>> => (m[j].severity = severity <=> other = severity)
  BY <1>7
<1> QED
  BY <1>7, <1>8, <1>9, <1>10, <1>11

\* A link without an error is one that nothing is held against.
LEMMA LinkInnocent ==
  ASSUME NEW link
  PROVE  /\ Innocent(OfSeverity("ERROR", ValidateLinkUri(link))) <=> IsValidLink(link)
         /\ Innocent(OfSeverity("WARNING", ValidateLinkUri(link)))
<1>1. PICK m : m = ValidateLinkUri(link) /\ Accuses(m)
  BY LinkAccuses
<1>2. IsList(m) /\ \A what : <<"ERROR", what>> \in Heard(m) => what \in StructureErrors
  BY <1>1 DEF Accuses
<1>3. Innocent(OfSeverity("WARNING", m))
  <2>1. \A what : <<"ERROR", what>> \notin Heard(OfSeverity("WARNING", m))
    BY <1>2, SeverityHeard, "ERROR" # "WARNING"
  <2> QED
    BY <2>1 DEF Innocent
<1>4. Innocent(OfSeverity("ERROR", m)) <=> \A what : <<"ERROR", what>> \notin Heard(m)
  BY <1>2, SeverityHeard DEF Innocent
<1>5. HasErrors(m) <=> \E what : <<"ERROR", what>> \in Heard(m)
  <2>1. ASSUME NEW i \in DOMAIN m, m[i].severity = "ERROR" PROVE \E what : <<"ERROR", what>> \in Heard(m)
    <3>1. PICK what : what = m[i].what
      OBVIOUS
    <3> QED
      BY <2>1, <3>1 DEF Heard
  <2>2. ASSUME NEW what, <<"ERROR", what>> \in Heard(m) PROVE \E i \in DOMAIN m : m[i].severity = "ERROR"
    BY <2>2 DEF Heard
  <2> QED
    BY <2>1, <2>2 DEF HasErrors
<1> QED
  BY <1>1, <1>3, <1>4, <1>5 DEF IsValidLink
-----------------------------------------------------------------------------
(***************************************************************************)
(* What a command does to the structures.                                  *)
(***************************************************************************)

LEMMA BeginJudged ==
  ASSUME NEW I, NEW T, NEW F, NEW s \in StructureStates(I, T, F), NEW c, NEW a, a = BeginStructure(s, c)
  PROVE  /\ a.open = Append(s.open, [id |-> c.id, type |-> c.type, hasBody |-> FALSE])
         /\ a.seen = (IF IsName(c.id) THEN s.seen \cup {c.id} ELSE s.seen) /\ a.links = s.links
         /\ Innocent(a.said) <=> Innocent(s.said) /\ IsName(c.id) /\ c.id \notin s.seen
<1>1. {"structure without identifier", "identifier", "duplicate identifier"} \subseteq StructureErrors \cap AboutStructures
  BY DEF AboutStructures, StructureErrors
<1>2. PICK W, O : W = Words(AboutStructures) /\ O = Open(I, T)
  OBVIOUS
<1>3. PICK open, seen, types, links, said :
        /\ s = StructureState(open, seen, types, links, said)
        /\ open \in Seq(O) /\ seen \in SUBSET I /\ types \in SUBSET T /\ links \in Seq(F) /\ said \in W
  BY <1>2, StructureStateFields
<1>4. s.open = open /\ s.seen = seen /\ s.types = types /\ s.links = links /\ s.said = said
  BY <1>3 DEF StructureState
<1>5. PICK e1, e2, e3 : /\ e1 = Err("structure without identifier") /\ e2 = Err("identifier")
                        /\ e3 = Err("duplicate identifier")
                        /\ e1 \in W /\ e2 \in W /\ e3 \in W /\ <<>> \in W
                        /\ ~Innocent(e1) /\ ~Innocent(e2) /\ ~Innocent(e3) /\ Innocent(<<>>)
  BY <1>1, <1>2, SaidOne, SaidNothing, InnocentOf
<1>6. PICK w : w = CASE c.id = "" -> e1
                     [] c.id # "" /\ ~IsName(c.id) -> e2
                     [] OTHER -> IF c.id \in seen THEN e3 ELSE <<>>
  OBVIOUS
<1>7. w \in W /\ (Innocent(w) <=> IsName(c.id) /\ c.id \notin seen)
  BY <1>5, <1>6, NoNameAssumption
<1>8. PICK x : x = [id |-> c.id, type |-> c.type, hasBody |-> FALSE]
  OBVIOUS
<1>9. PICK o, i, t, m : /\ o = Append(open, x) /\ i = (IF IsName(c.id) THEN seen \cup {c.id} ELSE seen)
                        /\ t = (IF c.type = "" THEN types ELSE types \cup {c.type}) /\ m = said \o w
  OBVIOUS
<1>10. a = [s EXCEPT !.open = o, !.seen = i, !.types = t, !.said = m]
  BY <1>4, <1>5, <1>6, <1>8, <1>9 DEF BeginStructure, If
<1>11. a.open = o /\ a.seen = i /\ a.links = links /\ a.said = m
  BY <1>3, <1>10 DEF StructureState
<1>12. Innocent(m) <=> Innocent(said) /\ Innocent(w)
  BY <1>2, <1>3, <1>7, <1>9, InnocentBoth
<1> QED
  BY <1>4, <1>7, <1>8, <1>9, <1>11, <1>12

LEMMA BodyJudged ==
  ASSUME NEW I, NEW T, NEW F, NEW s \in StructureStates(I, T, F), NEW a, a = BeginStructureBody(s)
  PROVE  /\ a.open = (IF Len(s.open) = 0 THEN s.open
                      ELSE [s.open EXCEPT ![Len(s.open)] = [s.open[Len(s.open)] EXCEPT !.hasBody = TRUE]])
         /\ a.seen = s.seen /\ a.links = s.links
         /\ Innocent(a.said) <=> Innocent(s.said) /\ Len(s.open) # 0
<1>1. "body without structure" \in StructureErrors \cap AboutStructures /\ "bodies" \in AboutStructures
  BY DEF AboutStructures, StructureErrors, Usual, UsualErrors, UsualWarnings
<1>2. PICK W, O : W = Words(AboutStructures) /\ O = Open(I, T)
  OBVIOUS
<1>3. PICK open, seen, types, links, said :
        /\ s = StructureState(open, seen, types, links, said)
        /\ open \in Seq(O) /\ seen \in SUBSET I /\ types \in SUBSET T /\ links \in Seq(F) /\ said \in W
  BY <1>2, StructureStateFields
<1>4. s.open = open /\ s.seen = seen /\ s.types = types /\ s.links = links /\ s.said = said
  BY <1>3 DEF StructureState
<1>5. PICK e, w : /\ e = Err("body without structure")
                  /\ w = If(open[Len(open)].hasBody, Warn("bodies"))
  OBVIOUS
<1>6. e \in W /\ ~Innocent(e) /\ w \in W /\ Innocent(w)
  BY <1>1, <1>2, <1>5, SaidOne, SaidNothing, InnocentOf DEF If
<1>7. /\ Innocent(said \o e) <=> Innocent(said) /\ Innocent(e)
      /\ Innocent(said \o w) <=> Innocent(said) /\ Innocent(w)
  BY <1>2, <1>3, <1>6, InnocentBoth
<1>8. CASE Len(open) = 0
  <2>1. PICK m : m = said \o e
    OBVIOUS
  <2>2. a = [s EXCEPT !.said = m]
    BY <1>4, <1>5, <1>8, <2>1 DEF BeginStructureBody
  <2>3. a.open = open /\ a.seen = seen /\ a.links = links /\ a.said = m
    BY <1>3, <2>2 DEF StructureState
  <2> QED
    BY <1>4, <1>6, <1>7, <1>8, <2>1, <2>3
<1>9. CASE Len(open) # 0
  <2>1. PICK m, o : /\ m = said \o w
                    /\ o = [open EXCEPT ![Len(open)] = [open[Len(open)] EXCEPT !.hasBody = TRUE]]
    OBVIOUS
  <2>2. a = [s EXCEPT !.said = m, !.open = [open EXCEPT ![Len(open)] = [open[Len(open)] EXCEPT !.hasBody = TRUE]]]
    BY <1>4, <1>5, <1>9, <2>1 DEF BeginStructureBody
  <2>3. a = [s EXCEPT !.said = m, !.open = o]
    BY <2>1, <2>2
  <2>4. a.open = o /\ a.seen = seen /\ a.links = links /\ a.said = m
    BY <1>3, <2>3 DEF StructureState
  <2> QED
    BY <1>4, <1>6, <1>7, <1>9, <2>1, <2>4
<1> QED
  BY <1>8, <1>9

LEMMA EndJudged ==
  ASSUME NEW I, NEW T, NEW F, NEW s \in StructureStates(I, T, F), NEW a, a = EndStructure(s)
  PROVE  /\ a.open = (IF Len(s.open) = 0 THEN s.open ELSE SubSeq(s.open, 1, Len(s.open) - 1))
         /\ a.seen = s.seen /\ a.links = s.links
         /\ Innocent(a.said) <=> Innocent(s.said) /\ Len(s.open) # 0
<1>1. "end without structure" \in StructureErrors \cap AboutStructures /\ "no body" \in AboutStructures
  BY DEF AboutStructures, StructureErrors, Usual, UsualErrors, UsualWarnings
<1>2. PICK W, O : W = Words(AboutStructures) /\ O = Open(I, T)
  OBVIOUS
<1>3. PICK open, seen, types, links, said :
        /\ s = StructureState(open, seen, types, links, said)
        /\ open \in Seq(O) /\ seen \in SUBSET I /\ types \in SUBSET T /\ links \in Seq(F) /\ said \in W
  BY <1>2, StructureStateFields
<1>4. s.open = open /\ s.seen = seen /\ s.types = types /\ s.links = links /\ s.said = said
  BY <1>3 DEF StructureState
<1>5. PICK e, w : /\ e = Err("end without structure")
                  /\ w = If(~open[Len(open)].hasBody, Warn("no body"))
  OBVIOUS
<1>6. e \in W /\ ~Innocent(e) /\ w \in W /\ Innocent(w)
  BY <1>1, <1>2, <1>5, SaidOne, SaidNothing, InnocentOf DEF If
<1>7. /\ Innocent(said \o e) <=> Innocent(said) /\ Innocent(e)
      /\ Innocent(said \o w) <=> Innocent(said) /\ Innocent(w)
  BY <1>2, <1>3, <1>6, InnocentBoth
<1>8. CASE Len(open) = 0
  <2>1. PICK m : m = said \o e
    OBVIOUS
  <2>2. a = [s EXCEPT !.said = m]
    BY <1>4, <1>5, <1>8, <2>1 DEF EndStructure
  <2>3. a.open = open /\ a.seen = seen /\ a.links = links /\ a.said = m
    BY <1>3, <2>2 DEF StructureState
  <2> QED
    BY <1>4, <1>6, <1>7, <1>8, <2>1, <2>3
<1>9. CASE Len(open) # 0
  <2>1. PICK m, o : m = said \o w /\ o = SubSeq(open, 1, Len(open) - 1)
    OBVIOUS
  <2>2. a = [s EXCEPT !.said = m, !.open = o]
    BY <1>4, <1>5, <1>9, <2>1 DEF EndStructure
  <2>3. a.open = o /\ a.seen = seen /\ a.links = links /\ a.said = m
    BY <1>3, <2>2 DEF StructureState
  <2> QED
    BY <1>4, <1>6, <1>7, <1>9, <2>1, <2>3
<1> QED
  BY <1>8, <1>9

LEMMA AttributeJudged ==
  ASSUME NEW I, NEW T, NEW F, NEW s \in StructureStates(I, T, F), NEW c, NEW a, a = StructureAttribute(s, c)
  PROVE  /\ a.open = s.open /\ a.seen = s.seen
         /\ a.links = (IF IsLinkUri(c) /\ IsLocalLink(c.link) THEN Append(s.links, c.link.fragment) ELSE s.links)
         /\ Innocent(a.said) <=> /\ Innocent(s.said)
                                 /\ Len(s.open) # 0 => ~s.open[Len(s.open)].hasBody
                                 /\ IsLinkUri(c) => IsValidLink(c.link)
<1>1. /\ "attribute after body" \in StructureErrors
      /\ {"attribute outside", "attribute after body", "link on type"} \subseteq AboutStructures
  BY DEF AboutStructures, StructureErrors, Usual, UsualErrors, UsualWarnings
<1>2. PICK W, O : W = Words(AboutStructures) /\ O = Open(I, T)
  OBVIOUS
<1>3. PICK open, seen, types, links, said :
        /\ s = StructureState(open, seen, types, links, said)
        /\ open \in Seq(O) /\ seen \in SUBSET I /\ types \in SUBSET T /\ links \in Seq(F) /\ said \in W
  BY <1>2, StructureStateFields
<1>4. s.open = open /\ s.seen = seen /\ s.types = types /\ s.links = links /\ s.said = said
  BY <1>3 DEF StructureState
<1>5. PICK found : found = (IF IsLinkUri(c) THEN ValidateLinkUri(c.link) ELSE <<>>) /\ found \in W
  BY <1>2, LinkSaid, SaidNothing
<1>6. PICK errors, warnings : /\ errors = OfSeverity("ERROR", found) /\ warnings = OfSeverity("WARNING", found)
                              /\ errors \in W /\ warnings \in W
  BY <1>2, <1>5, SeverityAre
<1>7. Innocent(warnings) /\ (Innocent(errors) <=> (IsLinkUri(c) => IsValidLink(c.link)))
  <2>1. CASE IsLinkUri(c)
    BY <1>5, <1>6, <2>1, LinkInnocent
  <2>2. CASE ~IsLinkUri(c)
    <3>1. found = <<>>
      BY <1>5, <2>2
    <3>2. \A severity, what : <<"ERROR", what>> \notin Heard(OfSeverity(severity, found))
      <4>1. IsList(found) /\ Heard(found) = {}
        BY <1>5, <3>1, HeardOf, HeardAbout, SaidNothing
      <4> QED
        BY <4>1, SeverityHeard
    <3> QED
      BY <1>6, <2>2, <3>2 DEF Innocent
  <2> QED
    BY <2>1, <2>2
<1>8. PICK k1, k2, k3 : /\ k1 = If(open[Len(open)].hasBody, Err("attribute after body"))
                        /\ k2 = If(IsLinkUri(c) /\ open[Len(open)].type \notin {"", "linkuri", "hotspot"}, Warn("link on type"))
                        /\ k3 = Warn("attribute outside")
  OBVIOUS
<1>9. k1 \in W /\ k2 \in W /\ k3 \in W
  BY <1>1, <1>2, <1>8, SaidOne, SaidNothing DEF If
<1>10. Innocent(k2) /\ Innocent(k3) /\ (Innocent(k1) <=> ~open[Len(open)].hasBody)
  BY <1>1, <1>8, InnocentOf DEF If
<1>11. PICK here : here = (IF Len(open) = 0 THEN k3 ELSE k1 \o k2) /\ here \in W
  BY <1>2, <1>9, SaidBoth
<1>12. Innocent(here) <=> (Len(open) # 0 => ~open[Len(open)].hasBody)
  <2>1. Innocent(k1 \o k2) <=> Innocent(k1) /\ Innocent(k2)
    BY <1>2, <1>9, InnocentBoth
  <2> QED
    BY <1>10, <1>11, <2>1
<1>13. PICK m1, m2, m : m1 = said \o here /\ m2 = m1 \o errors /\ m = m2 \o warnings
  OBVIOUS
<1>14. m1 \in W /\ m2 \in W
  BY <1>2, <1>3, <1>6, <1>11, <1>13, SaidBoth
<1>15. Innocent(m) <=> Innocent(said) /\ Innocent(here) /\ Innocent(errors) /\ Innocent(warnings)
  <2>1. Innocent(m) <=> Innocent(m2) /\ Innocent(warnings)
    BY <1>2, <1>6, <1>13, <1>14, InnocentBoth
  <2>2. Innocent(m2) <=> Innocent(m1) /\ Innocent(errors)
    BY <1>2, <1>6, <1>13, <1>14, InnocentBoth
  <2>3. Innocent(m1) <=> Innocent(said) /\ Innocent(here)
    BY <1>2, <1>3, <1>11, <1>13, InnocentBoth
  <2> QED
    BY <2>1, <2>2, <2>3
<1>16. PICK l : l = (IF IsLinkUri(c) /\ IsLocalLink(c.link) THEN Append(links, c.link.fragment) ELSE links)
  OBVIOUS
<1>17. a = [s EXCEPT !.links = l, !.said = m]
  <2>1. StructureAttribute(s, c)
          = [s EXCEPT !.links = (IF IsLinkUri(c) /\ IsLocalLink(c.link) THEN Append(s.links, c.link.fragment) ELSE s.links),
                      !.said = s.said \o (IF Len(s.open) = 0 THEN Warn("attribute outside")
                                          ELSE If(s.open[Len(s.open)].hasBody, Err("attribute after body"))
                                               \o If(IsLinkUri(c) /\ s.open[Len(s.open)].type \notin {"", "linkuri", "hotspot"},
                                                     Warn("link on type")))
                                \o OfSeverity("ERROR", IF IsLinkUri(c) THEN ValidateLinkUri(c.link) ELSE <<>>)
                                \o OfSeverity("WARNING", IF IsLinkUri(c) THEN ValidateLinkUri(c.link) ELSE <<>>)]
    BY DEF StructureAttribute
  <2> QED
    BY <1>4, <1>5, <1>6, <1>8, <1>11, <1>13, <1>16, <2>1, Zenon
<1>18. a.open = open /\ a.seen = seen /\ a.links = l /\ a.said = m
  BY <1>3, <1>17 DEF StructureState
<1> QED
  BY <1>4, <1>7, <1>12, <1>15, <1>16, <1>18

\* What no error is found in.
Blameless(st, c) ==
  /\ c.code = BeginAps => IsName(c.id) /\ c.id \notin st.seen
  /\ c.code \in {BeginApsBody, EndAps} => Len(st.open) # 0
  /\ c.code = ApsAttribute => /\ Len(st.open) # 0 => ~st.open[Len(st.open)].hasBody
                              /\ IsLinkUri(c) => IsValidLink(c.link)

NextOpen(open, c) ==
  IF c.code = BeginAps THEN Append(open, [id |-> c.id, type |-> c.type, hasBody |-> FALSE])
  ELSE IF c.code = BeginApsBody
  THEN IF Len(open) = 0 THEN open ELSE [open EXCEPT ![Len(open)] = [open[Len(open)] EXCEPT !.hasBody = TRUE]]
  ELSE IF c.code = EndAps THEN IF Len(open) = 0 THEN open ELSE SubSeq(open, 1, Len(open) - 1)
  ELSE open

NamedHere(c) == c.code = BeginAps /\ IsName(c.id)
LinkHere(c) == IsLinkUri(c) /\ IsLocalLink(c.link)

Judged(s, c, a) ==
  /\ a.open = NextOpen(s.open, c)
  /\ a.seen = (IF NamedHere(c) THEN s.seen \cup {c.id} ELSE s.seen)
  /\ a.links = (IF LinkHere(c) THEN Append(s.links, c.link.fragment) ELSE s.links)
  /\ Innocent(a.said) <=> Innocent(s.said) /\ Blameless(s, c)

LEMMA StepJudged ==
  ASSUME NEW I, NEW T, NEW F, NEW s \in StructureStates(I, T, F), NEW c, NEW a, a = StructureElements(s, c)
  PROVE  Judged(s, c, a)
<1>1. /\ BeginAps # BeginApsBody /\ BeginAps # EndAps /\ BeginAps # ApsAttribute
      /\ BeginApsBody # EndAps /\ BeginApsBody # ApsAttribute /\ EndAps # ApsAttribute
  BY DEF BeginAps, BeginApsBody, EndAps, ApsAttribute
<1>2. CASE c.code = BeginAps
  <2>1. a = BeginStructure(s, c)
    BY <1>1, <1>2, Zenon DEF StructureElements
  <2>2. ~LinkHere(c) /\ (NamedHere(c) <=> IsName(c.id))
    BY <1>1, <1>2 DEF LinkHere, IsLinkUri, NamedHere
  <2>3. NextOpen(s.open, c) = Append(s.open, [id |-> c.id, type |-> c.type, hasBody |-> FALSE])
    BY <1>2 DEF NextOpen
  <2>4. Blameless(s, c) <=> IsName(c.id) /\ c.id \notin s.seen
    BY <1>1, <1>2 DEF Blameless
  <2>5. /\ a.open = Append(s.open, [id |-> c.id, type |-> c.type, hasBody |-> FALSE])
        /\ a.seen = (IF IsName(c.id) THEN s.seen \cup {c.id} ELSE s.seen) /\ a.links = s.links
        /\ Innocent(a.said) <=> Innocent(s.said) /\ IsName(c.id) /\ c.id \notin s.seen
    BY <2>1, BeginJudged
  <2> QED
    BY <2>2, <2>3, <2>4, <2>5 DEF Judged
<1>3. CASE c.code = BeginApsBody
  <2>1. a = BeginStructureBody(s)
    BY <1>1, <1>3 DEF StructureElements
  <2>2. ~LinkHere(c) /\ ~NamedHere(c) /\ (Blameless(s, c) <=> Len(s.open) # 0)
    BY <1>1, <1>3 DEF LinkHere, IsLinkUri, NamedHere, Blameless
  <2>3. NextOpen(s.open, c) = (IF Len(s.open) = 0 THEN s.open
                               ELSE [s.open EXCEPT ![Len(s.open)] = [s.open[Len(s.open)] EXCEPT !.hasBody = TRUE]])
    BY <1>1, <1>3 DEF NextOpen
  <2> QED
    BY <2>1, <2>2, <2>3, BodyJudged DEF Judged
<1>4. CASE c.code = EndAps
  <2>1. a = EndStructure(s)
    BY <1>1, <1>4 DEF StructureElements
  <2>2. ~LinkHere(c) /\ ~NamedHere(c) /\ (Blameless(s, c) <=> Len(s.open) # 0)
    BY <1>1, <1>4 DEF LinkHere, IsLinkUri, NamedHere, Blameless
  <2>3. NextOpen(s.open, c) = (IF Len(s.open) = 0 THEN s.open ELSE SubSeq(s.open, 1, Len(s.open) - 1))
    BY <1>1, <1>4 DEF NextOpen
  <2> QED
    BY <2>1, <2>2, <2>3, EndJudged DEF Judged
<1>5. CASE c.code = ApsAttribute
  <2>1. a = StructureAttribute(s, c)
    BY <1>1, <1>5 DEF StructureElements
  <2>2. ~NamedHere(c) /\ (Blameless(s, c) <=> /\ Len(s.open) # 0 => ~s.open[Len(s.open)].hasBody
                                              /\ IsLinkUri(c) => IsValidLink(c.link))
    BY <1>1, <1>5 DEF NamedHere, Blameless
  <2>3. NextOpen(s.open, c) = s.open
    BY <1>1, <1>5 DEF NextOpen
  <2> QED
    BY <2>1, <2>2, <2>3, AttributeJudged DEF LinkHere, Judged
<1>6. CASE c.code \notin {BeginAps, BeginApsBody, EndAps, ApsAttribute}
  <2>1. a = s
    BY <1>6 DEF StructureElements
  <2>2. ~LinkHere(c) /\ ~NamedHere(c) /\ Blameless(s, c) /\ NextOpen(s.open, c) = s.open
    BY <1>6 DEF LinkHere, IsLinkUri, NamedHere, Blameless, NextOpen
  <2> QED
    BY <2>1, <2>2 DEF Judged
<1> QED
  BY <1>2, <1>3, <1>4, <1>5, <1>6

\* A run over the commands s.
Structured(b, s, n, I, T, F) ==
  /\ b[0] = StructureStart /\ \A i \in 1..n : b[i] = StructureElements(b[i - 1], s[i])
  /\ \A i \in 0..n : b[i] \in StructureStates(I, T, F)

NamesTo(s, i) == {s[j].id : j \in {k \in 1..i : NamedHere(s[k])}}
FragmentsTo(s, i) == {s[j].link.fragment : j \in {k \in 1..i : LinkHere(s[k])}}

LEMMA SetNext ==
  ASSUME NEW s, NEW i \in Nat
  PROVE  /\ NamesTo(s, 0) = {} /\ FragmentsTo(s, 0) = {}
         /\ NamesTo(s, i + 1) = (IF NamedHere(s[i + 1]) THEN NamesTo(s, i) \cup {s[i + 1].id} ELSE NamesTo(s, i))
         /\ FragmentsTo(s, i + 1) = (IF LinkHere(s[i + 1]) THEN FragmentsTo(s, i) \cup {s[i + 1].link.fragment}
                                     ELSE FragmentsTo(s, i))
<1>1. 1..(i + 1) = (1..i) \cup {i + 1} /\ 1..0 = {}
  OBVIOUS
<1> QED
  BY <1>1 DEF NamesTo, FragmentsTo

Linked(links) == {links[j] : j \in DOMAIN links}

LEMMA LinkedAfter ==
  ASSUME NEW F, NEW l, l \in Seq(F), NEW x
  PROVE  Linked(Append(l, x)) = Linked(l) \cup {x}
<1>1. PICK S : S = F \cup {x}
  OBVIOUS
<1>2. l \in Seq(S) /\ x \in S
  BY <1>1
<1>3. PICK k : k = Append(l, x)
  OBVIOUS
<1>4. /\ DOMAIN l = 1..Len(l) /\ Len(l) \in Nat /\ DOMAIN k = 1..(Len(l) + 1)
      /\ k[Len(l) + 1] = x /\ \A j \in 1..Len(l) : k[j] = l[j]
  BY <1>2, <1>3
<1>5. 1..(Len(l) + 1) = (1..Len(l)) \cup {Len(l) + 1}
  BY <1>4
<1> QED
  BY <1>3, <1>4, <1>5 DEF Linked

\* No error has been found in the first i commands.
BlamelessTo(b, s, i) == \A j \in 1..i : Blameless(b[j - 1], s[j])

JudgedAt(b, s, i) ==
  b[i].seen = NamesTo(s, i) /\ Linked(b[i].links) = FragmentsTo(s, i) /\ (Innocent(b[i].said) <=> BlamelessTo(b, s, i))

LEMMA RunJudged ==
  ASSUME NEW b, NEW s, NEW n \in Nat, NEW I, NEW T, NEW F, Structured(b, s, n, I, T, F), NEW k \in 0..n
  PROVE  JudgedAt(b, s, k)
<1> DEFINE G == {i \in 0..n : JudgedAt(b, s, i)}
<1>1. 0 \in G
  <2>1. b[0].seen = {} /\ b[0].links = <<>> /\ b[0].said = <<>>
    BY DEF Structured, StructureStart
  <2>2. NamesTo(s, 0) = {} /\ FragmentsTo(s, 0) = {} /\ Innocent(<<>>)
    BY SetNext, InnocentOf
  <2>3. Linked(<<>>) = {}
    BY DEF Linked
  <2>4. BlamelessTo(b, s, 0)
    BY DEF BlamelessTo
  <2>5. JudgedAt(b, s, 0)
    BY <2>1, <2>2, <2>3, <2>4 DEF JudgedAt
  <2> QED
    BY <2>5
<1>2. ASSUME NEW i \in 1..n, i - 1 \in G PROVE i \in G
  <2>1. PICK m : m = i - 1 /\ m \in Nat /\ i = m + 1 /\ m \in 0..n /\ JudgedAt(b, s, m)
    BY <1>2
  <2>2. PICK st, a, c : /\ st = b[m] /\ a = b[i] /\ c = s[i] /\ st \in StructureStates(I, T, F)
                        /\ a = StructureElements(st, c)
    BY <2>1 DEF Structured
  <2>3. /\ a.seen = (IF NamedHere(c) THEN st.seen \cup {c.id} ELSE st.seen)
        /\ a.links = (IF LinkHere(c) THEN Append(st.links, c.link.fragment) ELSE st.links)
        /\ Innocent(a.said) <=> Innocent(st.said) /\ Blameless(st, c)
    <3>1. Judged(st, c, a)
      BY <2>2, StepJudged
    <3> QED
      BY ONLY <3>1 DEF Judged
  <2>4. a.seen = NamesTo(s, i)
    <3>1. NamesTo(s, m + 1) = (IF NamedHere(s[m + 1]) THEN NamesTo(s, m) \cup {s[m + 1].id} ELSE NamesTo(s, m))
      BY ONLY <2>1, SetNext
    <3> QED
      BY ONLY <2>1, <2>2, <2>3, <3>1 DEF JudgedAt
  <2>5. Linked(a.links) = FragmentsTo(s, i)
    <3>1. PICK l, x : l = st.links /\ x = c.link.fragment /\ l \in Seq(F) /\ Linked(Append(l, x)) = Linked(l) \cup {x}
      BY <2>2, StructureStateFields, LinkedAfter
    <3>2. FragmentsTo(s, m + 1) = (IF LinkHere(s[m + 1]) THEN FragmentsTo(s, m) \cup {s[m + 1].link.fragment}
                                   ELSE FragmentsTo(s, m))
      BY ONLY <2>1, SetNext
    <3> QED
      BY ONLY <2>1, <2>2, <2>3, <3>1, <3>2 DEF JudgedAt
  <2>6. Innocent(a.said) <=> BlamelessTo(b, s, i)
    <3>1. 1..i = (1..m) \cup {i}
      BY <2>1
    <3>2. BlamelessTo(b, s, i) <=> BlamelessTo(b, s, m) /\ Blameless(st, c)
      BY <2>1, <2>2, <3>1 DEF BlamelessTo
    <3> QED
      BY ONLY <2>1, <2>2, <2>3, <3>2 DEF JudgedAt
  <2>7. JudgedAt(b, s, i)
    BY <2>2, <2>4, <2>5, <2>6 DEF JudgedAt
  <2> QED
    BY <2>7
<1>3. 0..n \subseteq G
  <2> HIDE DEF G
  <2> QED
    BY <1>1, <1>2, HoldsThroughout
<1>4. k \in G
  BY <1>3
<1> QED
  BY <1>4

LEMMA JoinedNothing ==
  ASSUME NEW S, NEW n \in Nat, NEW ss \in [1..n -> Seq(S)]
  PROVE  Concatenation(ss) = <<>> <=> \A j \in 1..n : ss[j] = <<>>
<1>1. PICK b : IsJoining(b, S, n, ss)
  BY Joining
<1> DEFINE None(i) == \A j \in 1..i : ss[j] = <<>>
           G == {i \in 0..n : b[i] = <<>> <=> None(i)}
<1>2. 0 \in G
  BY <1>1 DEF IsJoining
<1>3. ASSUME NEW i \in 1..n, i - 1 \in G PROVE i \in G
  <2>1. PICK m : m = i - 1 /\ m \in 0..n /\ i = m + 1 /\ (b[m] = <<>> <=> None(m))
    BY <1>3
  <2>2. PICK x, y, z : x = b[m] /\ y = ss[i] /\ z = b[i] /\ z = x \o y /\ x \in Seq(S) /\ y \in Seq(S)
    BY <1>1, <2>1 DEF IsJoining
  <2>3. z = <<>> <=> x = <<>> /\ y = <<>>
    <3>1. Len(z) = Len(x) + Len(y) /\ Len(x) \in Nat /\ Len(y) \in Nat
      BY <2>2
    <3>2. (z = <<>> <=> Len(z) = 0) /\ (x = <<>> <=> Len(x) = 0) /\ (y = <<>> <=> Len(y) = 0)
      <4>1. z \in Seq(S)
        BY <2>2
      <4> QED
        BY <2>2, <4>1
    <3> QED
      BY <3>1, <3>2
  <2>4. 1..i = (1..m) \cup {i}
    BY <2>1
  <2>5. None(i) <=> None(m) /\ y = <<>>
    BY <2>2, <2>4
  <2> HIDE DEF None
  <2>6. b[i] = <<>> <=> None(i)
    BY <2>1, <2>2, <2>3, <2>5
  <2> QED
    BY <2>6
<1>4. 0..n \subseteq G
  <2> HIDE DEF G
  <2> QED
    BY <1>2, <1>3, HoldsThroughout
<1>5. n \in G
  BY <1>4
<1> QED
  BY <1>1, <1>5 DEF IsJoining

LEMMA NoneMissing ==
  ASSUME NEW F, NEW links, links \in Seq(F), NEW names
  PROVE  Len(Missing(links, names)) \in Nat
         /\ (Len(Missing(links, names)) = 0 <=> {links[j] : j \in DOMAIN links} \subseteq names)
<1>1. PICK n, l : n = Len(links) /\ n \in Nat /\ l = links /\ l \in Seq(F) /\ DOMAIN l = 1..n
  OBVIOUS
<1>2. PICK ss : ss = [i \in 1..n |-> IF l[i] \notin names THEN <<l[i]>> ELSE <<>>]
  OBVIOUS
<1>3. ss \in [1..n -> Seq(F)]
  <2>1. ASSUME NEW i \in 1..n PROVE ss[i] \in Seq(F)
    <3>1. PICK x \in F : x = l[i]
      BY <1>1
    <3>2. <<x>> \in Seq(F) /\ <<>> \in Seq(F)
      OBVIOUS
    <3> QED
      BY <1>2, <3>1, <3>2
  <2> QED
    BY <1>2, <2>1
<1>4. Missing(links, names) = Concatenation(ss)
  BY <1>1, <1>2 DEF Missing, Those
<1>5. Concatenation(ss) \in Seq(F)
  BY <1>1, <1>3, Concatenated
<1>6. PICK k : k = Concatenation(ss) /\ k \in Seq(F) /\ Len(k) \in Nat /\ (Len(k) = 0 <=> k = <<>>)
  BY <1>5
<1>7. k = <<>> <=> \A j \in 1..n : ss[j] = <<>>
  BY <1>1, <1>3, <1>6, JoinedNothing
<1>8. \A j \in 1..n : ss[j] = <<>> <=> l[j] \in names
  BY <1>2
<1> QED
  BY <1>1, <1>4, <1>6, <1>7, <1>8

LEMMA CountedAll ==
  ASSUME NEW s, IsList(s), NEW n, n = Len(s), NEW code
  PROVE  CountOf(code, s) = Begins(s, code, n)
<1>1. n \in Nat /\ DOMAIN s = 1..n
  BY Lists
<1>2. PICK S, ss : S = {s[i] : i \in DOMAIN s} /\ ss = [i \in 1..n |-> IF s[i].code = code THEN <<s[i]>> ELSE <<>>]
  OBVIOUS
<1>3. ASSUME NEW i \in 1..n PROVE ss[i] \in Seq(S) /\ Len(ss[i]) = IF s[i].code = code THEN 1 ELSE 0
  <2>1. PICK x \in S : x = s[i]
    BY <1>1, <1>2
  <2>2. <<x>> \in Seq(S) /\ <<>> \in Seq(S) /\ Len(<<x>>) = 1 /\ Len(<<>>) = 0
    OBVIOUS
  <2>3. CASE s[i].code = code
    <3>1. ss[i] = <<x>>
      BY <1>2, <2>1, <2>3
    <3> QED
      BY <2>2, <2>3, <3>1
  <2>4. CASE s[i].code # code
    <3>1. ss[i] = <<>>
      BY <1>2, <2>4
    <3> QED
      BY <2>2, <2>4, <3>1
  <2> QED
    BY <2>3, <2>4
<1>4. ss \in [1..n -> Seq(S)]
  BY <1>2, <1>3
<1>5. PICK b : IsJoining(b, S, n, ss)
  BY <1>1, <1>4, Joining
<1> DEFINE G == {i \in 0..n : Len(b[i]) = Begins(s, code, i)}
<1>6. 0 \in G
  <2>1. b[0] = <<>> /\ Len(<<>>) = 0
    BY <1>5 DEF IsJoining
  <2> QED
    BY <1>1, <2>1, BeginsNext
<1>7. ASSUME NEW i \in 1..n, i - 1 \in G PROVE i \in G
  <2>1. PICK m : m = i - 1 /\ m \in Nat /\ m \in 0..n /\ i = m + 1 /\ Len(b[m]) = Begins(s, code, m)
    BY <1>1, <1>7
  <2>2. PICK x, y, z : x = b[m] /\ y = ss[i] /\ z = b[i] /\ z = x \o y /\ x \in Seq(S) /\ y \in Seq(S)
    BY <1>3, <1>5, <2>1 DEF IsJoining
  <2>3. Len(z) = Len(x) + Len(y)
    BY <2>2
  <2>4. /\ Begins(s, code, m) \in Nat
        /\ Begins(s, code, m + 1) = IF s[m + 1].code = code THEN Begins(s, code, m) + 1 ELSE Begins(s, code, m)
    <3>1. m \in Nat
      BY <2>1
    <3> QED
      BY ONLY <3>1, BeginsNext
  <2>5. Len(y) = IF s[i].code = code THEN 1 ELSE 0
    BY <1>3, <2>2
  <2>6. Len(b[i]) = Begins(s, code, i)
    BY <2>1, <2>2, <2>3, <2>4, <2>5
  <2> QED
    BY <2>6
<1>8. 0..n \subseteq G
  <2> HIDE DEF G
  <2> QED
    BY <1>1, <1>6, <1>7, HoldsThroughout
<1>9. n \in G
  BY <1>1, <1>8
<1>10. All(code, s) = Concatenation(ss)
  BY <1>1, <1>2 DEF All, Those
<1> QED
  BY <1>5, <1>9, <1>10 DEF IsJoining, CountOf

LEMMA BindingsInnocent ==
  ASSUME NEW xcf, IsList(xcf.ids), IsList(xcf.types), NEW ids, NEW types
  PROVE  Innocent(ValidateXcfBindings(xcf, ids, types))
<1>1. /\ {"companion", "binding by id", "binding by name", "bound twice", "bindings"} \subseteq Usual
      /\ Usual \cap StructureErrors = {}
  <2>1. {"companion", "binding by id", "binding by name", "bound twice", "bindings"} \subseteq Usual
    BY DEF Usual, UsualErrors, UsualWarnings, UsualNotes
  <2>2. StructureErrors \subseteq SpecialErrors
    BY DEF SpecialErrors
  <2> QED
    BY <2>1, <2>2, UsualIsUsual
<1>2. PICK W : W = Words(Usual)
  OBVIOUS
<1>3. /\ Warn("companion") \in W /\ <<>> \in W /\ Err("binding by id") \in W /\ Warn("binding by name") \in W
      /\ Warn("bound twice") \in W /\ Tell("bindings") \in W
  BY <1>1, <1>2, SaidOne, SaidNothing
<1>4. PICK k, l : /\ k = NamesBound(xcf.ids, ids, Err("binding by id"), Warn("bound twice"))
                  /\ l = NamesBound(xcf.types, types, Warn("binding by name"), Warn("bound twice"))
                  /\ k \in W /\ l \in W
  BY <1>2, <1>3, NamesBoundAre
<1>5. PICK m : m = If(xcf.ids # <<>> \/ xcf.types # <<>>, Tell("bindings")) /\ m \in W
  BY <1>3 DEF If
<1>6. k \o l \o m \in W
  BY <1>2, <1>4, <1>5, SaidBoth
<1>7. ValidateXcfBindings(xcf, ids, types) \in {<<>>, Warn("companion"), k \o l \o m}
  BY <1>4, <1>5 DEF ValidateXcfBindings
<1>8. PICK r : r = ValidateXcfBindings(xcf, ids, types) /\ r \in Words(Usual)
  BY <1>2, <1>3, <1>6, <1>7
<1>9. Heard(r) \subseteq Things(Usual)
  BY <1>8, HeardAbout
<1> QED
  BY <1>1, <1>8, <1>9 DEF Innocent, Things

\* The command q is the body of the structure that begins at j.
BodyOf(s, q, j) == s[q].code = BeginApsBody /\ Nested(s, q) > 0 /\ Max(StillOpen(s, q - 1)) = j

Bodied(s, i, j) == \E q \in 1..i : BodyOf(s, q, j)

\* The stack is as deep as the structures are, and who has a body is marked.
Tidy(open, s, i) ==
  /\ Len(open) = Nested(s, i)
  /\ \A j \in StillOpen(s, i) : open[Nested(s, j)].hasBody <=> Bodied(s, i, j)

Even(s, i) == \A k \in 0..i : Nested(s, k) >= 0

LEMMA OpenNested ==
  ASSUME NEW s, NEW i \in Nat, Even(s, i), NEW j \in StillOpen(s, i)
  PROVE  j \in 1..i /\ Nested(s, j) \in 1..Nested(s, i) /\ Nested(s, i) \in Nat
<1>1. j \in 1..i /\ s[j].code = BeginAps /\ Nested(s, j) \in Int /\ Nested(s, j) <= Nested(s, i) /\ Nested(s, i) \in Int
  BY OpenAre, NestedNext
<1>2. PICK m \in Nat : j = m + 1 /\ m \in 0..i
  <2>1. j - 1 \in Nat /\ j = (j - 1) + 1 /\ j - 1 \in 0..i
    BY <1>1
  <2> QED
    BY <2>1
<1>3. Nested(s, m) \in Int /\ Nested(s, m) >= 0 /\ Nested(s, j) = Nested(s, m) + 1
  BY <1>1, <1>2, NestedNext DEF Even
<1> QED
  BY <1>1, <1>3

LEMMA BodyBefore ==
  ASSUME NEW s, NEW i \in Nat, NEW j, Bodied(s, i, j)
  PROVE  j < i
<1>1. PICK q \in 1..i : s[q].code = BeginApsBody /\ Nested(s, q) > 0 /\ Max(StillOpen(s, q - 1)) = j
  BY DEF Bodied, BodyOf
<1>2. PICK m \in Nat : q = m + 1 /\ m = q - 1
  <2>1. q - 1 \in Nat /\ q = (q - 1) + 1
    BY <1>1
  <2> QED
    BY <2>1
<1>3. Nested(s, m) > 0
  <2>1. BeginApsBody \notin {BeginAps, EndAps}
    BY DEF BeginAps, BeginApsBody, EndAps
  <2> QED
    BY <1>1, <1>2, <2>1, NestedNext
<1>4. j \in StillOpen(s, m)
  BY <1>1, <1>2, <1>3, Innermost
<1>5. j \in 1..m
  BY <1>4 DEF StillOpen
<1> QED
  BY <1>1, <1>2, <1>5

LEMMA BodiedNext ==
  ASSUME NEW s, NEW i \in Nat, NEW j
  PROVE  Bodied(s, i + 1, j) <=> Bodied(s, i, j) \/ BodyOf(s, i + 1, j)
<1>1. 1..(i + 1) = (1..i) \cup {i + 1}
  OBVIOUS
<1> QED
  BY <1>1 DEF Bodied

LEMMA TidyNext ==
  ASSUME NEW s, NEW i \in Nat, Even(s, i + 1), NEW I, NEW T, NEW open, open \in Seq(Open(I, T)), Tidy(open, s, i),
         NEW next, next = NextOpen(open, s[i + 1])
  PROVE  Tidy(next, s, i + 1)
<1>1. PICK d, e : d = Nested(s, i) /\ e = Nested(s, i + 1) /\ d \in Nat /\ e \in Nat
  <2>1. i \in 0..(i + 1) /\ i + 1 \in 0..(i + 1) /\ i + 1 \in Nat
    OBVIOUS
  <2>2. Nested(s, i) \in Int /\ Nested(s, i + 1) \in Int
    BY <2>1, NestedNext
  <2>3. Nested(s, i) >= 0 /\ Nested(s, i + 1) >= 0
    BY <2>1 DEF Even
  <2> QED
    BY <2>2, <2>3
<1>2. Even(s, i)
  <2>1. 0..i \subseteq 0..(i + 1)
    OBVIOUS
  <2> QED
    BY <2>1 DEF Even
<1>3. Len(open) = d /\ DOMAIN open = 1..d
  BY <1>1 DEF Tidy
<1>4. ASSUME NEW j \in StillOpen(s, i)
      PROVE  j \in 1..i /\ Nested(s, j) \in 1..d /\ (open[Nested(s, j)].hasBody <=> Bodied(s, i, j))
  BY <1>1, <1>2, <1>4, OpenNested DEF Tidy
<1>5. \A j : j \in StillOpen(s, i + 1) <=> \/ j \in StillOpen(s, i) /\ Nested(s, j) <= e
                                           \/ j = i + 1 /\ s[i + 1].code = BeginAps
  BY <1>1, OpenNext
<1>6. \A j : Bodied(s, i + 1, j) <=> Bodied(s, i, j) \/ BodyOf(s, i + 1, j)
  BY BodiedNext
<1>7. BeginAps # BeginApsBody /\ BeginAps # EndAps /\ BeginApsBody # EndAps
  BY DEF BeginAps, BeginApsBody, EndAps
<1>8. /\ s[i + 1].code = BeginAps => e = d + 1
      /\ s[i + 1].code = EndAps => e = d - 1
      /\ s[i + 1].code \notin {BeginAps, EndAps} => e = d
  BY <1>1, NestedNext
<1>9. CASE s[i + 1].code = BeginAps
  <2>1. PICK x : x = [id |-> s[i + 1].id, type |-> s[i + 1].type, hasBody |-> FALSE] /\ x.hasBody = FALSE
    <3>1. PICK id, type : id = s[i + 1].id /\ type = s[i + 1].type
      OBVIOUS
    <3>2. [id |-> id, type |-> type, hasBody |-> FALSE].hasBody = FALSE
      OBVIOUS
    <3> QED
      BY <3>1, <3>2
  <2>2. next = Append(open, x)
    BY <1>9, <2>1 DEF NextOpen
  <2>3. Len(next) = d + 1 /\ next[d + 1] = x /\ \A k \in 1..d : next[k] = open[k]
    <3>1. PICK S : S = Open(I, T) \cup {x}
      OBVIOUS
    <3>2. open \in Seq(S) /\ x \in S
      BY <3>1
    <3> QED
      BY <1>3, <2>2, <3>2
  <2>4. \A j : ~BodyOf(s, i + 1, j)
    BY <1>7, <1>9 DEF BodyOf
  <2>5. ASSUME NEW j \in StillOpen(s, i + 1) PROVE next[Nested(s, j)].hasBody <=> Bodied(s, i + 1, j)
    <3>1. CASE j \in StillOpen(s, i)
      BY <1>4, <1>6, <2>3, <2>4, <3>1
    <3>2. CASE j = i + 1
      <4>1. ~Bodied(s, i + 1, i + 1)
        <5>1. ~(i + 1 < i + 1) /\ i + 1 \in Nat
          OBVIOUS
        <5> QED
          BY <5>1, BodyBefore
      <4>2. Nested(s, j) = d + 1
        BY <1>1, <1>8, <1>9, <3>2
      <4> QED
        BY <2>1, <2>3, <3>2, <4>1, <4>2
    <3> QED
      BY <1>5, <2>5, <3>1, <3>2
  <2> QED
    BY <1>1, <1>8, <1>9, <2>3, <2>5 DEF Tidy
<1>10. CASE s[i + 1].code = BeginApsBody
  <2>1. e = d
    BY <1>7, <1>8, <1>10
  <2>2. \A j : j \in StillOpen(s, i + 1) => j \in StillOpen(s, i)
    BY <1>5, <1>7, <1>10
  <2>3. CASE d = 0
    <3>1. next = open
      BY <1>3, <1>7, <1>10, <2>3 DEF NextOpen
    <3>2. \A j : j \notin StillOpen(s, i + 1)
      BY <1>4, <2>2, <2>3
    <3> QED
      BY <1>1, <1>3, <2>1, <3>1, <3>2 DEF Tidy
  <2>4. CASE d # 0
    <3>1. PICK y, z : y = open[d] /\ z = [y EXCEPT !.hasBody = TRUE] /\ y \in Open(I, T) /\ z.hasBody = TRUE
      <4>1. open[d] \in Open(I, T)
        BY <1>1, <1>3, <2>4
      <4>2. PICK y : y = open[d] /\ y \in [id : I, type : T, hasBody : BOOLEAN]
        BY <4>1 DEF Open
      <4>3. [y EXCEPT !.hasBody = TRUE].hasBody = TRUE
        BY <4>2
      <4> QED
        BY <4>1, <4>2, <4>3
    <3>2. next = [open EXCEPT ![d] = z]
      BY <1>3, <1>7, <1>10, <2>4, <3>1 DEF NextOpen
    <3>3. Len(next) = d /\ next[d] = z /\ \A k \in 1..d : k # d => next[k] = open[k]
      BY <1>1, <1>3, <2>4, <3>2
    <3>4. PICK t : t = Max(StillOpen(s, i)) /\ t \in StillOpen(s, i) /\ Nested(s, t) = d
                   /\ \A j \in StillOpen(s, i) : Nested(s, j) = d => j = t
      BY <1>1, <2>4, Innermost
    <3>5. \A j : BodyOf(s, i + 1, j) <=> j = t
      <4>1. (i + 1) - 1 = i /\ Nested(s, i + 1) > 0
        BY <1>1, <2>1, <2>4
      <4> QED
        BY <1>10, <3>4, <4>1 DEF BodyOf
    <3>6. ASSUME NEW j \in StillOpen(s, i + 1) PROVE next[Nested(s, j)].hasBody <=> Bodied(s, i + 1, j)
      <4>1. j \in StillOpen(s, i) /\ Nested(s, j) \in 1..d /\ (open[Nested(s, j)].hasBody <=> Bodied(s, i, j))
        BY <1>4, <2>2, <3>6
      <4>2. CASE j = t
        <5>1. next[Nested(s, j)] = z
          BY <3>3, <3>4, <4>2
        <5> QED
          BY <1>6, <3>1, <3>5, <4>2, <5>1
      <4>3. CASE j # t
        <5>1. Nested(s, j) # d
          BY <3>4, <4>1, <4>3
        <5>2. next[Nested(s, j)] = open[Nested(s, j)]
          BY <3>3, <4>1, <5>1
        <5> QED
          BY <1>6, <3>5, <4>1, <4>3, <5>2
      <4> QED
        BY <4>2, <4>3
    <3> QED
      BY <1>1, <2>1, <3>3, <3>6 DEF Tidy
  <2> QED
    BY <2>3, <2>4
<1>11. CASE s[i + 1].code = EndAps
  <2>1. e = d - 1 /\ d # 0
    BY <1>1, <1>8, <1>11
  <2>2. next = SubSeq(open, 1, e)
    BY <1>3, <1>7, <1>11, <2>1 DEF NextOpen
  <2>3. Len(next) = e /\ \A k \in 1..e : next[k] = open[k]
    BY <1>1, <1>3, <2>1, <2>2
  <2>4. \A j : ~BodyOf(s, i + 1, j)
    BY <1>7, <1>11 DEF BodyOf
  <2>5. ASSUME NEW j \in StillOpen(s, i + 1) PROVE next[Nested(s, j)].hasBody <=> Bodied(s, i + 1, j)
    <3>1. j \in StillOpen(s, i) /\ Nested(s, j) <= e
      BY <1>5, <1>7, <1>11, <2>5
    <3>2. Nested(s, j) \in 1..e
      BY <1>1, <1>4, <3>1
    <3> QED
      BY <1>4, <1>6, <2>3, <2>4, <3>1, <3>2
  <2> QED
    BY <1>1, <2>3, <2>5 DEF Tidy
<1>12. CASE s[i + 1].code \notin {BeginAps, BeginApsBody, EndAps}
  <2>1. e = d /\ next = open
    BY <1>8, <1>12 DEF NextOpen
  <2>2. \A j : ~BodyOf(s, i + 1, j)
    BY <1>12 DEF BodyOf
  <2>3. \A j : j \in StillOpen(s, i + 1) => j \in StillOpen(s, i)
    BY <1>5, <1>12
  <2>4. ASSUME NEW j \in StillOpen(s, i + 1) PROVE next[Nested(s, j)].hasBody <=> Bodied(s, i + 1, j)
    BY <1>4, <1>6, <2>1, <2>2, <2>3, <2>4
  <2> QED
    BY <1>1, <1>3, <2>1, <2>4 DEF Tidy
<1> QED
  BY <1>9, <1>10, <1>11, <1>12

LEMMA RunTidy ==
  ASSUME NEW b, NEW s, NEW n \in Nat, NEW I, NEW T, NEW F, Structured(b, s, n, I, T, F), NEW k \in 0..n, Even(s, k)
  PROVE  Tidy(b[k].open, s, k)
<1> DEFINE G == {i \in 0..k : Tidy(b[i].open, s, i)}
<1>1. 0 \in G
  <2>1. b[0].open = <<>> /\ Len(<<>>) = 0
    BY DEF Structured, StructureStart
  <2>2. Nested(s, 0) = 0 /\ StillOpen(s, 0) = {}
    BY NestedNext DEF StillOpen
  <2>3. Tidy(b[0].open, s, 0)
    BY <2>1, <2>2 DEF Tidy
  <2> QED
    BY <2>3
<1>2. ASSUME NEW i \in 1..k, i - 1 \in G PROVE i \in G
  <2>1. PICK m : m = i - 1 /\ m \in Nat /\ i = m + 1 /\ m \in 0..n /\ i \in 1..n /\ Tidy(b[m].open, s, m)
    BY <1>2
  <2>2. PICK st, a, c : /\ st = b[m] /\ a = b[i] /\ c = s[i] /\ st \in StructureStates(I, T, F)
                        /\ a = StructureElements(st, c)
    BY <2>1 DEF Structured
  <2>3. Judged(st, c, a)
    BY ONLY <2>2, StepJudged
  <2>4. a.open = NextOpen(st.open, c) /\ st.open \in Seq(Open(I, T))
    BY <2>2, <2>3, StructureStateFields DEF Judged
  <2>5. Even(s, m + 1)
    <3>1. 0..(m + 1) \subseteq 0..k
      BY <2>1
    <3> QED
      BY <3>1 DEF Even
  <2>6. Tidy(a.open, s, m + 1)
    BY <2>1, <2>2, <2>4, <2>5, TidyNext
  <2>7. Tidy(b[i].open, s, i)
    BY <2>1, <2>2, <2>6
  <2> QED
    BY <2>7
<1>3. 0..k \subseteq G
  <2> HIDE DEF G
  <2> QED
    BY <1>1, <1>2, HoldsThroughout
<1>4. k \in G
  BY <1>3
<1> QED
  BY <1>4

LEMMA EndsWell ==
  ASSUME NEW b, NEW s, NEW n \in Nat, NEW I, NEW T, NEW F, Structured(b, s, n, I, T, F), BlamelessTo(b, s, n)
  PROVE  Even(s, n)
<1> DEFINE G == {i \in 0..n : Even(s, i)}
<1>1. 0 \in G
  BY NestedNext DEF Even
<1>2. ASSUME NEW i \in 1..n, i - 1 \in G PROVE i \in G
  <2>1. PICK m : m = i - 1 /\ m \in Nat /\ i = m + 1 /\ m \in 0..n /\ Even(s, m)
    BY <1>2
  <2>2. Tidy(b[m].open, s, m)
    BY <2>1, RunTidy
  <2>3. Blameless(b[m], s[i])
    BY <2>1 DEF BlamelessTo
  <2>4. PICK d, e : d = Nested(s, m) /\ e = Nested(s, i) /\ d \in Int /\ e \in Int /\ d >= 0
    <3>1. m \in 0..m /\ i \in Nat
      BY <2>1
    <3> QED
      BY <2>1, <3>1, NestedNext DEF Even
  <2>5. s[i].code = EndAps => d # 0
    BY <2>2, <2>3, <2>4 DEF Blameless, Tidy
  <2>6. e >= 0
    BY <2>1, <2>4, <2>5, NestedNext
  <2>7. 0..i = (0..m) \cup {i}
    BY <2>1
  <2>8. Even(s, i)
    BY <2>1, <2>4, <2>6, <2>7 DEF Even
  <2> QED
    BY <2>8
<1>3. 0..n \subseteq G
  <2> HIDE DEF G
  <2> QED
    BY <1>1, <1>2, HoldsThroughout
<1>4. n \in G
  BY <1>3
<1> QED
  BY <1>4

\* The rules for structures, of the first n commands of s.
EachNamed(s, n) ==
  /\ \A i \in 1..n : s[i].code = BeginAps => IsName(s[i].id)
  /\ \A i, j \in 1..n : s[i].code = BeginAps /\ s[j].code = BeginAps /\ s[i].id = s[j].id => i = j

BodiesInside(s, n) == \A q \in 1..n : s[q].code = BeginApsBody => Nested(s, q) > 0

AttributesFirst(s, n) ==
  \A i, q \in 1..n : /\ s[i].code = ApsAttribute /\ s[q].code = BeginApsBody
                     /\ q < i /\ Nested(s, i) > 0 /\ Nested(s, q) > 0
                     => Max(StillOpen(s, q - 1)) # Max(StillOpen(s, i - 1))

LinksWell(s, n) == \A i \in 1..n : IsLinkUri(s[i]) => IsValidLink(s[i].link)

LinksLead(s, n) ==
  \A i \in 1..n : LinkHere(s[i]) => \E j \in 1..n : s[j].code = BeginAps /\ s[j].id = s[i].link.fragment

LEMMA NamedEach ==
  ASSUME NEW s, NEW n \in Nat
  PROVE  EachNamed(s, n) <=> \A j \in 1..n : s[j].code = BeginAps => IsName(s[j].id) /\ s[j].id \notin NamesTo(s, j - 1)
<1>1. \A j \in 1..n : \A x : x \in NamesTo(s, j - 1) <=> \E k \in 1..(j - 1) : s[k].code = BeginAps /\ IsName(s[k].id) /\ s[k].id = x
  BY DEF NamesTo, NamedHere
<1>2. \A j \in 1..n : \A k : k \in 1..(j - 1) <=> k \in 1..n /\ k < j
  OBVIOUS
<1>3. ASSUME EachNamed(s, n), NEW j \in 1..n, s[j].code = BeginAps
      PROVE  IsName(s[j].id) /\ s[j].id \notin NamesTo(s, j - 1)
  <2>1. ASSUME NEW k \in 1..(j - 1), s[k].code = BeginAps, s[k].id = s[j].id PROVE FALSE
    <3>1. k \in 1..n /\ k < j
      BY <1>2
    <3> QED
      BY <1>3, <2>1, <3>1 DEF EachNamed
  <2> QED
    BY <1>1, <1>3, <2>1 DEF EachNamed
<1>4. ASSUME \A j \in 1..n : s[j].code = BeginAps => IsName(s[j].id) /\ s[j].id \notin NamesTo(s, j - 1)
      PROVE  EachNamed(s, n)
  <2>1. ASSUME NEW i \in 1..n, NEW j \in 1..n, s[i].code = BeginAps, s[j].code = BeginAps, s[i].id = s[j].id, i < j
        PROVE  FALSE
    <3>1. s[i].id \in NamesTo(s, j - 1)
      BY <1>1, <1>2, <1>4, <2>1
    <3> QED
      BY <1>4, <2>1, <3>1
  <2>2. ASSUME NEW i \in 1..n, NEW j \in 1..n, s[i].code = BeginAps, s[j].code = BeginAps, s[i].id = s[j].id
        PROVE  i = j
    <3>1. ~(i < j) /\ ~(j < i)
      BY <2>1, <2>2
    <3> QED
      BY <3>1
  <2> QED
    BY <1>4, <2>2 DEF EachNamed
<1> QED
  BY <1>3, <1>4

\* With as many structures begun as ended before each command, none is blamed
\* just when the rules are kept.
LEMMA BlamelessAre ==
  ASSUME NEW b, NEW s, NEW n \in Nat, NEW I, NEW T, NEW F, Structured(b, s, n, I, T, F), Even(s, n)
  PROVE  BlamelessTo(b, s, n) <=> EachNamed(s, n) /\ BodiesInside(s, n) /\ AttributesFirst(s, n) /\ LinksWell(s, n)
<1>0. /\ BeginAps # BeginApsBody /\ BeginAps # EndAps /\ BeginAps # ApsAttribute
      /\ BeginApsBody # EndAps /\ BeginApsBody # ApsAttribute /\ EndAps # ApsAttribute
  BY DEF BeginAps, BeginApsBody, EndAps, ApsAttribute
<1>1. ASSUME NEW j \in 1..n
      PROVE  /\ j - 1 \in 0..n /\ b[j - 1].seen = NamesTo(s, j - 1)
             /\ Nested(s, j - 1) \in Nat /\ Nested(s, j) \in Nat
             /\ Len(b[j - 1].open) = Nested(s, j - 1)
             /\ s[j].code = EndAps => Nested(s, j - 1) # 0
             /\ s[j].code \in {BeginApsBody, ApsAttribute} => Nested(s, j) = Nested(s, j - 1)
             /\ Nested(s, j - 1) # 0
                => (b[j - 1].open[Nested(s, j - 1)].hasBody <=> Bodied(s, j - 1, Max(StillOpen(s, j - 1))))
  <2>1. PICK m : m = j - 1 /\ m \in Nat /\ m \in 0..n /\ j = m + 1 /\ j \in 0..n
    OBVIOUS
  <2>2. Even(s, m)
    <3>1. 0..m \subseteq 0..n
      BY <2>1
    <3> QED
      BY <3>1 DEF Even
  <2>3. PICK d, e : d = Nested(s, m) /\ e = Nested(s, j) /\ d \in Nat /\ e \in Nat
    <3>1. Nested(s, m) \in Int /\ Nested(s, j) \in Int
      BY <2>1, NestedNext
    <3>2. Nested(s, m) >= 0 /\ Nested(s, j) >= 0
      BY <2>1 DEF Even
    <3> QED
      BY <3>1, <3>2
  <2>4. /\ s[j].code = EndAps => e = d - 1
        /\ s[j].code \notin {BeginAps, EndAps} => e = d
    BY <2>1, <2>3, NestedNext
  <2>5. Tidy(b[m].open, s, m)
    BY <2>1, <2>2, RunTidy
  <2>6. b[m].seen = NamesTo(s, m)
    BY <2>1, RunJudged DEF JudgedAt
  <2>7. d # 0 => (b[m].open[d].hasBody <=> Bodied(s, m, Max(StillOpen(s, m))))
    <3>1. SUFFICES ASSUME d # 0 PROVE b[m].open[d].hasBody <=> Bodied(s, m, Max(StillOpen(s, m)))
      OBVIOUS
    <3>2. Max(StillOpen(s, m)) \in StillOpen(s, m) /\ Nested(s, Max(StillOpen(s, m))) = d
      BY <2>1, <2>3, <3>1, Innermost
    <3> QED
      BY <2>5, <3>2 DEF Tidy
  <2>8. Len(b[m].open) = d
    BY <2>3, <2>5 DEF Tidy
  <2> QED
    BY <1>0, <2>1, <2>3, <2>4, <2>6, <2>7, <2>8
<1>2. ASSUME NEW j \in 1..n
      PROVE  Blameless(b[j - 1], s[j]) <=>
               /\ s[j].code = BeginAps => IsName(s[j].id) /\ s[j].id \notin NamesTo(s, j - 1)
               /\ s[j].code = BeginApsBody => Nested(s, j) > 0
               /\ s[j].code = ApsAttribute => (Nested(s, j) > 0 => ~Bodied(s, j - 1, Max(StillOpen(s, j - 1))))
               /\ IsLinkUri(s[j]) => IsValidLink(s[j].link)
  <2>1. PICK st, c, d, e : /\ st = b[j - 1] /\ c = s[j] /\ d = Nested(s, j - 1) /\ e = Nested(s, j) /\ d \in Nat /\ e \in Nat
                           /\ st.seen = NamesTo(s, j - 1) /\ Len(st.open) = d
                           /\ c.code = EndAps => d # 0
                           /\ c.code \in {BeginApsBody, ApsAttribute} => e = d
                           /\ d # 0 => (st.open[d].hasBody <=> Bodied(s, j - 1, Max(StillOpen(s, j - 1))))
    BY <1>1
  <2>2. IsLinkUri(c) => c.code = ApsAttribute
    BY DEF IsLinkUri
  <2> QED
    BY <1>0, <2>1, <2>2 DEF Blameless
<1>3. EachNamed(s, n) <=> \A j \in 1..n : s[j].code = BeginAps => IsName(s[j].id) /\ s[j].id \notin NamesTo(s, j - 1)
  BY NamedEach
<1>4. AttributesFirst(s, n) <=>
        \A j \in 1..n : s[j].code = ApsAttribute => (Nested(s, j) > 0 => ~Bodied(s, j - 1, Max(StillOpen(s, j - 1))))
  <2>1. ASSUME NEW j \in 1..n, NEW t
        PROVE  Bodied(s, j - 1, t) <=> \E q \in 1..n : q < j /\ BodyOf(s, q, t)
    <3>1. \A q : q \in 1..(j - 1) <=> q \in 1..n /\ q < j
      OBVIOUS
    <3> QED
      BY <3>1 DEF Bodied
  <2>2. AttributesFirst(s, n) <=>
          \A j, q \in 1..n : s[j].code = ApsAttribute /\ Nested(s, j) > 0 /\ q < j => ~BodyOf(s, q, Max(StillOpen(s, j - 1)))
    BY DEF AttributesFirst, BodyOf
  <2> QED
    BY <2>1, <2>2
<1>5. BlamelessTo(b, s, n) <=>
        \A j \in 1..n :
          /\ s[j].code = BeginAps => IsName(s[j].id) /\ s[j].id \notin NamesTo(s, j - 1)
          /\ s[j].code = BeginApsBody => Nested(s, j) > 0
          /\ s[j].code = ApsAttribute => (Nested(s, j) > 0 => ~Bodied(s, j - 1, Max(StillOpen(s, j - 1))))
          /\ IsLinkUri(s[j]) => IsValidLink(s[j].link)
  BY <1>2 DEF BlamelessTo
<1> QED
  BY <1>3, <1>4, <1>5 DEF BodiesInside, LinksWell

WellStructured(s, n) ==
  /\ Even(s, n) /\ Nested(s, n) = 0
  /\ EachNamed(s, n) /\ BodiesInside(s, n) /\ AttributesFirst(s, n) /\ LinksWell(s, n) /\ LinksLead(s, n)

\* What is said at the end is innocent just when the rules are kept.
LEMMA EndJudgedRight ==
  ASSUME NEW b, NEW s, NEW n \in Nat, NEW I, NEW T, NEW F, Structured(b, s, n, I, T, F)
  PROVE  /\ Innocent(b[n].said) /\ b[n].open = <<>> /\ Begins(s, BeginAps, n) = Begins(s, EndAps, n)
         /\ Linked(b[n].links) \subseteq b[n].seen
         <=> WellStructured(s, n)
<1>1. b[n].seen = NamesTo(s, n) /\ Linked(b[n].links) = FragmentsTo(s, n) /\ (Innocent(b[n].said) <=> BlamelessTo(b, s, n))
  BY n \in 0..n, RunJudged DEF JudgedAt
<1>2. b[n].open \in Seq(Open(I, T))
  <2>1. b[n] \in StructureStates(I, T, F)
    BY n \in 0..n DEF Structured
  <2> QED
    BY <2>1, StructureStateFields
<1>3. BlamelessTo(b, s, n) => Even(s, n)
  BY EndsWell
<1>4. Even(s, n) => (b[n].open = <<>> <=> Nested(s, n) = 0)
  <2>1. SUFFICES ASSUME Even(s, n) PROVE b[n].open = <<>> <=> Nested(s, n) = 0
    OBVIOUS
  <2>2. Len(b[n].open) = Nested(s, n)
    BY <2>1, n \in 0..n, RunTidy DEF Tidy
  <2>3. b[n].open = <<>> <=> Len(b[n].open) = 0
    BY <1>2
  <2> QED
    BY <2>2, <2>3
<1>5. Begins(s, BeginAps, n) = Begins(s, EndAps, n) <=> Nested(s, n) = 0
  <2>1. Begins(s, BeginAps, n) \in Nat /\ Begins(s, EndAps, n) \in Nat
    BY BeginsNext
  <2> QED
    BY <2>1 DEF Nested
<1>6. Even(s, n) => (BlamelessTo(b, s, n) <=> EachNamed(s, n) /\ BodiesInside(s, n) /\ AttributesFirst(s, n) /\ LinksWell(s, n))
  BY BlamelessAre
<1>7. EachNamed(s, n) => (FragmentsTo(s, n) \subseteq NamesTo(s, n) <=> LinksLead(s, n))
  <2>1. SUFFICES ASSUME EachNamed(s, n) PROVE FragmentsTo(s, n) \subseteq NamesTo(s, n) <=> LinksLead(s, n)
    OBVIOUS
  <2>2. \A x : x \in NamesTo(s, n) <=> \E j \in 1..n : s[j].code = BeginAps /\ s[j].id = x
    BY <2>1 DEF NamesTo, NamedHere, EachNamed
  <2>3. \A x : x \in FragmentsTo(s, n) <=> \E i \in 1..n : LinkHere(s[i]) /\ s[i].link.fragment = x
    BY DEF FragmentsTo
  <2> QED
    BY <2>2, <2>3 DEF LinksLead
<1> QED
  BY <1>1, <1>3, <1>4, <1>5, <1>6, <1>7 DEF WellStructured

LEMMA RemarksInnocent ==
  ASSUME NEW f, IsMetafile(f), NEW s, s = f.commands, NEW n, n = Len(s)
  PROVE  Innocent(StructureRemarks(f)) <=> WellStructured(s, n)
<1>1. n \in Nat /\ DOMAIN s = 1..n /\ IsList(s) /\ IsList(f.xcf.ids) /\ IsList(f.xcf.types)
  BY Lists DEF IsMetafile
<1>2. PICK I, T, F : /\ I = {s[i].id : i \in 1..n} /\ T = {s[i].type : i \in 1..n}
                     /\ F = {s[i].link.fragment : i \in 1..n}
  OBVIOUS
<1>3. AllFit(s, n, I, T, F)
  BY <1>2 DEF Fits, AllFit
<1>4. PICK b : Structured(b, s, n, I, T, F) /\ Fold(StructureElements, StructureStart, s) = b[n]
  <2>1. \E b : /\ b[0] = StructureStart /\ \A i \in 1..n : b[i] = StructureElements(b[i - 1], s[i])
               /\ \A i \in 0..n : b[i] \in StructureStates(I, T, F)
               /\ Fold(StructureElements, StructureStart, s) = b[n]
    <3>1. n \in Nat /\ Len(s) = n
      BY <1>1
    <3> QED
      BY ONLY <1>3, <3>1, StructureRun
  <2> QED
    BY ONLY <2>1 DEF Structured
<1>5. PICK end : end = b[n] /\ end \in StructureStates(I, T, F)
  BY <1>1, <1>4, n \in 0..n DEF Structured
<1>6. PICK W : W = Words(AboutStructures) /\ end.said \in W /\ end.links \in Seq(F)
  BY <1>5, StructureStateFields
<1>7. PICK missing : /\ missing = Missing(end.links, end.seen) /\ Len(missing) \in Nat
                     /\ Len(missing) = 0 <=> Linked(end.links) \subseteq end.seen
  BY <1>6, NoneMissing DEF Linked
<1>8. PICK k1, k2, k3, k4, k5, k6 :
        /\ k1 = If(end.open # <<>>, Err("structures open"))
        /\ k2 = If(CountOf(BeginAps, s) # CountOf(EndAps, s), Err("structure ends"))
        /\ k3 = If(CountOf(BeginAps, s) # CountOf(BeginApsBody, s), Warn("structure bodies"))
        /\ k4 = Times(Len(missing), Err("link target"))
        /\ k5 = ValidateXcfBindings(f.xcf, end.seen, end.types)
        /\ k6 = Tell("structures")
  OBVIOUS
<1>9. /\ {"structures open", "structure ends", "structure bodies", "link target", "structures"} \subseteq AboutStructures
      /\ {"structures open", "structure ends", "link target"} \subseteq StructureErrors
  BY DEF AboutStructures, StructureErrors, Usual, UsualErrors, UsualWarnings, UsualNotes
<1>10. k1 \in W /\ k2 \in W /\ k3 \in W /\ k6 \in W
  BY <1>6, <1>8, <1>9, SaidOne, SaidNothing DEF If
<1>11. k4 \in W
  BY <1>6, <1>7, <1>8, <1>9, SaidTimes
<1>12. k5 \in W
  BY <1>1, <1>6, <1>8, BindingsSaid
<1>13. /\ Innocent(k1) <=> end.open = <<>>
       /\ Innocent(k2) <=> CountOf(BeginAps, s) = CountOf(EndAps, s)
       /\ Innocent(k3) /\ Innocent(k6)
  BY <1>8, <1>9, InnocentOf DEF If
<1>14. Innocent(k4) <=> Linked(end.links) \subseteq end.seen
  BY <1>7, <1>8, <1>9, InnocentTimes
<1>15. Innocent(k5)
  BY <1>1, <1>8, BindingsInnocent
<1>16. PICK m1, m2, m3, m4, m5 : /\ m1 = end.said \o k1 /\ m2 = m1 \o k2 /\ m3 = m2 \o k3 /\ m4 = m3 \o k4 /\ m5 = m4 \o k5
  OBVIOUS
<1>17. m1 \in W /\ m2 \in W /\ m3 \in W /\ m4 \in W /\ m5 \in W
  BY <1>6, <1>10, <1>11, <1>12, <1>16, SaidBoth
<1>18. Innocent(m5 \o k6) <=> /\ Innocent(end.said) /\ Innocent(k1) /\ Innocent(k2) /\ Innocent(k3)
                              /\ Innocent(k4) /\ Innocent(k5) /\ Innocent(k6)
  <2>1. Innocent(m5 \o k6) <=> Innocent(m5) /\ Innocent(k6)
    BY <1>6, <1>10, <1>17, InnocentBoth
  <2>2. Innocent(m5) <=> Innocent(m4) /\ Innocent(k5)
    BY <1>6, <1>12, <1>16, <1>17, InnocentBoth
  <2>3. Innocent(m4) <=> Innocent(m3) /\ Innocent(k4)
    BY <1>6, <1>11, <1>16, <1>17, InnocentBoth
  <2>4. Innocent(m3) <=> Innocent(m2) /\ Innocent(k3)
    BY <1>6, <1>10, <1>16, <1>17, InnocentBoth
  <2>5. Innocent(m2) <=> Innocent(m1) /\ Innocent(k2)
    BY <1>6, <1>10, <1>16, <1>17, InnocentBoth
  <2>6. Innocent(m1) <=> Innocent(end.said) /\ Innocent(k1)
    BY <1>6, <1>10, <1>16, <1>17, InnocentBoth
  <2> QED
    BY <2>1, <2>2, <2>3, <2>4, <2>5, <2>6
<1>19. StructureRemarks(f) = m5 \o k6
  <2>1. end = Fold(StructureElements, [open |-> <<>>, seen |-> {}, types |-> {}, links |-> <<>>, said |-> <<>>], f.commands)
    BY <1>4, <1>5 DEF StructureStart
  <2>2. StructureRemarks(f)
          = end.said
            \o If(end.open # <<>>, Err("structures open"))
            \o If(CountOf(BeginAps, f.commands) # CountOf(EndAps, f.commands), Err("structure ends"))
            \o If(CountOf(BeginAps, f.commands) # CountOf(BeginApsBody, f.commands), Warn("structure bodies"))
            \o Times(Len(Missing(end.links, end.seen)), Err("link target"))
            \o ValidateXcfBindings(f.xcf, end.seen, end.types)
            \o Tell("structures")
    BY <2>1 DEF StructureRemarks
  <2> QED
    BY <1>7, <1>8, <1>16, <2>2, Zenon
<1>20. CountOf(BeginAps, s) = Begins(s, BeginAps, n) /\ CountOf(EndAps, s) = Begins(s, EndAps, n)
  BY <1>1, CountedAll
<1>21. /\ Innocent(end.said) /\ end.open = <<>> /\ Begins(s, BeginAps, n) = Begins(s, EndAps, n)
       /\ Linked(end.links) \subseteq end.seen
       <=> WellStructured(s, n)
  BY <1>1, <1>4, <1>5, EndJudgedRight
<1> QED
  BY <1>13, <1>14, <1>15, <1>18, <1>19, <1>20, <1>21

\* The errors about structures are those that structures are found to have.
LEMMA StructureErrorsAre ==
  ASSUME NEW f, IsMetafile(f), NEW m, NEW U, NEW Q, NEW allow, SaysOf(f, m, U, allow, Q)
  PROVE  ErrorsOf(m) \cap StructureErrors = {} <=> Innocent(StructureRemarks(f))
<1>1. \A what : <<"ERROR", what>> \in U => what \in Ordinary
  BY ErrorsOfParts
<1>2. PartErrors(f, allow)
  BY PartErrorsAre
<1>3. FromParts(f, m, U, allow)
  BY ErrorsOfParts
<1>4. ASSUME NEW what \in StructureErrors
      PROVE  /\ what \notin Ordinary /\ what \notin Usual /\ what \notin {"prohibited", "segment prohibited"}
             /\ what \notin TextWords /\ what \notin RegionWords /\ what # "large figure"
  <2>1. what \in SpecialErrors
    BY DEF SpecialErrors
  <2>2. what \notin Usual
    BY <2>1, UsualIsUsual
  <2>3. /\ what \notin {"prohibited", "segment prohibited"} /\ what \notin TextWords
        /\ what \notin RegionWords /\ what \notin {"large figure", "other edition"}
    BY DEF StructureErrors, TextWords, RegionWords
  <2> QED
    BY <2>2, <2>3 DEF Ordinary
<1>5. ASSUME NEW what \in StructureErrors
      PROVE  what \in ErrorsOf(m) <=> <<"ERROR", what>> \in Heard(StructureRemarks(f))
  BY <1>1, <1>2, <1>3, <1>4 DEF PartErrors, FromParts
<1> QED
  BY <1>5 DEF Innocent

LEMMA AmongAre ==
  ASSUME NEW n \in Nat, DOMAIN Commands = 1..n, NEW i \in 0..n, NEW code
  PROVE  Among(code, i) = Begins(Commands, code, i)
<1>1. {j \in Of(code) : j <= i} = {j \in 1..i : Commands[j].code = code}
  BY DEF Of
<1> QED
  BY <1>1 DEF Among, Begins

LEMMA DepthIs ==
  ASSUME NEW n \in Nat, DOMAIN Commands = 1..n, NEW i \in 0..n
  PROVE  Depth(i) = Nested(Commands, i)
BY AmongAre DEF Depth, Nested

LEMMA StructureIs ==
  ASSUME NEW n \in Nat, DOMAIN Commands = 1..n, NEW i \in 1..n
  PROVE  StructureOf(i) = Max(StillOpen(Commands, i - 1))
<1>1. \A k \in 0..n : Depth(k) = Nested(Commands, k)
  BY DepthIs
<1>2. \A j : j \in Of(BeginAps) /\ j < i <=> j \in 1..(i - 1) /\ Commands[j].code = BeginAps
  BY DEF Of
<1>3. \A j \in 1..(i - 1) : \A k \in j..(i - 1) : Depth(k) = Nested(Commands, k) /\ Depth(j) = Nested(Commands, j)
  BY <1>1
<1>4. {j \in Of(BeginAps) : j < i /\ \A k \in j..(i - 1) : Depth(k) >= Depth(j)} = StillOpen(Commands, i - 1)
  BY <1>2, <1>3 DEF StillOpen
<1> QED
  BY <1>4 DEF StructureOf

LEMMA StructuresAre ==
  ASSUME NEW n \in Nat, DOMAIN Commands = 1..n, n = Len(Commands)
  PROVE  WellStructured(Commands, n) <=>
           /\ Balanced
           /\ Identified
           /\ \A b \in Of(BeginApsBody) : Depth(b) > 0
           /\ AttributesPrecedeBody
           /\ LinksResolve
<1>1. \A i \in 0..n : Depth(i) = Nested(Commands, i)
  BY DepthIs
<1>2. \A i \in 1..n : StructureOf(i) = Max(StillOpen(Commands, i - 1))
  BY StructureIs
<1>3. \A code, i : i \in Of(code) <=> i \in 1..n /\ Commands[i].code = code
  BY DEF Of
<1>4. Balanced <=> Even(Commands, n) /\ Nested(Commands, n) = 0
  <2>1. Nested(Commands, 0) = 0 /\ 0..n = (1..n) \cup {0} /\ n \in 0..n
    BY NestedNext
  <2> QED
    BY <1>1, <2>1 DEF Balanced, Even
<1>5. Identified <=> EachNamed(Commands, n)
  BY <1>3 DEF Identified, EachNamed
<1>6. (\A b \in Of(BeginApsBody) : Depth(b) > 0) <=> BodiesInside(Commands, n)
  BY <1>1, <1>3 DEF BodiesInside
<1>7. AttributesPrecedeBody <=> AttributesFirst(Commands, n)
  <2>1. ASSUME NEW i \in 1..n, NEW q \in 1..n
        PROVE  /\ Depth(i) = Nested(Commands, i) /\ Depth(q) = Nested(Commands, q)
               /\ StructureOf(i) = Max(StillOpen(Commands, i - 1)) /\ StructureOf(q) = Max(StillOpen(Commands, q - 1))
    BY <1>1, <1>2
  <2>2. AttributesPrecedeBody <=>
          \A i, q \in 1..n : /\ Commands[i].code = ApsAttribute /\ Commands[q].code = BeginApsBody
                             /\ q < i /\ Depth(i) > 0 /\ Depth(q) > 0
                             => StructureOf(q) # StructureOf(i)
    BY <1>3 DEF AttributesPrecedeBody
  <2> QED
    BY <2>1, <2>2 DEF AttributesFirst
<1>8. LinksResolve <=> LinksWell(Commands, n) /\ LinksLead(Commands, n)
  <2>1. \A i : IsLinkUri(Commands[i]) => Commands[i].code = ApsAttribute
    BY DEF IsLinkUri
  <2> QED
    BY <1>3, <2>1 DEF LinksResolve, LinksWell, LinksLead, LinkHere
<1> QED
  BY <1>4, <1>5, <1>6, <1>7, <1>8 DEF WellStructured

LEMMA StructuresCheckedIn ==
  ASSUME ReportInv
  PROVE  StructuresChecked
<1> SUFFICES ASSUME Reported PROVE StructuresChecked
  BY DEF StructuresChecked
<1>1. PICK f, p, m : f = file /\ p = report.effective /\ m = report.messages
  OBVIOUS
<1>2. IsMetafile(f) /\ p[1] \in KnownProfiles /\ m = Validate(f, CreateValidator(p)).messages
  BY <1>1, ReportedOf
<1>3. PICK U, Q, allow : SaysOf(f, Validate(f, CreateValidator(p)).messages, U, allow, Q)
  BY <1>2, ValidatedSays
<1>4. SaysOf(f, m, U, allow, Q)
  BY <1>2, <1>3
<1>5. PICK s, n : /\ s = Commands /\ n = Len(s) /\ n \in Nat /\ DOMAIN s = 1..n /\ s = f.commands
  BY <1>1, ReportedSays DEF Commands
<1>6. ErrorsOf(m) \cap StructureErrors = {} <=> Innocent(StructureRemarks(f))
  BY <1>2, <1>4, StructureErrorsAre
<1>7. Innocent(StructureRemarks(f)) <=> WellStructured(s, n)
  BY <1>2, <1>5, RemarksInnocent
<1>8. WellStructured(Commands, n) <=>
        /\ Balanced
        /\ Identified
        /\ \A b \in Of(BeginApsBody) : Depth(b) > 0
        /\ AttributesPrecedeBody
        /\ LinksResolve
  BY <1>5, StructuresAre
<1>9. ErrorsOf(report.messages) \cap StructureErrors = {} <=> WellStructured(Commands, n)
  BY <1>1, <1>5, <1>6, <1>7
<1> QED
  BY <1>8, <1>9 DEF StructuresChecked

\* Structures, their attributes and links are checked as the rules say, whatever
\* the profile: what one pass with a stack finds (validateApsStructure) is what
\* the rules say of the commands as a whole.
THEOREM StructuresAlwaysChecked == Spec => []StructuresChecked
BY ReportsFollow, StructuresCheckedIn, PTL
==============================================================================
