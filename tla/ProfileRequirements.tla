------------------------- MODULE ProfileRequirements -------------------------
(***************************************************************************)
(* What a report of a validation tells of the file. The passes of the      *)
(* validators run over the commands once, with stacks, flags and counters; *)
(* here the same rules are said of the commands as a whole.                *)
(***************************************************************************)
EXTENDS ProfileValidation

Reported == report.code = "ok"

Said(severity, messages) ==
  {messages[i].what : i \in {j \in DOMAIN messages : messages[j].severity = severity}}

ErrorsOf(messages) == Said("ERROR", messages)
WarningsOf(messages) == Said("WARNING", messages)

Commands == file.commands
Of(code) == {i \in DOMAIN Commands : Commands[i].code = code}
Among(code, i) == Cardinality({j \in Of(code) : j <= i})
-----------------------------------------------------------------------------
\* Structures.

Depth(i) == Among(BeginAps, i) - Among(EndAps, i)

Balanced ==
  /\ \A i \in DOMAIN Commands : Depth(i) >= 0
  /\ Depth(Len(Commands)) = 0

\* The structure that a command is in: the last begun before it and not ended.
StructureOf(i) ==
  Max({j \in Of(BeginAps) : j < i /\ \A k \in j..(i - 1) : Depth(k) >= Depth(j)})

AttributesPrecedeBody ==
  \A i \in Of(ApsAttribute), b \in Of(BeginApsBody) :
     b < i /\ Depth(i) > 0 /\ Depth(b) > 0 => StructureOf(b) # StructureOf(i)

Identified ==
  /\ \A i \in Of(BeginAps) : IsName(Commands[i].id)
  /\ \A i, j \in Of(BeginAps) : Commands[i].id = Commands[j].id => i = j

LinksResolve ==
  \A i \in Of(ApsAttribute) :
     LET link == Commands[i].link
     IN  IsLinkUri(Commands[i]) =>
           /\ IsValidLink(link)
           /\ IsLocalLink(link) => \E j \in Of(BeginAps) : Commands[j].id = link.fragment

StructureErrors ==
  {"structure without identifier", "identifier", "duplicate identifier", "body without structure",
   "end without structure", "attribute after body", "structures open", "structure ends",
   "link blank", "link spaces", "link hashes", "link fragment", "link fragment name", "link scheme",
   "link target"}

\* No error about application structures is reported just when they nest, each
\* has an identifier of its own, attributes come before bodies, bodies are in
\* structures, and links are well formed and lead to structures, which may
\* come later in the file. (validateApsStructure)
StructuresChecked ==
  Reported =>
    (ErrorsOf(report.messages) \cap StructureErrors = {} <=>
       /\ Balanced
       /\ Identified
       /\ \A b \in Of(BeginApsBody) : Depth(b) > 0
       /\ AttributesPrecedeBody
       /\ LinksResolve)
-----------------------------------------------------------------------------
\* Texts in parts, symbols, regions and figures.

IsText(i) == i \in DOMAIN Commands /\ Commands[i].code \in {Text, RestrictedText, AppendText}
IsPart(i) == IsText(i) /\ ~Commands[i].final

\* No error about APPEND TEXT is reported just when every part of a text that
\* is not the last is followed at once by an APPEND TEXT, and every APPEND
\* TEXT follows one. (validateTextSequencing)
TextsChecked ==
  Reported =>
    (ErrorsOf(report.messages) \cap {"APPEND TEXT missing", "APPEND TEXT out of place"} = {} <=>
       \A i \in DOMAIN Commands \cup {0} : IsPart(i) <=> i + 1 \in Of(AppendText))

\* The libraries in force at a command: those of the last list before it.
LibrariesAt(i) ==
  LET lists == {j \in Of(SymbolLibraryList) : j < i}
  IN  IF lists = {} THEN <<>> ELSE Commands[Max(lists)].libraries

Located(i) ==
  LET libraries == LibrariesAt(i)  index == Commands[i].index
  IN  \/ /\ index >= 0 /\ index < Len(libraries)
         /\ libraries[index + 1] \in {"local", "remote"}
      \/ /\ index > 0 /\ index = Len(libraries)
         /\ libraries[index] \in {"local", "remote"}

\* No symbol is reported lost just when each is of a library that the list in
\* force at the symbol locates, though of several symbols of a library only the
\* first is reported. (validateSymbolReferences)
SymbolsChecked ==
  Reported =>
    (WarningsOf(report.messages) \cap {"no libraries", "no such symbol", "symbol missing"} = {} <=>
       \A i \in Of(PolySymbol) : Located(i))

\* How many commands of some classes there are between a beginning and its end.
Spans(begin, end) ==
  {p \in Of(begin) \X Of(end) :
     p[1] < p[2] /\ ~\E k \in Of(begin) \cup Of(end) : p[1] < k /\ k < p[2]}

Inside(begin, end, classes) ==
  {Cardinality({k \in p[1]..p[2] : Class(Commands[k]) \in classes}) : p \in Spans(begin, end)}

\* A region or a figure is reported as too large just when between its
\* beginning and its end there are more elements than the limit, whatever
\* there was in earlier ones. (validateProtectionRegions, validateFigureComplexity)
LimitsChecked ==
  Reported =>
    /\ "large region" \in ErrorsOf(report.messages) <=>
         \E n \in Inside(BeginRegion, EndRegion, 1..15) : n > MaxInRegion
    /\ "large figure" \in ErrorsOf(report.messages) <=>
         \E n \in Inside(BeginFigure, EndFigure, {4}) : n > MaxInFigure
-----------------------------------------------------------------------------
\* Profiles.

SegmentErrors == {"prohibited", "segment prohibited"}

\* Whatever the profile, the report has the errors that WebCGM has; those about
\* segments alone are absent where segments are accepted. (the validate() of
\* the three validators, createValidator)
ProfilesAgree ==
  Reported =>
    LET agree(webCgm, errors) ==
          CASE report.effective[1] \in {"ATA", "S1000D"} -> webCgm \subseteq errors
            [] report.effective[1] = "WebCGM" -> errors = webCgm
            [] OTHER -> errors = webCgm \ SegmentErrors
    IN  agree(ErrorsOf(Validate(file, CreateValidator(<<"WebCGM">>)).messages),
              ErrorsOf(report.messages))

\* A validator that has validated other files says of a file what a new
\* validator says of it. (the validate() of the three validators)
KeptIsFresh ==
  validator # NoValidator =>
    LET fresh == NewValidator(validator.kind, validator.version, validator.allowSegments)
    IN  validator.messages = Validate(file, fresh).messages

\* A file whose only description declares its profile and an edition of ATA
\* that there are rules for is validated against those when ATA is asked for:
\* no other edition is reported. (opencgm_validate_profile, validateProfileDeclarationATA)
EditionHonoured ==
  Reported /\ report.requested = "ata" /\ Len(Descriptions(file)) = 1 =>
    LET d == Descriptions(file)[1]
    IN  FirstWord(QuotedValue("ProfileId", d)) # "" /\ QuotedValue("ProfileEd", d) \in DOMAIN AtaOf
          => "other edition" \notin WarningsOf(report.messages)
=============================================================================
