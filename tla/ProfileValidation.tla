-------------------------- MODULE ProfileValidation ---------------------------
(***************************************************************************)
(* Which profile a metafile is of, by what its descriptions mention and by *)
(* what it contains, and which profile a caller's request comes to.        *)
(* A description mentions its words and what a search finds in its items;  *)
(* edition is the number that follows the word GREXCHANGE, if one does.    *)
(*                                                                         *)
(* Files validated one after the other: through the context of the C       *)
(* interface, which makes a validator for every call, and by a program     *)
(* that keeps a validator and has it validate again.                       *)
(* (profile_validator.cpp, profile_validator.h, c_api.cpp)                 *)
(***************************************************************************)
EXTENDS DerivedProfiles

CONSTANT FirstWord(_)    \* a value up to a space or a comma

Versions == <<"2.9", "2.8", "2.7", "2.6">>

AtaOf == [n \in {"2.6", "2.7", "2.8", "2.9"} |-> <<"ATA", n>>]

Mentioned(d) == d.words \cup UNION {WordsIn(d.items[i].value) : i \in DOMAIN d.items}

\* The newest version mentioned anywhere; the newest there is, if none is.
AtaVersion(words) ==
  LET found == Those(Versions, LAMBDA n : n \in words)
  IN  IF found = <<>> THEN "2.9" ELSE found[1]

DescribedProfile(d) ==
  LET words == Mentioned(d)
  IN  CASE "GREXCHANGE" \in words -> AtaOf[AtaVersion(words)]
        [] "GREXCHANGE" \notin words /\ "S1000D" \in words -> <<"S1000D">>
        [] words \cap {"GREXCHANGE", "S1000D"} = {} /\ "WEBCGM" \in words -> <<"WebCGM">>
        [] words \cap {"GREXCHANGE", "S1000D", "WEBCGM"} = {} /\ words \cap {"CALS", "BASIC-1"} # {} -> <<"CALS">>
        [] OTHER -> <<"unknown">>

\* The last description that mentions a profile decides; else the contents do.
DetectProfile(f) ==
  LET described == Those([i \in DOMAIN Descriptions(f) |-> DescribedProfile(Descriptions(f)[i])],
                             LAMBDA p : p # <<"unknown">>)
      contains(code(_)) == \E i \in DOMAIN f.commands : code(f.commands[i])
      structured == contains(LAMBDA c : c.code \in {BeginAps, BeginApsBody, EndAps} \/ Class(c) = 9)
      segmented == contains(LAMBDA c : Class(c) = 8)
      certain(profile, confident) == [profile |-> profile, confident |-> confident]
  IN  IF described # <<>> THEN certain(described[Len(described)], TRUE)
      ELSE IF structured /\ ~segmented /\ CountOf(BeginPicture, f.commands) <= 1 /\ f.binary
           THEN certain(<<"WebCGM">>, TRUE)
           ELSE certain(<<"ISO">>, FALSE)

CreateValidator(profile) ==
  CASE profile[1] = "ATA" -> NewValidator("ATA", profile[2], FALSE)
    [] profile[1] = "S1000D" -> NewValidator("S1000D", "", FALSE)
    [] profile[1] \in {"ISO", "PIP", "CALS"} -> NewValidator("WebCGM", "", TRUE)
    [] OTHER -> NewValidator("WebCGM", "", FALSE)

FirstValue(key, d) == IF Keyed(key, d) = {} THEN "" ELSE d.items[Min(Keyed(key, d))].value

\* The profile and the edition that a description declares or, if it declares
\* no profile, mentions; how sure that is, in tenths.
ParseFromDescription(d) ==
  LET words == Mentioned(d)
      id == FirstWord(FirstValue("ProfileId", d))
      edition == FirstValue("ProfileEd", d)
      inferred(profile, e) == [id |-> profile, edition |-> e, confidence |-> 8]
  IN  CASE id # "" -> [id |-> id, edition |-> edition, confidence |-> 9]
        [] id = "" /\ "GREXCHANGE" \in words ->
             inferred(AtaProfile, IF d.edition = "" THEN edition ELSE d.edition)
        [] id = "" /\ "GREXCHANGE" \notin words ->
             CASE "S1000D" \in words -> inferred("S1000D", edition)
               [] "S1000D" \notin words /\ "WEBCGM" \in words -> inferred("WebCGM", edition)
               [] words \cap {"S1000D", "WEBCGM"} = {} /\ words \cap {"CALS", "BASIC-1"} # {} ->
                    inferred("CALS", edition)
               [] OTHER -> [id |-> "", edition |-> edition, confidence |-> 0]

HasNurbs(f) == \E i \in DOMAIN f.commands : f.commands[i].code \in {Spline, RationalSpline}
HasParabolicArcs(f) == All(ParabolicArc, f.commands) # <<>>
HasApplicationStructures(f) == \E i \in DOMAIN f.commands : Class(f.commands[i]) = 9

\* The metadata are those of the first description.
DetectProfileWithMetadata(f) ==
  LET all == Descriptions(f)
      declared == IF all = <<>> THEN [id |-> "", edition |-> "", confidence |-> 0]
                  ELSE ParseFromDescription(all[1])
      guess == IF ~HasNurbs(f) /\ ~HasParabolicArcs(f) /\ HasApplicationStructures(f) THEN 5 ELSE 3
  IN  [detected |-> DetectProfile(f), edition |-> declared.edition, id |-> declared.id,
       confidence |-> IF declared.confidence = 0 THEN guess ELSE declared.confidence]
-----------------------------------------------------------------------------
\* What opencgm_validate_profile validates against.

RequestedProfile(requested) ==
  CASE requested \in {"generic", "iso8632"} -> <<"ISO">>
    [] requested \in {"webcgm", "cgmplus"} -> <<"WebCGM">>
    [] requested = "s1000d" -> <<"S1000D">>
    [] requested = "ata" -> AtaOf["2.9"]
    [] requested = "pip" -> <<"PIP">>
    [] requested = "cals" -> <<"CALS">>
    [] OTHER -> <<"unsupported">>

\* Mutant: one edition is forgotten.
EffectiveProfileOfTwo(f, requested) ==
  LET probe == DetectProfileWithMetadata(f)
  IN  IF requested \in {"", "auto"} THEN probe.detected.profile
      ELSE IF requested = "ata" /\ probe.edition \in {"2.6", "2.7"} THEN AtaOf[probe.edition]
      ELSE RequestedProfile(requested)

\* A declared edition of ATA picks the rules of that edition, if there are any.
\* An edition stands for all that begin with it, as the code compares prefixes.
EffectiveProfile(f, requested) ==
  LET probe == DetectProfileWithMetadata(f)
  IN  IF requested \in {"", "auto"} THEN probe.detected.profile
      ELSE IF requested = "ata" /\ probe.edition \in {"2.6", "2.7", "2.8"} THEN AtaOf[probe.edition]
      ELSE RequestedProfile(requested)

\* ValidationReport.
Counts(messages) ==
  LET count(severities) == CountWhere(messages, LAMBDA m : m.severity \in severities)
  IN  [errors |-> count({"ERROR", "FATAL"}), warnings |-> count({"WARNING"}), infos |-> count({"INFO"})]

Passed(messages) == Counts(messages).errors = 0
-----------------------------------------------------------------------------
\* Validation

CONSTANTS
  Files,           \* the metafiles there are, as they are read
  Others,          \* those a program has a kept validator go on to
  Unreadable,      \* what stands for a file that cannot be read
  Requests,        \* the profiles a caller asks for
  Kept             \* the profiles a program keeps a validator of

\* What a reader gives: lists, and numbers where something is counted.
IsMetafile(f) ==
  /\ IsList(f.commands) /\ IsList(f.unsupportedCharsets) /\ IsList(f.xcf.ids) /\ IsList(f.xcf.types)
  /\ \A i \in DOMAIN f.commands :
        LET c == f.commands[i]
        IN  /\ Class(c) \in 0..15
            /\ c.code \in {Text, RestrictedText, AppendText, Message, ApplicationData} => c.text.c0 + c.text.c1 \in Nat
            /\ c.code = SymbolLibraryList => c.libraries \in Seq(LibraryKinds)
            /\ c.code = PolySymbol => c.index \in Int
            /\ c.code = MetafileDescription => IsList(c.description.items)

ASSUME FilesAssumption == \A f \in Files \cup Others : IsMetafile(f)

NoReport == [code |-> "none"]
NoValidator == [kind |-> "none"]

VARIABLES
  client,          \* who validates: a caller of the C "interface" or a "program"
  file,            \* the file at hand
  report,          \* code of opencgm_validate_profile, and last_validation_json
  validator        \* the validator that a program keeps, with its messages

vars == <<client, file, report, validator>>

Init ==
  /\ client \in {"interface", "program"}
  /\ file \in IF client = "interface" THEN Files \cup {Unreadable} ELSE Files
  /\ report = NoReport
  /\ validator = NoValidator

\* What opencgm_validate_profile leaves: no report, when it fails.
Validated(requested) ==
  LET against(profile) ==
        IF profile = <<"unsupported">> THEN [code |-> "argument"]
        ELSE [code |-> "ok", requested |-> requested, effective |-> profile,
              messages |-> Validate(file, CreateValidator(profile)).messages]
  IN  IF file = Unreadable THEN [code |-> "parse"] ELSE against(EffectiveProfile(file, requested))

\* One call of the interface is enough: a report depends on no other.
ValidateProfile ==
  /\ client = "interface" /\ report = NoReport
  /\ \E requested \in Requests : report' = Validated(requested)
  /\ UNCHANGED <<client, file, validator>>

\* A program makes a validator, and has it validate the file.
Create ==
  /\ client = "program"
  /\ validator = NoValidator
  /\ \E profile \in Kept : validator' = Validate(file, CreateValidator(profile))
  /\ UNCHANGED <<client, file, report>>

\* The same validator validates that file again, or another.
ValidateNext ==
  /\ validator # NoValidator
  /\ file' \in {file} \cup Others
  /\ validator' = Validate(file', validator)
  /\ UNCHANGED <<client, report>>

Next == ValidateProfile \/ Create \/ ValidateNext

Spec == Init /\ [][Next]_vars
=============================================================================
