---------------------------- MODULE InterfaceProofs ----------------------------
(***************************************************************************)
(* What holds of the C interfaces whatever the files, the settings, the    *)
(* threads and the number of calls: a conversion tells one story, callers' *)
(* settings win, and handles and converters share metafiles safely.        *)
(***************************************************************************)
EXTENDS HandleInterface, TLAPS

----------------------------------------------------------------------------
\* The shape of the state that the calls keep: which fields there are.

ContextFields == {"options", "given", "target", "hotspot", "fonts", "companion", "logging", "kept"}
KeptFields == {"document", "report", "json", "text", "detection", "validation", "catalog"}
Whole(x) == DOMAIN x = ContextFields /\ DOMAIN x.kept = KeptFields
ContextsWhole == DOMAIN ctx = Context /\ \A c \in Context : Whole(ctx[c])
DiskWhole == disk = [p \in Places |-> disk[p]]
Shaped ==
  /\ live \subseteq Context
  /\ ContextsWhole
  /\ DiskWhole
  /\ DOMAIN error = Thread
  /\ DOMAIN left = {"contexts", "handles"}

\* A call on a context that is no conversion: it is not remembered as one.
Plain == answer'.about = <<>> \/ left'.contexts = left.contexts

\* An EXCEPT on one context keeps the contexts whole when the new one is.
LEMMA OneContext ==
  ASSUME NEW c \in Context, NEW x, ContextsWhole, Whole(x), ctx' = [ctx EXCEPT ![c] = x]
  PROVE  ContextsWhole'
BY DEF ContextsWhole

LEMMA NewContextWhole == Whole(NewContext)
BY DEF Whole, NewContext, ContextFields, KeptFields

\* Remembering no answer, or a number, is remembering no conversion.
LEMMA NoAnswerPlain == ASSUME Ends(NoAnswer) PROVE Plain
BY DEF Ends, NoAnswer, Plain
LEMMA NumbersPlain ==
  ASSUME NEW t, NEW c, NEW n, Numbers(t, c, n) PROVE Plain
BY DEF Ends, NoAnswer, Plain, Numbers
LEMMA EndsShapes ==
  ASSUME NEW last, Ends(last), DOMAIN left = {"contexts", "handles"}
  PROVE  DOMAIN left' = {"contexts", "handles"}
BY DEF Ends
LEMMA SaysShapes ==
  ASSUME NEW t, NEW message, DOMAIN error = Thread, Says(t, message) \/ UNCHANGED error
  PROVE  DOMAIN error' = Thread
BY DEF Says
LEMMA WritesShapes ==
  ASSUME NEW p, NEW content, DiskWhole, Writes(p, content) \/ UNCHANGED disk
  PROVE  DiskWhole'
BY DEF Writes, DiskWhole

----------------------------------------------------------------------------
\* The setters: one context changes, in fields it had, and nothing is answered.

LEMMA SetsShaped ==
  ASSUME Shaped, Sets, ContextsWhole' PROVE Shaped' /\ Plain
BY EndsShapes, NoAnswerPlain DEF Sets, Shaped, DiskWhole

LEMMA AnswersShaped ==
  ASSUME Shaped, NEW t, NEW c, Answers(t, c), ContextsWhole', DiskWhole', UNCHANGED live
  PROVE  Shaped' /\ Plain
BY EndsShapes, NoAnswerPlain, SaysShapes DEF Answers, Tells, Shaped

LEMMA SettersShaped ==
  ASSUME Shaped, NEW t \in Thread, NEW c \in live,
         \/ SetOption(t, c) \/ SetTarget(t, c) \/ SetOutputProfile(t, c) \/ SetHotspotProfile(t, c)
         \/ AddCustomAttribute(t, c) \/ ClearXcfInput(t, c) \/ GetCatalog(t, c)
  PROVE  Shaped' /\ Plain
<1>0. c \in Context /\ Whole(ctx[c]) /\ ContextsWhole
  BY DEF Shaped, ContextsWhole
<1>1. CASE SetOption(t, c)
  <2>1. PICK s \in Settings.options :
          ctx' = [ctx EXCEPT ![c].options[s[1]] = Stored(s[1], s[2]),
                             ![c].given = @ \cup ({s[1]} \cap Remembered)]
    BY <1>1 DEF SetOption
  <2>2. ContextsWhole'
    BY <2>1, <1>0 DEF ContextsWhole, Whole, ContextFields
  <2> QED BY <1>1, <2>2, SetsShaped DEF SetOption
<1>2. CASE SetTarget(t, c)
  <2>2. ContextsWhole'
    BY <1>2, <1>0 DEF SetTarget, ContextsWhole, Whole, ContextFields
  <2> QED BY <1>2, <2>2, SetsShaped DEF SetTarget
<1>3. CASE SetOutputProfile(t, c)
  <2>1. PICK s \in Settings.outputProfiles : TRUE /\
          \E profile \in {IF s \in DOMAIN OutputNames THEN s ELSE "WebCGM21"} :
            ctx' = [ctx EXCEPT ![c].options.output_profile = profile,
                               ![c].given = @ \cup {"output_profile"},
                               ![c].target = IF profile = "Custom" THEN @ ELSE TargetOf(profile)]
    BY <1>3 DEF SetOutputProfile
  <2>2. ContextsWhole'
    BY <2>1, <1>0 DEF ContextsWhole, Whole, ContextFields
  <2> QED BY <1>3, <2>2, SetsShaped DEF SetOutputProfile
<1>4. CASE SetHotspotProfile(t, c)
  <2>2. ContextsWhole'
    BY <1>4, <1>0 DEF SetHotspotProfile, ContextsWhole, Whole, ContextFields
  <2> QED BY <1>4, <2>2, SetsShaped DEF SetHotspotProfile
<1>5. CASE AddCustomAttribute(t, c)
  <2>2. ContextsWhole'
    BY <1>5, <1>0 DEF AddCustomAttribute, ContextsWhole, Whole, ContextFields
  <2> QED BY <1>5, <2>2, SetsShaped DEF AddCustomAttribute
<1>6. CASE ClearXcfInput(t, c)
  <2>2. ContextsWhole'
    BY <1>6, <1>0 DEF ClearXcfInput, ContextsWhole, Whole, ContextFields
  <2> QED BY <1>6, <2>2, SetsShaped DEF ClearXcfInput
<1>7. CASE GetCatalog(t, c)
  <2>2. ContextsWhole'
    BY <1>7, <1>0 DEF GetCatalog, ContextsWhole, Whole, ContextFields, KeptFields
  <2> QED BY <1>7, <2>2, SetsShaped DEF GetCatalog
<1> QED BY <1>1, <1>2, <1>3, <1>4, <1>5, <1>6, <1>7

\* The calls that answer with a code: they say it, and keep what they read.
LEMMA AnsweringShaped ==
  ASSUME Shaped, NEW t \in Thread, NEW c \in live,
         \/ SetFontMap(t, c) \/ SetXcfInput(t, c) \/ ValidateXcf(t)
         \/ DetectProfile(t, c) \/ ValidateProfile(t, c) \/ RefuseArguments(t)
  PROVE  Shaped' /\ Plain
<1>0. c \in Context /\ Whole(ctx[c]) /\ ContextsWhole /\ DiskWhole
  BY DEF Shaped, ContextsWhole
<1>1. CASE SetFontMap(t, c)
  <2>1. ContextsWhole'
    BY <1>1, <1>0 DEF SetFontMap, ContextsWhole, Whole, ContextFields
  <2> QED BY <1>1, <1>0, <2>1, AnswersShaped DEF DiskWhole, SetFontMap
<1>2. CASE SetXcfInput(t, c)
  <2>1. ContextsWhole'
    BY <1>2, <1>0 DEF SetXcfInput, ContextsWhole, Whole, ContextFields
  <2> QED BY <1>2, <1>0, <2>1, AnswersShaped DEF DiskWhole, SetXcfInput
<1>3. CASE ValidateXcf(t)
  <2>1. ContextsWhole'
    BY <1>3, <1>0 DEF ValidateXcf, ContextsWhole
  <2> QED BY <1>3, <1>0, <2>1, AnswersShaped DEF DiskWhole, ValidateXcf
<1>4. CASE DetectProfile(t, c)
  <2>1. ContextsWhole'
    BY <1>4, <1>0 DEF DetectProfile, ContextsWhole, Whole, ContextFields, KeptFields
  <2> QED BY <1>4, <1>0, <2>1, AnswersShaped DEF DiskWhole, DetectProfile
<1>5. CASE ValidateProfile(t, c)
  <2>1. ContextsWhole'
    BY <1>5, <1>0 DEF ValidateProfile, ContextsWhole, Whole, ContextFields, KeptFields
  <2> QED BY <1>5, <1>0, <2>1, AnswersShaped DEF DiskWhole, ValidateProfile
<1>6. CASE RefuseArguments(t)
  <2>1. ContextsWhole'
    BY <1>6, <1>0 DEF RefuseArguments, Fails, ContextsWhole
  <2> QED BY <1>6, <1>0, <2>1, AnswersShaped DEF DiskWhole, RefuseArguments, Fails
<1> QED BY <1>1, <1>2, <1>3, <1>4, <1>5, <1>6

\* The calls that count, and those that write a file.
LEMMA WritingShaped ==
  ASSUME Shaped, NEW t \in Thread, NEW c \in live,
         \/ SetOutputFormat(t, c) \/ SetLogFile(t, c) \/ RunBuiltinQa(t, c) \/ WriteReport(t, c)
         \/ TraceCgm(t) \/ GenerateXcf(t, c) \/ GetPictureCount(t, c) \/ GetHotspotCount(t, c)
  PROVE  Shaped' /\ Plain
<1>0. c \in Context /\ Whole(ctx[c]) /\ ContextsWhole
  BY DEF Shaped, ContextsWhole
<1>n. ASSUME NEW n, Numbers(t, c, n), UNCHANGED <<live, ctx, fontFiles, disk>> PROVE Shaped' /\ Plain
  BY <1>n, EndsShapes, NumbersPlain, SaysShapes DEF Numbers, Shaped, ContextsWhole, DiskWhole
<1>f. ASSUME NEW failure, Fails(t, failure) PROVE Shaped' /\ Plain
  BY <1>f, EndsShapes, NoAnswerPlain, SaysShapes DEF Fails, Answers, Tells, Shaped, ContextsWhole, DiskWhole
<1>s. ASSUME NEW p, NEW content, NEW failure, Saves(t, p, content, failure) PROVE Shaped' /\ Plain
  <2>1. Ends(NoAnswer) /\ DOMAIN error' = Thread /\ DiskWhole'
    BY <1>s, SaysShapes, WritesShapes DEF Saves, Answers, Tells, Shaped
  <2> QED BY <1>s, <2>1, EndsShapes, NoAnswerPlain DEF Saves, Shaped, ContextsWhole
<1>1. CASE SetOutputFormat(t, c)
  <2>1. PICK f \in Settings.formats :
          \/ ctx' = [ctx EXCEPT ![c].options.output_format = f, ![c].given = @ \ {"output_format"}]
          \/ ctx' = [ctx EXCEPT ![c].options.output_format = f, ![c].given = @ \cup {"output_format"},
                                ![c].options.attribute_output_format = Formats[f]]
          \/ ctx' = ctx
    BY <1>1 DEF SetOutputFormat
  <2>2. ContextsWhole'
    BY <2>1, <1>0 DEF ContextsWhole, Whole, ContextFields
  <2>3. Ends(NoAnswer) /\ UNCHANGED <<live, disk>> /\ DOMAIN error' = Thread
    BY <1>1, SaysShapes DEF SetOutputFormat, Shaped, DiskWhole
  <2> QED BY <2>2, <2>3, EndsShapes, NoAnswerPlain DEF Shaped, DiskWhole
<1>2. CASE SetLogFile(t, c)
  <2>1. PICK p \in Outputs : \E ok \in BOOLEAN :
          ctx' = [ctx EXCEPT ![c].options.log_file_path = p, ![c].logging = ok]
    <3>1. PICK p \in Outputs :
            ctx' = [ctx EXCEPT ![c].options.log_file_path = p, ![c].logging = ctx[c].logging \/ p \in Writable]
      BY <1>2 DEF SetLogFile
    <3> QED BY <3>1
  <2>2. ContextsWhole'
    BY <2>1, <1>0 DEF ContextsWhole, Whole, ContextFields
  <2>3. Ends(NoAnswer) /\ UNCHANGED live /\ DOMAIN error' = Thread /\ DiskWhole'
    BY <1>2, SaysShapes, WritesShapes DEF SetLogFile, Shaped
  <2> QED BY <2>2, <2>3, EndsShapes, NoAnswerPlain DEF Shaped, DiskWhole
<1>3. CASE RunBuiltinQa(t, c)
  BY <1>3, <1>n DEF RunBuiltinQa
<1>4. CASE WriteReport(t, c)
  BY <1>4, <1>f, <1>s DEF WriteReport
<1>5. CASE TraceCgm(t)
  BY <1>5, <1>f, <1>s DEF TraceCgm
<1>6. CASE GenerateXcf(t, c)
  BY <1>6, <1>f, <1>s DEF GenerateXcf
<1>7. CASE GetPictureCount(t, c)
  BY <1>7, <1>n DEF GetPictureCount, Counts
<1>8. CASE GetHotspotCount(t, c)
  BY <1>8, <1>n DEF GetHotspotCount, Counts
<1> QED BY <1>1, <1>2, <1>3, <1>4, <1>5, <1>6, <1>7, <1>8

----------------------------------------------------------------------------
\* Conversions. The context they leave is the one they found, with the font map
\* they had to read, and with its report.

LEMMA FontsWhole == ASSUME NEW x, Whole(x) PROVE Whole(WithFonts(x)) /\ WithFonts(x).options = x.options
BY DEF Whole, WithFonts, ContextFields

LEMMA KeptWhole ==
  ASSUME NEW k, NEW input, NEW output, NEW x, NEW o, DOMAIN k = KeptFields
  PROVE  DOMAIN Kept(k, input, output, x, o) = KeptFields
BY DEF Kept, Cleared, KeptFields

\* What a conversion does to its context, and the answer that is remembered.
Leaves(t, c, p, output, picture, o, x) ==
  /\ ctx'[c] = [x EXCEPT !.kept = Kept(@, p, output, x, o)]
  /\ answer' = [thread |-> t, context |-> c, code |-> o.code, value |-> 0, about |-> <<p, output>>]
  /\ error'[t] = IF o.code = "OK" THEN "" ELSE o.code
  /\ disk' = [q \in DOMAIN disk |->
                IF q = output /\ "svg" \in o.wrote THEN Svg(x, p, picture)
                ELSE IF q = XcfOf(output) /\ "xcf" \in o.wrote THEN Xcf(x, p) ELSE disk[q]]

LEMMA ConvertsLeaves ==
  ASSUME Shaped, NEW t \in Thread, NEW c \in live, NEW p, NEW output, NEW picture, NEW o, NEW reads,
         Converts(t, c, p, output, picture, o, reads)
  PROVE  /\ Shaped'
         /\ Leaves(t, c, p, output, picture, o, IF reads THEN WithFonts(ctx[c]) ELSE ctx[c])
<1> DEFINE x == IF reads THEN WithFonts(ctx[c]) ELSE ctx[c]
<1>1. c \in Context /\ Whole(ctx[c]) /\ Whole(x)
  BY FontsWhole DEF Shaped, ContextsWhole
<1>2. ctx' = [ctx EXCEPT ![c] = [x EXCEPT !.kept = Kept(@, p, output, x, o)]]
  BY DEF Converts
<1> HIDE DEF x
<1>3. Whole([x EXCEPT !.kept = Kept(@, p, output, x, o)])
  BY <1>1, KeptWhole DEF Whole, ContextFields
<1>4. ContextsWhole' /\ ctx'[c] = [x EXCEPT !.kept = Kept(@, p, output, x, o)]
  BY <1>1, <1>2, <1>3, OneContext DEF Shaped, ContextsWhole
<1>5. Shaped'
  BY <1>4, EndsShapes, SaysShapes DEF Converts, Tells, Shaped, DiskWhole
<1>6. error'[t] = IF o.code = "OK" THEN "" ELSE o.code
  BY DEF Converts, Tells, Says, Shaped
<1>7. answer' = [thread |-> t, context |-> c, code |-> o.code, value |-> 0, about |-> <<p, output>>]
  BY DEF Converts, Ends
<1>8. disk' = [q \in DOMAIN disk |->
                IF q = output /\ "svg" \in o.wrote THEN Svg(x, p, picture)
                ELSE IF q = XcfOf(output) /\ "xcf" \in o.wrote THEN Xcf(x, p) ELSE disk[q]]
  BY DEF Converts, x
<1> QED BY <1>4, <1>5, <1>6, <1>7, <1>8 DEF Leaves, x

\* What the outcome of any conversion promises: success is the only code that
\* needs a report, and what was written goes with the code.
Coherent(o, output, asked) ==
  /\ o.code = "OK" => o.reported /\ "svg" \in o.wrote
  /\ o.code = "OK" => ("xcf" \in o.wrote <=> asked)
  /\ o.code # "OK" => "xcf" \notin o.wrote
  /\ o.code # "OK" /\ "svg" \in o.wrote => asked /\ XcfOf(output) \notin Writable /\ o.code = "IO"
  /\ o.code # ""

LEMMA StopCoherent ==
  ASSUME NEW code_, NEW reported, NEW issues, NEW output, NEW asked, code_ # "OK", code_ # ""
  PROVE  Coherent(Stop(code_, reported, issues, {}), output, asked)
BY DEF Stop, Coherent

LEMMA DeliveredCoherent ==
  ASSUME NEW x, NEW output, NEW packs, NEW reports, NEW issues
  PROVE  Coherent(Delivered(x, output, packs, reports, issues), output, x.options.generate_xcf = 1)
BY DEF Delivered, Stop, Coherent

LEMMA FontStatusNamed == ASSUME NEW x PROVE FontStatus(x) # ""
BY DEF FontStatus, LoadStatus

LEMMA OutcomesCoherent ==
  ASSUME NEW x, NEW m, NEW index, NEW output, NEW packs, Whole(x)
  PROVE  /\ Coherent(Outcome(x, m, output, packs), output, x.options.generate_xcf = 1)
         /\ Coherent(PictureOutcome(x, m, index, output, packs), output, x.options.generate_xcf = 1)
<1>1. WithFonts(x).options = x.options
  BY FontsWhole
<1>2. \A issues, reports :
        Coherent(Delivered(WithFonts(x), output, packs, reports, issues), output, x.options.generate_xcf = 1)
  BY <1>1, DeliveredCoherent
<1>3. \A reported, issues, code_ :
        code_ # "OK" /\ code_ # "" => Coherent(Stop(code_, reported, issues, {}), output, x.options.generate_xcf = 1)
  BY StopCoherent
<1>4. Coherent(Outcome(x, m, output, packs), output, x.options.generate_xcf = 1)
  BY <1>2, <1>3, FontStatusNamed DEF Outcome
<1>5. Coherent(PictureOutcome(x, m, index, output, packs), output, x.options.generate_xcf = 1)
  BY <1>2, <1>3, FontStatusNamed DEF PictureOutcome
<1> QED BY <1>4, <1>5

\* A conversion that has succeeded had its font map.
FontsThere(x) == x.fonts.path = "" \/ x.fonts.loaded
LEMMA SuccessHasFonts ==
  ASSUME NEW x, NEW m, NEW index, NEW output, NEW packs, Whole(x),
         \/ Outcome(x, m, output, packs).code = "OK"
         \/ PictureOutcome(x, m, index, output, packs).code = "OK"
  PROVE  m.readable /\ FontsThere(WithFonts(x))
<1>1. m.readable /\ FontStatus(x) = "OK"
  BY DEF Outcome, PictureOutcome, Stop
<1>2. CASE Needs(x)
  <2>1. FontMap(x.fonts.path).loaded
    BY <1>1, <1>2 DEF FontStatus, FontMap, Needs
  <2> QED BY <1>1, <1>2, <2>1 DEF WithFonts, FontsThere, Whole, ContextFields
<1>3. CASE ~Needs(x)
  BY <1>1, <1>3 DEF WithFonts, Needs, FontsThere
<1> QED BY <1>2, <1>3

----------------------------------------------------------------------------
\* A conversion's context, report, error and files agree.

LEMMA LeavesAgree ==
  ASSUME NEW t, NEW c, NEW p, NEW output \in Outputs, NEW picture, NEW o, NEW x,
         Whole(x), DiskWhole, Coherent(o, output, x.options.generate_xcf = 1),
         Leaves(t, c, p, output, picture, o, x)
  PROVE  ReportsAgree /\ FilesAgree
<1>1. /\ answer'.thread = t /\ answer'.context = c /\ answer'.code = o.code
      /\ answer'.about = <<p, output>> /\ answer'.about[1] = p /\ answer'.about[2] = output
  BY DEF Leaves
<1>2. ctx'[c].kept = Kept(x.kept, p, output, x, o) /\ ctx'[c].options = x.options
  BY DEF Leaves, Whole, ContextFields
<1>3. ReportsAgree
  <2>1. Succeeded <=> error'[t] = ""
    BY <1>1 DEF Succeeded, Leaves, Coherent
  <2> DEFINE r == [input |-> p, output |-> output, success |-> o.code = "OK", issues |-> o.issues,
                   compressed |-> x.options.compress_output = 1]
             k == Kept(x.kept, p, output, x, o)
  <2>2. r.input = p /\ r.output = output /\ (r.success = (o.code = "OK"))
    OBVIOUS
  <2>3. /\ o.reported => k.document = <<p>> /\ k.report = <<r>> /\ k.json = <<r>> /\ k.text = <<r>>
        /\ ~o.reported => k.document = <<>> /\ k.report = <<>> /\ k.json = <<>> /\ k.text = <<>>
    BY DEF Kept, Cleared, Whole, KeptFields
  <2>4. o.code = "OK" => o.reported
    BY DEF Coherent
  <2> HIDE DEF r, k
  <2>5. k = ctx'[c].kept
    BY <1>2 DEF k
  <2>6. CASE o.reported
    <3>1. KeptNow.report = <<r>> /\ KeptNow.document = <<p>> /\ KeptNow.json = <<r>> /\ KeptNow.text = <<r>>
      BY <1>1, <2>3, <2>5, <2>6 DEF KeptNow
    <3>2. KeptNow.report[1] = r /\ KeptNow.report # <<>>
      BY <3>1
    <3>3. <<r.input, r.output>> = answer'.about /\ (r.success = Succeeded)
      BY <1>1, <2>2 DEF Succeeded
    <3> QED BY <1>1, <2>1, <2>2, <3>1, <3>2, <3>3 DEF ReportsAgree
  <2>7. CASE ~o.reported
    <3>1. /\ KeptNow.report = <<>> /\ KeptNow.document = <<>>
          /\ KeptNow.json = KeptNow.report /\ KeptNow.text = KeptNow.report
      BY <1>1, <2>3, <2>5, <2>7 DEF KeptNow
    <3>2. ~Succeeded
      BY <1>1, <2>4, <2>7 DEF Succeeded
    <3> QED BY <1>1, <2>1, <3>1, <3>2 DEF ReportsAgree
  <2> QED BY <2>6, <2>7
<1>4. FilesAgree
  <2> DEFINE companion == XcfOf(output)
             asked == x.options.generate_xcf = 1
  <2>1. output \in Places /\ companion \in Places /\ companion # output
    BY PathsAssumption DEF Places
  <2>2. DOMAIN disk = Places /\ disk = [q \in Places |-> disk[q]]
    BY DEF DiskWhole
  <2>3. disk' = [q \in Places |->
                   IF q = output /\ "svg" \in o.wrote THEN Svg(x, p, picture)
                   ELSE IF q = companion /\ "xcf" \in o.wrote THEN Xcf(x, p) ELSE disk[q]]
    BY <2>2 DEF Leaves
  <2>4. /\ Svg(x, p, picture).kind = "svg" /\ Svg(x, p, picture).input = p
        /\ Xcf(x, p).kind = "xcf" /\ Xcf(x, p).input = p
    BY DEF Svg, Xcf
  <2>5. /\ \A q \in Places \ {output, companion} : disk'[q] = disk[q]
        /\ "svg" \in o.wrote => disk'[output] = Svg(x, p, picture)
        /\ "xcf" \in o.wrote => disk'[companion] = Xcf(x, p)
        /\ "xcf" \notin o.wrote => disk'[companion] = disk[companion]
    BY <2>1, <2>3
  <2>6. "svg" \notin o.wrote /\ "xcf" \notin o.wrote => disk' = disk
    BY <2>2, <2>3
  <2> HIDE DEF companion, asked
  <2>7. Coherent(o, output, asked) /\ companion = XcfOf(output) /\ (asked <=> ctx'[c].options.generate_xcf = 1)
    BY <1>2 DEF asked, companion
  <2>8. Succeeded <=> o.code = "OK"
    BY <1>1 DEF Succeeded
  <2>9. /\ Succeeded => disk'[output].kind = "svg" /\ disk'[output].input = p
        /\ Succeeded /\ asked => disk'[companion].kind = "xcf" /\ disk'[companion].input = p
        /\ Succeeded /\ ~asked => disk'[companion] = disk[companion]
        /\ ~Succeeded =>
             \/ disk' = disk
             \/ asked /\ companion \notin Writable /\ o.code = "IO" /\ disk'[companion] = disk[companion]
    BY <2>4, <2>5, <2>6, <2>7, <2>8 DEF Coherent
  <2> QED BY <1>1, <2>5, <2>7, <2>9 DEF FilesAgree, FileOf
<1> QED BY <1>3, <1>4

\* The plan of a conversion is what the caller has set, wherever it was set.
LEMMA PlanOverridden ==
  ASSUME NEW x
  PROVE  LET plan == Configured(x).plan IN
         /\ "output_format" \in x.given => plan.format = x.options.attribute_output_format
         /\ "output_profile" \in x.given => plan.profile = x.options.output_profile
         /\ "adopt_view_on_load" \in x.given => (plan.adopt <=> x.options.adopt_view_on_load = 1)
         /\ plan.target = x.target /\ plan.hotspot = x.hotspot
<1> DEFINE preset == Preset(x)
<1>1. DOMAIN preset = {"profile", "format", "adopt", "hotspot", "target"}
  BY DEF Preset, WithProfile
<1>2. "output_profile" \in x.given => preset.profile = x.options.output_profile
  BY DEF Preset, WithProfile, Chosen
<1>3. "adopt_view_on_load" \in x.given => (Adopts(x) <=> x.options.adopt_view_on_load = 1)
  BY DEF Adopts
<1>4. Configured(x).plan =
        [preset EXCEPT !.target = x.target, !.hotspot = x.hotspot, !.adopt = Adopts(x),
           !.format = IF "output_format" \in x.given THEN x.options.attribute_output_format ELSE @]
  BY DEF Configured, Planned
<1> HIDE DEF preset
<1> QED BY <1>1, <1>2, <1>3, <1>4

LEMMA LeavesOverridden ==
  ASSUME NEW t, NEW c, NEW p, NEW output \in Outputs, NEW picture, NEW o, NEW x,
         Whole(x), DiskWhole, Coherent(o, output, x.options.generate_xcf = 1), FontsThere(x),
         Leaves(t, c, p, output, picture, o, x), o.code = "OK"
  PROVE  Overridden
<1>1. answer'.context = c /\ answer'.about[2] = output
  BY DEF Leaves
<1> DEFINE y == ctx'[c]
<1>2. /\ y.options = x.options /\ y.given = x.given /\ y.target = x.target /\ y.hotspot = x.hotspot
      /\ y.fonts = x.fonts /\ y.companion = x.companion
  BY DEF Leaves, Whole, ContextFields
<1>3. disk'[output] = Svg(x, p, picture)
  BY DEF Leaves, Coherent, DiskWhole, Places
<1>4. FileOf(output).made = Configured(x)
  BY <1>3 DEF FileOf, Svg
<1> DEFINE made == Configured(x)
<1>5. made.companion = x.companion /\ made.fonts = x.fonts.map
  BY DEF Configured
<1>6. "text_path_threshold" \in x.given => made.threshold = x.options.text_path_threshold
  BY DEF Configured, Threshold
<1>7. x.fonts.path # "" => x.fonts.loaded
  BY DEF FontsThere
<1>8. /\ "output_format" \in x.given => made.plan.format = x.options.attribute_output_format
      /\ "output_profile" \in x.given => made.plan.profile = x.options.output_profile
      /\ "adopt_view_on_load" \in x.given => (made.plan.adopt <=> x.options.adopt_view_on_load = 1)
      /\ made.plan.target = x.target /\ made.plan.hotspot = x.hotspot
  BY PlanOverridden
<1>9. FileOf(answer'.about[2]).made = made /\ ctx'[answer'.context] = y
  BY <1>1, <1>4
<1> HIDE DEF y, made
<1> QED BY <1>2, <1>5, <1>6, <1>7, <1>8, <1>9 DEF Overridden

\* A step that is a conversion tells one story and follows the caller.
Promised(c, output, o, reads) ==
  /\ output \in Outputs
  /\ Coherent(o, output, ctx[c].options.generate_xcf = 1)
  /\ o.code = "OK" => reads /\ FontsThere(WithFonts(ctx[c]))

LEMMA ConversionsPromise ==
  ASSUME Shaped, NEW t \in Thread, NEW c \in live, ConvertCgm(t, c) \/ ConvertPicture(t, c)
  PROVE  \E p, output, picture, o, reads :
            Converts(t, c, p, output, picture, o, reads) /\ Promised(c, output, o, reads)
<1>0. Whole(ctx[c])
  BY DEF Shaped, ContextsWhole
<1>1. CASE ConvertCgm(t, c)
  <2>1. PICK p \in DOMAIN Metafiles, output \in Outputs, packs \in Packs(c) :
          Converts(t, c, p, output, IF Metafiles[p].pictures = 0 THEN -1 ELSE 0,
                   Outcome(ctx[c], Metafiles[p], output, packs), Metafiles[p].readable)
    BY <1>1 DEF ConvertCgm
  <2> DEFINE o == Outcome(ctx[c], Metafiles[p], output, packs)
  <2>2. Coherent(o, output, ctx[c].options.generate_xcf = 1)
    BY <1>0, OutcomesCoherent
  <2>3. o.code = "OK" => Metafiles[p].readable /\ FontsThere(WithFonts(ctx[c]))
    BY <1>0, SuccessHasFonts
  <2>4. Promised(c, output, o, Metafiles[p].readable)
    BY <2>2, <2>3 DEF Promised
  <2>6. Converts(t, c, p, output, IF Metafiles[p].pictures = 0 THEN -1 ELSE 0, o, Metafiles[p].readable)
    BY <2>1
  <2> HIDE DEF o
  <2> QED BY <2>6, <2>4
<1>2. CASE ConvertPicture(t, c)
  <2>1. PICK p \in DOMAIN Metafiles, output \in Outputs, packs \in Packs(c), index \in Settings.pictures :
          Converts(t, c, p, output, index, PictureOutcome(ctx[c], Metafiles[p], index, output, packs),
                   Metafiles[p].readable /\ ~(index >= Metafiles[p].pictures))
    BY <1>2 DEF ConvertPicture
  <2> DEFINE o == PictureOutcome(ctx[c], Metafiles[p], index, output, packs)
  <2>2. Coherent(o, output, ctx[c].options.generate_xcf = 1)
    BY <1>0, OutcomesCoherent
  <2>3. o.code = "OK" => (Metafiles[p].readable /\ ~(index >= Metafiles[p].pictures))
    BY <1>0, SuccessHasFonts DEF PictureOutcome, Stop
  <2>4. o.code = "OK" => FontsThere(WithFonts(ctx[c]))
    BY <1>0, SuccessHasFonts
  <2>5. Promised(c, output, o, Metafiles[p].readable /\ ~(index >= Metafiles[p].pictures))
    BY <2>2, <2>3, <2>4 DEF Promised
  <2>6. Converts(t, c, p, output, index, o, Metafiles[p].readable /\ ~(index >= Metafiles[p].pictures))
    BY <2>1
  <2> HIDE DEF o
  <2> QED BY <2>6, <2>5
<1> QED BY <1>1, <1>2

LEMMA ConversionsAgree ==
  ASSUME Shaped, NEW t \in Thread, NEW c \in live, ConvertCgm(t, c) \/ ConvertPicture(t, c)
  PROVE  /\ Shaped' /\ ReportsAgree /\ FilesAgree
         /\ Succeeded => Overridden
<1>0. Whole(ctx[c]) /\ DiskWhole
  BY DEF Shaped, ContextsWhole
<1>1. PICK p, output, picture, o, reads :
        Converts(t, c, p, output, picture, o, reads) /\ Promised(c, output, o, reads)
  BY ConversionsPromise
<1> DEFINE x == IF reads THEN WithFonts(ctx[c]) ELSE ctx[c]
<1>2. Whole(x) /\ x.options = ctx[c].options
  BY <1>0, FontsWhole
<1>3. Shaped' /\ Leaves(t, c, p, output, picture, o, x)
  BY <1>1, ConvertsLeaves
<1>4. /\ output \in Outputs
      /\ Coherent(o, output, x.options.generate_xcf = 1) /\ (o.code = "OK" => FontsThere(x))
  BY <1>1, <1>2 DEF Promised
<1> HIDE DEF x
<1>5. ReportsAgree /\ FilesAgree
  BY <1>0, <1>1, <1>2, <1>3, <1>4, LeavesAgree
<1>6. Succeeded <=> o.code = "OK"
  BY <1>3 DEF Leaves, Succeeded
<1>7. o.code = "OK" => Overridden
  BY <1>0, <1>1, <1>2, <1>3, <1>4, LeavesOverridden
<1> QED BY <1>3, <1>5, <1>6, <1>7

----------------------------------------------------------------------------
\* Every call, and every step of the system.

LEMMA HandleCallShaped ==
  ASSUME Shaped, NEW t \in Thread, HandleCall(t) PROVE Shaped' /\ Plain
<1>1. Uses
  BY DEF HandleCall, RefuseHandle, RefuseParameter, LoadFile, LoadFromMemory, FreeFile, GetCommand, GetProperty,
         CreateConverter, ConvertToSvg, SaveSvgToFile, FreeConverter, ClearLastError, RenderToBuffer
<1>2. \/ UNCHANGED disk
      \/ \E p, content : Writes(p, content)
  BY DEF HandleCall, RefuseHandle, RefuseParameter, LoadFile, LoadFromMemory, FreeFile, GetCommand, GetProperty,
         CreateConverter, ConvertToSvg, SaveSvgToFile, FreeConverter, ClearLastError, RenderToBuffer,
         Reads, Loads, Looks
<1>3. DiskWhole'
  BY <1>2, WritesShapes, DiskWhole DEF Shaped, DiskWhole
<1> QED BY <1>1, <1>3 DEF Uses, Shaped, ContextsWhole, Plain

LEMMA ContextCallShaped ==
  ASSUME Shaped, NEW t \in Thread, ContextCall(t)
  PROVE  Shaped' /\ (Converted => ReportsAgree /\ FilesAgree /\ (Succeeded => Overridden))
<1>0. Plain => ~Converted
  BY DEF Plain, Converted
<1>1. CASE Create(t)
  <2>1. PICK c \in Context \ live : live' = live \cup {c} /\ ctx' = [ctx EXCEPT ![c] = NewContext]
    BY <1>1 DEF Create
  <2>2. ContextsWhole'
    BY <2>1, OneContext, NewContextWhole DEF Shaped
  <2> QED BY <1>1, <2>1, <2>2 DEF Create, Shaped, Converted, DiskWhole
<1>2. CASE Destroy(t)
  <2>1. PICK c \in live : live' = live \ {c} /\ ctx' = [ctx EXCEPT ![c] = NewContext]
    BY <1>2 DEF Destroy
  <2>2. ContextsWhole'
    BY <2>1, OneContext, NewContextWhole DEF Shaped
  <2> QED BY <1>0, <1>2, <2>1, <2>2, EndsShapes, NoAnswerPlain DEF Destroy, Shaped, DiskWhole
<1>3. ASSUME NEW c \in live,
             \/ SetOption(t, c) \/ SetTarget(t, c) \/ SetOutputProfile(t, c) \/ SetHotspotProfile(t, c)
             \/ AddCustomAttribute(t, c) \/ ClearXcfInput(t, c) \/ GetCatalog(t, c)
      PROVE  Shaped' /\ ~Converted
  BY <1>0, <1>3, SettersShaped
<1>4. ASSUME NEW c \in live,
             \/ SetFontMap(t, c) \/ SetXcfInput(t, c) \/ ValidateXcf(t)
             \/ DetectProfile(t, c) \/ ValidateProfile(t, c) \/ RefuseArguments(t)
      PROVE  Shaped' /\ ~Converted
  BY <1>0, <1>4, AnsweringShaped
<1>5. ASSUME NEW c \in live,
             \/ SetOutputFormat(t, c) \/ SetLogFile(t, c) \/ RunBuiltinQa(t, c) \/ WriteReport(t, c)
             \/ TraceCgm(t) \/ GenerateXcf(t, c) \/ GetPictureCount(t, c) \/ GetHotspotCount(t, c)
      PROVE  Shaped' /\ ~Converted
  BY <1>0, <1>5, WritingShaped
<1>6. ASSUME NEW c \in live, ConvertCgm(t, c) \/ ConvertPicture(t, c)
      PROVE  Shaped' /\ ReportsAgree /\ FilesAgree /\ (Succeeded => Overridden)
  BY <1>6, ConversionsAgree
<1> QED BY <1>1, <1>2, <1>3, <1>4, <1>5, <1>6 DEF ContextCall

LEMMA InitShaped == Init => Shaped
<1> SUFFICES ASSUME Init PROVE Shaped
  OBVIOUS
<1>1. ContextsWhole
  BY NewContextWhole DEF Init, ContextsWhole
<1>2. DiskWhole /\ DOMAIN error = Thread /\ live \subseteq Context
  BY DEF Init, DiskWhole
<1>3. DOMAIN left = {"contexts", "handles"}
  BY BudgetsAssumption DEF Init
<1> QED BY <1>1, <1>2, <1>3 DEF Shaped

LEMMA NextShaped ==
  ASSUME Shaped, [Next]_vars
  PROVE  Shaped' /\ (Converted => ReportsAgree /\ FilesAgree /\ (Succeeded => Overridden))
<1>1. ASSUME NEW t \in Thread, ContextCall(t)
      PROVE  Shaped' /\ (Converted => ReportsAgree /\ FilesAgree /\ (Succeeded => Overridden))
  BY <1>1, ContextCallShaped
<1>2. ASSUME NEW t \in Thread, HandleCall(t) PROVE Shaped' /\ ~Converted
  BY <1>2, HandleCallShaped DEF Plain, Converted
<1>3. CASE EditFontMap
  BY <1>3, EndsShapes, NoAnswerPlain DEF EditFontMap, Shaped, ContextsWhole, DiskWhole, Plain, Converted
<1>4. CASE UNCHANGED vars
  BY <1>4 DEF vars, Shaped, ContextsWhole, DiskWhole, Converted
<1> QED BY <1>1, <1>2, <1>3, <1>4 DEF Next

\* A conversion's return code, error text, report, its two texts and the files
\* on disk tell the same story (opencgm_convert_cgm_to_svg and
\* opencgm_convert_picture_to_svg), whatever the calls before it did.
THEOREM AnswersAlwaysAgree == Spec => AnswersAgree
<1>1. Shaped /\ [Next]_vars => Shaped'
  BY NextShaped
<1>2. Shaped /\ [Next]_vars => [Converted => ReportsAgree /\ FilesAgree]_vars
  BY NextShaped
<1> QED BY InitShaped, <1>1, <1>2, PTL DEF Spec, AnswersAgree

\* "Caller overrides must win", in whatever order the setters were called
\* (configure_svg_converter, SVGConverter::setOutputProfile).
THEOREM OverridesAlwaysWin == Spec => OverridesWin
<1>1. Shaped /\ [Next]_vars => Shaped'
  BY NextShaped
<1>2. Shaped /\ [Next]_vars => [Converted /\ Succeeded => Overridden]_vars
  BY NextShaped
<1> QED BY InitShaped, <1>1, <1>2, PTL DEF Spec, OverridesWin

----------------------------------------------------------------------------
\* Ownership. Handles and converters share a metafile; it is freed with the last.

\* What is inductive: every handle's and every open converter's metafile is in
\* memory, a converter's file is the one it shares, and nothing else is kept.
Own ==
  /\ DOMAIN heap = Object
  /\ handles \in [Handle -> Object \cup {None}]
  /\ DOMAIN converters = Converter
  /\ \A k \in Converter :
       /\ DOMAIN converters[k] = {"owner", "file", "wish", "output"}
       /\ converters[k].owner \in Object \cup {None}
       /\ converters[k].file = converters[k].owner
  /\ \A o \in Object : heap[o] # None <=> o \in Owned(handles, converters)

LEMMA OwnOwns == Own => HandlesOwn
<1> SUFFICES ASSUME Own PROVE HandlesOwn
  OBVIOUS
<1>1. \A h \in OpenHandles : handles[h] \in Object /\ handles[h] \in Owned(handles, converters)
  BY DEF Own, OpenHandles, Owned
<1>2. \A k \in OpenConverters :
        converters[k].file \in Object /\ converters[k].file \in Owned(handles, converters)
  BY DEF Own, OpenConverters, Owned
<1> QED BY <1>1, <1>2 DEF HandlesOwn, Own

LEMMA InitOwn == Init => Own
<1> SUFFICES ASSUME Init PROVE Own
  OBVIOUS
<1>1. /\ heap = [o \in Object |-> None] /\ handles = [h \in Handle |-> None]
      /\ converters = [k \in Converter |-> NoConverter]
  BY DEF Init
<1>2. NoConverter.owner = None /\ NoConverter.file = None /\ DOMAIN NoConverter = {"owner", "file", "wish", "output"}
  BY DEF NoConverter
<1>3. Owned(handles, converters) = {}
  BY <1>1, <1>2 DEF Owned
<1> QED BY <1>1, <1>2, <1>3 DEF Own

\* Freeing: what is still owned stays as it was.
LEMMA ReleasedOwn ==
  ASSUME Own, heap' = Released(handles', converters'), handles' \in [Handle -> Object \cup {None}],
         Owned(handles', converters') \subseteq Owned(handles, converters),
         DOMAIN converters' = Converter,
         \A k \in Converter : converters'[k] = converters[k] \/ converters'[k] = NoConverter
  PROVE  Own'
<1>1. \A o \in Object : heap'[o] = IF o \in Owned(handles', converters') THEN heap[o] ELSE None
  BY DEF Released
<1>2. DOMAIN heap' = Object
  BY DEF Released
<1>3. \A o \in Object : heap'[o] # None <=> o \in Owned(handles', converters')
  BY <1>1 DEF Own
<1>4. ASSUME NEW k \in Converter
      PROVE  /\ DOMAIN converters'[k] = {"owner", "file", "wish", "output"}
             /\ converters'[k].owner \in Object \cup {None}
             /\ converters'[k].file = converters'[k].owner
  <2>1. CASE converters'[k] = NoConverter
    BY <2>1 DEF NoConverter
  <2>2. CASE converters'[k] = converters[k]
    BY <2>2 DEF Own
  <2> QED BY <2>1, <2>2
<1> QED BY <1>2, <1>3, <1>4 DEF Own

\* A new metafile goes where there was none, so to nobody's converter.
LEMMA LoadsOwn ==
  ASSUME Own, NEW t, NEW p \in DOMAIN Metafiles, Loads(t, p) PROVE Own'
<1>1. PICK o \in Object, h \in Handle :
        /\ heap[o] = None /\ handles[h] = None
        /\ heap' = [heap EXCEPT ![o] = p] /\ handles' = [handles EXCEPT ![h] = o]
        /\ converters' = converters
  BY DEF Loads
<1>2. p # None /\ o # None
  BY NamesAssumption
<1>3. Owned(handles', converters') = Owned(handles, converters) \cup {o}
  BY <1>1, <1>2 DEF Own, Owned
<1>4. \A q \in Object : heap'[q] # None <=> q \in Owned(handles', converters')
  BY <1>1, <1>2, <1>3 DEF Own
<1> QED BY <1>1, <1>4 DEF Own

LEMMA CreateConverterOwn ==
  ASSUME Own, NEW t, CreateConverter(t) PROVE Own'
<1>1. CASE UNCHANGED <<heap, handles, converters>>
  BY <1>1 DEF Own, Owned
<1>2. ASSUME NEW h \in OpenHandles, NEW w \in Wishes, NEW k \in Converter \ OpenConverters,
             converters' = [converters EXCEPT ![k] =
               [owner |-> handles[h], file |-> handles[h], wish |-> w, output |-> <<>>]],
             UNCHANGED <<heap, handles>>
      PROVE  Own'
  <2>1. handles[h] \in Object /\ handles[h] \in Owned(handles, converters)
    BY DEF Own, OpenHandles, Owned
  <2>2. converters[k].owner = None
    BY DEF OpenConverters
  <2>3. Owned(handles', converters') = Owned(handles, converters)
    BY <1>2, <2>1, <2>2 DEF Own, Owned
  <2>4. ASSUME NEW j \in Converter
        PROVE  /\ DOMAIN converters'[j] = {"owner", "file", "wish", "output"}
               /\ converters'[j].owner \in Object \cup {None}
               /\ converters'[j].file = converters'[j].owner
    <3>1. CASE j = k
      BY <1>2, <2>1, <3>1 DEF Own
    <3>2. CASE j # k
      <4>1. converters'[j] = converters[j]
        BY <1>2, <3>2 DEF Own
      <4> QED BY <4>1 DEF Own
    <3> QED BY <3>1, <3>2
  <2> QED BY <1>2, <2>3, <2>4 DEF Own
<1> QED BY <1>1, <1>2 DEF CreateConverter, Looks

\* Drawing changes only the output a converter keeps.
LEMMA DrawsOwn ==
  ASSUME Own, NEW t, NEW k \in OpenConverters, Draws(t, k), UNCHANGED <<heap, handles>> PROVE Own'
<1>1. k \in Converter /\ converters' = [converters EXCEPT ![k].output = Fresh(k)]
  BY DEF Draws, OpenConverters
<1>2. ASSUME NEW j \in Converter
      PROVE  /\ DOMAIN converters'[j] = DOMAIN converters[j]
             /\ converters'[j].owner = converters[j].owner /\ converters'[j].file = converters[j].file
  BY <1>1 DEF Own
<1>3. Owned(handles', converters') = Owned(handles, converters)
  BY <1>2 DEF Owned
<1>4. DOMAIN converters' = Converter
  BY <1>1 DEF Own
<1> QED BY <1>2, <1>3, <1>4 DEF Own

LEMMA FreeFileOwn ==
  ASSUME Own, NEW t, FreeFile(t) PROVE Own'
<1>1. PICK h \in OpenHandles : handles' = [handles EXCEPT ![h] = None] /\ heap' = Released(handles', converters)
  BY DEF FreeFile
<1>2. converters' = converters
  BY DEF FreeFile
<1>3. handles' \in [Handle -> Object \cup {None}]
  BY <1>1 DEF Own
<1>4. Owned(handles', converters') \subseteq Owned(handles, converters)
  BY <1>1, <1>2 DEF Own, Owned
<1> QED BY <1>1, <1>2, <1>3, <1>4, ReleasedOwn DEF Own

LEMMA FreeConverterOwn ==
  ASSUME Own, NEW t, FreeConverter(t) PROVE Own'
<1>1. PICK k \in OpenConverters :
        converters' = [converters EXCEPT ![k] = NoConverter] /\ heap' = Released(handles, converters')
  BY DEF FreeConverter
<1>2. handles' = handles
  BY DEF FreeConverter
<1>3. \A j \in Converter : converters'[j] = converters[j] \/ converters'[j] = NoConverter
  BY <1>1 DEF Own
<1>4. Owned(handles', converters') \subseteq Owned(handles, converters)
  BY <1>2, <1>3 DEF Owned, NoConverter
<1>5. DOMAIN converters' = Converter
  BY <1>1 DEF Own
<1> QED BY <1>1, <1>2, <1>3, <1>4, <1>5, ReleasedOwn DEF Own

LEMMA SameOwn ==
  ASSUME Own, UNCHANGED <<heap, handles, converters>> PROVE Own'
BY DEF Own, Owned

LEMMA NextOwn ==
  ASSUME Own, [Next]_vars PROVE Own'
<1>1. CASE OfContexts \/ UNCHANGED vars
  BY <1>1, SameOwn DEF OfContexts, vars
<1>2. ASSUME NEW t \in Thread, HandleCall(t) PROVE Own'
  <2>1. CASE RefuseHandle(t) \/ RefuseParameter(t) \/ GetCommand(t) \/ GetProperty(t) \/ ClearLastError(t)
             \/ RenderToBuffer(t)
    BY <2>1, SameOwn DEF RefuseHandle, RefuseParameter, GetCommand, GetProperty, ClearLastError, RenderToBuffer, Looks
  <2>2. CASE LoadFile(t) \/ LoadFromMemory(t)
    <3>1. \/ UNCHANGED <<heap, handles, converters>>
          \/ \E p \in DOMAIN Metafiles : Loads(t, p)
      BY <2>2 DEF LoadFile, LoadFromMemory, Reads, Looks
    <3> QED BY <3>1, LoadsOwn, SameOwn
  <2>3. CASE ConvertToSvg(t) \/ SaveSvgToFile(t)
    <3>1. UNCHANGED <<heap, handles>> /\ \E k \in OpenConverters : Draws(t, k)
      BY <2>3 DEF ConvertToSvg, SaveSvgToFile
    <3> QED BY <3>1, DrawsOwn
  <2> QED BY <1>2, <2>1, <2>2, <2>3, FreeFileOwn, FreeConverterOwn, CreateConverterOwn DEF HandleCall
<1> QED BY <1>1, <1>2 DEF Next

\* Nobody points at a metafile that was freed and none is left behind, in
\* whatever order handles and converters are freed (cgm_free_file,
\* cgm_free_svg_converter).
THEOREM HandlesAlwaysOwn == Spec => []HandlesOwn
<1>1. Own /\ [Next]_vars => Own'
  BY NextOwn
<1> QED BY InitOwn, OwnOwns, <1>1, PTL DEF Spec
=============================================================================
