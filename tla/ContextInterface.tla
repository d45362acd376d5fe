-------------------------- MODULE ContextInterface --------------------------
(***************************************************************************)
(* The C interface of contexts: options, font maps, companion files and    *)
(* the conversions they steer, with the report, the error text and the     *)
(* files each leaves. A call is one step; threads do not share a context.  *)
(***************************************************************************)
EXTENDS Integers, Sequences, FiniteSets, TLC

CONSTANTS Thread, Context,
  Metafiles,     \* what is in each CGM file
  FontContents,  \* what a font map file may hold
  XcfFiles,      \* whether each companion file can be parsed
  SvgFiles,      \* what built-in QA looks at in an SVG file
  Outputs, Writable, XcfOf(_),
  Settings,      \* the values callers give, setter by setter
  Supported,     \* the profiles there is a validator for
  Budgets        \* how many calls a program makes to each interface

ASSUME PathsAssumption == \A p \in Outputs : XcfOf(p) # p
ASSUME BudgetsAssumption == Budgets \subseteq [contexts : Nat, handles : Nat]

VARIABLES
  live,       \* the contexts that exist
  ctx,        \* what each context holds
  fontFiles,  \* the font map files as they are now
  disk,       \* the files the calls write
  error,      \* each thread's last error, "" if none
  answer,     \* ghost: what the latest call answered
  left        \* how many more calls each interface takes

Places == Outputs \cup {XcfOf(p) : p \in Outputs}
contextVars == <<live, ctx, fontFiles, disk, error, answer, left>>

----------------------------------------------------------------------------
\* Options. Those a caller has given stand out from their defaults.

Switches ==
  {"verbose", "quiet", "trace_unknown", "fail_on_warn", "minify", "optimize_paths", "pretty",
   "adopt_view_on_load", "text_as_path", "raster_logging", "geometry_logging", "color_logging",
   "width_logging", "quantize_png", "geometry_validate", "embed_aps_metadata_json",
   "compress_output", "jpeg_444_subsampling", "generate_xcf", "xcf_include_hotspots", "xcf_include_metadata"}
Remembered == {"profile", "adopt_view_on_load", "text_as_path", "text_path_threshold"}

Defaults ==
  [s \in Switches |-> IF s \in {"pretty", "jpeg_444_subsampling", "xcf_include_hotspots",
                                "xcf_include_metadata"} THEN 1 ELSE 0]
  @@ [dpi |-> 96, precision |-> 2, profile |-> "s1000d", text_path_threshold |-> 0, disable_tcc |-> 0,
      geometry_tolerance |-> 1, shim_mode |-> "auto", shim_url |-> "", viewbox_padding |-> 0,
      fit_to_content |-> -1, nurbs_tolerance |-> 50, palette_override_mode |-> 0,
      output_profile |-> "WebCGM21", xcf_dtd_version |-> "2.1", multi_picture_mode |-> 0,
      companion_mode |-> 0, raster_encoding |-> 0, jpeg_quality |-> 85, output_format |-> "combined",
      attribute_output_format |-> "Multi", log_file_path |-> ""]

\* What a setter keeps of a value.
Stored(option, v) ==
  IF option \in Switches THEN IF v = 0 THEN 0 ELSE 1
  ELSE IF option = "disable_tcc" THEN IF v = 0 THEN 1 ELSE 0
  ELSE IF option = "dpi" THEN IF v <= 0 THEN 96 ELSE v
  ELSE IF option = "fit_to_content" THEN IF v < 0 THEN -1 ELSE IF v = 0 THEN 0 ELSE 1
  ELSE IF option = "text_path_threshold" THEN IF v < 0 THEN 0 ELSE v
  ELSE IF option = "geometry_tolerance" THEN IF v < 0 THEN 1 ELSE v
  ELSE IF option \in {"multi_picture_mode", "raster_encoding"} THEN IF v \in 0 .. 2 THEN v ELSE 0
  ELSE IF option = "jpeg_quality" THEN IF v < 1 THEN 1 ELSE IF v > 100 THEN 100 ELSE v
  ELSE IF option = "shim_mode" THEN IF v \in {"on", "off"} THEN v ELSE "auto"
  ELSE v

\* The output target: three modes and what is emitted and preserved.
TargetSwitches ==
  {"emit_attribute_metadata", "emit_data_aps_type", "emit_data_name", "emit_data_content",
   "emit_data_viewcontext", "preserve_layer_hierarchy", "preserve_aps_id", "preserve_aps_link_title",
   "preserve_aps_region", "preserve_aps_screen_tip", "emit_webcgm_namespace"}
S1000DIETP == [s \in TargetSwitches |-> 1]
  @@ [hotspot_encoding |-> "Both", region_handling |-> "Both", multi_link_mode |-> "JsonDataAttribute"]
ATAIETM == S1000DIETP
CleanSvg == [s \in {"emit_attribute_metadata", "emit_data_aps_type", "emit_data_name", "emit_data_content",
                    "emit_data_viewcontext", "emit_webcgm_namespace"} |-> 0]
  @@ [hotspot_encoding |-> "SvgAnchorTitle", region_handling |-> "BboxOnly", multi_link_mode |-> "FirstLinkOnly"]
  @@ S1000DIETP
TargetOf(profile) ==
  IF profile = "StandardSVG" THEN CleanSvg ELSE IF profile = "ATA2200" THEN ATAIETM ELSE S1000DIETP

Modes == [hotspot_encoding |-> {"SvgAnchorTitle", "DataAttributes"},
          region_handling |-> {"OverlayOnly", "BboxOnly"},
          multi_link_mode |-> {"FirstLinkOnly", "JsEventHandler"}]
StoredTarget(field, v) ==
  IF field \in TargetSwitches THEN IF v = 0 THEN 0 ELSE 1
  ELSE IF v \in Modes[field] THEN v ELSE S1000DIETP[field]

\* Hotspots: the Strict preset differs from the others; rules are added one by one.
HotspotProfiles == {"Generic", "RWS", "PTC", "R4i", "Strict"}
HotspotPreset(profile) == [strict |-> profile = "Strict", rules |-> <<>>]
Scopes == 0 .. 3

Formats == ("webcgm" :> "WebCGM") @@ ("s1000d6" :> "S1000D_Issue6") @@ ("s1000d-legacy" :> "S1000D_Legacy")
  @@ ("rws" :> "RWS") @@ ("boeing" :> "Boeing") @@ ("r4i" :> "R4I") @@ ("multi" :> "Multi")

----------------------------------------------------------------------------
\* Font maps: read when they are set, and again by a conversion if that failed.

NoMap == [stack |-> <<>>, threshold |-> <<>>, overrides |-> <<>>]
LoadStatus(path) ==
  IF path = "" THEN "OK"
  ELSE IF fontFiles[path] = "missing" THEN "IO"
  ELSE IF fontFiles[path] = "malformed" THEN "PARSE" ELSE "OK"
FontMap(path) ==
  IF path # "" /\ LoadStatus(path) = "OK"
  THEN [path |-> path, loaded |-> TRUE, map |-> FontContents[fontFiles[path]]]
  ELSE [path |-> path, loaded |-> FALSE, map |-> NoMap]

----------------------------------------------------------------------------
\* The converter of a conversion: a plan put together from presets and options.

FormatOf(profile) ==
  IF profile \in {"S1000D", "ATA2200"} THEN "S1000D_Issue6"
  ELSE IF profile = "S1000DLegacy" THEN "S1000D_Legacy" ELSE "WebCGM"
NewPlan == [profile |-> "WebCGM21", target |-> S1000DIETP, format |-> "WebCGM",
            hotspot |-> HotspotPreset("Generic"), adopt |-> FALSE]

\* setOutputProfile replaces everything but the hotspots, a target only if it has one.
WithProfile(plan, profile) ==
  [profile |-> profile, format |-> FormatOf(profile), adopt |-> profile # "WebCGM21",
   hotspot |-> plan.hotspot, target |-> IF profile = "Custom" THEN plan.target ELSE TargetOf(profile)]

\* What an input profile stands for: output profile, segments, heuristics, format.
Contract(profile, segments, compat, format) ==
  [profile |-> profile, segments |-> segments, compat |-> compat, format |-> format]
Lenient == Contract("WebCGM21", TRUE, TRUE, "WebCGM")
Legacy == Contract("S1000DLegacy", FALSE, FALSE, "S1000D_Legacy")
Contracts ==
  [p \in {"cals", "mil-prf-28003", "mil-d-28003", "pip"} |-> Lenient]
  @@ [p \in {"s1000d-legacy", "s1000dlegacy", "s1000d-pre-v6", "s1000dprev6"} |-> Legacy]
  @@ [webcgm  |-> Contract("WebCGM21", FALSE, FALSE, "WebCGM"),
      compat  |-> Contract("S1000D", TRUE, TRUE, "WebCGM"),
      s1000d  |-> Contract("S1000D", FALSE, FALSE, "S1000D_Issue6"),
      ata     |-> Contract("ATA2200", FALSE, FALSE, "S1000D_Issue6"),
      cgmplus |-> Contract("WebCGM21", FALSE, TRUE, "S1000D_Issue6")]
ContractOf(profile) ==
  IF profile \in DOMAIN Contracts THEN Contracts[profile] ELSE Contracts["compat"]

\* The name a conversion goes by: that of the output profile, if one was given.
OutputNames == [WebCGM21 |-> "webcgm", S1000D |-> "s1000d", S1000DLegacy |-> "s1000d-legacy",
                ATA2200 |-> "ata", StandardSVG |-> "standard", Custom |-> "custom"]
Chosen(x) == "output_profile" \in x.given
InputProfile(x) == IF x.options.profile = "strict" THEN "webcgm" ELSE x.options.profile
Effective(x) == IF Chosen(x) THEN OutputNames[x.options.output_profile] ELSE InputProfile(x)
Compat(x) ==
  IF Chosen(x) THEN "profile" \in x.given /\ x.options.profile = "compat"
  ELSE ContractOf(InputProfile(x)).compat
Segments(x) == IF Chosen(x) THEN Compat(x) ELSE ContractOf(InputProfile(x)).segments
Adopts(x) ==
  IF "adopt_view_on_load" \in x.given THEN x.options.adopt_view_on_load = 1
  ELSE IF Chosen(x) THEN x.options.output_profile # "WebCGM21" ELSE InputProfile(x) = "compat"

Preset(x) ==
  IF Chosen(x) THEN WithProfile(NewPlan, x.options.output_profile)
  ELSE LET contract == ContractOf(InputProfile(x))
       IN [WithProfile(NewPlan, contract.profile) EXCEPT !.format = contract.format]

\* Mutant: the preset is applied last.
PlannedPresetLast(x) ==
  [Preset(x) EXCEPT !.hotspot = x.hotspot, !.adopt = Adopts(x)]

\* The caller's own settings win over the presets.
Planned(x) ==
  [Preset(x) EXCEPT
     !.target = x.target, !.hotspot = x.hotspot, !.adopt = Adopts(x),
     !.format = IF "output_format" \in x.given THEN x.options.attribute_output_format ELSE @]

\* Text: the font map's override for the profile, its defaults, the caller's threshold.
Override(x) ==
  IF Effective(x) \in DOMAIN x.fonts.map.overrides THEN x.fonts.map.overrides[Effective(x)]
  ELSE [stack |-> <<>>, threshold |-> <<>>]
FontStack(x) == IF Override(x).stack # <<>> THEN Override(x).stack ELSE x.fonts.map.stack
Threshold(x) ==
  LET own == IF Override(x).threshold = <<>> THEN 0 ELSE Override(x).threshold[1]
      default == x.fonts.map.threshold
  IN IF "text_path_threshold" \in x.given THEN x.options.text_path_threshold
     ELSE IF own = 0 /\ default # <<>> THEN default[1] ELSE own

Configured(x) ==
  [plan |-> Planned(x), segments |-> Segments(x), compat |-> Compat(x),
   label |-> IF Chosen(x) THEN <<>> ELSE <<InputProfile(x)>>,
   stack |-> FontStack(x), threshold |-> Threshold(x), fonts |-> x.fonts.map,
   companion |-> x.companion, options |-> x.options]
----------------------------------------------------------------------------
\* Geometry validation: the sheet that was written against the metrics it was
\* computed from, in hundredths; a difference may be relative to what it is of.

Larger(a, b) == IF a > b THEN a ELSE b
Exceeds(difference, tolerance, magnitude) ==
  difference > tolerance /\ difference * 10000 > Larger(magnitude, -magnitude)
Apart(a, b, tolerance, magnitude) == Exceeds(Larger(a - b, b - a), tolerance, magnitude)

Adopting(g) == g.view_context_adopted /\ g.view_context_present
Expected(g) ==
  IF Adopting(g)
  THEN [width  |-> Larger(0, (g.view_context.max_x - g.view_context.min_x) * g.scale_factor),
        height |-> Larger(0, (g.view_context.max_y - g.view_context.min_y) * g.scale_factor),
        x      |-> (g.view_context.min_x - g.picture.min_x) * g.scale_factor,
        y      |-> (g.picture.max_y - g.view_context.max_y) * g.scale_factor]
  ELSE [width  |-> (g.picture.max_x - g.picture.min_x) * g.scale_factor,
        height |-> (g.picture.max_y - g.picture.min_y) * g.scale_factor, x |-> 0, y |-> 0]

\* Where the drawing lies, on the sheet, and the sides on which it leaves it.
Outside(g, tolerance) ==
  LET v == g.viewbox
      left_  == (g.geometry.min_x - g.picture.min_x) * g.scale_factor
      right  == (g.geometry.max_x - g.picture.min_x) * g.scale_factor
      top    == (g.picture.max_y - g.geometry.max_y) * g.scale_factor
      bottom == (g.picture.max_y - g.geometry.min_y) * g.scale_factor
      beyond == [left   |-> <<v.x - left_, v.width>>, right  |-> <<right - v.x - v.width, v.width>>,
                 above  |-> <<v.y - top, v.height>>,  below  |-> <<bottom - v.y - v.height, v.height>>]
  IN IF g.has_geometry THEN {side \in DOMAIN beyond : Exceeds(beyond[side][1], tolerance, beyond[side][2])}
     ELSE {}

GeometryErrors(g, tolerance, strict, compat) ==
  LET v == g.viewbox
      e == Expected(g)
      wrong ==
        [scale   |-> g.scale_factor <= 0,
         flip    |-> ~g.flip_y_applied,
         viewBox |-> v.width <= 0 \/ v.height <= 0,
         compat  |-> strict /\ compat,
         autofit |-> strict /\ g.auto_fit_applied,
         width   |-> v.width > 0 /\ Apart(v.width, e.width, tolerance, e.width),
         height  |-> v.height > 0 /\ Apart(v.height, e.height, tolerance, e.height),
         x       |-> Apart(v.x, e.x, tolerance, e.width),
         y       |-> Apart(v.y, e.y, tolerance, e.height)]
  IN {name \in DOMAIN wrong : wrong[name]} \cup IF Adopting(g) THEN {} ELSE Outside(g, tolerance)

GeometryWarnings(g, tolerance, strict, adopt) ==
  LET odd == [adoption |-> ~g.view_context_present /\ adopt /\ strict,
              nothing  |-> ~g.has_geometry,
              negative |-> \E k \in DOMAIN g.coverage : g.coverage[k] < 0,
              coverage |-> \E k \in DOMAIN g.coverage : g.coverage[k] > 105]
  IN {name \in DOMAIN odd : odd[name]} \cup IF Adopting(g) THEN Outside(g, tolerance) ELSE {}

----------------------------------------------------------------------------
\* A conversion: it stops at the first thing that goes wrong, with a return code,
\* sometimes with a report, and once it has written the SVG that stays.

Stop(code, reported, issues, wrote) ==
  [code |-> code, reported |-> reported, issues |-> issues, wrote |-> wrote]

Needs(x) == x.fonts.path # "" /\ ~x.fonts.loaded
WithFonts(x) == IF Needs(x) THEN [x EXCEPT !.fonts = FontMap(x.fonts.path)] ELSE x
FontStatus(x) == IF Needs(x) THEN LoadStatus(x.fonts.path) ELSE "OK"

Traced(x, m) == IF x.options.trace_unknown = 1 /\ m.unknown > 0 THEN {"unknown-command"} ELSE {}
Rejects(x, m) == x.options.fail_on_warn = 1 /\ Traced(x, m) # {}
Degraded(m) == IF m.degraded THEN {"rendering"} ELSE {}

Errors(x, m) ==
  GeometryErrors(m.metrics[Adopts(x)], x.options.geometry_tolerance, Effective(x) = "webcgm", Compat(x))
Warnings(x, m) ==
  GeometryWarnings(m.metrics[Adopts(x)], x.options.geometry_tolerance, Effective(x) = "webcgm", Adopts(x))
GeometryIssues(x, m) ==
  IF x.options.geometry_validate = 1 /\ Errors(x, m) \cup Warnings(x, m) # {} THEN {"geometry"} ELSE {}
GeometryFails(x, m) ==
  /\ x.options.geometry_validate = 1
  /\ \/ Errors(x, m) # {}
     \/ x.options.fail_on_warn = 1 /\ Warnings(x, m) # {}

\* The output: compressed, opened and written, and the companion file after it.
\* Only a whole conversion reports the failures.
Delivered(x, output, packs, reports, issues) ==
  IF x.options.compress_output = 1 /\ ~packs
  THEN Stop("GENERAL", reports, issues \cup {"io"}, {})
  ELSE IF output \notin Writable
  THEN Stop("IO", reports, issues \cup {"io"}, {})
  ELSE IF x.options.generate_xcf = 1 /\ XcfOf(output) \notin Writable
  THEN Stop("IO", reports, issues \cup {"io"}, {"svg"})
  ELSE Stop("OK", TRUE, issues, {"svg"} \cup IF x.options.generate_xcf = 1 THEN {"xcf"} ELSE {})

Outcome(x, m, output, packs) ==
  LET y == WithFonts(x) IN
  IF ~m.readable THEN Stop("PARSE", FALSE, {}, {})
  ELSE IF FontStatus(x) # "OK" THEN Stop(FontStatus(x), TRUE, {"configuration"}, {})
  ELSE IF m.pictures > 1 /\ y.options.multi_picture_mode > 0 THEN Stop("INVALID_ARG", FALSE, {}, {})
  ELSE IF m.throws THEN Stop("PARSE", FALSE, {}, {})
  ELSE IF Rejects(y, m) THEN Stop("GENERAL", TRUE, Traced(y, m), {})
  ELSE IF GeometryFails(y, m) THEN Stop("GENERAL", TRUE, Traced(y, m) \cup Degraded(m) \cup {"geometry"}, {})
  ELSE Delivered(y, output, packs, TRUE, Traced(y, m) \cup Degraded(m) \cup GeometryIssues(y, m))

PictureOutcome(x, m, index, output, packs) ==
  LET y == WithFonts(x) IN
  IF ~m.readable THEN Stop("PARSE", FALSE, {}, {})
  ELSE IF index >= m.pictures THEN Stop("INVALID_ARG", TRUE, {"picture-selection"}, {})
  ELSE IF FontStatus(x) # "OK" THEN Stop(FontStatus(x), TRUE, {"configuration"}, {})
  ELSE IF m.throws THEN Stop("PARSE", FALSE, {}, {})
  ELSE IF Rejects(y, m) THEN Stop("GENERAL", TRUE, Traced(y, m), {})
  ELSE Delivered(y, output, packs, FALSE, Traced(y, m) \cup {"picture-selection"})

\* Mutant: the texts of the last report stay until the next one.
ClearedReport(kept) == [kept EXCEPT !.document = <<>>, !.report = <<>>]

Cleared(kept) == [kept EXCEPT !.document = <<>>, !.report = <<>>, !.json = <<>>, !.text = <<>>]

\* The document, the report and its two texts are kept together.
Kept(kept, input, output, x, o) ==
  LET r == [input |-> input, output |-> output, success |-> o.code = "OK", issues |-> o.issues,
            compressed |-> x.options.compress_output = 1]
  IN IF o.reported
     THEN [Cleared(kept) EXCEPT !.document = <<input>>, !.report = <<r>>, !.json = <<r>>, !.text = <<r>>]
     ELSE Cleared(kept)

NoFile == [kind |-> "none"]
Svg(x, input, picture) ==
  [kind |-> "svg", input |-> input, picture |-> picture, made |-> Configured(x),
   compressed |-> x.options.compress_output = 1]
Xcf(x, input) ==
  [kind |-> "xcf", input |-> input, dtd |-> x.options.xcf_dtd_version,
   hotspots |-> x.options.xcf_include_hotspots, metadata |-> x.options.xcf_include_metadata]

----------------------------------------------------------------------------
\* Calls

NewContext ==
  [options |-> Defaults, given |-> {}, target |-> S1000DIETP, hotspot |-> HotspotPreset("Generic"),
   fonts |-> [path |-> "", loaded |-> FALSE, map |-> NoMap], companion |-> <<>>, logging |-> FALSE,
   kept |-> [document |-> <<>>, report |-> <<>>, json |-> <<>>, text |-> <<>>,
             detection |-> <<>>, validation |-> <<>>, catalog |-> <<>>]]

\* The last answer is remembered if it was a conversion's or a number.
NoAnswer == [thread |-> "none", context |-> "none", code |-> "none", value |-> 0, about |-> <<>>]
Ends(last) ==
  /\ left' = [left EXCEPT !.contexts = @ - 1]
  /\ answer' = last
Says(t, message) == error' = [error EXCEPT ![t] = message]
Tells(t, code) == Says(t, IF code = "OK" THEN "" ELSE code)
Answers(t, code) == Ends(NoAnswer) /\ Tells(t, code)
Numbers(t, c, n) ==
  /\ Ends([NoAnswer EXCEPT !.thread = t, !.context = c, !.value = n])
  /\ IF n < 0 THEN Says(t, "ERROR") ELSE UNCHANGED error
Writes(p, content) == disk' = [disk EXCEPT ![p] = content]

Create(t) ==
  \E c \in Context \ live :
    /\ live' = live \cup {c}
    /\ ctx' = [ctx EXCEPT ![c] = NewContext]
    /\ UNCHANGED <<fontFiles, disk, error, answer, left>>
Destroy(t) ==
  \E c \in live :
    /\ live' = live \ {c}
    /\ ctx' = [ctx EXCEPT ![c] = NewContext]
    /\ Ends(NoAnswer)
    /\ UNCHANGED <<fontFiles, disk, error>>

Sets == Ends(NoAnswer) /\ UNCHANGED <<live, fontFiles, disk, error>>
SetOption(t, c) ==
  \E s \in Settings.options :
    /\ ctx' = [ctx EXCEPT ![c].options[s[1]] = Stored(s[1], s[2]),
                          ![c].given = @ \cup ({s[1]} \cap Remembered)]
    /\ Sets
SetTarget(t, c) ==
  \E s \in Settings.targets :
    /\ ctx' = [ctx EXCEPT ![c].target[s[1]] = StoredTarget(s[1], s[2])]
    /\ Sets
SetOutputProfile(t, c) ==
  \E s \in Settings.outputProfiles :
    LET profile == IF s \in DOMAIN OutputNames THEN s ELSE "WebCGM21"
    IN /\ ctx' = [ctx EXCEPT ![c].options.output_profile = profile,
                             ![c].given = @ \cup {"output_profile"},
                             ![c].target = IF profile = "Custom" THEN @ ELSE TargetOf(profile)]
       /\ Sets
SetHotspotProfile(t, c) ==
  \E s \in Settings.hotspotProfiles :
    /\ ctx' = [ctx EXCEPT ![c].hotspot = HotspotPreset(IF s \in HotspotProfiles THEN s ELSE "Generic")]
    /\ Sets
AddCustomAttribute(t, c) ==
  \E s \in Settings.scopes :
    /\ ctx' = [ctx EXCEPT ![c].hotspot.rules = IF s \in Scopes THEN Append(@, s) ELSE @]
    /\ Sets
ClearXcfInput(t, c) ==
  /\ ctx' = [ctx EXCEPT ![c].companion = <<>>]
  /\ Sets

\* The formats of old calls are taken and forgotten: they unset the format. A
\* format stands for its aliases (legacy, s1000d, combined, all and the others).
SetOutputFormat(t, c) ==
  \E f \in Settings.formats :
    LET old   == f \in {"separate", "layered"}
        known == f \in DOMAIN Formats
    IN /\ ctx' = IF old THEN [ctx EXCEPT ![c].options.output_format = f, ![c].given = @ \ {"output_format"}]
                 ELSE IF known
                 THEN [ctx EXCEPT ![c].options.output_format = f, ![c].given = @ \cup {"output_format"},
                                  ![c].options.attribute_output_format = Formats[f]]
                 ELSE ctx
       /\ Ends(NoAnswer)
       /\ IF old \/ known THEN UNCHANGED error ELSE Says(t, "INVALID_ARG")
       /\ UNCHANGED <<live, fontFiles, disk>>

\* A font map that cannot be read is not forgotten: its path stays.
SetFontMap(t, c) ==
  \E p \in Settings.fontMaps :
    /\ ctx' = [ctx EXCEPT ![c].fonts = FontMap(p)]
    /\ Answers(t, LoadStatus(p))
    /\ UNCHANGED <<live, fontFiles, disk>>

\* A second log file is not opened while the first is open, and nobody is told.
SetLogFile(t, c) ==
  \E p \in Outputs :
    LET opens == ~ctx[c].logging /\ p \in Writable
        ok    == ctx[c].logging \/ p \in Writable
    IN /\ ctx' = [ctx EXCEPT ![c].options.log_file_path = p, ![c].logging = ok]
       /\ IF opens THEN Writes(p, [kind |-> "log"]) ELSE UNCHANGED disk
       /\ Ends(NoAnswer)
       /\ IF ok THEN UNCHANGED error ELSE Says(t, "IO")
       /\ UNCHANGED <<live, fontFiles>>

SetXcfInput(t, c) ==
  \E p \in DOMAIN XcfFiles :
    /\ ctx' = IF XcfFiles[p] THEN [ctx EXCEPT ![c].companion = <<p>>] ELSE ctx
    /\ Answers(t, IF XcfFiles[p] THEN "OK" ELSE "PARSE")
    /\ UNCHANGED <<live, fontFiles, disk>>
ValidateXcf(t) ==
  \E p \in DOMAIN XcfFiles :
    /\ Answers(t, IF XcfFiles[p] THEN "OK" ELSE "PARSE")
    /\ UNCHANGED <<live, ctx, fontFiles, disk>>

\* Detection and validation keep their answer as JSON, and drop the last one first.
DetectProfile(t, c) ==
  \E p \in DOMAIN Metafiles :
    LET m == Metafiles[p]
    IN /\ ctx' = [ctx EXCEPT ![c].kept.detection = IF m.readable THEN <<p>> ELSE <<>>]
       /\ Answers(t, IF m.readable THEN "OK" ELSE "PARSE")
       /\ UNCHANGED <<live, fontFiles, disk>>
ValidateProfile(t, c) ==
  \E p \in DOMAIN Metafiles, profile \in Settings.requests :
    LET m    == Metafiles[p]
        code == IF ~m.readable THEN "PARSE"
                ELSE IF profile \notin Supported \cup {"auto"} THEN "INVALID_ARG" ELSE "OK"
    IN /\ ctx' = [ctx EXCEPT ![c].kept.validation = IF code = "OK" THEN <<p, profile>> ELSE <<>>]
       /\ Answers(t, code)
       /\ UNCHANGED <<live, fontFiles, disk>>

\* The catalogue is read once: from the working directory or from the library.
GetCatalog(t, c) ==
  \E place \in {"directory", "library"} :
    /\ ctx' = [ctx EXCEPT ![c].kept.catalog = IF @ = <<>> THEN <<place>> ELSE @]
    /\ Sets

\* Built-in QA: ten rules over the text of an SVG file, one warning each, but
\* one for every empty path.
One(b) == IF b THEN 1 ELSE 0
QaWarnings(f) ==
  One(~f.viewBox) + f.emptyPaths + One(f.width > 100000 \/ f.height > 100000) + One(f.zeroScale)
  + One(f.nan) + One(f.infinity) + One(f.groupsOpened # f.groupsClosed) + One(~f.xmlns)
  + One(f.width < 0 \/ f.height < 0)
RunBuiltinQa(t, c) ==
  \E p \in DOMAIN SvgFiles :
    LET f  == SvgFiles[p]
        ok == f.exists /\ ~f.tooLarge /\ f.svg
    IN /\ Numbers(t, c, IF ok THEN QaWarnings(f) ELSE -1)
       /\ UNCHANGED <<live, ctx, fontFiles, disk>>

\* Files written on request; success says nothing.
Saves(t, p, content, failure) ==
  /\ IF p \in Writable THEN Writes(p, content) /\ Ends(NoAnswer) /\ UNCHANGED error
     ELSE Answers(t, failure) /\ UNCHANGED disk
  /\ UNCHANGED <<live, ctx, fontFiles>>
Fails(t, failure) == Answers(t, failure) /\ UNCHANGED <<live, ctx, fontFiles, disk>>
WriteReport(t, c) ==
  \E p \in Outputs :
    IF ctx[c].kept.report = <<>> THEN Fails(t, "GENERAL")
    ELSE Saves(t, p, [kind |-> "report", report |-> ctx[c].kept.json], "IO")
TraceCgm(t) ==
  \E p \in DOMAIN Metafiles, output \in Outputs :
    IF Metafiles[p].readable THEN Saves(t, output, [kind |-> "trace", input |-> p], "IO")
    ELSE Fails(t, "PARSE")
GenerateXcf(t, c) ==
  \E p \in DOMAIN Metafiles, output \in Outputs :
    IF Metafiles[p].readable THEN Saves(t, output, Xcf(ctx[c], p), "GENERAL")
    ELSE Fails(t, "GENERAL")

\* Pictures are counted by their beginnings; what counts as a hotspot is a
\* segment element of number 21.
Counts(t, c, m, n) ==
  /\ Numbers(t, c, IF m.readable THEN n ELSE -1)
  /\ UNCHANGED <<live, ctx, fontFiles, disk>>
GetPictureCount(t, c) == \E p \in DOMAIN Metafiles : Counts(t, c, Metafiles[p], Metafiles[p].begun)
GetHotspotCount(t, c) == \E p \in DOMAIN Metafiles : Counts(t, c, Metafiles[p], Metafiles[p].segments21)

\* A call with a null pointer, a path that is none or a negative index.
RefuseArguments(t) == Fails(t, "INVALID_ARG")

\* What a conversion leaves: its report, its error, the font map it had to read
\* (unless it stopped before that) and its files.
Converts(t, c, p, output, picture, o, reads) ==
  LET x == IF reads THEN WithFonts(ctx[c]) ELSE ctx[c]
  IN /\ Ends([thread |-> t, context |-> c, code |-> o.code, value |-> 0, about |-> <<p, output>>])
     /\ Tells(t, o.code)
     /\ ctx' = [ctx EXCEPT ![c] = [x EXCEPT !.kept = Kept(@, p, output, x, o)]]
     /\ disk' = [q \in DOMAIN disk |->
                   IF q = output /\ "svg" \in o.wrote THEN Svg(x, p, picture)
                   ELSE IF q = XcfOf(output) /\ "xcf" \in o.wrote THEN Xcf(x, p) ELSE disk[q]]
     /\ UNCHANGED <<live, fontFiles>>
Packs(c) == IF ctx[c].options.compress_output = 1 THEN BOOLEAN ELSE {TRUE}
ConvertCgm(t, c) ==
  \E p \in DOMAIN Metafiles, output \in Outputs, packs \in Packs(c) :
    LET m == Metafiles[p]
    IN Converts(t, c, p, output, IF m.pictures = 0 THEN -1 ELSE 0,
                Outcome(ctx[c], m, output, packs), m.readable)
ConvertPicture(t, c) ==
  \E p \in DOMAIN Metafiles, output \in Outputs, packs \in Packs(c), index \in Settings.pictures :
    LET m == Metafiles[p]
    IN Converts(t, c, p, output, index,
                PictureOutcome(ctx[c], m, index, output, packs), m.readable /\ ~(index >= m.pictures))

\* Somebody edits a font map (the bound on calls bounds this, too).
EditFontMap ==
  /\ left.contexts > 0
  /\ \E p \in DOMAIN fontFiles, f \in DOMAIN FontContents \cup {"missing", "malformed"} :
       /\ f # fontFiles[p]
       /\ fontFiles' = [fontFiles EXCEPT ![p] = f]
  /\ Ends(NoAnswer)
  /\ UNCHANGED <<live, ctx, disk, error>>

ContextCall(t) ==
  \/ Create(t)
  \/ /\ left.contexts > 0
     /\ \/ Destroy(t)
        \/ \E c \in live :
             \/ SetOption(t, c) \/ SetTarget(t, c) \/ SetOutputProfile(t, c) \/ SetHotspotProfile(t, c)
             \/ AddCustomAttribute(t, c) \/ ClearXcfInput(t, c) \/ SetOutputFormat(t, c) \/ SetFontMap(t, c)
             \/ SetLogFile(t, c) \/ SetXcfInput(t, c) \/ ValidateXcf(t) \/ DetectProfile(t, c)
             \/ ValidateProfile(t, c) \/ GetCatalog(t, c) \/ RunBuiltinQa(t, c) \/ WriteReport(t, c)
             \/ TraceCgm(t) \/ GenerateXcf(t, c) \/ GetPictureCount(t, c) \/ GetHotspotCount(t, c)
             \/ RefuseArguments(t) \/ ConvertCgm(t, c) \/ ConvertPicture(t, c)

----------------------------------------------------------------------------
\* What a conversion must agree with itself about.

Converted == left'.contexts # left.contexts /\ answer'.about # <<>>
Succeeded == answer'.code = "OK"
KeptNow == ctx'[answer'.context].kept
FileOf(p) == disk'[p]

\* The error text, the report, its two texts and the document are those of this
\* conversion, or there are none; a success always has one.
ReportsAgree ==
  /\ Succeeded <=> error'[answer'.thread] = ""
  /\ KeptNow.json = KeptNow.report /\ KeptNow.text = KeptNow.report
  /\ Succeeded => KeptNow.report # <<>>
  /\ \/ KeptNow.report = <<>> /\ KeptNow.document = <<>>
     \/ \E r \in {KeptNow.report[1]} :
          /\ KeptNow.report = <<r>> /\ KeptNow.document = <<r.input>>
          /\ <<r.input, r.output>> = answer'.about
          /\ r.success = Succeeded

\* A success has written the output and, when asked to, its companion; a failure
\* has written nothing, unless the companion alone could not be.
FilesAgree ==
  LET input     == answer'.about[1]
      output    == answer'.about[2]
      asked     == ctx'[answer'.context].options.generate_xcf = 1
      companion == XcfOf(output)
  IN /\ \A p \in Places \ {output, companion} : disk'[p] = disk[p]
     /\ Succeeded => FileOf(output).kind = "svg" /\ FileOf(output).input = input
     /\ Succeeded /\ asked => FileOf(companion).kind = "xcf" /\ FileOf(companion).input = input
     /\ Succeeded /\ ~asked => FileOf(companion) = disk[companion]
     /\ ~Succeeded =>
          \/ disk' = disk
          \/ /\ asked /\ companion \notin Writable
             /\ answer'.code = "IO" /\ FileOf(companion) = disk[companion]

\* What the caller has set is what the output was made with.
Overridden ==
  LET x    == ctx'[answer'.context]
      made == FileOf(answer'.about[2]).made
  IN /\ "output_format" \in x.given => made.plan.format = x.options.attribute_output_format
     /\ "output_profile" \in x.given => made.plan.profile = x.options.output_profile
     /\ "adopt_view_on_load" \in x.given => (made.plan.adopt <=> x.options.adopt_view_on_load = 1)
     /\ "text_path_threshold" \in x.given => made.threshold = x.options.text_path_threshold
     /\ made.plan.target = x.target /\ made.plan.hotspot = x.hotspot /\ made.companion = x.companion
     /\ x.fonts.path # "" => x.fonts.loaded /\ made.fonts = x.fonts.map
=============================================================================
