# TLA+ verification of OpenCGM

OpenCGM reads Computer Graphics Metafiles (ISO/IEC 8632, WebCGM 2.1) in their
binary and clear text encodings, keeps them as a list of command objects, checks
them against profiles, and writes them as SVG, as CGM again, or as a raster
through Skia. The modules here model the parts of it that keep state: the SVG
converter, the sheet its drawing is put on, the binary codec, the clear text
reader, the profile validators and the C interfaces around them. TLC checks them
on small files; TLAPS proves theorems for files of every length.

All paths below are relative to the repository's root.

## The system

| Component | State | Operations | Hard part |
| --- | --- | --- | --- |
| Conversion (`src/svg/svg_converter.cpp`: `convert`, `processCommand`, `processBegin/EndPicture`) | output text, picture index, colour 0, every attribute | one handler per command, `resetPictureState` | what is reset when: at a conversion, at a picture, at the first picture, at END PICTURE |
| Sheet (`recomputeDocumentMetrics`, the fit and the view box) | bounds, background, warning given, the picture selected | a scan before the conversion, cropping | two walks over the commands must agree on what can be seen; metrics are kept between conversions |
| Clips and protection regions | rectangle, indicator, regions and their paths, caches of `<clipPath>` ids, the clip attribute in force | CLIP RECTANGLE, CLIP INDICATOR, BEGIN/END PROTECTION REGION, PROTECTION REGION INDICATOR | two mechanisms share one attribute and one `<defs>`; cached ids go stale |
| Fills | interior style, pattern tables, sizes, reference point, `<pattern>` ids | INTERIOR STYLE, PATTERN *, FILL REFERENCE POINT | definitions are written lazily, attributes change later |
| Primitives and figures | the open figure's subpaths | some twenty primitives, BEGIN/END FIGURE, CONNECTING EDGE | the same primitive is drawn, kept for a figure or kept for a clip region |
| Text | pending segments, text attributes | TEXT, RESTRICTED TEXT, APPEND TEXT | partial text is written when a later command flushes it |
| Application structures (`aps_serializer.cpp`, `xml_utils.cpp`) | stack of nodes, attributes, id allocator | BEGIN APS, BODY, END APS, ATTRIBUTE | `<g>`/`<a>` tags around everything else |
| Symbols | libraries, defined symbols | SYMBOL LIBRARY LIST, POLYSYMBOL | a definition and a `<use>` in one handler |
| Rasters (`svg/tile_*.cpp`, `cell_array.cpp`) | the next tile of the array | tile arrays, bitonal tiles, cell arrays | indices that position later images, rows padded to octets |
| Binary reader (`import/binary_reader.cpp`, `command_factory.cpp`) and commands (`commands/*`) | position, bit cursor, precisions, modes and character sets set by earlier commands | `readCommand`, typed reads | framing; precisions that change; commands that throw; truncated files |
| Binary writer (`export/binary_writer.cpp`) | the bits used of the last octet | typed writes, frames | partitions, padding, round trip |
| Metafile (`core/cgm_file.cpp`) | command list, defaults | `readData`, `writeFile`, `getPictureRanges` | where defaults are inserted; ranges of pictures; a save that is cut short |
| Clear text (`import/clear_text_reader.cpp`, `core/text_cgm_file.cpp`) | place in the text, statement, precisions, messages | tokens, statements, translation | comments, quotes and a stream that may end in any of them; statements that make no command |
| Profile validation (`validation/profile_validator.cpp`, `opencgm_validate_profile`) | report, picture index, libraries, stacks and counters of each pass | the passes of three validators, detection | a validator that is kept; rules that judge by what is on top of a stack |
| C APIs (`c_api.cpp`, `api/cgm_c_api.cpp`) | options, font map, report and its texts of a context; handles, converters and their cached SVG; last errors | set, convert, validate, check, trace; load, convert, free | presets against overrides; what is left of the last call when this one fails half way; converters that outlive their handle |
| XCF, SDR, NURBS, Skia, compression, tools | mostly none | parsing, numerics, I/O | not modelled |

The components of the converter interact through shared members, not through
calls: `svg_output_` and `defs_open_` are written by all of them,
`clip_path_attribute_` by two and read by eight. The codec's commands interact
through the decoding state of the file: what one leaves there says how many
octets the next ones take. There are no threads inside any of this; what makes
it hard is the order of the commands, which the metafile chooses, definitions
that are written late and cached, exceptions that leave a conversion or a
command half way, files that end anywhere, and objects that are used again.

`PROJECT.json` lists every component with its status, and every hazard with the
line where it bites and the properties that cover it.

## Modules

### The converter

| Module | Models |
| --- | --- |
| `ConverterState` | the text in `svg_output_`: open elements, ids, definitions, drawn elements in order, and `defs_open_`; the other members of `SVGConverter`, by component; the commands; how `convert` reads them; the flush rule of `processCommand` |
| `ClipAndRegions`, `PatternFills`, `Primitives`, `TextRuns`, `ApsGroups` | one action per command handler of each component |
| `SvgConverter` | conversions, pictures, background and segment policy; composes the components into `Next` and `Spec` |
| `SvgRendering` | abstract: an immediate-mode renderer with no ids, definitions or caches |
| `SvgRequirements` | types, invariants, action properties and the refinement mapping |
| `MCConverter` | the commands and files of the runs `Painting`, `Content`, `Nesting`, `Placement` |

Every action is one command read and processed to the end: the handler, the
flush of pending text before it, the closing of `<defs>` that the dispatcher does
for primitives, and every definition written on the way. `Reads(c)` takes the
next command of the file. A file is found out as it is read: any command of
`Alphabet` that `Follows` what was read may come next, so one run explores every
file its instance allows. The theorems hold for every `Alphabet` and `Follows`;
the runs choose them so that files stay short. The file is kept in the variable
`file`, so that a second conversion reads the same one, and so that properties
can speak of what was read when.

A coordinate, string or colour is known by the index of the command that carries
it, so it is never mistaken for another one. A clip rectangle is a value, because
the converter compares rectangles by their formatted coordinates; `Degenerate`
ones have no area. An element of the document is a mark: the commands whose
graphics it shows, the ids it refers to and the elements around it. An id is a
word and two numbers. Transformations, formatting, fonts and line styles are
left out. What a handler writes for one command (the outlines of a figure, the
placements of a symbol) is one mark, and a POLYSYMBOL has one placement, whose id
counts on from the one before. Lists of points hold the points a handler needs:
early returns for shorter ones are not modelled. An attribute of a structure is
one that is taken, not an unsafe link or an empty value.

### The sheet and its images

| Module | Models |
| --- | --- |
| `DocumentMetrics` | `recomputeDocumentMetrics`: descriptors, the walk that measures every primitive with its own copy of the attributes, autofit, fit to content, the view box |
| `TileImages` | tile arrays and the cursor in them, geometry of a tile, uncompressed samples of every precision, the bitmap of a cell array |
| `SheetConverter` | a conversion: the metrics kept or computed again, the walk that draws, selection of one picture; its properties |
| `MCSheets` | the files and options of `Sheet` and `Upright` |

Lengths are hundredths of a VDC unit. Segments are allowed, extents are at least
one unit, the ink of a text is its anchor. Minimum stroke widths, the default
character height at BEGIN PICTURE BODY, markers, CIELAB and CIELUV, a colour
selection mode that changes inside a picture, the cell colour that stands for
nothing and BACKGROUND COLOUR with more than eight bits are left out. As in the
code, the warning about a fit that cannot be made is given once in a converter's
life; a difference in the options stands for the setters that make metrics out of
date (`Outdates`).

### The binary codec

| Module | Models |
| --- | --- |
| `BinaryFraming` | headers, short and long form, partitions and padding, both ways |
| `BinaryReader`, `BinaryWriter` | what a `CGMFile` remembers of the elements read, the typed reads in that state (with the decoding of text), the typed writes |
| `BinaryLayout`, `ElementLayouts` | the parameters of every command, as `readFromBinary` and `writeAsBinary` call the typed reads and writes |
| `BinaryCommands` | the factory, what a command leaves in the decoding state, METAFILE DEFAULTS REPLACEMENT |
| `BinaryFile` | loading, saving, a crash during a save, loading again; `Spec` with fairness |
| `ElementDelivery` | abstract: the elements that are in a file whole are delivered in order, each once |
| `BinaryRequirements`, `MCBinary` | properties and the refinement mapping; the files of `Binary` and `RoundTrip` |
| `Iteration` | loops |

A layout table stands for the two methods of a command: groups of typed fields,
read or written a number of times. Octets are numbers; a floating-point number
stands in its octets as a fixed-point one with a mark. Left out: structured data
records inside names, CIELAB and CIELUV, colours and integers of 32 bits,
replacements inside replacements, allocation limits. A file with a command that
could not be read is not saved, nor one whose defaults hold LINE WIDTH, MARKER
SIZE, EDGE WIDTH or PATTERN SIZE (`DefaultsAskTheirFile`): these ask the file they
were read into for its modes when they are written, and METAFILE DEFAULTS
REPLACEMENT reads them into a temporary one (`metafile_descriptor_commands.cpp:485`)
that is gone by then. What is written is undefined.

A crash is the loss of the end of the file being written: it is left with one of
the lengths of `CrashPoints`, between octets of any element, and is loaded like
any other file.

### Clear text

| Module | Models |
| --- | --- |
| `ClearTextLexer` | signs, blanks, comments, identifiers, numbers, quotes, `nextToken` |
| `ClearTextFile` | `readStatement`, the translation of statements, messages, exceptions, a file object that reads again; its properties |
| `MCClearText` | the texts of `ClearText` and `Signed` |

A text is a sequence of signs; a sign is a punctuation character, a word or a
numeral. Left out: the string of a statement's payload, words directly behind
digits that begin with e (other than an exponent), `inf` and `nan`, numbers
`stod` refuses for their size, a factory that fails, a slash directly in front
of a comment. As in the code, line ends that close a `!` comment are not
counted, and an exception leaves the statements of the file read before.

### Profile validation

| Module | Models |
| --- | --- |
| `ProfileCommands` | what the validators look at in a command; the collecting of messages |
| `WebCgmContent`, `WebCgmStructure` | the passes of the WebCGM validator |
| `DerivedProfiles` | those ATA and S1000D add |
| `ProfileValidation` | detection, `opencgm_validate_profile`, a validator that is created, kept and used again |
| `ProfileRequirements`, `MCProfiles` | properties; the files of `Profiles` |

### The C interfaces

| Module | Models |
| --- | --- |
| `ContextInterface` | `c_api.cpp`: a context's options, presets and font map; the plan a converter is given (`configure_svg_converter`, `setOutputProfile`, `conversion_plan.cpp`); geometry validation; the two conversions with every place they can stop at; reports, validation, QA, companion files |
| `HandleInterface` | `cgm_c_api.cpp`: shared metafiles, handles, converters, their kept output, error codes; both interfaces together, `Spec`, and its properties |
| `MCInterfaces` | the files, font maps, outputs and settings of `Interfaces` |

A call is one step: threads do not share a context (the last error is a thread's
own), and what two contexts share is files. A metafile is known by what a
conversion does with it: it cannot be read, it throws, it has unknown elements,
its sheet has these metrics. An output exists or is refused when it is opened;
the code does not check the writing after that. `Svg` keeps the whole plan the
file was made with. Setters that do nothing (`yflip_mode`, `scale`, `style_mode`,
`validate_output_s1000d6`) and calls that only read a member are left out;
`companion_mode` and `text_as_path_set` are kept as in the code, and as there
nobody reads them. An output named like its own companion file, which the
companion would replace, is excluded (`PathsAssumption`). An output format stands
for its aliases, a declared edition of a profile for all that begin with it.
`cgm_load_from_memory` only runs `readCommands`, without the splice of the defaults
and the decompression of `readData`: a metafile here is what a handle holds after
loading it, so one of that kind would need an entry for each way. The build has no
native renderer.

The definitions named after a defect, in every module (`ResetKeepingCache`,
`EndRegionKeepingId`, ...), are not part of `Next`: each is a handler with a
plausible mistake, kept to show that the property next to it in `PROJECT.json`
would notice.

## Properties

* Types (`TypeOK` of the converter, the codec and the clear text file): the
  shape of the state, which the proofs rest on.
* `ClipAndFillResolve`, `SymbolsResolve`: no reference dangles, neither in the
  document nor in a cache, across pictures that clear the document.
* `PatternsCurrent`: a cached `<pattern>` shows what the attributes now say.
* `ImplementsRendering`: with ids replaced by what they define, the converter is
  the immediate-mode renderer of `SvgRendering`: each element shows the clip
  shape and pattern in force when it was drawn, for good.
* `TextInPlace`, `TextKeepsItsColour`: partial text keeps its place in painting
  order and its attributes.
* `NothingLost`, `DrawnOnce`: what becomes of each command's graphics through
  pending text, figures and regions. `MayForget` names the only commands
  that drop any.
* `ShapesRendered`: no shape or text inside `<defs>`. `IdsUnique`, `WellFormed`,
  `ValidXml` (both), `InItsGroups`: the XML, for files whose structures nest (`WellNested`).
* `NothingCropped`, `MetricsCurrent`, `SelectedAlone`, `TilesAsDrawn`: what is
  cropped away is empty; kept metrics are the ones needed; a selected picture is
  drawn as if it were alone; tiles keep their places and pixels.
* `ElementsDelivered` (refinement of `ElementDelivery`): whatever a command does
  with its octets and wherever the file ends, elements are delivered in order,
  each once and as itself. `BadCommandsLeaveNoTrace`: commands that could not be
  read change nothing for the others.
* `SavedFileReadsBack`, `AsciiTextSurvives`: parameters come back, plain text
  survives every choice of character sets. `DefaultsInPlace`, `PicturesWhole`:
  where defaults go, what the ranges of pictures are.
* `StatementsRead`, `DefinitionsFollow`, `EveryStatementAnswered`: a text means
  what was written, in every layout; precisions are those of the commands kept;
  every statement is a command or one message.
* `StructuresChecked`, `TextsChecked`, `SymbolsChecked`, `LimitsChecked`: a pass
  reports an error just when a declarative reading of the file finds one.
  `ProfilesAgree`, `KeptIsFresh`, `EditionHonoured`: neither the profile asked
  for nor earlier files take anything away.
* `AnswersAgree`: the return code, the error text, the report, its two texts and
  the files of a conversion tell one story. `OverridesWin`: what the caller has
  set, in whatever order, is what a written file was made with. `HandlesOwn`:
  nobody uses a freed metafile and none is left behind.
* `LoadsAndSavesEnd`, `ReadingEnds` (liveness): reading and writing end.

## Runs

| Run | Explores | Bounds |
| --- | --- | --- |
| `Painting` | clip rectangles and pictures; a region that is extended, replaced and recalled; two patterns redefined; segments that throw; every primitive behind an open `<defs>` | a prologue and 3 to 5 commands; two conversions by one converter; strict segment policy |
| `Content` | regions; figures; text and clips; structures around text; symbols of changing libraries | a prologue and 3 to 5 commands; one conversion; tolerant segment policy |
| `Sheet` | thirteen thousand pairs of a file and options | two conversions with different options |
| `Binary` | every element of the catalogue behind three preludes of precisions; pictures, defaults, partitions, character sets, unknown elements, missing octets | two loads and a save between them; partitions of 40 octets for 32767; a crash at 5 or 20 octets |
| `ClearText` | pairs of thirty statements in two layouts, single ones in every layout and quote, texts cut off at every place, texts that are none | 11 tokens in a statement for the code's limit; two reads by one object |
| `Profiles` | ten thousand files about one subject each, six kinds of request, kept validators | texts and data of 4, one element in a region, one primitive in a figure, 4 structures, for the limits of the profiles |
| `Interfaces` | five files, a font map that is edited, outputs that cannot be opened, seventeen settings | three calls and edits on a context, or five on handles; one thread, one context, two handles, converters and metafiles |

Three to five free commands after a prologue are enough in the converter because
each hazard is a chain of at most four steps: define, invalidate, use, and a
command in between. Two conversions, loads, reads or files are enough because
what the second one inherits from the first is all that a third could. Three calls
on a context are two settings, in either order, or a failed conversion, and a
conversion; five on handles are a load, a converter, a conversion and both frees. Limits
(partitions, tokens, elements in a region) are small so that the cases below, at
and above them occur; the code treats no other number in a special way. Three
rectangles (one degenerate), two regions, two patterns and two symbols let every
cache hold an entry in use, a stale one and one not made yet. The mutants
confirm the bounds: every property is violated within them by a defect of its
kind. Deadlock is not checked: a conversion, a load, a validation or a program ends, and
after the last one nothing follows.

Fairness. The converter, the sheet and the validators are loops over a finite
list, and the interfaces do what their caller asks for, so liveness says nothing
about them, and none is assumed. `BinaryFile`
assumes `WF_<<phase, at>>(ReadsOn)` and `WF_<<phase, next>>(WritesOn)`,
`ClearTextFile` the same of its loops: `readCommands`, `writeFile` and `read`
are single calls that nothing suspends, so a loop that can take a turn takes it.
That the turns come to an end is what `LoadsAndSavesEnd` and `ReadingEnds` check.

Five runs end in a violation on purpose. Each checks one statement of the
sources that the code contradicts:

* `Nesting`: END APS after a clip change inside the structure writes `</g>`
  while `<defs>` is open; the output is not well-formed XML.
* `Placement`: the first placement of each symbol is written inside the
  `<defs>` its definition opened, and is not rendered.
* `RoundTrip`: MARKER TYPE is written under another element's identifier.
* `Signed`: a clear text number that begins with a sign is read as nothing, and
  the reader stays where it is.
* `Upright`: the rows of a cell array are put into a bottom-up bitmap from the
  top, and are seen upside down.

## Where the code and its surroundings disagree

Weaknesses that no run of its own shows, because no statement of the sources is
contradicted, another run stops first, or the code is not modelled.

Converter. The background is written without closing `<defs>`, so it is lost
when a clip rectangle is among the metafile defaults. A structure whose
identifier equals a generated id (`clipPath1`) repeats that id; the alphabets
leave such identifiers out. The ids of symbols survive from one `convert()` to
the next while the text does not. RECTANGLE, arcs, splines, POLYGON SET and text
are drawn inside a protection region being defined. A figure left open survives
into the next conversion. `convert(-1)` returns the last picture only.

Sheet. `NothingCropped` speaks of `Measurable` files. Elsewhere the walk that
measures differs from the one that draws: it keeps attributes across BEGIN
PICTURE; takes a polygon filled with a pattern in the background colour for
invisible; takes an unknown palette index for black; takes the default text
height to be 1 % instead of 2.5 %; with a black BACKGROUND COLOUR and a COLOUR
TABLE that makes entry 0 white or changes entry 1 it crops visible drawing,
against the comment at `src/svg/svg_converter.cpp:2167`. Tile arrays are measured
with the cell size per cell and drawn with its inverse, turned by 90 and 270
degrees the other way, without image offsets, and primitives inside a measured
array are skipped. A picture is cropped with `--no-fit-to-content` when it covers
less than 20 % both ways. A drawing outside the extent gives an inverted
rectangle. A tile outside an array is never drawn; bitonal tiles with a bad cell
size all go to one place in compatibility mode, which also makes palette entry 2
grey. The loop at 2614 and the choice of a view at 2841 are never reached.

Codec. `Forgets` names what a save does not keep: marker elements answer to
other identifiers; real precisions are written in a form that reads as another;
indices of MAXIMUM COLOUR INDEX and COLOUR TABLE change their width; cell arrays
lose mode and local precision; tiles of most types lose their payload; escapes
their identifier, unknown elements their octets; CMYK its fourth component;
24-bit colours are read signed; strings beyond ASCII are read as single octets.
A file whose precisions change in the middle is written with the last ones.
`cgm_file.h:205-235` calls implemented methods "NOT IMPLEMENTED"; the reader's
messages never reach the file.

Validators. The rule for palettes looks for COLOUR TABLE under 33, the number of
PATTERN SIZE (`profile_validator.cpp:1453`), and never reports a gap; others look
for EDGE VISIBILITY at 27, INTERIOR STYLE at 21 and CELL ARRAY at 18. S1000D runs
the ATA rules, whose ProfileId contradicts its own; the rules for ICNs contradict
each other; a description "ATA GRAPHICS.GREXCHANGE" is cut to "ATA"; detection
takes the newest version mentioned anywhere; a pair without a colon goes
unnoticed; regions and figures left open are not counted. The model does as the
code does. Tables of element constraints and patterns of file names are left out.

Interfaces. Some failures leave an error and no report: several pictures with a
multi-picture mode, and compressing, opening or the companion file in
`opencgm_convert_picture_to_svg`, which also skips geometry validation and the
rendering approximations. `fail_on_warn` notices unknown elements only when they
are traced. After a font map could not be read every conversion fails until it
can. `opencgm_set_hotspot_profile` forgets custom attributes. After StandardSVG,
Custom keeps `emit_attribute_metadata` off, which no call turns on. A second log
file answers OK and is not opened. `opencgm_cli.cpp:378` undoes the geometry
validation a strict preset asks for. `opencgm_get_hotspot_count` counts an element
of class 8 that BEGIN APPLICATION STRUCTURE is not, so the answer is 0.
`opencgm_get_picture_count` counts BEGIN PICTUREs, `getPictureRanges` needs the
END. `svg_converter.h:1047` says the target configuration is used only for
Custom; it always is. Files are not checked after they are opened for writing.

## Proofs

The theorems hold for every value of the constants that satisfies the stated
assumptions, files of every length and any number of steps.

| Module | Theorem | States |
| --- | --- | --- |
| `SvgConverterProofs` | `TypeCorrect`, `ReferencesResolve` | `TypeOK`, `ClipAndFillResolve` |
| | `AllocatedIsNew`, `SymbolIdIsNew` | an unused identifier exists, and is the one returned |
| `SvgRenderingProofs` | `RenderingImplemented` | `ImplementsRendering`: the converter refines `SvgRendering` |
| | `PatternsStayCurrent`, `ShapesAreRendered` | `PatternsCurrent`, `ShapesRendered` |
| | `FirstSymbolsResolve` | `SymbolsResolve` in the first conversion |
| | `FirstWellFormed` | `WellFormed` in the first conversion, of files in which no structure ends with `<defs>` open |
| | `IdsStayUnique` | `IdsUnique` in every conversion, of files whose names are unlike generated identifiers (`NamesApart`) |
| | `FirstValidXml` | `ValidXml` in the first conversion, under both hypotheses |
| `SvgContentProofs` | `GraphicsKept` | `NothingLost` (an action property) |
| | `TextColoursKept` | `TextKeepsItsColour` |
| | `FirstDrawnOnce`, `FirstTextInPlace` | `DrawnOnce`, `TextInPlace` in the first conversion |
| `ClearTextProofs` | `TypeCorrect`, `DefinitionsOfCommands`, `StatementsAnswered` | `TypeOK`, `DefinitionsFollow`, `EveryStatementAnswered` |
| | `ReaderAdvances` | every token moves the reader on, except the end and a number that begins with a sign |
| `BinaryFileProofs` | `FrameReadsBack` | a frame is read back, whatever the length and partitions of its arguments; a frame cut off by the end of the file is recognised |
| | `LoadingDelivers` | `ElementsDelivered`: loading refines `ElementDelivery` (`MaxLoads = 1`) |
| | `FirstLoadDelivers` | the same of the first load where files are saved and loaded again |
| | `DefaultsArePlaced` | `DefaultsInPlace` (an action property), in every load |
| | `FirstPicturesWhole` | `PicturesWhole` in the first load |
| `SheetProofs` | `MetricsStayCurrent` | `MetricsCurrent` |
| | `PicturesStandAlone` | `SelectedAlone`, of files that draw only in their pictures |
| `ProfileProofs` | `KeptAlwaysFresh` | `KeptIsFresh` |
| | `ProfilesAlwaysAgree`, `EditionsAlwaysHonoured` | `ProfilesAgree`, `EditionHonoured` |
| | `StructuresAlwaysChecked`, `TextsAlwaysChecked` | `StructuresChecked`, `TextsChecked` |
| | `LimitsAlwaysChecked`, `SymbolsAlwaysChecked` | `LimitsChecked`, `SymbolsChecked` |
| `InterfaceProofs` | `AnswersAlwaysAgree`, `OverridesAlwaysWin` | `AnswersAgree`, `OverridesWin` (action properties) |
| | `HandlesAlwaysOwn` | `HandlesOwn` |

Assumptions. `AlphabetAssumption`: commands have the operands `Commands` gives
them. `IndexAssumption`: 1 is a pattern index, the one the converter starts with.
`SymbolAssumption`: what stands for a symbol is not the word of another generated
id (in the code it begins with `cgm-symbol-`).
`SignsAssumption`, `TextsAssumption`, `BoundsAssumption`: words and numerals are
disjoint and no punctuation, texts are sequences of signs, limits are numbers.
`MaxPartitionAssumption`: a partition's length fits its length word.
`FilesAssumption`: a file consists of elements whose classes and identifiers fit a
header and whose partitions fit their length words, cut anywhere; it may hold
elements of every number of octets, known or unknown. The one of the validators:
commands are lists of elements of the sixteen classes, libraries are of the kinds
in `LibraryKinds`, numbers are numbers. `LimitsAssumption`: limits are numbers. `NoNameAssumption`: the empty text is no
identifier (`isValidFragmentIdentifier`). `LoadingDelivers` adds
`MaxLoads = 1`. `PlansAssumption`: options have the values of their types. The sheet's
`FilesAssumption`: a file keeps its commands in a list.
`PathsAssumption`: no output has the name of its companion file.
`NamesAssumption`: the word for no metafile is the name of none.
`BudgetsAssumption`: the number of calls is one.

The converter. `Inv` of `SvgConverterProofs` is the conjunction of `TypeOK` and
`ClipAndFillResolve` (`InvIsBoth`): a reference stays defined only because the
document is one, and the handlers keep the types only if `FillId` and `clip.ref`
are identifiers. It is split by component (`ClipOK`, `RegionOK`, `FillOK`, ...)
and needs no strengthening, since `ClipAndFillResolve` speaks of the caches as
well as of the marks. The proof has one lemma per action. Most of each is the
relation `Extends(e, d)`: document `e` keeps the
definitions of `d`, and its marks resolve if those of `d` did. It is transitive,
and every operator on documents satisfies it. The document restarts in `Convert`
and `BeginPicture`; there `ResetSound` replaces `PartsKept`. `AllocatedIsNew` and
`SymbolIdIsNew` are pigeonhole arguments; both handlers `CHOOSE` an identifier,
which without them could rest on nothing.

The other theorems of the converter start from `Inv`:

* `SvgContentProofs` gives each action a relation between what is pending, captured
  and drawn before and after; `NothingLost` follows from these relations. It then
  adds `Everywhere`: a command's graphics are in one place,
  what is captured for a figure is what the figure holds, what is pending
  carries the colour recorded for it. `DrawnOnce` and `TextInPlace` hold for
  the first conversion only: a figure left open survives into the next one.
* `SvgRenderingProofs` adds `Meant` (a cached identifier's definition is what the
  attributes now say; every mark shows what the renderer recorded), which makes
  every step a step of `SvgRendering` or none, and `ShapesOK` (an open `<defs>`
  is the innermost element, and no text is pending while it is).
  `SymbolsResolve` is proved for the first conversion: the set of defined
  symbols survives `convert()`.
  `FirstWellFormed` needs to know which elements are open at every command.
  `FirstFraming`: without a `<defs>` left open they are the `svg` followed by the
  `g`, or `g` and `a`, of each structure on the stack, in order (`Outline`), and
  the stack is as deep as the commands nest. Every command keeps that
  (`KeepsFrame`): text and shapes close what they open, clips and symbols leave at
  most a `<defs>` behind. END APS closes the innermost element whatever it is, so
  the theorem supposes `EndsOutsideDefs`; without it run `Nesting` refutes
  `WellFormed`. Later conversions start with the structures the earlier one left.
  `IdsStayUnique` rests on `IdsInv`: every identifier in the document is `Accounted`
  for by what made it, the counters of clips, patterns and placements, the set of
  emitted symbols or the identifiers given to structures, and whichever makes the
  next one makes one that it does not account for. A structure gets its identifier
  at BEGIN and writes it at BODY; in between it is on top of the stack and not in
  the document (`TopIsNew`), which needs files that nest. `NamesApart` is needed
  because the allocator of structures' identifiers knows only its own.
  `FirstValidXml` puts the two together.

Clear text. The inductive invariant says of each phase where the reader is, what
of the statement has been read, and that definitions, commands and messages are
those of the statements translated so far. Loops are recursive functions, and
what they compute is shown by the least turn at which it could fail
(`SmallestOf`, `Counting`, `LoopStates`): induction over data without a theorem
that takes an operator.

The binary file. A frame is read back by an argument over partitions: `Chunks`
gives where each begins, and the reader is behind as many of them as it has
collected. From it follows the invariant of `BinaryFileProofs`: in the first load
the file consists of exactly its marked elements, each standing where the one
before it ends (`Consists`), and the reader is behind as many of them as it has
delivered commands (`InStep`). It is needed because nothing else ties the octets
left to the elements left: that the reader is at a boundary between elements
depends on all lengths and paddings before it. `DefaultsArePlaced` rests on
what is true of any list of commands: the position found is behind the leading
descriptors (`PositionFound`). For `FirstPicturesWhole` the scan of
`getPictureRanges` is shown to find what `PicturesWhole` demands, one command at a
time (`FoundPictures`, `Scanned`); the list then stays one of commands in every
step (`Lists`). Only `DefaultsArePlaced` goes beyond the first load: a saved file
consists of what the writer's layouts put out, which would first have to be typed
for every command.

The sheet. `MetricsCurrent` is inductive with the fields of the sheet: every walk
of the metrics keeps the fields it does not compute, what is shown depends on a
few of them only (`ShownFromFields`), and an option that changes what is shown
makes the metrics out of date (`SamePlanSameSheet`).

`PicturesStandAlone` needs an account of the drawing at every point of the walk.
`DrawingInv`: while one picture is asked for, the drawing is what the commands
performed so far, and none behind the picture's end, make of a blank one in their
order (`Reaches`, `InOrder`); that the end is there is shown by counting
(`PlaceOf`, `EndIsThere`). The walk of the picture alone and the walk of
the whole file then stand in the relation `Pair`: their drawings differ in the
number of the picture they take theirs for, and nothing else, once the picture has
begun (`BegunAlike`). Every command keeps that (`EffectPair`), as none but
`BeginPicture` looks at the number. The hypothesis `DrawsInPictures` is what
ISO 8632 demands of a metafile, and `MCSheets` assumes it of its own files, so that
TLC evaluates it. The code needs it: what a file draws before its first picture is
kept for that picture and lost to the others.

The validators. Two validators are `Same` when they were made alike, and `Alike`
when besides they have said the same and are at the same picture; the libraries
they keep may differ. Every pass takes `Alike` validators to `Alike` ones, though
some read the picture index an earlier pass left; the pass over symbols forgets
the libraries before it reads them. After the reset that every `validate()` begins
with, a kept validator is `Alike` to a new one, so they say the same (`ValidatedIsFresh`).

What a report tells of a file is proved in three steps. What each pass `Heard` to
say, as a set of severities and words, is a function of the file, and the words
are those of its subject (`Words`): the pass over texts alone speaks of APPEND
TEXT, so that an error about it in the report was said there. `SaysOf` puts the passes together for a
validator of each kind, and `ReportInv` says that a report is what the validator
of its profile `SaysOf` the file: an inductive invariant, needed because the
requirements speak of a report long after the validation. `ProfilesAgree` and
`EditionHonoured` follow from it. For the others the single pass over the commands is
compared with the requirement on all of them, command by command (`TextRun`,
`RegionRun`, `FigureRun`, `SymbolRun`; by the least command at which it could fail): after `i` commands the
flag of `TextSequence` is whether the `i`-th is a part that goes on, the counters
of regions and figures are the numbers of elements since the last beginning, and
a symbol has been warned of just when one up to there is in no library in force
(`Astray`), though the second of two lost symbols of a library is passed over.

For structures the two sides look at different things: the pass has a stack,
`StructuresChecked` counts beginnings and ends. `StillOpen` is the set of beginnings
that the counts leave open, and `Innermost` shows its last to be as deep as the
commands are. `Tidy` is the invariant that ties the stack to it: as long as no
structure ended that was not begun (`Even`), the stack has one entry for each
depth, and an entry is marked just when a body belongs to the structure begun
there (`Bodied`). It could not hold without `Even`, and `Even` could not be shown
without it: a pass that has blamed nothing so far has popped no empty stack
(`EndsWell`). `BlamelessAre` then compares them command by command, and
`EndJudgedRight` what is left at the end. Links may lead forward, so their targets are
compared with all names only there.

The interfaces. The two action properties speak of the one step that is a
conversion. `Shaped` says which fields contexts have and where the files are;
every other call is `Plain`, and the outcome of a conversion is `Coherent`,
wherever it stops: only success has written everything, and it has a report.
`Own` strengthens `HandlesOwn`: a metafile is in memory exactly when a handle or a
converter shares it, and a converter's file is the one it shares.

Model-checked only. Liveness (`LoadsAndSavesEnd`, `ReadingEnds`), which the prover
has no means for. `InItsGroups`, and `WellFormed` after the first conversion. `StatementsRead`, which compares a text with what was meant by it. Of the sheet
`NothingCropped`, where two walks over the commands measure the same things, and
`TilesInPlace` and `PixelsAsDrawn`, whose arithmetic needs files of typed commands
and bitmaps packed as the instance packs them. Of the binary codec what depends on
the layouts of all commands: `TypeOK`, `SavedFileReadsBack`,
`BadCommandsLeaveNoTrace`, `AsciiTextSurvives`, and `ElementsDelivered` and
`PicturesWhole` in loads of saved files.

## Not modelled

Floating-point numerics (`nurbs_approximator.cpp`, `arc_geometry.cpp`), fonts,
PNG encoding and deflate, the CCITT decoder (which nothing calls), Skia, XCF and
SDR parsing, the command line tools, vendored code: they compute, parse or do
I/O, and keep no state over which steps could go wrong. The lazily built CRC
table of `gzip_utils.cpp`, hatches, gradients, fill bundles, region overlays and
metadata of structures are state that is not modelled yet; `PROJECT.json` names the hazards there without a property.

## Plan

Modelling is done as far as the table above says. Next are the theorems that
stay with TLC for lack of work rather than of means: `InItsGroups` for files that
nest, and loads of saved files.
