--------------------------- MODULE BinaryCommands ---------------------------
(***************************************************************************)
(* Reading and writing whole commands: which layout belongs to an element  *)
(* (command_factory.cpp), what a command changes in the state that later   *)
(* octets are read with, and the commands of METAFILE DEFAULTS REPLACEMENT.*)
(*                                                                         *)
(* A replacement inside the octets of a replacement is left out.           *)
(***************************************************************************)
EXTENDS ElementLayouts, TLC

Catalogue ==
  DelimiterCommands \cup MetafileCommands \cup PictureCommands \cup ControlCommands
  \cup PrimitiveCommands \cup StyleCommands \cup SegmentCommands
  \cup {MessageCommand, ApplicationData, ApplicationStructureAttribute}

Codes == {l.code : l \in Catalogue}

Known ==
  LET byCode(layouts) == [c \in {l.code : l \in layouts} |-> CHOOSE l \in layouts : l.code = c]
  IN  byCode(Catalogue)

\* UnknownCommand reads nothing and writes nothing.
UnknownCommand(class, id) == Layout(class, id, <<>>)

\* An Escape is made for every identifier, and keeps none.
CreateCommand(class, id) ==
  LET made(known) == IF <<class, id>> \in DOMAIN known THEN known[<<class, id>>]
                     ELSE UnknownCommand(class, id)
  IN  IF class = 6 THEN Under(id, EscapeCommand) ELSE made(Known)
-----------------------------------------------------------------------------
\* What a command that has been read leaves in the state of the file.

Numbers ==
  (IntegerPrecision.code :> "integerPrecision") @@ (IndexPrecision.code :> "indexPrecision")
  @@ (ColourPrecision.code :> "colourPrecision")
  @@ (ColourIndexPrecision.code :> "colourIndexPrecision")
  @@ (VdcIntegerPrecision.code :> "vdcIntegerPrecision")
  @@ (RealPrecision.code :> "realPrecision") @@ (VdcRealPrecision.code :> "vdcRealPrecision")
  @@ (CharacterCodingAnnouncer.code :> "coding")
  @@ (CharacterSetIndex.code :> "characterSet")
  @@ (AlternateCharacterSetIndex.code :> "alternateSet")

SpecificationModes ==
  (LineWidthSpecificationMode.code :> "lineWidth")
  @@ (MarkerSizeSpecificationMode.code :> "markerSize")
  @@ (EdgeWidthSpecificationMode.code :> "edgeWidth")

\* NAME PRECISION and INTERIOR STYLE SPECIFICATION MODE set nothing.
Effect(code, f, cgm) ==
  CASE code \in DOMAIN Numbers -> [cgm EXCEPT ![Numbers[code]] = f[1][1]]
    [] code \in DOMAIN SpecificationModes ->
         [cgm EXCEPT ![SpecificationModes[code]] = IF f[1] = <<0>> THEN "ABS" ELSE "SCALED"]
    [] code = VDCTypeCommand.code ->
         [cgm EXCEPT !.vdcType = IF f[1] = <<0>> THEN "Integer" ELSE "Real"]
    [] code = ColourSelectionMode.code ->
         [cgm EXCEPT !.colorSelectionMode = IF f[1] = <<0>> THEN "INDEXED" ELSE "DIRECT"]
    [] code = ColourModel.code ->
         [cgm EXCEPT !.colorModel = CASE f[1] = <<4>> -> "CMYK" [] f[1] = <<5>> -> "RGB_RELATED"
                                      [] OTHER -> "RGB"]
    [] code = CharacterSetList.code ->
         [cgm EXCEPT !.characterSets = [k \in 1..Len(f) \div 2 |-> f[2 * k]]]
    [] OTHER -> cgm

\* A command that has been read: its class (`kind`, the code the factory made it
\* for), the code it answers to, the parameters read, and whether all that it
\* asked for was there.
Command(layout, fields, ok) ==
  [kind |-> layout.code, code |-> layout.own, fields |-> fields, ok |-> ok]

\* An exception takes the decoding state back to where it was at the start.
DoneResetting(x, l, r) ==
  [x EXCEPT !.commands = Append(@, Command(l, r.fields, r.ok)),
            !.cgm = IF r.ok THEN Effect(l.own, r.fields, @) ELSE Defaults]

\* The command of layout l whose octets have been read as r.
Done(x, l, r) ==
  [x EXCEPT !.commands = Append(@, Command(l, r.fields, r.ok)),
            !.cgm = IF r.ok THEN Effect(l.own, r.fields, @) ELSE @]

\* A reading of several commands with the state they leave.
ReadAs(x, l, args) == Done(x, l, ReadCommand(l, args, x.cgm))

ReadPlain(x, class, id, args) == ReadAs(x, CreateCommand(class, id), args)

ReadFramed(x, f) == IF f.cut THEN x ELSE [ReadPlain(x, f.class, f.id, f.args) EXCEPT !.at = f.at]

\* readCommands over octets held in a string, as far as they hold whole elements.
ReadPlainAll(octets, cgm) ==
  Repeat(LAMBDA x : IF AtEnd(octets, x.at) THEN x ELSE ReadFramed(x, ReadFrame(octets, x.at)),
         Len(octets), [commands |-> <<>>, at |-> 0, cgm |-> cgm])

\* copyDecodingState: what a replacement takes over and hands back. Of the
\* character sets it knows nothing.
DecodingState(from, to) ==
  [from EXCEPT !.coding = to.coding, !.characterSet = to.characterSet,
               !.alternateSet = to.alternateSet, !.characterSets = to.characterSets]

\* readFromBinary of METAFILE DEFAULTS REPLACEMENT on top of that of its octets.
Replacement(octets, cgm) ==
  LET handedBack(inner) == [inner EXCEPT !.cgm = DecodingState(@, cgm)]
  IN  handedBack(ReadPlainAll(octets, DecodingState(cgm, Defaults)))

\* The element (class, id) with these octets read in the state x.cgm: the command
\* at the end of x.commands, defaults at the end of x.defaults.
ReadOne(x, class, id, args) ==
  LET replaced(y, d) == [y EXCEPT !.defaults = @ \o d.commands, !.cgm = d.cgm]
  IN  IF <<class, id>> # MetafileDefaultsReplacement.code \/ args = <<>>
      THEN ReadPlain(x, class, id, args)
      ELSE replaced(ReadPlain(x, class, id, args), Replacement(args, x.cgm))
-----------------------------------------------------------------------------
\* writeCommand: the octets of the command c in the state cgm, when the writer has
\* `bit` bits of its last octet in use; ok says whether no write has thrown.
WriteOne(c, bit, cgm) ==
  LET framed(w) == [octets |-> WriteFrame(c.code[1], c.code[2], w.octets), bit |-> w.bit, ok |-> w.ok]
  IN  framed(PutCommand(CreateCommand(c.kind[1], c.kind[2]), c.fields, bit, cgm))
=============================================================================
