--------------------------- MODULE ProfileCommands ---------------------------
(***************************************************************************)
(* A metafile as the validators see it: a sequence of commands, each with  *)
(* its class and element number and those of its parameters that some rule *)
(* looks at, and what the reader has found out about the file besides.     *)
(*                                                                         *)
(* A text is described by its length in octets and by the characters in it *)
(* that the repertoire forbids: invalid UTF-8, U+FFFD, C0 and C1 controls. *)
(* A link is described by its parts.                                       *)
(***************************************************************************)
EXTENDS Integers, Sequences, FiniteSets, FiniteSetsExt, Iteration

BeginMetafile == <<0, 1>>
EndMetafile == <<0, 2>>
BeginPicture == <<0, 3>>
EndPicture == <<0, 5>>
BeginSegment == <<0, 6>>
EndSegment == <<0, 7>>
BeginFigure == <<0, 8>>
EndFigure == <<0, 9>>
BeginRegion == <<0, 13>>
EndRegion == <<0, 14>>
BeginTileArray == <<0, 19>>
BeginAps == <<0, 21>>
BeginApsBody == <<0, 22>>
EndAps == <<0, 23>>
NoOp == <<0, 0>>

MetafileVersion == <<1, 1>>
MetafileDescription == <<1, 2>>
MaximumColourIndex == <<1, 9>>
SymbolLibraryList == <<1, 23>>
VdcExtent == <<2, 6>>
WidthSpecificationMode == <<2, 8>>

Polyline == <<4, 1>>
Text == <<4, 4>>
RestrictedText == <<4, 5>>
AppendText == <<4, 6>>
Polygon == <<4, 7>>
Gdp == <<4, 10>>
ArcCentre == <<4, 15>>
Ellipse == <<4, 17>>
HyperbolicArc == <<4, 22>>
ParabolicArc == <<4, 23>>
Spline == <<4, 24>>
RationalSpline == <<4, 25>>
PolySymbol == <<4, 27>>
BitonalTile == <<4, 28>>
Tile == <<4, 29>>

LineWidth == <<5, 3>>
LineColour == <<5, 4>>
MarkerColour == <<5, 7>>
TextColour == <<5, 14>>
CharacterHeight == <<5, 15>>
CharacterOrientation == <<5, 16>>
TextAlignment == <<5, 18>>
FillColour == <<5, 23>>
EdgeWidth == <<5, 28>>
EdgeColour == <<5, 29>>
EdgeVisibility == <<5, 30>>
ColourTable == <<5, 34>>

Message == <<7, 1>>
ApplicationData == <<7, 2>>
ApsAttribute == <<9, 1>>

Class(c) == c.code[1]

\* dynamic_cast: a command has the type that its code had the factory make it.
IsA(c, code) == c.code = code

\* The commands with a given code, in their order.
All(code, commands) == Those(commands, LAMBDA c : c.code = code)

\* The picture that the i-th command is in, from 0; 0 before the first picture.
PictureAt(commands, i) ==
  LET begun == Cardinality({j \in 1..i : commands[j].code = BeginPicture})
  IN  IF begun = 0 THEN 0 ELSE begun - 1

-----------------------------------------------------------------------------
(***************************************************************************)
(* What a validator has to say: messages of four severities, each with the *)
(* picture it is about, and the counts of a ValidationReport. Of the       *)
(* wording of a message a short name is kept.                              *)
(***************************************************************************)

Say(severity, what) == <<[severity |-> severity, what |-> what]>>
Err(what) == Say("ERROR", what)
Warn(what) == Say("WARNING", what)
Tell(what) == Say("INFO", what)

If(condition, words) == IF condition THEN words ELSE <<>>

\* addError, addWarning and addInfo: the message bears the validator's picture index.
About(picture, words) ==
  [i \in DOMAIN words |-> [severity |-> words[i].severity, what |-> words[i].what, picture |-> picture]]

Add(v, words) == [v EXCEPT !.messages = @ \o About(v.picture, words)]

\* What a loop has said of its own, and the picture index it leaves.
AddAll(v, end) == [v EXCEPT !.messages = @ \o end.messages, !.picture = end.picture]

Times(n, words) == [i \in 1..n |-> words[1]]

\* What is said of each command, in the order of the commands.
Each(words(_), commands) == Concatenation([i \in DOMAIN commands |-> words(commands[i])])

Indices(s) == [i \in 1..Len(s) |-> i]

Distinct(s) == Each(LAMBDA i : If(\A j \in 1..(i - 1) : s[j] # s[i], <<s[i]>>), Indices(s))

\* The same of the commands of a kind, each time about the picture the command
\* is in; the picture index stays with the last of them.
AddAt(v, commands, kind(_), words(_)) ==
  LET found == Those(Indices(commands), LAMBDA i : kind(commands[i]))
      placed(i) == About(PictureAt(commands, i), words(commands[i]))
  IN  [v EXCEPT !.messages = @ \o Each(placed, found),
                !.picture = IF found = <<>> THEN @ ELSE PictureAt(commands, found[Len(found)])]

CountWhere(s, test(_)) == Cardinality({i \in 1..Len(s) : test(s[i])})

OfSeverity(severity, messages) == Those(messages, LAMBDA m : m.severity = severity)

\* A sequence, of whatever there is in it.
IsList(s) == s \in Seq({s[i] : i \in DOMAIN s})

HasErrors(messages) == \E i \in DOMAIN messages : messages[i].severity = "ERROR"
==============================================================================
