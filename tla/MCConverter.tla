---------------------------- MODULE MCConverter -----------------------------
(***************************************************************************)
(* Instances of SvgConverter. A scenario is a set of files: all that start *)
(* with its prologue and go on with at most `free` commands of its         *)
(* alphabet. The prologue brings the converter to where the interesting    *)
(* cases start. A run explores the files of several scenarios.             *)
(***************************************************************************)
EXTENDS SvgRequirements

(* The commands the files are built from.                                  *)

Cmd(op) == [op |-> op]

ClipTo(r)         == [op |-> "CLIP RECTANGLE", rect |-> r]
ClipOn            == [op |-> "CLIP INDICATOR", on |-> TRUE]
ClipOff           == [op |-> "CLIP INDICATOR", on |-> FALSE]
BeginRegion(r)    == [op |-> "BEGIN PROTECTION REGION", rid |-> r]
EndRegion         == Cmd("END PROTECTION REGION")
RegionOn(r)       == [op |-> "PROTECTION REGION INDICATOR", rid |-> r, on |-> TRUE]
RegionOff(r)      == [op |-> "PROTECTION REGION INDICATOR", rid |-> r, on |-> FALSE]

Pattern           == [op |-> "INTERIOR STYLE", style |-> "pattern"]
Solid             == [op |-> "INTERIOR STYLE", style |-> "solid"]
UsePattern(p)     == [op |-> "PATTERN INDEX", index |-> p]
Table(p)          == [op |-> "PATTERN TABLE", index |-> p, valid |-> TRUE]
BadTable(p)       == [op |-> "PATTERN TABLE", index |-> p, valid |-> FALSE]
Size              == Cmd("PATTERN SIZE")
Reference         == Cmd("FILL REFERENCE POINT")

FinalText         == [op |-> "TEXT", final |-> TRUE]
PartialText       == [op |-> "TEXT", final |-> FALSE]
FinalBox          == [op |-> "RESTRICTED TEXT", final |-> TRUE]
PartialBox        == [op |-> "RESTRICTED TEXT", final |-> FALSE]
FinalAppend       == [op |-> "APPEND TEXT", final |-> TRUE]
PartialAppend     == [op |-> "APPEND TEXT", final |-> FALSE]

BeginAps(id)      == [op |-> "BEGIN APS", id |-> id]
ApsAttribute(t)   == [op |-> "APS ATTRIBUTE", type |-> t]

Library(names)    == [op |-> "SYMBOL LIBRARY LIST", names |-> names]
Symbol(i)         == [op |-> "POLYSYMBOL", index |-> i]

Background(c)     == [op |-> "BACKGROUND COLOUR", colour |-> c, quirk |-> FALSE]
DarkBackground    == [op |-> "BACKGROUND COLOUR", colour |-> 2, quirk |-> TRUE]
ColourZero(c)     == [op |-> "COLOUR TABLE", colour |-> c]

-----------------------------------------------------------------------------

Scenario(prologue, alphabet, free) ==
  [prologue |-> prologue, alphabet |-> alphabet, free |-> free]

Allowed(s, i) == IF i <= Len(s.prologue) THEN {s.prologue[i]} ELSE s.alphabet

Matches(f, s) == \A i \in DOMAIN f : f[i] \in Allowed(s, i)

CommandsOf(scenarios) ==
  UNION {s.alphabet \cup {s.prologue[i] : i \in DOMAIN s.prologue} : s \in scenarios}

FollowsIn(scenarios, f, c) ==
  \E s \in scenarios :
    /\ Len(f) < Len(s.prologue) + s.free
    /\ c \in Allowed(s, Len(f) + 1)
    /\ Matches(f, s)

-----------------------------------------------------------------------------
\* Clip rectangles, one of them degenerate, across pictures.
ClipRectangles ==
  Scenario(<<Cmd("BEGIN PICTURE"), ClipOn>>,
    {ClipTo("r1"), ClipTo("r2"), ClipTo("r3"), ClipOn, ClipOff, Cmd("POLYGON"),
     Cmd("BEGIN PICTURE"), Cmd("END PICTURE")}, 4)

\* A protection region in use, which may be extended or replaced.
RegionInUse ==
  Scenario(<<BeginRegion(1), Cmd("POLYGON"), EndRegion, RegionOn(1)>>,
    {BeginRegion(1), BeginRegion(2), EndRegion, RegionOn(1), RegionOn(2),
     RegionOff(1), Cmd("POLYGON"), Cmd("RECTANGLE")}, 4)

\* A region whose clipPath has been emitted is captured anew.
RegionAgain ==
  Scenario(<<BeginRegion(1), Cmd("POLYGON"), EndRegion, RegionOn(1), RegionOff(1)>>,
    {BeginRegion(1), EndRegion, RegionOn(1), Cmd("POLYGON")}, 5)

\* Two patterns, the first defined and in use.
PatternInUse ==
  Scenario(<<Pattern, Table(1)>>,
    {Solid, UsePattern(1), UsePattern(2), Table(1), Table(2), Size,
     Reference, Cmd("POLYGON")}, 4)

\* Figures, alone and inside a region, with primitives they do not capture.
OpenFigure ==
  Scenario(<<Cmd("BEGIN FIGURE"), Cmd("POLYLINE")>>,
    {Cmd("BEGIN FIGURE"), Cmd("END FIGURE"), Cmd("CONNECTING EDGE"),
     Cmd("POLYLINE"), Cmd("POLYGON_SET"), PartialText, BeginRegion(1), EndRegion,
     Cmd("END PICTURE")}, 5)

\* Text in every form, with what must flush it.
TextAndClip ==
  Scenario(<<ClipOn>>,
    {PartialText, FinalText, PartialAppend, FinalAppend, PartialBox, FinalBox,
     Cmd("TEXT COLOUR"), Cmd("POLYLINE"), ClipTo("r1")}, 4)

\* Application structures around text and primitives. The second identifier
\* is the one the allocator would give a repeat of the first.
Structure ==
  Scenario(<<BeginAps(<<"hot", 1, 0>>), Cmd("BEGIN APS BODY")>>,
    {BeginAps(<<"hot", 1, 0>>), BeginAps(<<"hot", 1, 1>>), ApsAttribute("linkuri"),
     Cmd("BEGIN APS BODY"), Cmd("END APS"), PartialText, PartialAppend,
     Cmd("POLYLINE")}, 5)

\* Symbols of changing libraries.
SymbolsPlaced ==
  Scenario(<<Library(<<"s1", "s2">>), Cmd("BEGIN PICTURE")>>,
    {Library(<<"s1", "s2">>), Library(<<"s2">>), Symbol(0), Symbol(1), Symbol(2),
     Cmd("POLYLINE"), ClipTo("r1"), Cmd("BEGIN PICTURE"), Cmd("SEGMENT")}, 4)

\* Files of several pictures, stopped by an exception or not.
PicturesAndErrors ==
  Scenario(<<Pattern, Table(1), ClipOn, ClipTo("r1"), Cmd("POLYGON")>>,
    {Pattern, Table(1), BadTable(1), ClipOn, ClipTo("r1"), Cmd("POLYGON"),
     Cmd("BEGIN PICTURE"), Cmd("SEGMENT")}, 4)

\* Every handler of a primitive, with a clip and a pattern defined and <defs>
\* left open.
EveryPrimitive ==
  Scenario(<<Pattern, Table(1), ClipOn, ClipTo("r1")>>,
    {Cmd(op) : op \in DOMAIN Traits}
    \cup {ClipTo("r2"), Reference, Cmd("SEGMENT"), Cmd("BEGIN PICTURE BODY"),
          Background(1), DarkBackground, ColourZero(1), Cmd("BEGIN FIGURE"),
          Cmd("END FIGURE")}, 2)

\* A structure with a clip inside.
ClipInStructure ==
  Scenario(<<BeginAps(<<"hot", 1, 0>>), Cmd("BEGIN APS BODY")>>,
    {ClipOn, ClipTo("r1"), Cmd("POLYLINE"), Cmd("END APS")}, 4)

-----------------------------------------------------------------------------
(* The runs.                                                               *)

Painting         == {ClipRectangles, RegionInUse, RegionAgain, PatternInUse, PicturesAndErrors,
                     EveryPrimitive}
PaintingCommands == CommandsOf(Painting)
PaintingFollows(f, c) == FollowsIn(Painting, f, c)

Content          == {RegionInUse, OpenFigure, TextAndClip, Structure, SymbolsPlaced}
ContentCommands  == CommandsOf(Content)
ContentFollows(f, c) == FollowsIn(Content, f, c)

Nesting          == {ClipInStructure}
NestingCommands  == CommandsOf(Nesting)
NestingFollows(f, c) == FollowsIn(Nesting, f, c)

Placement          == {SymbolsPlaced}
PlacementCommands  == CommandsOf(Placement)
PlacementFollows(f, c) == FollowsIn(Placement, f, c)
=============================================================================
