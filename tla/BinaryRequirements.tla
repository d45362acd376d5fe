-------------------------- MODULE BinaryRequirements ------------------------
(***************************************************************************)
(* What loading and saving a binary metafile must keep to.                 *)
(***************************************************************************)
EXTENDS BinaryFile

\* The ranges found among the first i commands, and where the open picture starts, if any.
Ranges(ranges, start) == [ranges |-> ranges, start |-> start]

\* The picture stays open behind its END PICTURE.
PictureRangesLeftOpen(cs) ==
  LET step(s, i) ==
        CASE IsA(cs[i], 0, 3) -> Ranges(s.ranges, i)
          [] IsA(cs[i], 0, 5) /\ s.start > 0 -> Ranges(Append(s.ranges, <<s.start, i>>), s.start)
          [] OTHER -> s
      found[i \in 0 .. Len(cs)] == IF i = 0 THEN Ranges(<<>>, 0) ELSE step(found[i - 1], i)
  IN  found[Len(cs)].ranges

\* getPictureRanges
PictureRanges(cs) ==
  LET step(s, i) ==
        CASE IsA(cs[i], 0, 3) -> Ranges(s.ranges, i)
          [] IsA(cs[i], 0, 5) /\ s.start > 0 -> Ranges(Append(s.ranges, <<s.start, i>>), 0)
          [] OTHER -> s
      found[i \in 0 .. Len(cs)] == IF i = 0 THEN Ranges(<<>>, 0) ELSE step(found[i - 1], i)
  IN  found[Len(cs)].ranges

OwnCode(m) == CreateCommand(m.class, m.id).own

CodesOf(ms) == [i \in DOMAIN ms |-> OwnCode(ms[i])]

\* The variables hold what they are meant to hold.
TypeOK ==
  /\ \A i \in DOMAIN file : file[i] \in Octet
  /\ at \in 0 .. Len(file) /\ DOMAIN cgm = DOMAIN Defaults
  /\ \A i \in DOMAIN commands : DOMAIN commands[i] = {"kind", "code", "fields", "ok"}
  /\ phase \in {"reading", "loaded", "writing", "saved"}
  /\ next \in 1 .. Len(saved.commands) + 1 /\ bit \in 0..7 /\ loads \in 1..MaxLoads
-----------------------------------------------------------------------------
\* Whatever a command does with its octets, and wherever the file ends, the elements
\* that are in the file whole are read in order, each once and as itself: a bad length,
\* parameter or partition does not put the reader out of step (readCommand).
Delivery ==
  INSTANCE ElementDelivery WITH
    file <- CodesOf(marks),
    got <- IF phase = "reading" THEN [i \in DOMAIN commands |-> commands[i].code] ELSE <<>>

ElementsDelivered == Delivery!Spec

\* Commands that could not be read leave no trace in the decoding state: the others are
\* read as if those were not in the file (readCommand's handler of exceptions).
BadCommandsLeaveNoTrace ==
  LET good == SelectSeq([i \in DOMAIN commands |-> i], LAMBDA i : commands[i].ok)
  IN  phase = "reading" /\ loads = 1 /\ Len(good) < Len(commands) =>
        Fold(LAMBDA x, i : ReadOne(x, marks[i].class, marks[i].id, marks[i].args),
             [commands |-> <<>>, defaults |-> <<>>, cgm |-> Defaults], good)
        = [commands |-> [k \in DOMAIN good |-> commands[good[k]]], defaults |-> defaults, cgm |-> cgm]

LeadingDescriptors(j) ==
  \A m \in 1..j : commands[m].code[1] = 1 \/ (m = 1 /\ IsA(commands[m], 0, 1))

\* The commands of METAFILE DEFAULTS REPLACEMENT are put, once and in their order, behind
\* all leading descriptors and before any picture (readData).
DefaultsInPlace ==
  [][EndReading =>
       \E k \in 0 .. Len(commands) :
         /\ commands' = SubSeq(commands, 1, k) \o defaults \o SubSeq(commands, k + 1, Len(commands))
         /\ \A j \in DOMAIN commands : LeadingDescriptors(j) => j <= k
         /\ \A j \in 1..k : ~IsA(commands[j], 0, 3)]_vars

\* The ranges of pictures are those between a BEGIN PICTURE and the next END PICTURE with
\* neither in between, in the order of the file (getPictureRanges).
PicturesWhole ==
  LET delimits(j) == IsA(commands[j], 0, 3) \/ IsA(commands[j], 0, 5)
      picture(b, e) == /\ b < e /\ IsA(commands[b], 0, 3) /\ IsA(commands[e], 0, 5)
                       /\ \A j \in b + 1 .. e - 1 : ~delimits(j)
      r == PictureRanges(commands)
  IN  phase = "loaded" =>
        /\ {r[k] : k \in DOMAIN r} =
             {p \in (DOMAIN commands) \X (DOMAIN commands) : picture(p[1], p[2])}
        /\ \A k \in 1 .. Len(r) - 1 : r[k][2] < r[k + 1][1]
-----------------------------------------------------------------------------
\* What a command does not keep when it is saved, for the reason given.

Printable(field) == \A i \in DOMAIN field : field[i] \in 32..126

\* The types of a layout, whichever group they are in.
TypesOf(l) == UNION {{l.reads[g].types[t][1] : t \in DOMAIN l.reads[g].types} : g \in DOMAIN l.reads}

Forgets(c, state) ==
  LET l == CreateCommand(c.kind[1], c.kind[2])
      colours == {"color", "localColor", "directColor", "cells", "interpolation"}
  IN  \/ c.kind # c.code                       \* it answers to another element's code
      \/ c.kind[1] = 6 \/ c.kind \notin Codes  \* its identifier, its octets
      \/ l.reads # l.writes                    \* an index read as a colour index
      \/ TypesOf(l) \cap {"realPrecision", "vdcPrecision", "cells", "image"} # {}
      \/ "interpolation" \in TypesOf(l) /\ Len(c.fields[2][3]) < 2  \* parameters were missing
      \/ TypesOf(l) \cap {"string", "fixedString"} # {}             \* UTF-8 read as single octets
         /\ \E i \in DOMAIN c.fields : ~Printable(c.fields[i])
      \/ colours \cap TypesOf(l) # {}          \* three components for four, 24 bits signed
         /\ (state.colorModel = "CMYK" \/ state.colourPrecision \notin {8, 16})

\* A command saved in the state it is read in comes back with the parameters it had,
\* but for what Forgets names (writeAsBinary and readFromBinary of every class).
SavedFileReadsBack ==
  LET k == Len(commands)
  IN  phase = "reading" /\ loads > 1 /\ k > 0 /\ cgm = saved.cgm
        /\ k <= Len(saved.commands) /\ ~Forgets(saved.commands[k], cgm)
        /\ Effect(commands[k].code, commands[k].fields, Defaults) = Defaults
      => commands[k] = saved.commands[k]

\* A saved file read again has the commands that were saved ("Round-trips CGM -> CGM").
RoundTrips ==
  phase = "loaded" /\ loads > 1 /\ saved.complete => commands = saved.commands

\* Plain ASCII text is read as it stands in the file, whatever character sets have been
\* listed, announced or selected for it (decodeText).
AsciiTextSurvives ==
  LET k == Len(commands)
      string(o) == Len(o) > 0 /\ o[1] = Len(o) - 1 /\ Printable(Tail(o))
  IN  phase = "reading" /\ k > 0 /\ commands[k].kind \in {BeginPicture.code, MetafileDescription.code}
        /\ string(marks[k].args) /\ cgm.coding # 5
      => commands[k].fields = <<Tail(marks[k].args)>>

\* A load and a save come to an end, whatever is in the file (readCommands, writeFile).
LoadsAndSavesEnd == phase \in {"reading", "writing"} ~> phase \in {"loaded", "saved"}
=============================================================================
