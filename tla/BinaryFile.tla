----------------------------- MODULE BinaryFile -----------------------------
(***************************************************************************)
(* A BinaryCGMFile is loaded from a file, saved to a file and loaded       *)
(* again: DefaultBinaryReader::readCommands, BinaryCGMFile::readData and   *)
(* writeFile. (binary_reader.cpp, binary_writer.cpp, cgm_file.cpp)         *)
(*                                                                         *)
(* The reader stops for good at an element that the end of the file cuts   *)
(* off; a command that asks for more than its octets hold stays in the     *)
(* list with what it had read. The writer writes every command in the      *)
(* state the whole file has left behind. A save may be cut short by a      *)
(* crash, or by an exception of the writer, and leaves what it has written.*)
(*                                                                         *)
(* Two kinds of file are not saved here: one with a command that could not  *)
(* be read, and one whose defaults hold a command that asks its file for a *)
(* mode when it is written (AskTheirFile): a replacement reads them into a *)
(* file of its own that is gone by then, and what they write is undefined. *)
(***************************************************************************)
EXTENDS BinaryCommands

CONSTANTS
  Files,      \* [elements, cut]: the elements of a file, and the octets missing at its end
  MaxLoads,   \* bound: how often a file is loaded
  CrashPoints \* bound: the lengths a crash may leave a file with

VARIABLES
  file,       \* the octets of the file
  marks,      \* history: the elements in `file`, each with the octet where it ends
  at,         \* the octet the reader is at
  cgm,        \* the decoding state (CgmStates)
  commands,   \* commands_ of the file
  defaults,   \* defaultsReplacementCommands_
  phase,      \* "reading", "loaded", "writing", "saved"
  next,       \* the next command to write
  bit,        \* positionInCurrentArgument_ of the writer
  saved,      \* history: the commands saved last, the state, whether all were written
  loads

vars == <<file, marks, at, cgm, commands, defaults, phase, next, bit, saved, loads>>
-----------------------------------------------------------------------------
\* How a producer lays out an element: in either form, and with partitions of its choice.
Encoded(e) == FrameOctets(e.class, e.id, e.parts, e.long)

Mark(class, id, args, end) == [class |-> class, id |-> id, args |-> args, end |-> end]

EncodedFile(elements) == FlattenSeq([i \in DOMAIN elements |-> Encoded(elements[i])])

\* What a header has room for, and what the words of partitions have.
Elements ==
  {e \in [class : 0..15, id : 0..127, parts : Seq(Seq(Octet)), long : BOOLEAN] :
     /\ e.parts # <<>> /\ \A i \in DOMAIN e.parts : Len(e.parts[i]) < 32768
     /\ ~e.long => Len(e.parts) = 1 /\ Len(e.parts[1]) < LongForm}

ASSUME FilesAssumption ==
  \A f \in Files : f.elements \in Seq(Elements) /\ f.cut \in 0 .. Len(EncodedFile(f.elements))

Marks(elements) ==
  [i \in DOMAIN elements |->
     Mark(elements[i].class, elements[i].id, FlattenSeq(elements[i].parts),
          Len(EncodedFile(SubSeq(elements, 1, i))))]

\* The elements of ms that are whole in a file of n octets.
Whole(ms, n) == SubSeq(ms, 1, CHOOSE k \in 0 .. Len(ms) : \A i \in DOMAIN ms : ms[i].end <= n <=> i <= k)

NotSaved == [commands |-> <<>>, cgm |-> Defaults, complete |-> TRUE]

\* readData: resetMetaDefinitions, and a new reader at the start of the file.
Opened == [at |-> 0, cgm |-> Defaults, commands |-> <<>>, defaults |-> <<>>]

Init ==
  /\ \E f \in Files :
       LET n == Len(EncodedFile(f.elements)) - f.cut
       IN  /\ file = SubSeq(EncodedFile(f.elements), 1, n)
           /\ marks = Whole(Marks(f.elements), n)
  /\ at = Opened.at /\ cgm = Opened.cgm
  /\ commands = Opened.commands /\ defaults = Opened.defaults
  /\ phase = "reading" /\ next = 1 /\ bit = 0 /\ saved = NotSaved /\ loads = 1
-----------------------------------------------------------------------------
\* Reading.

Frame == ReadFrame(file, at)

\* Whether there is a header, and all octets of its element.
HoldsElement == ~AtEnd(file, at) /\ ~Frame.cut

\* readCommand, which is not cut off.
ReadNext ==
  /\ phase = "reading" /\ HoldsElement
  /\ LET become(x) == commands' = x.commands /\ defaults' = x.defaults /\ cgm' = x.cgm
     IN  become(ReadOne([commands |-> commands, defaults |-> defaults, cgm |-> cgm],
                        Frame.class, Frame.id, Frame.args))
  /\ at' = Frame.at
  /\ UNCHANGED <<file, marks, phase, next, bit, saved, loads>>

IsA(c, class, id) == c.code = <<class, id>>

\* In front of everything.
DefaultsAtStart(cs) == 0

\* Where the defaults go: after BEGIN METAFILE and the descriptors next to it.
DefaultsPosition(cs) ==
  LET start == IF cs # <<>> /\ IsA(cs[1], 0, 1) THEN 1 ELSE 0
      others == {i \in start + 1 .. Len(cs) : cs[i].code[1] # 1}
  IN  IF others = {} THEN Len(cs) ELSE (CHOOSE i \in others : \A j \in others : i <= j) - 1

WithDefaults(cs, ds) ==
  LET i == DefaultsPosition(cs)
  IN  SubSeq(cs, 1, i) \o ds \o SubSeq(cs, i + 1, Len(cs))

\* A file that ends in an element is read again from its start.
EndReadingOrRewind ==
  /\ phase = "reading" /\ ~HoldsElement
  /\ IF AtEnd(file, at)
     THEN commands' = WithDefaults(commands, defaults) /\ phase' = "loaded" /\ UNCHANGED <<at, cgm>>
     ELSE commands' = <<>> /\ UNCHANGED phase /\ at' = 0 /\ cgm' = Defaults
  /\ defaults' = <<>>
  /\ UNCHANGED <<file, marks, next, bit, saved, loads>>

\* readCommands ends for good, and readData inserts the defaults.
EndReading ==
  /\ phase = "reading" /\ ~HoldsElement
  /\ commands' = WithDefaults(commands, defaults) /\ defaults' = <<>>
  /\ phase' = "loaded"
  /\ UNCHANGED <<file, marks, at, cgm, next, bit, saved, loads>>
-----------------------------------------------------------------------------
\* Writing. The file is opened for writing, which empties it.

\* LineWidth, MarkerSize, EdgeWidth and PatternSize look a mode up when they are
\* written, in the file they were read into.
AskTheirFile == {LineWidth.code, MarkerSize.code, EdgeWidth.code, PatternSize.code}

\* That was the temporary one of METAFILE DEFAULTS REPLACEMENT.
DefaultsAskTheirFile ==
  \E i \in DOMAIN marks :
    /\ <<marks[i].class, marks[i].id>> = MetafileDefaultsReplacement.code
    /\ LET replaced == Replacement(marks[i].args, Defaults).commands
       IN  \E k \in DOMAIN replaced : replaced[k].kind \in AskTheirFile

StartSave ==
  /\ phase = "loaded" /\ loads < MaxLoads
  /\ \A i \in DOMAIN commands : commands[i].ok
  /\ ~DefaultsAskTheirFile
  /\ phase' = "writing" /\ file' = <<>> /\ marks' = <<>> /\ next' = 1 /\ bit' = 0
  /\ saved' = [commands |-> commands, cgm |-> cgm, complete |-> FALSE]
  /\ commands' = <<>> /\ at' = 0
  /\ UNCHANGED <<cgm, defaults, loads>>

WriteNext ==
  /\ phase = "writing" /\ next <= Len(saved.commands)
  /\ LET c == saved.commands[next]
         become(w) ==
           /\ w.ok
           /\ file' = file \o w.octets /\ bit' = w.bit
           /\ marks' = Append(marks, Mark(c.code[1], c.code[2], <<>>, Len(file')))
     IN  become(WriteOne(c, bit, cgm))
  /\ next' = next + 1
  /\ UNCHANGED <<at, cgm, commands, defaults, phase, saved, loads>>

\* A write throws, and writeFile with it.
WriteThrows ==
  /\ phase = "writing" /\ next <= Len(saved.commands)
  /\ ~WriteOne(saved.commands[next], bit, cgm).ok
  /\ phase' = "saved"
  /\ UNCHANGED <<file, marks, at, cgm, commands, defaults, next, bit, saved, loads>>

EndWriting ==
  /\ phase = "writing" /\ next > Len(saved.commands)
  /\ phase' = "saved" /\ saved' = [saved EXCEPT !.complete = TRUE]
  /\ UNCHANGED <<file, marks, at, cgm, commands, defaults, next, bit, loads>>

\* The process dies before the stream has handed over its last octets.
Crash ==
  /\ phase = "writing"
  /\ \E n \in CrashPoints :
       n <= Len(file) /\ file' = SubSeq(file, 1, n) /\ marks' = Whole(marks, n)
  /\ phase' = "saved" /\ next' = 1
  /\ UNCHANGED <<at, cgm, commands, defaults, bit, saved, loads>>

Reload ==
  /\ phase = "saved"
  /\ at' = Opened.at /\ cgm' = Opened.cgm
  /\ commands' = Opened.commands /\ defaults' = Opened.defaults
  /\ phase' = "reading" /\ loads' = loads + 1
  /\ UNCHANGED <<file, marks, next, bit, saved>>

Loading == ReadNext \/ EndReading
Saving == WriteNext \/ WriteThrows \/ EndWriting

Next == Loading \/ StartSave \/ Saving \/ Crash \/ Reload

\* readCommands and writeFile are loops that nothing suspends: a file that is read is
\* read on, and one that is written is written on. The two actions are what
\* Loading and Saving do to the position.
ReadsOn ==
  /\ phase = "reading"
  /\ \/ phase' = phase /\ at' \in at + 1 .. Len(file)
     \/ phase' = "loaded" /\ at' = at

WritesOn ==
  /\ phase = "writing"
  /\ \/ phase' = phase /\ next' = next + 1
     \/ phase' = "saved" /\ next' = next

Fairness == WF_<<phase, at>>(ReadsOn) /\ WF_<<phase, next>>(WritesOn)

Spec == Init /\ [][Next]_vars /\ Fairness
=============================================================================
