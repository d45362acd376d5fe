---------------------------- MODULE BinaryFraming ---------------------------
(***************************************************************************)
(* The frame of a command in the binary encoding: a header of two octets   *)
(* with class, identifier and the number of argument octets, the argument  *)
(* octets, and a padding octet that keeps every header on an even          *)
(* position. LongForm and more octets do not fit the header: they follow   *)
(* in partitions of at most MaxPartition octets, each with a length word   *)
(* whose top bit says that another one comes.                              *)
(* (binary_reader.cpp: readCommand, readArguments;                         *)
(*  binary_writer.cpp: writeCommand, writeHeader)                          *)
(***************************************************************************)
EXTENDS Integers, SequencesExt

CONSTANT MaxPartition   \* octets in a partition at most: 32767 in the code

ASSUME MaxPartitionAssumption == MaxPartition \in Nat \ {0} /\ MaxPartition < 32768

LongForm == 31          \* the count that stands for the long form

Octet == 0..255

Word(o, i) == (o[i] * 256) + o[i + 1]

WordOctets(n) == <<n \div 256, n % 256>>

Padding(n) == n % 2

Pad(n) == IF Padding(n) = 1 THEN <<0>> ELSE <<>>
-----------------------------------------------------------------------------
\* Reading. A reading is the argument octets found so far, how many octets of
\* the file have been used, and whether the end of the file cut it off.

ElementClass(k) == k \div 4096
ElementId(k) == (k \div 32) % 128
ArgumentCount(k) == k % 32

\* What is left when the file ends inside the arguments.
CutAt(at) == [args |-> <<>>, at |-> at, cut |-> TRUE, more |-> FALSE]

\* No padding is expected behind an odd number of octets.
PartitionUnpadded(o, at, n) ==
  IF Len(o) < at + n THEN CutAt(at)
  ELSE [args |-> SubSeq(o, at + 1, at + n), at |-> at + n, cut |-> FALSE, more |-> FALSE]

\* n octets of arguments and their padding, from position `at` of the file.
Partition(o, at, n) ==
  IF Len(o) < at + n + Padding(n) THEN CutAt(at)
  ELSE [args |-> SubSeq(o, at + 1, at + n), at |-> at + n + Padding(n),
        cut |-> FALSE, more |-> FALSE]

LongPartition(o, at) ==
  IF Len(o) < at + 2 THEN CutAt(at)
  ELSE LET w == Word(o, at + 1)
           p == Partition(o, at + 2, w % 32768)
       IN  [p EXCEPT !.more = w >= 32768 /\ ~p.cut]

\* The partitions from `start` on, one behind the other, up to the first one that no
\* other follows: the last one, or one that the file cuts off.
LongArguments(o, start) ==
  LET part[i \in 0 .. Len(o)] == LongPartition(o, IF i = 0 THEN start ELSE part[i - 1].at)
      last == CHOOSE i \in 0 .. Len(o) : ~part[i].more /\ \A j \in 0 .. i - 1 : part[j].more
  IN  [part[last] EXCEPT !.args = FlattenSeq([i \in 1 .. last + 1 |-> part[i - 1].args])]

Arguments(o, at, count) ==
  IF count = LongForm THEN LongArguments(o, at) ELSE Partition(o, at, count)

\* Whether there is a header at `at`. A single last octet counts as the end.
AtEnd(o, at) == Len(o) < at + 2

ReadFrame(o, at) ==
  LET k == Word(o, at + 1)
      r == Arguments(o, at + 2, ArgumentCount(k))
  IN  [class |-> ElementClass(k), id |-> ElementId(k), args |-> r.args,
       at |-> r.at, cut |-> r.cut]
-----------------------------------------------------------------------------
\* Writing.

Header(class, id, count) == WordOctets((class * 4096) + (id * 32) + count)

\* One of the partitions `parts`, with its length word and its padding.
PartitionOctets(parts, i) ==
  WordOctets(Len(parts[i]) + (IF i < Len(parts) THEN 32768 ELSE 0)) \o parts[i] \o Pad(Len(parts[i]))

Partitioned(parts) == FlattenSeq([i \in DOMAIN parts |-> PartitionOctets(parts, i)])

\* The arguments in pieces of MaxPartition octets, the last one of those left over.
Chunks(a) ==
  LET last(i) == IF i * MaxPartition < Len(a) THEN i * MaxPartition ELSE Len(a)
  IN  [i \in 1 .. (Len(a) + MaxPartition - 1) \div MaxPartition |->
         SubSeq(a, ((i - 1) * MaxPartition) + 1, last(i))]

\* A command with the octets of `parts`: as its partitions, in the long form, or
\* behind the header, if there is one part and it is short.
FrameOctets(class, id, parts, long) ==
  IF long THEN Header(class, id, LongForm) \o Partitioned(parts)
  ELSE Header(class, id, Len(parts[1])) \o parts[1] \o Pad(Len(parts[1]))

\* writeCommand: class, identifier and the octets the command left in the bucket.
WriteFrame(class, id, a) ==
  IF Len(a) >= LongForm THEN FrameOctets(class, id, Chunks(a), TRUE)
  ELSE FrameOctets(class, id, <<a>>, FALSE)
=============================================================================
