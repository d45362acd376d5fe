----------------------------- MODULE BinaryReader -----------------------------
(***************************************************************************)
(* The typed reads of DefaultBinaryReader over the argument octets of one  *)
(* command. (binary_reader.cpp)                                            *)
(*                                                                         *)
(* A cursor is the reader in the middle of a command: the octets, the next *)
(* octet `at`, the bits of it already used, whether no read has thrown,    *)
(* the numbers of the field being read (`field`) and the fields read.      *)
(*                                                                         *)
(* A field is a sequence of numbers: <<n>> for an integer, <<w, f>> for    *)
(* the real number w + f/65536, the octets of a string, <<1, r, g, b>> or  *)
(* <<0, index>> for a colour. Fractions are kept to sixteen bits.          *)
(*                                                                         *)
(* From the octets of a string parameter to the text a command keeps, in   *)
(* UTF-8: the code extension of ISO 2022 as DefaultBinaryReader::          *)
(* decodeText follows it. Four sets G0..G3 are designated, one is invoked  *)
(* for octets below 128 (gl) and one for those from 160 on (gr).           *)
(*                                                                         *)
(* The fifteen tables of ISO 8859 differ in their cells only: a cell of    *)
(* the table of set s is Cells + 256 * s + octet, a code point of its own. *)
(***************************************************************************)
EXTENDS BinaryFraming, SequencesExt, Iteration

-----------------------------------------------------------------------------
\* What a CGMFile remembers of the metafile descriptor and control elements already
\* read: the state that says how the next octets are to be read, and the octets to be
\* written are laid out (cgm_file.h). Those fields are left out that no reader and no
\* writer looks at: the scaling mode, the metric scale factor, the VDC extent and the
\* colour calibration data.

Precisions == {"Fixed_32", "Fixed_64", "Floating_32", "Floating_64"}

\* A floating-point number stands in its octets as the fixed-point one does, with
\* FloatMark added to the first octet: as in IEEE 754, every pattern means a
\* number, and not the number the fixed form would mean.
FloatMark == 64

\* CIELAB and CIELUV, whose components are signed and converted through real
\* arithmetic, are left out.
ColorModels == {"RGB", "CMYK", "RGB_RELATED"}

Modes == {"ABS", "SCALED"}

CgmStates ==
  [colourIndexPrecision : Nat, colourPrecision : Nat, indexPrecision : Nat,
   integerPrecision : Nat, namePrecision : Nat, vdcIntegerPrecision : Nat,
   vdcRealPrecision : Precisions, realPrecision : Precisions,
   edgeWidth : Modes, lineWidth : Modes, markerSize : Modes, interiorStyle : Modes,
   vdcType : {"Integer", "Real"}, colorModel : ColorModels,
   colorSelectionMode : {"INDEXED", "DIRECT"},
   coding : Nat, characterSet : Nat, alternateSet : Nat, characterSets : Seq(Seq(Nat))]

\* resetMetaDefinitions
Defaults ==
  [colourIndexPrecision |-> 8, colourPrecision |-> 8, indexPrecision |-> 16,
   integerPrecision |-> 16, namePrecision |-> 16, vdcIntegerPrecision |-> 16,
   vdcRealPrecision |-> "Fixed_32", realPrecision |-> "Fixed_32",
   edgeWidth |-> "ABS", lineWidth |-> "ABS", markerSize |-> "ABS",
   interiorStyle |-> "ABS", vdcType |-> "Integer", colorModel |-> "RGB",
   colorSelectionMode |-> "INDEXED",
   coding |-> 1, characterSet |-> 1, alternateSet |-> 1, characterSets |-> <<>>]
-----------------------------------------------------------------------------
\* Text.

LOCAL ESC == 27
LOCAL ReplacementChar == 65533   \* U+FFFD
Cells == 8192

\* The sets a designation can name. UNKNOWN is read as ASCII where it is printable.
Ascii == "ASCII"
Latin1 == "LATIN1"

Space == {9, 10, 11, 12, 13, 32}

Normalized(d) ==
  LET upper(o) == IF o \in 97..122 THEN o - 32 ELSE o
      kept == SelectSeq(d, LAMBDA o : o \notin Space)
  IN  [i \in DOMAIN kept |-> upper(kept[i])]

Greek == <<71, 82, 69, 69, 75>>   \* "GREEK", for all the sets known by name

\* resolveDesignation: the set, and whether its characters take two octets.
Designated(d, multibyte) ==
  LET charset(n) == CASE n \in {<<>>, <<66>>} -> Ascii
                      [] n \in {<<65>>, <<76>>} -> Latin1
                      [] n = Greek -> "GREEK"
                      [] OTHER -> "UNKNOWN"
  IN  [charset |-> charset(Normalized(d)), multibyte |-> multibyte]

\* gsetFromIndex
FromIndex(cgm, index) ==
  IF index \in DOMAIN cgm.characterSets
  THEN Designated(cgm.characterSets[index], FALSE)
  ELSE Designated(<<66>>, FALSE)

InitialSets(cgm) ==
  LET sets(g0, g1, ascii) ==
        [g \in 0..3 |->
           CASE g = 0 -> g0
             [] g = 1 /\ g0 = ascii /\ g1 = ascii /\ cgm.coding = 1 -> Designated(<<65>>, FALSE)
             [] g = 1 -> g1
             [] OTHER -> ascii]
  IN  sets(FromIndex(cgm, cgm.characterSet), FromIndex(cgm, cgm.alternateSet), Designated(<<66>>, FALSE))

\* The cells of a table on the left too.
CodePointOfTable(gset, octet, left) ==
  LET value == octet % 128
  IN  CASE gset.multibyte -> ReplacementChar
        [] gset.charset \in {Ascii, "UNKNOWN"} ->
             IF value \in (32..126) \cup {9, 10} THEN value ELSE ReplacementChar
        [] gset.charset = Latin1 -> octet
        [] OTHER -> Cells + octet

\* decodeFromGSet: the code point of an octet in a set, invoked on the left or not.
CodePoint(gset, octet, left) ==
  LET value == octet % 128
  IN  CASE gset.multibyte -> ReplacementChar
        [] gset.charset \in {Ascii, "UNKNOWN"} ->
             IF value \in (32..126) \cup {9, 10} THEN value ELSE ReplacementChar
        [] left -> IF value < 32 THEN ReplacementChar ELSE value
        [] gset.charset = Latin1 -> octet
        [] OTHER -> Cells + octet

\* appendUtf8
Utf8(c) ==
  CASE c < 128 -> <<c>>
    [] c \in 128..2047 -> <<192 + (c \div 64), 128 + (c % 64)>>
    [] OTHER -> <<224 + (c \div 4096), 128 + ((c \div 64) % 64), 128 + (c % 64)>>
-----------------------------------------------------------------------------
\* The loop. A decoder is at octet i, with the sets, the two invoked ones and
\* the text so far. It may leave the loop before the end of the string.

Consumed(gset, s, i) ==
  IF gset.multibyte /\ i < Len(s) THEN 2 ELSE 1

\* The character at i, in set g.
Emit(s, d, g, i, left) ==
  [d EXCEPT !.out = @ \o Utf8(CodePoint(d.sets[g], s[i], left)),
            !.i = i + Consumed(d.sets[g], s, i)]

Leave(s, d) == [d EXCEPT !.i = Len(s) + 1]

Invalid(d) == [d EXCEPT !.out = @ \o Utf8(ReplacementChar), !.i = @ + 1]

\* readDesignation: up to the first octet that can end it.
DesignationEnd(s, i) ==
  LET finals == {j \in i..Len(s) : s[j] \in 64..126}
  IN  IF finals = {} THEN Len(s) ELSE CHOOSE j \in finals : \A k \in finals : j <= k

Designate(s, d, g, first, last, multibyte) ==
  [d EXCEPT !.sets[g] = Designated(SubSeq(s, first, last), multibyte), !.i = last + 1]

\* The set a selector designates: ( ) * + for 94 characters, - . / for 96.
Target == [o \in 40..47 |-> CASE o = 40 -> 0 [] o \in {41, 45} -> 1
                              [] o \in {42, 46} -> 2 [] o \in {43, 47} -> 3
                              [] OTHER -> -1]

\* An escape sequence whose selector is at j.
Selected(s, d, j, multibyte) ==
  LET o == s[j]
  IN  IF ~multibyte /\ o \in {78, 79}                              \* N O
      THEN IF j < Len(s) THEN Emit(s, d, o - 76, j + 1, TRUE) ELSE Leave(s, d)
      ELSE IF ~multibyte /\ o \in {110, 111}                       \* n o
      THEN [d EXCEPT !.gl = o - 108, !.i = j + 1]
      ELSE IF ~multibyte /\ o \in {124, 125, 126}                  \* | } ~
      THEN [d EXCEPT !.gr = 127 - o, !.i = j + 1]
      ELSE IF o \in DOMAIN Target /\ o # 44
      THEN Designate(s, d, Target[o], j + 1, DesignationEnd(s, j + 1), multibyte)
      ELSE IF o \in 64..126 THEN Designate(s, d, 0, j, j, multibyte)
      ELSE [d EXCEPT !.i = j + 1]

Escape(s, d) ==
  CASE d.i = Len(s) -> Leave(s, d)
    [] s[d.i + 1] # 36 -> Selected(s, d, d.i + 1, FALSE)           \* $
    [] d.i + 1 = Len(s) -> Leave(s, d)
    [] OTHER -> Selected(s, d, d.i + 2, TRUE)

\* SS2 and SS3: the next octet in G2 or G3.
SingleShift(s, d) ==
  IF d.i = Len(s) THEN Leave(s, d) ELSE Emit(s, d, s[d.i] - 140, d.i + 1, TRUE)

Turn(s, d) ==
  LET o == s[d.i]
  IN  CASE o = ESC -> Escape(s, d)
        [] o = 14 -> [d EXCEPT !.gl = 1, !.i = @ + 1]              \* SO
        [] o = 15 -> [d EXCEPT !.gl = 0, !.i = @ + 1]              \* SI
        [] o \in {142, 143} -> SingleShift(s, d)
        [] o \in (0..31) \ {ESC, 14, 15} -> Invalid(d)
        [] o \in (128..159) \ {142, 143} -> Invalid(d)
        [] o \in 32..127 -> Emit(s, d, d.gl, d.i, TRUE)
        [] o >= 160 -> Emit(s, d, d.gr, d.i, FALSE)

\* decodeText
Decoded(s, cgm) ==
  LET start == [i |-> 1, gl |-> 0, gr |-> 1, sets |-> InitialSets(cgm), out |-> <<>>]
      turn(d) == IF d.i > Len(s) THEN d ELSE Turn(s, d)
      wide(k) == IF 2 * k > Len(s) THEN s[2 * k - 1] ELSE (s[2 * k - 1] * 256) + s[2 * k]
  IN  IF cgm.coding = 5 THEN FlattenSeq([k \in 1..((Len(s) + 1) \div 2) |-> Utf8(wide(k))])
      ELSE Repeat(turn, Len(s), start).out
-----------------------------------------------------------------------------
\* Typed reads

Cursor(args) == [args |-> args, at |-> 0, bit |-> 0, ok |-> TRUE,
                 field |-> <<>>, fields |-> <<>>, notes |-> {}]

HasMore(r) == r.at < Len(r.args)

Note(r, what) == [r EXCEPT !.notes = @ \cup {what}]

SkipBits(r) == IF r.bit = 0 THEN r ELSE [r EXCEPT !.bit = 0, !.at = @ + 1]

\* n whole octets, turned into numbers by F; or the exception.
Octets(r, n, F(_)) ==
  LET taken(s) == IF s.at + n > Len(s.args) THEN [s EXCEPT !.ok = FALSE]
                  ELSE [s EXCEPT !.at = @ + n,
                                 !.field = @ \o F(SubSeq(s.args, s.at + 1, s.at + n))]
  IN  IF r.ok THEN taken(SkipBits(r)) ELSE r

Unsigned(o) == Fold(LAMBDA n, b : (n * 256) + b, 0, o)

\* Two's complement: the first octet carries the sign.
Signed(o) == Unsigned(<<IF o[1] >= 128 THEN o[1] - 256 ELSE o[1]>> \o Tail(o))

ReadSigned(r, bits) == Octets(r, bits \div 8, LAMBDA o : <<Signed(o)>>)

ReadUInt8(r) == Octets(r, 1, LAMBDA o : o)

\* readUInt16 makes do with the last octet.
ReadUInt16(r) ==
  LET taken(s) == IF s.at + 1 = Len(s.args) THEN ReadUInt8(s)
                  ELSE Octets(s, 2, LAMBDA o : <<Unsigned(o)>>)
  IN  taken(SkipBits(r))

\* readUIntBit: n bits, which do not cross an octet.
ReadBits(r, n) ==
  IF ~r.ok THEN r
  ELSE IF ~HasMore(r) THEN [r EXCEPT !.ok = FALSE]
  ELSE LET value == (r.args[r.at + 1] \div 2^(8 - n - r.bit)) % 2^n
           next == (r.bit + n) % 8
       IN  [r EXCEPT !.bit = next, !.at = IF next = 0 THEN @ + 1 ELSE @,
                     !.field = Append(@, value)]

ReadIntOf(r, precision) ==
  IF precision \in {8, 16, 24, 32} THEN ReadSigned(r, precision)
  ELSE ReadSigned(Note(r, "integer precision"), 16)

\* 24 and 32 bits go through the signed reads.
ReadUInt(r, precision) ==
  CASE precision \in {1, 2, 4} -> ReadBits(r, precision)
    [] precision = 8 -> ReadUInt8(r)
    [] precision = 16 -> ReadUInt16(r)
    [] precision \in {24, 32} -> ReadSigned(r, precision)
    [] OTHER -> ReadUInt8(Note(r, "uint precision"))

ReadEnum(r) == ReadSigned(r, 16)

ReadBool(r) == Octets(r, 2, LAMBDA o : <<IF Signed(o) = 0 THEN 0 ELSE 1>>)
-----------------------------------------------------------------------------
\* Strings.

\* getStringCount: 255 announces partitions with continuation bits. The count
\* is left in `field`.
StringCount(r) ==
  LET word(w) == IF w.ok /\ (w.field = <<>> \/ Last(w.field) >= 32768) THEN ReadUInt16(w) ELSE w
      sum(w) == <<Fold(LAMBDA n, x : n + (x % 32768), 0, w)>>
      words(first) == [Repeat(word, Len(r.args) + 1, [first EXCEPT !.field = <<>>]) EXCEPT !.field = sum(@)]
      counted(first) == IF first.field # <<255>> THEN first ELSE words(first)
  IN  counted(ReadUInt8(r))

\* readRawString takes what there is, readFixedString insists on all of it.
RawString(r) ==
  LET available(n, rest) == IF n > rest THEN rest ELSE n
      taken(c) == IF ~c.ok THEN c
                  ELSE Octets([c EXCEPT !.field = <<>>],
                              available(c.field[1], Len(c.args) - c.at), LAMBDA o : o)
  IN  taken(StringCount(r))

FixedString(r) ==
  LET taken(c) == IF c.ok THEN Octets([c EXCEPT !.field = <<>>], c.field[1], LAMBDA o : o) ELSE c
  IN  taken(StringCount(r))

AsText(r, cgm) == [r EXCEPT !.field = Decoded(@, cgm)]

RemainingBytes(r) ==
  [r EXCEPT !.field = SubSeq(r.args, r.at + 1, Len(r.args)), !.at = Len(r.args)]
-----------------------------------------------------------------------------
\* Real numbers, coordinates and colours.

ReadRealOf(r, precision) ==
  LET unmarked(o) == <<(o[1] - FloatMark) % 256>> \o Tail(o)
  IN  CASE precision = "Fixed_32" -> ReadUInt16(ReadSigned(r, 16))
        [] precision = "Fixed_64" ->
             Octets(ReadSigned(r, 32), 4, LAMBDA o : <<Word(o, 1)>>)
        [] precision = "Floating_32" ->
             Octets(r, 4, LAMBDA o : <<Signed(SubSeq(unmarked(o), 1, 2)), Word(o, 3)>>)
        [] precision = "Floating_64" ->
             Octets(r, 8, LAMBDA o : <<Signed(SubSeq(unmarked(o), 1, 4)), Word(o, 5)>>)

ReadVdc(r, cgm) ==
  IF cgm.vdcType = "Real" THEN ReadRealOf(r, cgm.vdcRealPrecision)
  ELSE LET p == cgm.vdcIntegerPrecision
           real(whole) == IF whole.ok THEN [whole EXCEPT !.field = Append(@, 0)] ELSE whole
       IN  IF p \in {16, 24, 32} THEN real(ReadSigned(r, p))
           ELSE real(ReadSigned(Note(r, "VDC integer precision"), 16))

ReadSize(r, mode, cgm) ==
  IF cgm[mode] = "ABS" THEN ReadVdc(r, cgm) ELSE ReadRealOf(r, cgm.realPrecision)

ReadColorIndex(r, local, cgm) ==
  LET p == IF local > 0 THEN local ELSE cgm.colourIndexPrecision
  IN  ReadUInt(r, IF p > 0 THEN p ELSE 8)

Clamped(n, low, high) == IF n < low THEN low ELSE IF n > high THEN high ELSE n

\* scaleColorValueRGB: a component of `bits` bits on the scale of 0..255. What is
\* above 16 and not 24 is read as one octet, nothing on a scale of that length;
\* 32 bits are left out.
Scaled(n, bits) ==
  LET max == 2^bits - 1
      c == Clamped(n, 0, max)
  IN  CASE bits <= 0 -> Clamped(n, 0, 255)
        [] bits > 16 /\ bits # 24 -> 0
        [] bits = 24 -> (c + 32896) \div 65793    \* max is 255 * 65793
        [] OTHER -> (c * 255 + (max \div 2)) \div max

ReadDirectColor(r, local, cgm) ==
  LET bits == IF local > 0 THEN local ELSE cgm.colourPrecision
      three(x) == Repeat(LAMBDA y : ReadUInt(y, bits), 3, x)
      ink(f, i) == 255 - Clamped(Scaled(f[i], bits) + Scaled(f[4], bits), 0, 255)
      cmyk(x) == IF x.ok THEN [x EXCEPT !.field = r.field \o <<1>> \o [i \in 1..3 |-> ink(@, i)]] ELSE x
      rgb(x) == IF ~x.ok THEN x
                ELSE [x EXCEPT !.field = r.field \o <<1>> \o [i \in 1..3 |-> Scaled(@[i], bits)],
                               !.notes = IF cgm.colorModel = "RGB" THEN @ ELSE @ \cup {"RGB_RELATED"}]
      read(x) == IF cgm.colorModel = "CMYK" THEN cmyk(ReadUInt(x, bits)) ELSE rgb(x)
  IN  read(three([r EXCEPT !.field = <<>>]))

ReadColor(r, local, cgm) ==
  IF cgm.colorSelectionMode = "DIRECT" THEN ReadDirectColor(r, local, cgm)
  ELSE ReadColorIndex([r EXCEPT !.field = Append(@, 0)], local, cgm)

AlignOnWord(r) ==
  LET aligned(s) == IF s.at % 2 = 1 /\ HasMore(s) THEN [s EXCEPT !.at = @ + 1] ELSE s
  IN  aligned(SkipBits(r))
=============================================================================
