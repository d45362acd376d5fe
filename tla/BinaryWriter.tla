---------------------------- MODULE BinaryWriter ----------------------------
(***************************************************************************)
(* The typed writes of DefaultBinaryWriter into the bucket that collects   *)
(* the argument octets of one command. (binary_writer.cpp)                 *)
(*                                                                         *)
(* A bucket is the octets so far, the bits used of the last octet (`bit`,  *)
(* which the writer keeps from one command to the next) and whether no     *)
(* write has thrown. The values written are the fields of BinaryReader.    *)
(***************************************************************************)
EXTENDS BinaryReader

Bucket(bit) == [octets |-> <<>>, bit |-> bit, ok |-> TRUE]

Thrown(w) == [w EXCEPT !.ok = FALSE]

\* writeByte, writeChar, writeString of the bucket: the bits used stay.
Put(w, octets) == IF w.ok THEN [w EXCEPT !.octets = @ \o octets] ELSE w

\* The sign is kept in every octet.
TwosComplementSigned(n, k) ==
  [i \in 1..k |-> IF n < 0 THEN -((-n \div 256^(k - i)) % 256) ELSE (n \div 256^(k - i)) % 256]

\* The k last octets of n in two's complement.
TwosComplement(n, k) == [i \in 1..k |-> (n \div 256^(k - i)) % 256]

PutInt(w, n, bits) ==
  IF bits \in {8, 16, 24, 32}
  THEN Put([w EXCEPT !.bit = 0], TwosComplement(n, bits \div 8))
  ELSE Thrown(w)

\* The binary or of two octets.
Or(a, b) ==
  Fold(LAMBDA n, i : n + (IF ((a \div 2^i) % 2) + ((b \div 2^i) % 2) > 0 THEN 2^i ELSE 0),
           0, <<0, 1, 2, 3, 4, 5, 6, 7>>)

\* Every value begins an octet.
PutBitsInOwnOctet(w, n, bits) ==
  IF w.ok THEN [w EXCEPT !.octets = Append(@, (n * 2^(8 - bits)) % 256), !.bit = 0] ELSE w

\* writeUIntBit: into the octet begun, if bits of it are left over.
PutBits(w, n, bits) ==
  LET begun == w.octets # <<>> /\ w.bit > 0
      v == IF begun THEN w ELSE [w EXCEPT !.octets = Append(@, 0), !.bit = 0]
  IN  IF ~w.ok THEN w
      ELSE [v EXCEPT !.octets[Len(v.octets)] = Or(@, (n * 2^(8 - bits - v.bit)) % 256),
                     !.bit = (@ + bits) % 8]

PutUInt(w, n, precision) ==
  IF precision \in {1, 2, 4} THEN PutBits(w, n, precision) ELSE PutInt(w, n, precision)

PutEnum(w, n) == PutInt(w, n, 16)

\* writeDataLength. A string of more than a partition does not occur here.
PutString(w, s) ==
  CASE s = <<>> -> Put(w, <<0>>)
    [] Len(s) \in 1..254 -> Put(PutInt(w, Len(s), 8), s)
    [] OTHER -> Put(PutInt(PutInt(w, 255, 8), Len(s), 16), s)

\* Real numbers <<w, f>>. The fraction of the long fixed form goes through an
\* int, which fractions from one half on do not fit: the conversion then gives
\* its out-of-range value.
PutRealOf(w, v, precision) ==
  LET marked(o) == <<(o[1] + FloatMark) % 256>> \o Tail(o)
      fraction == IF v[2] >= 32768 THEN <<128, 0, 0, 0>> ELSE WordOctets(v[2]) \o <<0, 0>>
  IN  CASE precision = "Fixed_32" -> PutInt(PutInt(w, v[1], 16), v[2], 16)
        [] precision = "Fixed_64" -> Put(PutInt(w, v[1], 32), fraction)
        [] precision = "Floating_32" ->
             Put(w, marked(TwosComplement(v[1], 2)) \o WordOctets(v[2]))
        [] precision = "Floating_64" ->
             Put(w, marked(TwosComplement(v[1], 4)) \o WordOctets(v[2]) \o <<0, 0>>)

\* An integer coordinate is cut towards zero.
Truncated(v) == IF v[1] < 0 /\ v[2] > 0 THEN v[1] + 1 ELSE v[1]

PutVdc(w, v, cgm) ==
  CASE cgm.vdcType = "Real" -> PutRealOf(w, v, cgm.vdcRealPrecision)
    [] cgm.vdcIntegerPrecision \in {16, 24, 32} ->
         PutInt(w, Truncated(v), cgm.vdcIntegerPrecision)
    [] OTHER -> Thrown(w)

PutSize(w, v, mode, cgm) ==
  IF cgm[mode] = "ABS" THEN PutVdc(w, v, cgm) ELSE PutRealOf(w, v, cgm.realPrecision)

PutColorIndex(w, n, local, cgm) ==
  PutUInt(w, n, IF local <= 0 THEN cgm.colourIndexPrecision ELSE local)

\* From the scale of 0..255 to components of `bits` bits.
Unscaled(c, bits) ==
  CASE bits \in {0, 8} -> c
    [] bits = 24 -> c * 65793    \* 2^24 - 1 is 255 * 65793
    [] OTHER -> (c * (2^bits - 1) + 127) \div 255

\* writeDirectColor: red, green and blue, whatever the colour model.
PutDirectColor(w, rgb, local, cgm) ==
  LET bits == IF local > 0 THEN local ELSE cgm.colourPrecision
  IN  Fold(LAMBDA v, c : PutUInt(v, Unscaled(c, bits), bits), w, rgb)

\* A colour known by its index only has black for its direct colour.
Rgb(color) == IF color[1] = 1 THEN Tail(color) ELSE <<0, 0, 0>>

PutColor(w, color, local, cgm) ==
  IF cgm.colorSelectionMode = "INDEXED" /\ color[1] = 0 /\ color[2] >= 0
  THEN PutColorIndex(w, color[2], local, cgm)
  ELSE PutDirectColor(w, Rgb(color), local, cgm)
=============================================================================
