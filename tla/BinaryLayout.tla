---------------------------- MODULE BinaryLayout ----------------------------
(***************************************************************************)
(* How the parameters of a command are laid out in its argument octets: in *)
(* which order, and how often, readFromBinary and writeAsBinary call the   *)
(* typed reads and writes. The modules that extend this one give the       *)
(* layout of every command, as its class in src/src/commands does.         *)
(*                                                                         *)
(* A layout is a sequence of groups, a group a sequence of types that is   *)
(* read a number of times. A type is a tuple, its name first.              *)
(***************************************************************************)
EXTENDS BinaryWriter

LOCAL Group(times, by, types) == [times |-> times, by |-> by, types |-> types]

Once(types) == Group("once", <<>>, types)
ToEnd(types) == Group("toEnd", <<>>, types)     \* while there are octets left
Sum(by, types) == Group("sum", by, types)       \* as often as these fields say
Product(by, types) == Group("product", by, types)
IfZero(i, types) == Group("ifZero", <<i>>, types)
IfSet(i, types) == Group("ifSet", <<i>>, types)

\* A command under the code the factory knows it by (`code`) and the code its
\* constructor gives it (`own`), which is the same but for a few.
\* Divergent is for a command that does not write what it reads.
Divergent(class, id, reads, writes) ==
  [code |-> <<class, id>>, own |-> <<class, id>>, reads |-> reads, writes |-> writes]
Layout(class, id, groups) == Divergent(class, id, groups, groups)

Integer == <<"int">>
Index == <<"index">>
Name == <<"name">>
Enum == <<"enum">>
Bool == <<"bool">>
Real == <<"real">>
Vdc == <<"vdc">>
Point == <<"point">>
Size(mode) == <<"size", mode>>
Str == <<"string">>
RawStr == <<"rawString">>
FixedStr == <<"fixedString">>
Colour == <<"color">>
LocalColour(i) == <<"localColor", i>>           \* of the precision in field i
DirectColour == <<"directColor">>
ColourIndex == <<"colorIndex">>
Bytes == <<"bytes">>
OneOf(type, lo, hi, default) == <<"oneOf", type, lo, hi, default>>
-----------------------------------------------------------------------------
\* Types of one command only. They leave a sequence of values in the field.

Bare(r) == [r EXCEPT !.field = <<>>]

\* Read(r) once more, its numbers put after the values there are.
Another(r, Read(_)) ==
  LET added(s) == [s EXCEPT !.field = IF s.ok THEN Append(r.field, @) ELSE r.field]
  IN  added(Read(Bare(r)))

WhileMore(r, Read(_), n) ==
  Repeat(LAMBDA s : IF s.ok /\ HasMore(s) THEN Another(s, Read) ELSE s, n, r)

\* MetafileElementList keeps a pair for every identifier of every class.
ReadElementList(r, cgm) ==
  LET int(s) == ReadIntOf(s, cgm.integerPrecision)
      index(s) == ReadIntOf(s, cgm.indexPrecision)
      pair(s, class) == Another(s, LAMBDA t : index([t EXCEPT !.field = <<class>>]))
      pairs(s, head) ==
        IF ~head.ok THEN [head EXCEPT !.field = s.field]
        ELSE Repeat(LAMBDA t : IF t.ok THEN pair(t, head.field[2]) ELSE t,
                    Clamped(head.field[1], 0, Len(r.args)), [head EXCEPT !.field = s.field])
  IN  Repeat(LAMBDA s : IF s.ok /\ HasMore(s) THEN pairs(s, index(int(Bare(s)))) ELSE s, Len(r.args), r)

PutElementList(w, pairs, cgm) ==
  LET one(v, p) == PutInt(PutInt(PutInt(v, 1, cgm.integerPrecision),
                                 p[1], cgm.indexPrecision), p[2], cgm.indexPrecision)
  IN  Fold(one, w, pairs)

\* InheritanceFilter: the last value is the setting, 0 if there is none.
ReadFilter(r) ==
  LET set(s) == IF s.ok /\ s.field = <<>> THEN [s EXCEPT !.field = <<0>>] ELSE s
  IN  set(Repeat(LAMBDA t : IF t.ok /\ HasMore(t) THEN ReadEnum(t) ELSE t, Len(r.args), r))

\* InterpolatedInterior after its style: geometry, designators, colours.
LOCAL PARALLEL == 1
LOCAL TRIANGULAR == 3

ReadInterpolation(r, cgm) ==
  LET style == Last(r.fields)[1]
      size(s) == ReadSize(s, "interiorStyle", cgm)
      number(s) == IF HasMore(s) THEN ReadIntOf(Bare(s), cgm.integerPrecision) ELSE [s EXCEPT !.field = <<0>>]
      all(geometry, designators, colors) ==
        [colors EXCEPT !.field = <<geometry.field, designators.field, @>>]
      coloured(geometry, stages, designators) ==
        all(geometry, designators,
            WhileMore(Bare(designators), LAMBDA s : ReadColor(s, 0, cgm),
                      IF style = TRIANGULAR THEN 3 ELSE Clamped(stages + 1, 0, Len(r.args))))
      staged(geometry, count) ==
        IF ~count.ok THEN count
        ELSE coloured(geometry, count.field[1],
                      WhileMore(Bare(count), LAMBDA s : ReadRealOf(s, cgm.realPrecision),
                                Clamped(count.field[1], 0, Len(r.args))))
      begun(geometry) == IF ~geometry.ok THEN geometry ELSE staged(geometry, number(geometry))
  IN  begun(WhileMore(r, LAMBDA s : size(size(s)), IF style = PARALLEL THEN 1 ELSE 2))

PutInterpolation(w, v, cgm) ==
  LET size(u, x) == PutSize(u, x, "interiorStyle", cgm)
      pair(u, p) == size(size(u, SubSeq(p, 1, 2)), SubSeq(p, 3, 4))
      real(u, x) == PutRealOf(u, x, cgm.realPrecision)
      color(u, c) == PutColor(u, c, 0, cgm)
      counted == PutInt(Fold(pair, w, v[1]), Len(v[2]), cgm.integerPrecision)
  IN  Fold(color, Fold(real, counted, v[2]), v[3])

\* The cells of CellArray, row by row.
Unset == <<0, -1>>

BitsAt(data, from, n) ==
  LET bit(i) == IF i \div 8 < Len(data) THEN (data[(i \div 8) + 1] \div 2^(7 - (i % 8))) % 2 ELSE 0
      v[k \in 0..n] == IF k = 0 THEN 0 ELSE (v[k - 1] * 2) + bit(from + k - 1)
  IN  v[n]

RunLengths(data, nx, ny, bits, color(_)) ==
  LET ended(s) == s.stopped \/ Len(s.row) >= nx \/ s.at + (s.bit \div 8) >= Len(data)
      cells(s, n, c) ==
        [s EXCEPT !.bit = @ + 16 + bits, !.stopped = (n = 0),
                  !.row = @ \o [j \in 1..Clamped(n, 0, nx - Len(@)) |-> c]]
      run(s) == cells(s, BitsAt(data, (8 * s.at) + s.bit, 16),
                      color(BitsAt(data, (8 * s.at) + s.bit + 16, bits)))
      whole(t, used) ==
        [t EXCEPT !.at = @ + used + (used % 2),
                  !.cells = @ \o t.row \o [j \in 1..nx - Len(t.row) |-> Unset]]
      filled(t) == whole(t, (t.bit + 7) \div 8)
      row(s) == filled(Repeat(LAMBDA u : IF ended(u) THEN u ELSE run(u), Clamped(nx, 0, Len(data)),
                              [s EXCEPT !.bit = 0, !.row = <<>>, !.stopped = FALSE]))
  IN  Repeat(row, ny, [at |-> 0, bit |-> 0, row |-> <<>>, stopped |-> FALSE, cells |-> <<>>]).cells

ReadCells(r, cgm) ==
  LET nx == r.fields[4][1]
      ny == r.fields[5][1]
      local == r.fields[6][1]
      indexed == cgm.colorSelectionMode = "INDEXED"
      given == IF indexed /\ local > 0 THEN local
               ELSE IF indexed THEN cgm.colourIndexPrecision ELSE cgm.colourPrecision
      bits == IF given <= 0 THEN 8 ELSE given
      color(v) == IF indexed THEN <<0, v>>
                  ELSE <<1>> \o [i \in 1..3 |-> Scaled((v \div 2^(bits * (3 - i))) % 2^bits, bits)]
      runs(data) == [data EXCEPT !.field =
                       RunLengths(@, nx, ny, IF indexed THEN bits ELSE 3 * bits, color)]
      packedRow(s) ==
        AlignOnWord(Repeat(LAMBDA t : IF t.ok THEN Another(t, LAMBDA u : ReadColor(u, local, cgm)) ELSE t,
                           Clamped(nx, 0, (8 * Len(r.args)) + 1), s))
      cells(mode) == CASE ~mode.ok -> mode
                       [] mode.ok /\ mode.field = <<0>> -> runs(RemainingBytes(mode))
                       [] OTHER -> Repeat(packedRow, Clamped(ny, 0, Len(r.args) + 1), Bare(mode))
  IN  cells(ReadEnum(r))

PutCells(w, cells, local, cgm) == Fold(LAMBDA v, c : PutColor(v, c, local, cgm), w, cells)

\* The two precision elements keep one of the Precisions.
LOCAL Form(enum, long) ==
  CASE enum = 0 /\ long -> "Floating_64"
    [] enum = 0 /\ ~long -> "Floating_32"
    [] enum # 0 /\ long -> "Fixed_64"
    [] OTHER -> "Fixed_32"

ReadPrecision(r, Long(_, _, _), cgm) ==
  LET int(s) == ReadIntOf(s, cgm.integerPrecision)
      kept(p) == IF ~p.ok THEN p
                 ELSE [p EXCEPT !.field = <<Form(@[1], Long(@[1], @[2], @[3]))>>]
  IN  kept(int(int(ReadEnum(r))))

\* Both write a field width and an exponent width.
PutPrecision(w, p, cgm) ==
  LET long == p \in {"Floating_64", "Fixed_64"}
      int(v, n) == PutInt(v, n, cgm.integerPrecision)
      form == IF p \in {"Floating_32", "Floating_64"} THEN 0 ELSE 1
  IN  int(int(PutEnum(w, form), IF long THEN 64 ELSE 32), IF long THEN 12 ELSE 9)
-----------------------------------------------------------------------------
\* Any type. A point is two coordinates.

ReadValue(r, t, cgm) ==
  LET int(p) == ReadIntOf(r, p)
      local == r.fields[t[2]][1]
      choice == CASE t[2] = "enum" -> ReadEnum(r)
                  [] t[2] = "index" -> int(cgm.indexPrecision)
                  [] OTHER -> int(cgm.integerPrecision)
      checked(c) == IF c.ok /\ c.field[1] \notin t[3]..t[4]
                    THEN Note([c EXCEPT !.field = <<t[5]>>], "out of range") ELSE c
      clamped(n) == IF n.ok THEN [n EXCEPT !.field = <<Clamped(@[1], 1, 4)>>] ELSE n
  IN  CASE t[1] = "int" -> int(cgm.integerPrecision)
        [] t[1] = "index" -> int(cgm.indexPrecision)
        [] t[1] = "name" -> int(cgm.namePrecision)
        [] t[1] = "enum" -> ReadEnum(r)
        [] t[1] = "bool" -> ReadBool(r)
        [] t[1] = "oneOf" -> checked(choice)
        [] t[1] = "version" -> clamped(int(cgm.integerPrecision))
        [] t[1] = "real" -> ReadRealOf(r, cgm.realPrecision)
        [] t[1] = "vdc" -> ReadVdc(r, cgm)
        [] t[1] = "point" -> ReadVdc(ReadVdc(r, cgm), cgm)
        [] t[1] = "size" -> ReadSize(r, t[2], cgm)
        [] t[1] = "string" -> AsText(RawString(r), cgm)
        [] t[1] = "rawString" -> RawString(r)
        [] t[1] = "fixedString" -> AsText(FixedString(r), cgm)
        [] t[1] = "color" -> ReadColor(r, 0, cgm)
        [] t[1] = "localColor" -> ReadColor(r, local, cgm)
        [] t[1] = "directColor" -> ReadDirectColor(r, 0, cgm)
        [] t[1] = "colorIndex" -> ReadColorIndex(r, 0, cgm)
        [] t[1] \in {"bytes", "image"} -> RemainingBytes(r)
        [] t[1] = "elements" -> ReadElementList(r, cgm)
        [] t[1] = "filter" -> ReadFilter(r)
        [] t[1] = "interpolation" -> ReadInterpolation(r, cgm)
        [] t[1] = "cellPrecision" ->
             IF r.fields[4][1] <= 0 \/ r.fields[5][1] <= 0 THEN [r EXCEPT !.ok = FALSE]
             ELSE int(cgm.integerPrecision)
        [] t[1] = "cells" -> ReadCells(r, cgm)
        [] t[1] = "realPrecision" -> ReadPrecision(r, LAMBDA f, a, b : a + b > 32, cgm)
        [] t[1] = "vdcPrecision" ->
             ReadPrecision(r, LAMBDA f, a, b : <<a, b>> = IF f = 0 THEN <<12, 52>> ELSE <<32, 32>>, cgm)

\* `values` are all the values of the command, of which v is written here.
PutValue(w, t, v, values, cgm) ==
  LET int(p) == PutInt(w, v[1], p)
      local == values[t[2]][1]
  IN  CASE t[1] \in {"int", "version"} -> int(cgm.integerPrecision)
        [] t[1] = "index" -> int(cgm.indexPrecision)
        [] t[1] = "name" -> int(cgm.namePrecision)
        [] t[1] \in {"enum", "bool"} -> PutEnum(w, v[1])
        [] t[1] = "oneOf" -> CASE t[2] = "enum" -> PutEnum(w, v[1])
                               [] t[2] = "index" -> int(cgm.indexPrecision)
                               [] OTHER -> int(cgm.integerPrecision)
        [] t[1] = "real" -> PutRealOf(w, v, cgm.realPrecision)
        [] t[1] = "vdc" -> PutVdc(w, v, cgm)
        [] t[1] = "point" ->
             PutVdc(PutVdc(w, SubSeq(v, 1, 2), cgm), SubSeq(v, 3, 4), cgm)
        [] t[1] = "size" -> PutSize(w, v, t[2], cgm)
        [] t[1] \in {"string", "rawString", "fixedString"} -> PutString(w, v)
        [] t[1] = "color" -> PutColor(w, v, 0, cgm)
        [] t[1] = "localColor" -> PutColor(w, v, local, cgm)
        [] t[1] = "directColor" -> PutDirectColor(w, Rgb(v), 0, cgm)
        [] t[1] = "colorIndex" -> PutColorIndex(w, v[1], 0, cgm)
        [] t[1] = "bytes" -> Put(w, v)
        [] t[1] = "image" -> IF values[1][1] \in {6, 7, 9} THEN Put(w, v) ELSE w
        [] t[1] = "elements" -> PutElementList(w, v, cgm)
        [] t[1] = "filter" -> Fold(PutEnum, w, v)
        [] t[1] = "interpolation" -> PutInterpolation(w, v, cgm)
        [] t[1] = "cellPrecision" ->
             IF cgm.colorSelectionMode = "DIRECT" /\ v[1] >= 0 THEN int(cgm.integerPrecision) ELSE w
        [] t[1] = "cells" -> PutCells(w, v, values[6][1], cgm)
        [] t[1] \in {"realPrecision", "vdcPrecision"} -> PutPrecision(w, v[1], cgm)
-----------------------------------------------------------------------------
\* Whole commands.

ReadField(r, t, cgm) ==
  LET kept(s) == IF r.ok /\ s.ok THEN [s EXCEPT !.fields = Append(@, s.field)]
                 ELSE IF r.ok THEN s ELSE r
  IN  kept(ReadValue(Bare(r), t, cgm))

\* How often a group occurs, given the fields before it; at most `most` times.
\* Factors that no command has octets for are all alike.
Turns(g, fields, most) ==
  LET values == [i \in DOMAIN g.by |-> fields[g.by[i]][1]]
  IN  CASE g.times = "once" -> 1
        [] g.times = "toEnd" -> most
        [] g.times = "sum" -> Fold(LAMBDA n, v : n + v, 0, values)
        [] g.times = "product" -> Fold(LAMBDA n, v : n * Clamped(v, -9999, 9999), 1, values)
        [] g.times = "ifZero" -> IF values = <<0>> THEN 1 ELSE 0
        [] g.times = "ifSet" -> IF values = <<0>> THEN 0 ELSE 1

\* A repetition cut short by the exception keeps its whole turns. A negative
\* number of turns is refused with an exception.
ReadGroup(r, g, cgm) ==
  LET kept(s, t) == IF t.ok \/ g.times = "once" THEN t ELSE [t EXCEPT !.fields = s.fields]
      n == Turns(g, r.fields, 3 * Len(r.args))
  IN  CASE ~r.ok -> r
        [] r.ok /\ n < 0 -> [r EXCEPT !.ok = FALSE]
        [] OTHER ->
             Repeat(LAMBDA s : IF s.ok /\ (g.times = "toEnd" => HasMore(s))
                               THEN kept(s, Fold(LAMBDA q, t : ReadField(q, t, cgm), s, g.types)) ELSE s,
                    Clamped(n, 0, 3 * Len(r.args) + 1), r)

ReadCommand(layout, args, cgm) ==
  Fold(LAMBDA r, g : ReadGroup(r, g, cgm), Cursor(args), layout.reads)

\* A bucket being filled, with the number of values already in it.
PutGroup(b, g, values, cgm) ==
  LET k == Len(g.types)
      type(c, t) == [w |-> PutValue(c.w, t, values[c.n + 1], values, cgm), n |-> c.n + 1]
      turn(c) == Fold(type, c, g.types)
  IN  Repeat(turn, Turns(g, values, (Len(values) - b.n) \div k), b)

PutCommand(layout, values, bit, cgm) ==
  Fold(LAMBDA b, g : PutGroup(b, g, values, cgm),
           [w |-> Bucket(bit), n |-> 0], layout.writes).w
=============================================================================
