-------------------------- MODULE BinaryFileProofs --------------------------
(***************************************************************************)
(* What loading a binary metafile promises: the elements that are whole in *)
(* the file are delivered, each once and in order, and nothing else; the   *)
(* commands of METAFILE DEFAULTS REPLACEMENT are put where they belong;    *)
(* and the pictures of the list that results are whole. First comes what   *)
(* it rests on: what the writer frames, the reader finds again, the frame  *)
(* of a command with every class, identifier and arguments, anywhere in a  *)
(* file, and in partitions of any number and lengths, its own or a         *)
(* producer's; and a frame that the end of the file cuts off is never      *)
(* taken for a whole one.                                                  *)
(***************************************************************************)
EXTENDS BinaryRequirements, SequenceTheorems, WellFoundedInduction, TLAPS

-----------------------------------------------------------------------------
(* Sequences put together.                                                 *)

\* What holds at first, and at every number behind one at which it holds, holds.
LEMMA Counting ==
  ASSUME NEW Good, 0 \in Good, \A n \in Nat : n \in Good => n + 1 \in Good
  PROVE  Nat \subseteq Good
<1> DEFINE Bad == {n \in Nat : n \notin Good}
           R == {ss \in Nat \X Nat : ss[1] < ss[2]}
<1>1. SUFFICES ASSUME Bad # {} PROVE FALSE
  OBVIOUS
<1>2. IsWellFoundedOn(R, Nat)
  BY NatLessThanWellFounded, Zenon DEF OpToRel
<1>3. Bad \subseteq Nat
  OBVIOUS
<1>4. PICK m \in Bad : \A y \in Bad : ~(<<y, m>> \in R)
  <2> HIDE DEF R, Bad
  <2> QED
    BY <1>1, <1>2, <1>3, WFMin
<1>5. m \in Nat /\ m # 0 /\ m - 1 \in Nat
  BY <1>4
<1>6. <<m - 1, m>> \in R
  BY <1>5
<1>7. m - 1 \in Good
  BY <1>4, <1>5, <1>6
<1>8. (m - 1) + 1 \in Good
  <2> HIDE DEF R, Bad
  <2> QED
    BY <1>5, <1>7
<1> QED
  BY <1>4, <1>5, <1>8

\* f puts the sequences of ss together, one after the other.
Flattens(f, ss) == f = [i \in 1..Len(ss) |-> IF i = 1 THEN ss[i] ELSE f[i - 1] \o ss[i]]

LEMMA FlattensExists ==
  ASSUME NEW S, NEW ss \in Seq(Seq(S))
  PROVE  \E f \in [1..Len(ss) -> Seq(S)] : Flattens(f, ss)
<1> DEFINE n == Len(ss)
           Is(f, k) == f \in [1..k -> Seq(S)] /\ \A i \in 1..k : f[i] = IF i = 1 THEN ss[i] ELSE f[i - 1] \o ss[i]
           Good == {k \in Nat : k <= n => \E f : Is(f, k)}
<1>1. n \in Nat /\ \A i \in 1..n : ss[i] \in Seq(S)
  BY LenProperties, ElementOfSeq
<1>2. 0 \in Good
  <2>1. Is([i \in 1..0 |-> <<>>], 0)
    OBVIOUS
  <2> QED
    BY <2>1
<1>3. ASSUME NEW k \in Nat, k \in Good PROVE k + 1 \in Good
  <2>1. SUFFICES ASSUME k + 1 <= n PROVE \E f : Is(f, k + 1)
    <3> HIDE DEF Is
    <3> QED
      OBVIOUS
  <2>0. k <= n
    BY <1>1, <2>1
  <2>2. PICK f : Is(f, k)
    <3> HIDE DEF Is
    <3> QED
      BY <1>3, <2>0
  <2> DEFINE v == IF k = 0 THEN ss[1] ELSE f[k] \o ss[k + 1]
             h == [i \in 1..k + 1 |-> IF i = k + 1 THEN v ELSE f[i]]
  <2>3. v \in Seq(S)
    <3>1. CASE k = 0
      BY <1>1, <2>1, <3>1
    <3>2. CASE k # 0
      <4>1. k \in 1..k /\ k + 1 \in 1..n
        BY <1>1, <2>1, <3>2
      <4>2. f[k] \in Seq(S) /\ ss[k + 1] \in Seq(S)
        BY <1>1, <2>2, <4>1
      <4> QED
        BY <3>2, <4>2, ConcatProperties
    <3> QED
      BY <3>1, <3>2
  <2>4. h \in [1..k + 1 -> Seq(S)]
    <3> HIDE DEF v
    <3> QED
      BY <2>2, <2>3
  <2>5. \A i \in 1..k + 1 : h[i] = IF i = 1 THEN ss[i] ELSE h[i - 1] \o ss[i]
    <3> SUFFICES ASSUME NEW i \in 1..k + 1 PROVE h[i] = IF i = 1 THEN ss[i] ELSE h[i - 1] \o ss[i]
      OBVIOUS
    <3>1. CASE i = k + 1
      <4>1. h[i] = v
        BY <3>1
      <4>2. CASE k = 0
        BY <4>1, <4>2, <3>1
      <4>3. CASE k # 0
        <5>1. i # 1 /\ i - 1 = k /\ i - 1 \in 1..k + 1 /\ i - 1 # k + 1
          BY <3>1, <4>3
        <5>2. h[i - 1] = f[k]
          <6> HIDE DEF v
          <6> QED
            BY <5>1
        <5> QED
          BY <3>1, <4>1, <4>3, <5>1, <5>2
      <4> QED
        BY <4>2, <4>3
    <3>2. CASE i # k + 1
      <4>1. i \in 1..k
        BY <3>2
      <4>2. h[i] = f[i]
        BY <3>2
      <4>3. i # 1 => i - 1 \in 1..k + 1 /\ i - 1 # k + 1
        BY <3>2
      <4>4. i # 1 => h[i - 1] = f[i - 1]
        <5> HIDE DEF v
        <5> QED
          BY <4>3
      <4>5. f[i] = IF i = 1 THEN ss[i] ELSE f[i - 1] \o ss[i]
        BY <2>2, <4>1
      <4> HIDE DEF h
      <4> QED
        BY <4>2, <4>4, <4>5
    <3> QED
      BY <3>1, <3>2
  <2>6. Is(h, k + 1)
    <3> HIDE DEF h
    <3> QED
      BY <2>4, <2>5
  <2> HIDE DEF Is, h
  <2> QED
    BY <2>6
<1>4. n \in Good
  <2> HIDE DEF Good
  <2> QED
    BY <1>1, <1>2, <1>3, Counting
<1>5. PICK f : Is(f, n)
  BY <1>1, <1>4
<1>6. Flattens(f, ss)
  BY <1>5 DEF Flattens
<1> QED
  BY <1>5, <1>6

\* There is one way only to put them together.
LEMMA FlattensUnique ==
  ASSUME NEW ss, Len(ss) \in Nat, NEW f, Flattens(f, ss), NEW g, Flattens(g, ss)
  PROVE  \A i \in 1..Len(ss) : f[i] = g[i]
<1> DEFINE Good == {i \in Nat : i + 1 <= Len(ss) => f[i + 1] = g[i + 1]}
<1>0. \A i \in 1..Len(ss) : /\ f[i] = IF i = 1 THEN ss[i] ELSE f[i - 1] \o ss[i]
                            /\ g[i] = IF i = 1 THEN ss[i] ELSE g[i - 1] \o ss[i]
  BY DEF Flattens
<1>1. 0 \in Good
  BY <1>0
<1>2. ASSUME NEW i \in Nat, i \in Good PROVE i + 1 \in Good
  <2>1. SUFFICES ASSUME (i + 1) + 1 <= Len(ss) PROVE f[(i + 1) + 1] = g[(i + 1) + 1]
    OBVIOUS
  <2>2. f[i + 1] = g[i + 1] /\ (i + 1) + 1 \in 1..Len(ss) /\ ((i + 1) + 1) - 1 = i + 1 /\ (i + 1) + 1 # 1
    BY <1>2, <2>1
  <2> QED
    BY <1>0, <2>2
<1>3. Nat \subseteq Good
  <2> HIDE DEF Good
  <2> QED
    BY <1>1, <1>2, Counting
<1>4. TAKE i \in 1..Len(ss)
<1>5. i - 1 \in Nat /\ (i - 1) + 1 = i /\ i <= Len(ss)
  OBVIOUS
<1>6. i - 1 \in Good
  <2> HIDE DEF Good
  <2> QED
    BY <1>3, <1>5
<1> QED
  BY <1>5, <1>6

LEMMA FlattenedBy ==
  ASSUME NEW ss, Len(ss) \in Nat \ {0}, NEW f, Flattens(f, ss)
  PROVE  FlattenSeq(ss) = f[Len(ss)]
<1> DEFINE c == CHOOSE g : Flattens(g, ss)
<1>1. Flattens(c, ss)
  OBVIOUS
<1>2. FlattenSeq(ss) = c[Len(ss)]
  BY DEF FlattenSeq, Flattens
<1> HIDE DEF c
<1>3. Len(ss) \in 1..Len(ss) /\ Len(ss) \in Nat
  OBVIOUS
<1>4. \A i \in 1..Len(ss) : c[i] = f[i]
  BY <1>1, <1>3, FlattensUnique
<1> QED
  BY <1>2, <1>3, <1>4

LEMMA FlattenEmpty == FlattenSeq(<<>>) = <<>>
BY DEF FlattenSeq

LEMMA FlattenType ==
  ASSUME NEW S, NEW ss \in Seq(Seq(S))
  PROVE  FlattenSeq(ss) \in Seq(S)
<1>1. Len(ss) \in Nat
  BY LenProperties
<1>2. CASE ss = <<>>
  BY <1>2, FlattenEmpty, EmptySeq
<1>3. CASE ss # <<>>
  <2>1. Len(ss) \in Nat \ {0}
    BY <1>1, <1>3, EmptySeq
  <2>2. PICK f \in [1..Len(ss) -> Seq(S)] : Flattens(f, ss)
    BY FlattensExists
  <2>3. FlattenSeq(ss) = f[Len(ss)]
    BY <2>1, <2>2, FlattenedBy
  <2>4. Len(ss) \in 1..Len(ss)
    BY <2>1
  <2> QED
    BY <2>2, <2>3, <2>4
<1> QED
  BY <1>2, <1>3

LEMMA FlattenAppend ==
  ASSUME NEW S, NEW ss \in Seq(Seq(S)), NEW s \in Seq(S)
  PROVE  FlattenSeq(Append(ss, s)) = FlattenSeq(ss) \o s
<1> DEFINE n == Len(ss)
           t == Append(ss, s)
<1>1. n \in Nat /\ t \in Seq(Seq(S)) /\ Len(t) = n + 1 /\ t[n + 1] = s /\ \A i \in 1..n : t[i] = ss[i]
  BY LenProperties, AppendProperties
<1> HIDE DEF t
<1>2. PICK f \in [1..Len(t) -> Seq(S)] : Flattens(f, t)
  BY <1>1, FlattensExists
<1>3. \A i \in 1..n + 1 : f[i] = IF i = 1 THEN t[i] ELSE f[i - 1] \o t[i]
  BY <1>1, <1>2 DEF Flattens
<1>4. FlattenSeq(t) = f[n + 1]
  BY <1>1, <1>2, FlattenedBy
<1>5. CASE n = 0
  <2>1. ss = <<>> /\ f[n + 1] = s
    BY <1>1, <1>3, <1>5, EmptySeq
  <2> QED
    BY <1>4, <2>1, FlattenEmpty, ConcatEmptySeq DEF t
<1>6. CASE n # 0
  <2> DEFINE g == [i \in 1..n |-> f[i]]
  <2>1. Flattens(g, ss)
    <3>1. \A i \in 1..n : f[i] = IF i = 1 THEN ss[i] ELSE g[i - 1] \o ss[i]
      <4>1. SUFFICES ASSUME NEW i \in 1..n PROVE f[i] = IF i = 1 THEN ss[i] ELSE g[i - 1] \o ss[i]
        OBVIOUS
      <4>2. i \in 1..n + 1 /\ t[i] = ss[i] /\ (i # 1 => i - 1 \in 1..n)
        BY <1>1
      <4> QED
        BY <1>3, <4>2
    <3> QED
      BY <3>1 DEF Flattens
  <2>2. FlattenSeq(ss) = g[n]
    <3> HIDE DEF g
    <3> QED
      BY <1>1, <1>6, <2>1, FlattenedBy
  <2>3. g[n] = f[n] /\ n + 1 \in 1..n + 1 /\ n + 1 # 1 /\ (n + 1) - 1 = n
    BY <1>1, <1>6
  <2>4. f[n + 1] = f[n] \o s
    BY <1>1, <1>3, <2>3
  <2> QED
    BY <1>4, <2>2, <2>3, <2>4 DEF t
<1> QED
  BY <1>5, <1>6
-----------------------------------------------------------------------------
(* Octets in a file.                                                       *)

\* The octets s stand in o behind position `pos`.
Holds(o, pos, s) ==
  /\ pos + Len(s) <= Len(o)
  /\ \A i \in 1..Len(s) : o[pos + i] = s[i]

\* Words of two octets come back, and their octets are octets.
LEMMA WordRoundTrip ==
  ASSUME NEW n \in Nat, n < 65536
  PROVE  /\ WordOctets(n) \in Seq(Octet)
         /\ Len(WordOctets(n)) = 2
         /\ WordOctets(n)[1] * 256 + WordOctets(n)[2] = n
<1> DEFINE h == n \div 256
           l == n % 256
<1>1. h \in Int /\ l \in Int /\ n = 256 * h + l /\ 0 <= l /\ l < 256
  OBVIOUS
<1>2. 0 <= h /\ h < 256
  BY <1>1
<1> HIDE DEF h, l
<1>3. h \in Octet /\ l \in Octet
  BY <1>1, <1>2 DEF Octet
<1>4. WordOctets(n) = <<h, l>>
  BY DEF WordOctets, h, l
<1>5. <<h, l>> \in Seq(Octet) /\ Len(<<h, l>>) = 2
  BY <1>3
<1>6. <<h, l>>[1] * 256 + <<h, l>>[2] = n
  BY <1>1
<1> QED
  BY <1>4, <1>5, <1>6

LEMMA HoldsParts ==
  ASSUME NEW o \in Seq(Octet), NEW pos \in Nat, NEW s \in Seq(Octet), NEW t \in Seq(Octet),
         Holds(o, pos, s \o t)
  PROVE  Holds(o, pos, s) /\ Holds(o, pos + Len(s), t)
<1>1. /\ Len(s \o t) = Len(s) + Len(t)
      /\ \A i \in 1..Len(s) + Len(t) : (s \o t)[i] = IF i <= Len(s) THEN s[i] ELSE t[i - Len(s)]
  BY ConcatProperties
<1>2. Len(s) \in Nat /\ Len(t) \in Nat /\ Len(o) \in Nat
  BY LenProperties
<1>3. Holds(o, pos, s)
  BY <1>1, <1>2 DEF Holds
<1>4. ASSUME NEW i \in 1..Len(t) PROVE o[pos + Len(s) + i] = t[i]
  <2>1. Len(s) + i \in 1..Len(s) + Len(t)
    BY <1>2
  <2>2. o[pos + (Len(s) + i)] = (s \o t)[Len(s) + i]
    BY <1>1, <2>1 DEF Holds
  <2>3. (s \o t)[Len(s) + i] = t[(Len(s) + i) - Len(s)]
    BY <1>1, <1>2, <2>1
  <2> QED
    BY <1>2, <2>2, <2>3
<1> QED
  BY <1>1, <1>2, <1>3, <1>4 DEF Holds

LEMMA WordHeld ==
  ASSUME NEW o \in Seq(Octet), NEW pos \in Nat, NEW n \in Nat, n < 65536, Holds(o, pos, WordOctets(n))
  PROVE  Word(o, pos + 1) = n /\ pos + 2 <= Len(o)
<1>1. o[pos + 1] = WordOctets(n)[1] /\ o[pos + 2] = WordOctets(n)[2] /\ pos + 2 <= Len(o)
  BY WordRoundTrip DEF Holds
<1>2. (pos + 1) + 1 = pos + 2
  OBVIOUS
<1> QED
  BY <1>1, <1>2, WordRoundTrip DEF Word

\* k is the header of a command: its three numbers come back.
IsHeader(k, class, id, count) ==
  /\ k < 65536 /\ Header(class, id, count) = WordOctets(k)
  /\ ElementClass(k) = class /\ ElementId(k) = id /\ ArgumentCount(k) = count

LEMMA HeaderWord ==
  ASSUME NEW class \in 0..15, NEW id \in Nat, id < 128, NEW count \in Nat, count < 32
  PROVE  \E k \in Nat : IsHeader(k, class, id, count)
<1> DEFINE k == (class * 4096) + (id * 32) + count
           w == (class * 128) + id
<1>1. k \in Nat /\ k < 65536 /\ w \in Nat /\ k = 32 * w + count
  OBVIOUS
<1>2. k \div 4096 = class
  <2>1. k = 4096 * class + ((id * 32) + count) /\ (id * 32) + count < 4096
    OBVIOUS
  <2> QED
    BY <2>1
<1>3. k \div 32 = w /\ k % 32 = count
  BY <1>1
<1>4. w % 128 = id
  OBVIOUS
<1>5. Header(class, id, count) = WordOctets(k)
  BY SMT DEF Header
<1> HIDE DEF k
<1>6. IsHeader(k, class, id, count)
  BY <1>1, <1>2, <1>3, <1>4, <1>5 DEF ElementClass, ElementId, ArgumentCount, IsHeader
<1> QED
  BY <1>1, <1>6

LEMMA PadType ==
  ASSUME NEW n \in Nat
  PROVE  Pad(n) \in Seq(Octet) /\ Len(Pad(n)) = Padding(n) /\ Padding(n) \in {0, 1}
<1>1. n % 2 \in {0, 1}
  OBVIOUS
<1>2. <<0>> \in Seq(Octet) /\ <<>> \in Seq(Octet) /\ Len(<<0>>) = 1 /\ Len(<<>>) = 0
  BY DEF Octet
<1> QED
  BY <1>1, <1>2 DEF Pad, Padding

\* A stretch of octets taken out of o is the sequence that stands there.
LEMMA SubSeqHeld ==
  ASSUME NEW o \in Seq(Octet), NEW pos \in Nat, NEW a \in Seq(Octet), Holds(o, pos, a)
  PROVE  SubSeq(o, pos + 1, pos + Len(a)) = a
<1> DEFINE n == Len(a)
           m == pos + 1
           e == pos + n
           s == SubSeq(o, m, e)
<1>1. n \in Nat /\ Len(o) \in Nat
  BY LenProperties
<1>2. pos + n <= Len(o) /\ \A i \in 1..n : o[pos + i] = a[i]
  BY DEF Holds
<1> HIDE DEF n
<1>3. m \in Int /\ e \in Int /\ (e - m) + 1 = n /\ (m <= e <=> n > 0)
  BY <1>1
<1>4. \A i \in m..e : i \in 1..Len(o)
  BY <1>1, <1>2
<1>5. \A i \in m..e : o[i] \in Octet
  BY <1>4, ElementOfSeq
<1>6. /\ s \in Seq(Octet)
      /\ Len(s) = IF m <= e THEN e - m + 1 ELSE 0
      /\ \A i \in 1 .. e - m + 1 : s[i] = o[m + i - 1]
  <2> HIDE DEF m, e
  <2> QED
    BY <1>3, <1>5, SubSeqProperties
<1>7. \A i \in 1..n : (m + i) - 1 = pos + i
  BY <1>1
<1>8. s \in Seq(Octet) /\ Len(s) = n
  <2> HIDE DEF m, e, s
  <2> QED
    BY <1>1, <1>3, <1>6
<1>9. \A i \in 1..n : s[i] = a[i]
  <2>1. TAKE i \in 1..n
  <2>2. i \in 1 .. e - m + 1
    BY <1>3
  <2> HIDE DEF s
  <2> QED
    BY <1>2, <1>6, <1>7, <2>2
<1> HIDE DEF s
<1>10. s = a
  BY <1>8, <1>9, SeqEqual DEF n
<1> QED
  BY <1>10 DEF s, n

\* Argument octets with their padding are read as they stand.
LEMMA PartitionHeld ==
  ASSUME NEW o \in Seq(Octet), NEW pos \in Nat, NEW a \in Seq(Octet),
         Holds(o, pos, a \o Pad(Len(a)))
  PROVE  Partition(o, pos, Len(a)) =
           [args |-> a, at |-> pos + Len(a) + Padding(Len(a)), cut |-> FALSE, more |-> FALSE]
<1>1. Len(a) \in Nat /\ Len(o) \in Nat
  BY LenProperties
<1>2. Pad(Len(a)) \in Seq(Octet) /\ Len(Pad(Len(a))) = Padding(Len(a)) /\ Padding(Len(a)) \in {0, 1}
  BY <1>1, PadType
<1>3. Holds(o, pos, a) /\ Holds(o, pos + Len(a), Pad(Len(a)))
  BY <1>2, HoldsParts
<1>4. ~(Len(o) < pos + Len(a) + Padding(Len(a)))
  BY <1>1, <1>2, <1>3 DEF Holds
<1>5. SubSeq(o, pos + 1, pos + Len(a)) = a
  BY <1>3, SubSeqHeld
<1> QED
  BY <1>4, <1>5 DEF Partition

\* Where a sequence ends, the next begins.
LEMMA Behind ==
  ASSUME NEW S, NEW u \in Seq(S), NEW v \in Seq(S), NEW w \in Seq(S), NEW x, x = v \o w
  PROVE  u \o v \o w = u \o x
BY ConcatAssociative, SMTT(30)

\* A word in front of argument octets with their padding.
LEMMA FirstWord ==
  ASSUME NEW o \in Seq(Octet), NEW pos \in Nat, NEW w \in Seq(Octet), Len(w) = 2,
         NEW a \in Seq(Octet), NEW s \in Seq(Octet), Holds(o, pos, w \o a \o s)
  PROVE  Holds(o, pos, w) /\ Holds(o, pos + 2, a \o s)
<1> DEFINE t == a \o s
<1>1. t \in Seq(Octet)
  BY ConcatProperties
<1>2. w \o a \o s = w \o t
  BY <1>1, Behind, SMTT(30)
<1>3. Holds(o, pos, w \o t)
  BY <1>2
<1> HIDE DEF t
<1>4. Holds(o, pos, w) /\ Holds(o, pos + Len(w), t)
  BY <1>1, <1>3, HoldsParts
<1> QED
  BY <1>4 DEF t

\* The length word of a partition of n octets: the top bit, if another one comes, and n.
TopBits == {0, 32768}
IsLengthWord(k, n, top) == k = n + top /\ k < 65536 /\ k % 32768 = n

LEMMA LengthWords ==
  ASSUME NEW n \in Nat, n < 32768, NEW top \in TopBits
  PROVE  \E k \in Nat : IsLengthWord(k, n, top)
<1>1. CASE top = 32768
  <2>1. PICK k \in Nat : k = 32768 * 1 + n
    OBVIOUS
  <2>2. k < 65536 /\ k % 32768 = n
    BY <2>1
  <2> QED
    BY <1>1, <2>1, <2>2 DEF IsLengthWord
<1>2. CASE top = 0
  BY <1>2 DEF IsLengthWord
<1> QED
  BY <1>1, <1>2 DEF TopBits

\* r is a partition of the octets a that ends at e.
IsRead(r, a, e, top) ==
  /\ r.args = a /\ r.at = e /\ ~r.cut
  /\ top = 32768 => r.more
  /\ top = 0 => ~r.more

LEMMA Continued ==
  ASSUME NEW a, NEW e, NEW top, NEW z, NEW r,
         r = [[args |-> a, at |-> e, cut |-> FALSE, more |-> FALSE] EXCEPT !.more = z],
         top = 32768 => z, top = 0 => ~z
  PROVE  IsRead(r, a, e, top)
BY DEF IsRead

LEMMA TopBitRead ==
  ASSUME NEW n \in Nat, n < 32768, NEW top \in TopBits, NEW k \in Nat, IsLengthWord(k, n, top),
         NEW r, ~r.cut
  PROVE  /\ top = 32768 => k >= 32768 /\ ~r.cut
         /\ top = 0 => ~(k >= 32768 /\ ~r.cut)
BY DEF IsLengthWord

LEMMA LongPartitionIs ==
  ASSUME NEW o, NEW pos, ~(Len(o) < pos + 2), NEW k, Word(o, pos + 1) = k, NEW n, k % 32768 = n,
         NEW r, r = Partition(o, pos + 2, n)
  PROVE  LongPartition(o, pos) = [r EXCEPT !.more = k >= 32768 /\ ~r.cut]
BY DEF LongPartition

\* A partition with its length word: its octets, and whether another one follows.
LEMMA LongPartitionHeld ==
  ASSUME NEW o \in Seq(Octet), NEW pos \in Nat, NEW a \in Seq(Octet), Len(a) < 32768,
         NEW top \in TopBits, NEW k \in Nat, IsLengthWord(k, Len(a), top),
         Holds(o, pos, WordOctets(k) \o a \o Pad(Len(a)))
  PROVE  IsRead(LongPartition(o, pos), a, pos + 2 + Len(a) + Padding(Len(a)), top)
<1>1. PICK n \in Nat : n = Len(a) /\ n < 32768
  BY LenProperties
<1>2. PICK p \in Seq(Octet) : p = Pad(n)
  BY PadType
<1>3. k < 65536 /\ k % 32768 = n
  BY <1>1 DEF IsLengthWord
<1>4. PICK w \in Seq(Octet) : w = WordOctets(k) /\ Len(w) = 2
  BY <1>3, WordRoundTrip
<1>5. Holds(o, pos, w \o a \o p)
  BY <1>1, <1>2, <1>4
<1>6. Holds(o, pos, w) /\ Holds(o, pos + 2, a \o p)
  BY <1>4, <1>5, FirstWord
<1>7. Word(o, pos + 1) = k /\ pos + 2 <= Len(o)
  <2>1. Holds(o, pos, WordOctets(k)) /\ k < 65536
    BY <1>3, <1>4, <1>6
  <2> QED
    BY <2>1, WordHeld
<1>8. PICK q \in Nat : q = pos + 2
  OBVIOUS
<1>9. Holds(o, q, a \o Pad(Len(a)))
  BY <1>1, <1>2, <1>6, <1>8
<1>10. PICK e : e = q + Len(a) + Padding(Len(a))
  OBVIOUS
<1>11. PICK r : r = Partition(o, pos + 2, n) /\ r = [args |-> a, at |-> e, cut |-> FALSE, more |-> FALSE]
  BY <1>1, <1>8, <1>9, <1>10, PartitionHeld
<1>12. ~(Len(o) < pos + 2)
  BY <1>7, LenProperties
<1>13. LongPartition(o, pos) = [r EXCEPT !.more = k >= 32768 /\ ~r.cut]
  BY <1>3, <1>7, <1>11, <1>12, LongPartitionIs
<1> DEFINE z == k >= 32768 /\ ~r.cut
<1>15. LongPartition(o, pos) = [r EXCEPT !.more = z]
  BY <1>13
<1>14. (top = 32768 => z) /\ (top = 0 => ~z)
  <2>1. ~r.cut
    BY <1>11
  <2> QED
    BY <1>1, <2>1, TopBitRead
<1> HIDE DEF z
<1>16. LongPartition(o, pos) =
         [[args |-> a, at |-> e, cut |-> FALSE, more |-> FALSE] EXCEPT !.more = z]
  BY <1>11, <1>15
<1>17. IsRead(LongPartition(o, pos), a, e, top)
  BY <1>14, <1>16, Continued
<1> QED
  BY <1>8, <1>10, <1>17

\* A header is read as it was written, and what follows it stands behind it.
LEMMA HeaderHeld ==
  ASSUME NEW o \in Seq(Octet), NEW pos \in Nat, NEW class \in 0..15, NEW id \in Nat, id < 128,
         NEW count \in Nat, count < 32, NEW s \in Seq(Octet),
         Holds(o, pos, Header(class, id, count) \o s)
  PROVE  /\ ~AtEnd(o, pos)
         /\ ElementClass(Word(o, pos + 1)) = class
         /\ ElementId(Word(o, pos + 1)) = id
         /\ ArgumentCount(Word(o, pos + 1)) = count
         /\ Holds(o, pos + 2, s)
<1> DEFINE h == Header(class, id, count)
<1>0. PICK k \in Nat : IsHeader(k, class, id, count)
  BY HeaderWord
<1>1. /\ k < 65536 /\ h = WordOctets(k)
      /\ ElementClass(k) = class /\ ElementId(k) = id /\ ArgumentCount(k) = count
  BY <1>0 DEF IsHeader
<1>2. WordOctets(k) \in Seq(Octet) /\ Len(WordOctets(k)) = 2
  BY <1>1, WordRoundTrip
<1>3. h \in Seq(Octet) /\ Len(h) = 2
  BY <1>1, <1>2
<1> HIDE DEF h
<1>4. Holds(o, pos, h) /\ Holds(o, pos + 2, s)
  <2>1. Holds(o, pos, h \o s)
    BY DEF h
  <2>2. Holds(o, pos, h) /\ Holds(o, pos + Len(h), s)
    BY <2>1, <1>3, HoldsParts
  <2> QED
    BY <2>2, <1>3
<1>5. Word(o, pos + 1) = k /\ pos + 2 <= Len(o)
  BY <1>1, <1>4, WordHeld
<1>6. ~AtEnd(o, pos)
  BY <1>5, LenProperties DEF AtEnd
<1> QED
  BY <1>1, <1>4, <1>5, <1>6

LEMMA ShortHeld ==
  ASSUME NEW o \in Seq(Octet), NEW pos \in Nat, NEW a \in Seq(Octet), Len(a) < LongForm,
         Holds(o, pos, a \o Pad(Len(a)))
  PROVE  Arguments(o, pos, Len(a)) =
           [args |-> a, at |-> pos + Len(a) + Padding(Len(a)), cut |-> FALSE, more |-> FALSE]
<1> DEFINE n == Len(a)
<1>3. n \in Nat /\ n < LongForm
  BY LenProperties
<1> HIDE DEF n
<1>1. n # LongForm
  BY <1>3 DEF LongForm
<1>2. Arguments(o, pos, Len(a)) = Partition(o, pos, Len(a))
  BY <1>1 DEF Arguments, n
<1> QED
  BY <1>2, PartitionHeld

\* The reader's step, when it is known what the arguments are.
LEMMA FrameRead ==
  ASSUME NEW o, NEW pos, NEW class, NEW id, NEW count, NEW a, NEW e, NEW f,
         ElementClass(Word(o, pos + 1)) = class, ElementId(Word(o, pos + 1)) = id,
         ArgumentCount(Word(o, pos + 1)) = count,
         Arguments(o, pos + 2, count) = [args |-> a, at |-> e, cut |-> f, more |-> f]
  PROVE  ReadFrame(o, pos) = [class |-> class, id |-> id, args |-> a, at |-> e, cut |-> f]
BY DEF ReadFrame

-----------------------------------------------------------------------------
(* Sequences put together, in a file.                                      *)

\* The first k sequences of ss, and how long they are together: where the next starts.
UpTo(ss, k) == [i \in 1..k |-> ss[i]]
StartOf(ss, k) == Len(FlattenSeq(UpTo(ss, k)))

LEMMA UpToProperties ==
  ASSUME NEW S, NEW ss \in Seq(Seq(S)), NEW k \in 0..Len(ss)
  PROVE  /\ UpTo(ss, k) \in Seq(Seq(S))
         /\ FlattenSeq(UpTo(ss, k)) \in Seq(S)
         /\ k > 0 => FlattenSeq(UpTo(ss, k)) = FlattenSeq(UpTo(ss, k - 1)) \o ss[k]
<1>1. Len(ss) \in Nat /\ k \in Nat /\ \A i \in 1..Len(ss) : ss[i] \in Seq(S)
  BY LenProperties, ElementOfSeq
<1>2. ASSUME NEW m \in 0..Len(ss) PROVE UpTo(ss, m) \in Seq(Seq(S)) /\ Len(UpTo(ss, m)) = m
  <2>1. m \in Nat /\ \A i \in 1..m : ss[i] \in Seq(S)
    BY <1>1
  <2> QED
    BY <2>1, IsASeq, LenProperties DEF UpTo
<1>3. ASSUME k > 0 PROVE FlattenSeq(UpTo(ss, k)) = FlattenSeq(UpTo(ss, k - 1)) \o ss[k]
  <2> DEFINE u == UpTo(ss, k - 1)
             t == Append(u, ss[k])
  <2>1. k - 1 \in 0..Len(ss) /\ k \in 1..Len(ss) /\ k - 1 \in Nat
    BY <1>1, <1>3
  <2>2. u \in Seq(Seq(S)) /\ Len(u) = k - 1 /\ ss[k] \in Seq(S)
    BY <1>1, <1>2, <2>1
  <2>3. \A i \in 1..k - 1 : u[i] = ss[i]
    BY DEF UpTo
  <2> HIDE DEF u
  <2>4. t \in Seq(Seq(S)) /\ Len(t) = (k - 1) + 1 /\ t[(k - 1) + 1] = ss[k] /\ \A i \in 1..k - 1 : t[i] = u[i]
    BY <2>2, AppendProperties
  <2>5. Len(t) = k /\ t[k] = ss[k]
    BY <1>1, <2>4
  <2> HIDE DEF t
  <2>6. \A i \in 1..k : t[i] = UpTo(ss, k)[i]
    <3> TAKE i \in 1..k
    <3>1. UpTo(ss, k)[i] = ss[i]
      BY DEF UpTo
    <3>2. CASE i = k
      BY <2>5, <3>1, <3>2
    <3>3. CASE i # k
      <4>1. i \in 1..k - 1
        BY <1>1, <3>3
      <4> QED
        BY <2>3, <2>4, <3>1, <4>1
    <3> QED
      BY <3>2, <3>3
  <2>7. t = UpTo(ss, k)
    BY <1>2, <2>4, <2>5, <2>6, SeqEqual
  <2>8. FlattenSeq(t) = FlattenSeq(u) \o ss[k]
    BY <2>2, FlattenAppend DEF t
  <2> QED
    BY <2>7, <2>8 DEF u
<1> QED
  BY <1>2, <1>3, FlattenType

LEMMA UpToAll ==
  ASSUME NEW S, NEW ss \in Seq(S)
  PROVE  UpTo(ss, Len(ss)) = ss
BY DEF UpTo

\* The starts of the sequences of ss, none of which is shorter than `least`.
StartsOf(ss, n, least) ==
  /\ StartOf(ss, 0) = 0
  /\ \A k \in 0..n : StartOf(ss, k) \in Nat /\ StartOf(ss, k) >= least * k
  /\ \A k \in 1..n : StartOf(ss, k) = StartOf(ss, k - 1) + Len(ss[k])
  /\ \A k \in 0..n : \A m \in 0..n : k <= m => StartOf(ss, k) <= StartOf(ss, m)

LEMMA Starts ==
  ASSUME NEW S, NEW ss \in Seq(Seq(S)), NEW n \in Nat, n = Len(ss),
         \A k \in 1..n : Len(ss[k]) >= 2
  PROVE  StartsOf(ss, n, 2)
<1>1. \A k \in 1..n : ss[k] \in Seq(S) /\ Len(ss[k]) \in Nat
  BY LenProperties, ElementOfSeq
<1>2. StartOf(ss, 0) = 0
  <2>1. UpTo(ss, 0) = <<>>
    BY DEF UpTo
  <2> QED
    BY <2>1, FlattenEmpty, EmptySeq DEF StartOf
<1>3. \A k \in 0..n : StartOf(ss, k) \in Nat
  BY UpToProperties, LenProperties DEF StartOf
<1>4. \A k \in 1..n : StartOf(ss, k) = StartOf(ss, k - 1) + Len(ss[k])
  <2> TAKE k \in 1..n
  <2>1. k \in 0..Len(ss) /\ k > 0 /\ k - 1 \in 0..Len(ss)
    OBVIOUS
  <2>2. /\ FlattenSeq(UpTo(ss, k - 1)) \in Seq(S)
        /\ FlattenSeq(UpTo(ss, k)) = FlattenSeq(UpTo(ss, k - 1)) \o ss[k]
    BY <2>1, UpToProperties
  <2> DEFINE u == FlattenSeq(UpTo(ss, k - 1))
  <2>3. Len(u \o ss[k]) = Len(u) + Len(ss[k])
    <3>1. u \in Seq(S) /\ ss[k] \in Seq(S)
      BY <1>1, <2>2
    <3> HIDE DEF u
    <3> QED
      BY <3>1, ConcatProperties
  <2> QED
    BY <2>2, <2>3 DEF StartOf
<1>5. \A k \in 0..n : StartOf(ss, k) >= 2 * k
  <2> DEFINE Good == {k \in Nat : k <= n => StartOf(ss, k) >= 2 * k}
  <2>1. 0 \in Good
    BY <1>2
  <2>2. ASSUME NEW k \in Nat, k \in Good PROVE k + 1 \in Good
    <3>1. SUFFICES ASSUME k + 1 <= n PROVE StartOf(ss, k + 1) >= 2 * (k + 1)
      OBVIOUS
    <3>2. StartOf(ss, k) >= 2 * k /\ k \in 0..n /\ k + 1 \in 1..n /\ (k + 1) - 1 = k
      BY <2>2, <3>1
    <3>3. StartOf(ss, k + 1) = StartOf(ss, k) + Len(ss[k + 1])
      BY <1>4, <3>2
    <3>4. StartOf(ss, k) \in Nat /\ Len(ss[k + 1]) \in Nat /\ Len(ss[k + 1]) >= 2
      BY <1>1, <1>3, <3>2
    <3> QED
      BY <3>2, <3>3, <3>4
  <2>3. Nat \subseteq Good
    <3> HIDE DEF Good
    <3> QED
      BY <2>1, <2>2, Counting
  <2> QED
    BY <2>3
<1>6. ASSUME NEW k \in 0..n PROVE \A m \in 0..n : k <= m => StartOf(ss, k) <= StartOf(ss, m)
  <2> DEFINE Good == {d \in Nat : k + d <= n => StartOf(ss, k) <= StartOf(ss, k + d)}
  <2>1. 0 \in Good
    BY <1>3
  <2>2. ASSUME NEW d \in Nat, d \in Good PROVE d + 1 \in Good
    <3>1. SUFFICES ASSUME k + (d + 1) <= n PROVE StartOf(ss, k) <= StartOf(ss, k + (d + 1))
      OBVIOUS
    <3>2. /\ StartOf(ss, k) <= StartOf(ss, k + d) /\ k + d \in 0..n /\ k + (d + 1) \in 1..n
          /\ (k + (d + 1)) - 1 = k + d
      BY <2>2, <3>1
    <3>3. StartOf(ss, k + (d + 1)) = StartOf(ss, k + d) + Len(ss[k + (d + 1)])
      BY <1>4, <3>2
    <3>4. StartOf(ss, k) \in Nat /\ StartOf(ss, k + d) \in Nat /\ Len(ss[k + (d + 1)]) \in Nat
      BY <1>1, <1>3, <3>2
    <3> QED
      BY <3>2, <3>3, <3>4
  <2>3. Nat \subseteq Good
    <3> HIDE DEF Good
    <3> QED
      BY <2>1, <2>2, Counting
  <2>4. TAKE m \in 0..n
  <2>5. HAVE k <= m
  <2>6. m - k \in Nat /\ k + (m - k) = m /\ m <= n
    BY <2>5
  <2>7. m - k \in Good
    <3> HIDE DEF Good
    <3> QED
      BY <2>3, <2>6
  <2> QED
    BY <2>6, <2>7
<1> QED
  BY <1>2, <1>3, <1>4, <1>5, <1>6 DEF StartsOf

\* As far as o goes, it holds s behind position `pos`.
Agrees(o, pos, s) == \A i \in 1..Len(s) : pos + i <= Len(o) => o[pos + i] = s[i]

LEMMA AgreeingParts ==
  ASSUME NEW S, NEW o, Len(o) \in Nat, NEW pos \in Nat, NEW s \in Seq(S), NEW t \in Seq(S),
         Agrees(o, pos, s \o t)
  PROVE  Agrees(o, pos, s) /\ Agrees(o, pos + Len(s), t)
<1>1. /\ Len(s \o t) = Len(s) + Len(t)
      /\ \A i \in 1..Len(s) + Len(t) : (s \o t)[i] = IF i <= Len(s) THEN s[i] ELSE t[i - Len(s)]
  BY ConcatProperties
<1>2. Len(s) \in Nat /\ Len(t) \in Nat
  BY LenProperties
<1>3. Agrees(o, pos, s)
  <2> SUFFICES ASSUME NEW i \in 1..Len(s), pos + i <= Len(o) PROVE o[pos + i] = s[i]
    BY DEF Agrees
  <2>1. i \in 1..Len(s) + Len(t) /\ i <= Len(s)
    BY <1>2
  <2> QED
    BY <1>1, <2>1 DEF Agrees
<1>4. Agrees(o, pos + Len(s), t)
  <2> SUFFICES ASSUME NEW i \in 1..Len(t), (pos + Len(s)) + i <= Len(o) PROVE o[(pos + Len(s)) + i] = t[i]
    BY DEF Agrees
  <2>1. /\ Len(s) + i \in 1..Len(s) + Len(t) /\ ~(Len(s) + i <= Len(s)) /\ (Len(s) + i) - Len(s) = i
        /\ (pos + Len(s)) + i = pos + (Len(s) + i)
    BY <1>2
  <2>2. o[pos + (Len(s) + i)] = (s \o t)[Len(s) + i]
    BY <1>1, <2>1 DEF Agrees
  <2> QED
    BY <1>1, <2>1, <2>2
<1> QED
  BY <1>3, <1>4

LEMMA AgreesHolds ==
  ASSUME NEW o, Len(o) \in Nat, NEW pos \in Nat, NEW s, Len(s) \in Nat, Agrees(o, pos, s), pos + Len(s) <= Len(o)
  PROVE  Holds(o, pos, s)
BY DEF Agrees, Holds

\* Each of the sequences stands in o where the ones in front of it end.
LEMMA FlattenedAgrees ==
  ASSUME NEW S, NEW ss \in Seq(Seq(S)), NEW o, Len(o) \in Nat, NEW pos \in Nat,
         Agrees(o, pos, FlattenSeq(ss))
  PROVE  \A k \in 1..Len(ss) : Agrees(o, pos + StartOf(ss, k - 1), ss[k])
<1> DEFINE n == Len(ss)
           f(k) == FlattenSeq(UpTo(ss, k))
           Good == {d \in Nat : d <= n => Agrees(o, pos, f(n - d))}
<1>1. n \in Nat /\ \A k \in 1..n : ss[k] \in Seq(S)
  BY LenProperties, ElementOfSeq
<1>2. 0 \in Good
  BY <1>1, UpToAll
<1>3. ASSUME NEW k \in 1..n, Agrees(o, pos, f(k))
      PROVE  Agrees(o, pos, f(k - 1)) /\ Agrees(o, pos + StartOf(ss, k - 1), ss[k])
  <2>1. k \in 0..Len(ss) /\ k > 0 /\ k - 1 \in 0..Len(ss)
    BY <1>1
  <2>2. f(k - 1) \in Seq(S) /\ f(k) = f(k - 1) \o ss[k]
    BY <2>1, UpToProperties
  <2> DEFINE u == f(k - 1)
  <2>3. u \in Seq(S) /\ ss[k] \in Seq(S) /\ Agrees(o, pos, u \o ss[k])
    BY <1>1, <1>3, <2>2
  <2>4. Agrees(o, pos, u) /\ Agrees(o, pos + Len(u), ss[k])
    <3> HIDE DEF u
    <3> QED
      BY <2>3, AgreeingParts
  <2> QED
    BY <2>4 DEF StartOf
<1>4. ASSUME NEW d \in Nat, d \in Good PROVE d + 1 \in Good
  <2> HIDE DEF f
  <2>1. SUFFICES ASSUME d + 1 <= n PROVE Agrees(o, pos, f(n - (d + 1)))
    OBVIOUS
  <2>2. Agrees(o, pos, f(n - d)) /\ n - d \in 1..n /\ (n - d) - 1 = n - (d + 1)
    BY <1>1, <1>4, <2>1
  <2> QED
    BY <1>3, <2>2
<1>5. Nat \subseteq Good
  <2> HIDE DEF Good
  <2> QED
    BY <1>2, <1>4, Counting
<1>6. TAKE k \in 1..Len(ss)
<1>7. n - k \in Nat /\ n - k <= n /\ n - (n - k) = k
  BY <1>1
<1>8. Agrees(o, pos, f(k))
  <2>1. n - k \in Good
    <3> HIDE DEF Good
    <3> QED
      BY <1>5, <1>7
  <2> HIDE DEF f
  <2> QED
    BY <1>7, <2>1
<1> QED
  BY <1>3, <1>8
-----------------------------------------------------------------------------
(* Reading partitions.                                                     *)

LEMMA PartitionCut ==
  ASSUME NEW o, NEW pos, NEW n, Len(o) < pos + n + Padding(n)
  PROVE  Partition(o, pos, n) = [args |-> <<>>, at |-> pos, cut |-> TRUE, more |-> FALSE]
BY DEF Partition, CutAt

LEMMA LengthCut ==
  ASSUME NEW o, NEW pos, Len(o) < pos + 2
  PROVE  LongPartition(o, pos) = CutAt(pos)
BY DEF LongPartition

\* A reading that the end of the file has cut short, and that no other follows.
Short(r) == r.cut /\ ~r.more

LEMMA NotContinued ==
  ASSUME NEW y, NEW z, ~z, NEW r,
         r = [[args |-> <<>>, at |-> y, cut |-> TRUE, more |-> FALSE] EXCEPT !.more = z]
  PROVE  Short(r)
BY DEF Short

LEMMA CutNotContinued ==
  ASSUME NEW k, NEW r, r.cut
  PROVE  ~(k >= 32768 /\ ~r.cut)
OBVIOUS

LEMMA RestCut ==
  ASSUME NEW o, NEW pos, ~(Len(o) < pos + 2), NEW n, Word(o, pos + 1) % 32768 = n,
         NEW p, p = Partition(o, pos + 2, n), NEW q, p = [args |-> <<>>, at |-> q, cut |-> TRUE, more |-> FALSE]
  PROVE  Short(LongPartition(o, pos))
<1> DEFINE k == Word(o, pos + 1)
           z == k >= 32768 /\ ~p.cut
<1>1. LongPartition(o, pos) = [p EXCEPT !.more = z]
  BY DEF LongPartition
<1>2. p.cut
  OBVIOUS
<1>3. ~z
  BY <1>2, CutNotContinued
<1> HIDE DEF z
<1>4. LongPartition(o, pos) =
        [[args |-> <<>>, at |-> q, cut |-> TRUE, more |-> FALSE] EXCEPT !.more = z]
  BY <1>1
<1> QED
  BY <1>3, <1>4, NotContinued

\* The octets a of a partition, with its word and its padding, stand at `pos`.
HasPartition(o, pos, a, top) == Agrees(o, pos, WordOctets(Len(a) + top) \o a \o Pad(Len(a)))

\* The word w in front of the octets s.
HasWord(o, pos, w, s) ==
  Agrees(o, pos, w) /\ (pos + 2 + Len(s) <= Len(o) => Holds(o, pos, w \o s))

LEMMA WordAndRest ==
  ASSUME NEW o \in Seq(Octet), NEW pos \in Nat, NEW w \in Seq(Octet), Len(w) = 2, NEW s \in Seq(Octet),
         Agrees(o, pos, w \o s)
  PROVE  HasWord(o, pos, w, s)
<1>1. Len(o) \in Nat /\ Len(s) \in Nat
  BY LenProperties
<1>2. w \o s \in Seq(Octet) /\ Len(w \o s) = Len(w) + Len(s)
  BY ConcatProperties
<1>3. Agrees(o, pos, w)
  BY <1>1, AgreeingParts
<1>4. ASSUME pos + 2 + Len(s) <= Len(o) PROVE Holds(o, pos, w \o s)
  <2>1. Len(w \o s) \in Nat /\ pos + Len(w \o s) <= Len(o)
    BY <1>1, <1>2, <1>4
  <2> QED
    BY <1>1, <2>1, AgreesHolds
<1> QED
  BY <1>3, <1>4 DEF HasWord

\* a with the padding p.
IsPadded(s, a, p) ==
  s \in Seq(Octet) /\ s = a \o p /\ Len(s) = Len(a) + Padding(Len(a)) /\ p = Pad(Len(a)) /\ p \in Seq(Octet)

LEMMA Padded ==
  ASSUME NEW a \in Seq(Octet)
  PROVE  IsPadded(a \o Pad(Len(a)), a, Pad(Len(a)))
<1> DEFINE n == Len(a)
           p == Pad(n)
<1>1. n \in Nat
  BY LenProperties
<1>2. p \in Seq(Octet) /\ Len(p) = Padding(n)
  BY <1>1, PadType
<1> HIDE DEF p
<1>3. a \o p \in Seq(Octet) /\ Len(a \o p) = Len(a) + Len(p)
  BY <1>2, ConcatProperties
<1> DEFINE s == a \o p
<1>4. s \in Seq(Octet) /\ s = a \o p /\ Len(s) = Len(a) + Padding(n) /\ p = Pad(n) /\ p \in Seq(Octet)
  BY <1>2, <1>3 DEF p
<1> HIDE DEF s
<1>5. IsPadded(s, a, p)
  BY <1>4 DEF IsPadded
<1> QED
  BY <1>5 DEF s, p

\* The word k stands in front of a and its padding.
FoundAs(o, pos, a, k, w, s, p) ==
  /\ w = WordOctets(k) /\ IsPadded(s, a, p) /\ HasWord(o, pos, w, s)
  /\ w \o s = w \o a \o p

LEMMA PartitionWord ==
  ASSUME NEW o \in Seq(Octet), NEW pos \in Nat, NEW a \in Seq(Octet), NEW top \in TopBits,
         NEW k \in Nat, IsLengthWord(k, Len(a), top), HasPartition(o, pos, a, top)
  PROVE  FoundAs(o, pos, a, k, WordOctets(k), a \o Pad(Len(a)), Pad(Len(a)))
<1> DEFINE w == WordOctets(k)
           p == Pad(Len(a))
           s == a \o p
<1>3. w \in Seq(Octet) /\ Len(w) = 2
  BY WordRoundTrip DEF IsLengthWord
<1>4. IsPadded(s, a, p)
  BY Padded
<1>5. Agrees(o, pos, w \o a \o p)
  BY DEF HasPartition, IsLengthWord
<1> HIDE DEF w, p
<1>6. w \o a \o p = w \o s
  <2>1. p \in Seq(Octet)
    BY <1>4 DEF IsPadded
  <2> QED
    BY <1>3, <2>1, Behind, SMTT(30)
<1>7. Agrees(o, pos, w \o s)
  BY <1>5, <1>6
<1> HIDE DEF s
<1>8. s \in Seq(Octet)
  BY <1>4 DEF IsPadded
<1>9. HasWord(o, pos, w, s)
  BY <1>3, <1>7, <1>8, WordAndRest
<1>10. FoundAs(o, pos, a, k, w, s, p)
  BY <1>4, <1>6, <1>9 DEF FoundAs, w
<1> QED
  BY <1>10 DEF w, s, p

LEMMA WordFound ==
  ASSUME NEW o \in Seq(Octet), NEW pos \in Nat, NEW k \in Nat, k < 65536, NEW s,
         HasWord(o, pos, WordOctets(k), s), pos + 2 <= Len(o)
  PROVE  Word(o, pos + 1) = k
<1>1. PICK w \in Seq(Octet) : w = WordOctets(k) /\ Len(w) = 2
  BY WordRoundTrip
<1>2. Agrees(o, pos, w) /\ Len(o) \in Nat /\ pos + Len(w) <= Len(o) /\ Len(w) \in Nat
  BY <1>1, LenProperties DEF HasWord
<1>3. Holds(o, pos, w)
  BY <1>2, AgreesHolds
<1> QED
  BY <1>1, <1>3, WordHeld

\* A partition that is in the file whole is read as it stands, and one that the end of
\* the file cuts off is known to be cut off.
LEMMA LongPartitionRead ==
  ASSUME NEW o \in Seq(Octet), NEW pos \in Nat, NEW a \in Seq(Octet), NEW top \in TopBits,
         Len(a) < 32768, HasPartition(o, pos, a, top), NEW e, e = pos + 2 + Len(a) + Padding(Len(a))
  PROVE  /\ e <= Len(o) => IsRead(LongPartition(o, pos), a, e, top)
         /\ ~(e <= Len(o)) => Short(LongPartition(o, pos))
<1>1. PICK n \in Nat, x \in {0, 1} : n = Len(a) /\ x = Padding(n)
  BY LenProperties, PadType
<1>2. Len(o) \in Nat
  BY LenProperties
<1>3. PICK k \in Nat : IsLengthWord(k, n, top)
  BY <1>1, LengthWords
<1>8. FoundAs(o, pos, a, k, WordOctets(k), a \o Pad(Len(a)), Pad(Len(a)))
  BY <1>1, <1>3, PartitionWord
<1>9. PICK w, s, p : FoundAs(o, pos, a, k, w, s, p)
  BY <1>8
<1>4. e \in Nat /\ e = pos + 2 + (n + x)
  BY <1>1
<1>5. k < 65536 /\ k % 32768 = n
  BY <1>3 DEF IsLengthWord
<1>10. Len(s) = n + x /\ HasWord(o, pos, w, s)
  BY <1>1, <1>9 DEF FoundAs, IsPadded
<1>6. ASSUME e <= Len(o)
      PROVE  IsRead(LongPartition(o, pos), a, e, top)
  <2>1. Holds(o, pos, w \o s)
    <3>1. pos + 2 + Len(s) <= Len(o)
      BY <1>1, <1>4, <1>6, <1>10
    <3> QED
      BY <1>10, <3>1 DEF HasWord
  <2>2. Holds(o, pos, w \o a \o p)
    BY <1>9, <2>1 DEF FoundAs
  <2>3. w = WordOctets(k) /\ p = Pad(Len(a))
    BY <1>9 DEF FoundAs, IsPadded
  <2>4. Holds(o, pos, WordOctets(k) \o a \o Pad(Len(a)))
    BY <2>2, <2>3
  <2>5. IsRead(LongPartition(o, pos), a, pos + 2 + Len(a) + Padding(Len(a)), top)
    BY <1>1, <1>3, <2>4, LongPartitionHeld
  <2> QED
    BY <2>5
<1>7. ASSUME ~(e <= Len(o)) PROVE Short(LongPartition(o, pos))
  <2>1. CASE Len(o) < pos + 2
    <3>1. LongPartition(o, pos) = CutAt(pos)
      BY <2>1, LengthCut
    <3> QED
      BY <3>1 DEF CutAt, Short
  <2>2. CASE ~(Len(o) < pos + 2)
    <3>1. Word(o, pos + 1) = k
      <4>1. pos + 2 <= Len(o)
        BY <1>2, <2>2
      <4>2. HasWord(o, pos, WordOctets(k), s)
        BY <1>9, <1>10 DEF FoundAs
      <4> QED
        BY <1>5, <4>1, <4>2, WordFound
    <3>2. PICK q \in Nat : q = pos + 2
      OBVIOUS
    <3>3. Len(o) < q + n + Padding(n)
      BY <1>1, <1>2, <1>4, <1>7, <3>2
    <3>4. PICK r : r = Partition(o, q, n) /\ r = [args |-> <<>>, at |-> q, cut |-> TRUE, more |-> FALSE]
      BY <3>3, PartitionCut
    <3>5. Word(o, pos + 1) % 32768 = n /\ r = Partition(o, pos + 2, n)
      BY <1>5, <3>1, <3>2, <3>4
    <3> QED
      BY <2>2, <3>4, <3>5, RestCut
  <2> QED
    BY <2>1, <2>2
<1> QED
  BY <1>6, <1>7

LEMMA OctetNatural == ASSUME NEW x \in Octet PROVE x \in Nat
BY DEF Octet

\* What reading a partition may give.
PartitionReadings == [args : Seq(Octet), at : Nat, cut : BOOLEAN, more : BOOLEAN]

LEMMA LongPartitionType ==
  ASSUME NEW o \in Seq(Octet), NEW pos \in Nat
  PROVE  LongPartition(o, pos) \in PartitionReadings
<1>1. Len(o) \in Nat /\ \A i \in 1..Len(o) : o[i] \in Octet
  BY LenProperties, ElementOfSeq
<1>2. ASSUME NEW p \in Nat PROVE CutAt(p) \in PartitionReadings /\ CutAt(p).cut = TRUE
  <2>1. <<>> \in Seq(Octet)
    BY EmptySeq
  <2> QED
    BY <2>1 DEF CutAt, PartitionReadings
<1>3. CASE Len(o) < pos + 2
  <2>1. LongPartition(o, pos) = CutAt(pos)
    BY <1>3, LengthCut
  <2> QED
    BY <1>2, <2>1
<1>4. CASE ~(Len(o) < pos + 2)
  <2> DEFINE w == Word(o, pos + 1)
             n == w % 32768
             q == pos + 2
             p == Partition(o, q, n)
  <2>1. w \in Nat
    <3>1. pos + 1 \in 1..Len(o) /\ (pos + 1) + 1 \in 1..Len(o)
      BY <1>1, <1>4
    <3>2. o[pos + 1] \in Octet /\ o[(pos + 1) + 1] \in Octet
      BY <1>1, <3>1
    <3>5. o[pos + 1] \in Nat /\ o[(pos + 1) + 1] \in Nat
      BY <3>2, OctetNatural
    <3>3. PICK x \in Nat, y \in Nat : x = o[pos + 1] /\ y = o[(pos + 1) + 1]
      BY <3>5
    <3>4. Word(o, pos + 1) = x * 256 + y
      BY <3>3 DEF Word
    <3> QED
      BY <3>3, <3>4
  <2> HIDE DEF w
  <2>2. n \in Nat /\ q \in Nat
    BY <2>1
  <2> HIDE DEF n, q
  <2>3. Padding(n) \in {0, 1}
    BY <2>2, PadType
  <2>4. p \in PartitionReadings
    <3>1. CASE Len(o) < q + n + Padding(n)
      BY <1>2, <2>2, <3>1 DEF Partition
    <3>2. CASE ~(Len(o) < q + n + Padding(n))
      <4> DEFINE s == SubSeq(o, q + 1, q + n)
      <4>1. \A i \in q + 1 .. q + n : i \in 1..Len(o)
        BY <1>1, <2>2, <2>3, <3>2
      <4>2. \A i \in q + 1 .. q + n : o[i] \in Octet
        BY <1>1, <4>1
      <4>3. s \in Seq(Octet)
        BY <2>2, <4>2, SubSeqProperties
      <4>4. q + n + Padding(n) \in Nat
        BY <2>2, <2>3
      <4>5. p = [args |-> s, at |-> q + n + Padding(n), cut |-> FALSE, more |-> FALSE]
        BY <3>2 DEF Partition
      <4> HIDE DEF s, p
      <4> QED
        BY <4>3, <4>4, <4>5 DEF PartitionReadings
    <3> QED
      BY <3>1, <3>2
  <2> HIDE DEF p
  <2> DEFINE b == w >= 32768 /\ ~p.cut
  <2>5. LongPartition(o, pos) = [p EXCEPT !.more = b]
    BY <1>4 DEF LongPartition, p, q, n, w
  <2>6. b \in BOOLEAN
    OBVIOUS
  <2> HIDE DEF b
  <2> QED
    BY <2>4, <2>5, <2>6 DEF PartitionReadings
<1> QED
  BY <1>3, <1>4

\* The readings f of the partitions from `start` on, each behind the one before it.
Reads(f, o, start) ==
  f = [i \in 0 .. Len(o) |-> LongPartition(o, IF i = 0 THEN start ELSE f[i - 1].at)]

LEMMA ReadsExists ==
  ASSUME NEW o \in Seq(Octet), NEW start \in Nat
  PROVE  \E f : Reads(f, o, start)
<1> DEFINE n == Len(o)
           R(pos) == LongPartition(o, pos)
           Is(f, k) == /\ f \in [0..k -> PartitionReadings]
                       /\ \A i \in 0..k : f[i] = R(IF i = 0 THEN start ELSE f[i - 1].at)
           Good == {k \in Nat : \E f : Is(f, k)}
<1>1. n \in Nat /\ \A pos \in Nat : R(pos) \in PartitionReadings
  BY LenProperties, LongPartitionType
<1>8. \A r \in PartitionReadings : r.at \in Nat
  BY DEF PartitionReadings
<1> HIDE DEF R
<1>2. 0 \in Good
  <2> DEFINE h == [i \in 0..0 |-> R(start)]
  <2>1. \A i \in 0..0 : i = 0
    OBVIOUS
  <2>2. h \in [0..0 -> PartitionReadings] /\ \A i \in 0..0 : h[i] = R(IF i = 0 THEN start ELSE h[i - 1].at)
    BY <1>1, <2>1
  <2>3. Is(h, 0)
    <3> HIDE DEF h
    <3> QED
      BY <2>2
  <2> HIDE DEF h, Is
  <2> QED
    BY <2>3
<1>3. ASSUME NEW k \in Nat, k \in Good PROVE k + 1 \in Good
  <2>1. PICK f : Is(f, k)
    BY <1>3
  <2> DEFINE v == R(f[k].at)
             h == [i \in 0..k + 1 |-> IF i = k + 1 THEN v ELSE f[i]]
  <2>2. k \in 0..k /\ f[k] \in PartitionReadings
    BY <2>1
  <2>3. v \in PartitionReadings
    BY <1>1, <1>8, <2>2
  <2> HIDE DEF v
  <2>4. h \in [0..k + 1 -> PartitionReadings]
    BY <2>1, <2>3
  <2>5. \A i \in 0..k + 1 : h[i] = R(IF i = 0 THEN start ELSE h[i - 1].at)
    <3> SUFFICES ASSUME NEW i \in 0..k + 1 PROVE h[i] = R(IF i = 0 THEN start ELSE h[i - 1].at)
      OBVIOUS
    <3>1. CASE i = k + 1
      <4>1. i # 0 /\ i - 1 = k /\ k \in 0..k + 1 /\ k # k + 1
        BY <3>1
      <4>2. h[k] = f[k] /\ h[i] = v
        BY <3>1, <4>1
      <4> HIDE DEF h
      <4> QED
        BY <4>1, <4>2 DEF v
    <3>2. CASE i # k + 1
      <4>1. i \in 0..k /\ (i # 0 => i - 1 \in 0..k + 1 /\ i - 1 # k + 1)
        BY <3>2
      <4>2. h[i] = f[i] /\ (i # 0 => h[i - 1] = f[i - 1])
        BY <3>2, <4>1
      <4>3. f[i] = R(IF i = 0 THEN start ELSE f[i - 1].at)
        BY <2>1, <4>1
      <4> HIDE DEF h
      <4> QED
        BY <4>2, <4>3
    <3> QED
      BY <3>1, <3>2
  <2>6. Is(h, k + 1)
    <3> HIDE DEF h
    <3> QED
      BY <2>4, <2>5
  <2> HIDE DEF Is, h
  <2> QED
    BY <2>6
<1>4. n \in Good
  <2> HIDE DEF Good
  <2> QED
    BY <1>1, <1>2, <1>3, Counting
<1>5. PICK f : Is(f, n)
  BY <1>4
<1>6. Reads(f, o, start)
  BY <1>5 DEF Reads, R
<1> QED
  BY <1>6

\* The last of the partitions is found: the first that no other follows.
IsLast(f, m, n) == m \in 0..n /\ ~f[m].more /\ \A j \in 0 .. m - 1 : f[j].more

LEMMA LastFound ==
  ASSUME NEW n \in Nat, NEW f, NEW m, IsLast(f, m, n)
  PROVE  (CHOOSE i \in 0..n : ~f[i].more /\ \A j \in 0 .. i - 1 : f[j].more) = m
<1> DEFINE P(i) == ~f[i].more /\ \A j \in 0 .. i - 1 : f[j].more
           c == CHOOSE i \in 0..n : P(i)
<1>1. m \in 0..n /\ P(m)
  BY DEF IsLast
<1>2. c \in 0..n /\ P(c)
  <2> HIDE DEF P
  <2> QED
    BY <1>1
<1> HIDE DEF c
<1>3. ~(c < m)
  <2> SUFFICES ASSUME c < m PROVE FALSE
    OBVIOUS
  <2>1. c \in 0 .. m - 1
    BY <1>1, <1>2
  <2> QED
    BY <1>1, <1>2, <2>1
<1>4. ~(m < c)
  <2> SUFFICES ASSUME m < c PROVE FALSE
    OBVIOUS
  <2>1. m \in 0 .. c - 1
    BY <1>1, <1>2
  <2> QED
    BY <1>1, <1>2, <2>1
<1>5. c = m
  BY <1>1, <1>2, <1>3, <1>4
<1> QED
  BY <1>5 DEF c

\* What LongArguments gives: the arguments of the partitions f up to m, put together.
UpToLast(f, m) == [f[m] EXCEPT !.args = FlattenSeq([i \in 1 .. m + 1 |-> f[i - 1].args])]

LEMMA LongArgumentsRead ==
  ASSUME NEW o \in Seq(Octet), NEW start \in Nat
  PROVE  \E f : /\ Reads(f, o, start)
                /\ \A m : IsLast(f, m, Len(o)) => LongArguments(o, start) = UpToLast(f, m)
<1> DEFINE n == Len(o)
           f == CHOOSE g : Reads(g, o, start)
           last == CHOOSE i \in 0..n : ~f[i].more /\ \A j \in 0 .. i - 1 : f[j].more
<1>1. n \in Nat
  BY LenProperties
<1>2. Reads(f, o, start)
  BY ReadsExists
<1>3. LongArguments(o, start) = [f[last] EXCEPT !.args = FlattenSeq([i \in 1 .. last + 1 |-> f[i - 1].args])]
  BY DEF LongArguments, Reads
<1> HIDE DEF f
<1>4. ASSUME NEW m, IsLast(f, m, n) PROVE LongArguments(o, start) = UpToLast(f, m)
  <2>1. last = m
    BY <1>1, <1>4, LastFound
  <2> HIDE DEF last
  <2> QED
    BY <1>3, <2>1 DEF UpToLast
<1> QED
  BY <1>2, <1>4

-----------------------------------------------------------------------------
(* Partitions one behind the other.                                        *)

\* Octets that fit the partitions they are given.
FitsPartitions(parts) ==
  parts \in Seq(Seq(Octet)) /\ parts # <<>> /\ \A i \in 1..Len(parts) : Len(parts[i]) < 32768

\* The top bit of the length word of partition k of n.
TopBit(k, n) == IF k < n THEN 32768 ELSE 0

\* Partition k of `parts` stands in o between s[k - 1] and s[k].
LaidOut(s, o, start, parts) ==
  /\ s \in [0..Len(parts) -> Nat] /\ s[0] = start
  /\ \A k \in 1..Len(parts) :
       /\ s[k] = s[k - 1] + 2 + Len(parts[k]) + Padding(Len(parts[k]))
       /\ HasPartition(o, s[k - 1], parts[k], TopBit(k, Len(parts)))
  /\ \A k \in 0..Len(parts) : s[k] >= 2 * k
  /\ \A k \in 0..Len(parts) : \A m \in 0..Len(parts) : k <= m => s[k] <= s[m]

LEMMA ThreeTogether ==
  ASSUME NEW S, NEW u \in Seq(S), NEW v \in Seq(S), NEW w \in Seq(S)
  PROVE  (u \o v) \o w \in Seq(S) /\ Len((u \o v) \o w) = Len(u) + Len(v) + Len(w)
<1>1. u \o v \in Seq(S) /\ Len(u \o v) = Len(u) + Len(v)
  BY ConcatProperties
<1> DEFINE x == u \o v
<1>2. x \in Seq(S) /\ Len(x) = Len(u) + Len(v)
  BY <1>1
<1> HIDE DEF x
<1>3. x \o w \in Seq(S) /\ Len(x \o w) = Len(x) + Len(w)
  BY <1>2, ConcatProperties
<1> QED
  BY <1>2, <1>3 DEF x

LEMMA PartitionOctetsType ==
  ASSUME NEW parts, FitsPartitions(parts)
  PROVE  \A i \in 1..Len(parts) :
           /\ PartitionOctets(parts, i) \in Seq(Octet)
           /\ Len(PartitionOctets(parts, i)) = 2 + Len(parts[i]) + Padding(Len(parts[i]))
           /\ PartitionOctets(parts, i) =
                WordOctets(Len(parts[i]) + TopBit(i, Len(parts))) \o parts[i] \o Pad(Len(parts[i]))
<1> SUFFICES ASSUME NEW i \in 1..Len(parts)
             PROVE  /\ PartitionOctets(parts, i) \in Seq(Octet)
                    /\ Len(PartitionOctets(parts, i)) = 2 + Len(parts[i]) + Padding(Len(parts[i]))
                    /\ PartitionOctets(parts, i) =
                         WordOctets(Len(parts[i]) + TopBit(i, Len(parts))) \o parts[i] \o Pad(Len(parts[i]))
  OBVIOUS
<1>1. PICK a \in Seq(Octet), n \in Nat : a = parts[i] /\ n = Len(a) /\ n < 32768
  BY LenProperties, ElementOfSeq DEF FitsPartitions
<1>2. PICK k \in Nat : k = n + TopBit(i, Len(parts)) /\ k < 65536
  <2>1. TopBit(i, Len(parts)) \in TopBits
    BY DEF TopBit, TopBits
  <2>2. PICK top \in TopBits : top = TopBit(i, Len(parts))
    BY <2>1
  <2>3. n + top \in Nat /\ n + top < 65536
    BY <1>1 DEF TopBits
  <2> QED
    BY <2>2, <2>3
<1>3. PICK w \in Seq(Octet) : w = WordOctets(k) /\ Len(w) = 2
  BY <1>2, WordRoundTrip
<1>4. PICK p \in Seq(Octet) : p = Pad(n) /\ Len(p) = Padding(n)
  BY PadType
<1>5. PartitionOctets(parts, i) =
        WordOctets(Len(parts[i]) + TopBit(i, Len(parts))) \o parts[i] \o Pad(Len(parts[i]))
  BY DEF PartitionOctets, TopBit
<1>6. PartitionOctets(parts, i) = (w \o a) \o p
  BY <1>1, <1>2, <1>3, <1>4, <1>5
<1>7. (w \o a) \o p \in Seq(Octet) /\ Len((w \o a) \o p) = Len(w) + Len(a) + Len(p)
  BY ThreeTogether
<1>8. PartitionOctets(parts, i) \in Seq(Octet) /\ Len(PartitionOctets(parts, i)) = Len(w) + Len(a) + Len(p)
  BY <1>6, <1>7
<1>9. Len(PartitionOctets(parts, i)) = 2 + n + Padding(n)
  BY <1>1, <1>3, <1>4, <1>8
<1>10. Len(PartitionOctets(parts, i)) = 2 + Len(parts[i]) + Padding(Len(parts[i]))
  BY <1>1, <1>9
<1> QED
  BY <1>5, <1>8, <1>10, Zenon

LEMMA PartitionedLaidOut ==
  ASSUME NEW o \in Seq(Octet), NEW start \in Nat, NEW parts, FitsPartitions(parts),
         Agrees(o, start, Partitioned(parts))
  PROVE  /\ Partitioned(parts) \in Seq(Octet)
         /\ \E s : LaidOut(s, o, start, parts) /\ s[Len(parts)] = start + Len(Partitioned(parts))
<1> DEFINE n == Len(parts)
           ss == [i \in DOMAIN parts |-> PartitionOctets(parts, i)]
           s == [k \in 0..n |-> start + StartOf(ss, k)]
<1>1. n \in Nat /\ DOMAIN parts = 1..n /\ Len(o) \in Nat
  BY LenProperties DEF FitsPartitions
<1>2. ss \in Seq(Seq(Octet)) /\ Len(ss) = n /\ \A k \in 1..n : ss[k] = PartitionOctets(parts, k)
  <2>1. \A k \in 1..n : PartitionOctets(parts, k) \in Seq(Octet)
    BY PartitionOctetsType
  <2> QED
    BY <1>1, <2>1, IsASeq, LenProperties
<1>3. Partitioned(parts) = FlattenSeq(ss)
  BY DEF Partitioned
<1> HIDE DEF ss
<1>4. \A k \in 1..n : Len(parts[k]) \in Nat /\ Padding(Len(parts[k])) \in {0, 1}
  <2> TAKE k \in 1..n
  <2>1. PICK m \in Nat : m = Len(parts[k])
    BY LenProperties, ElementOfSeq DEF FitsPartitions
  <2> QED
    BY <2>1, PadType
<1>5. \A k \in 1..n : Len(ss[k]) = 2 + Len(parts[k]) + Padding(Len(parts[k]))
  BY <1>2, PartitionOctetsType
<1>6. \A k \in 1..n : Len(ss[k]) >= 2
  <2> TAKE k \in 1..n
  <2>1. PICK x \in Nat, y \in {0, 1} : Len(ss[k]) = 2 + x + y
    BY <1>4, <1>5
  <2> QED
    BY <2>1
<1>7. StartsOf(ss, n, 2)
  BY <1>1, <1>2, <1>6, Starts
<1>8. \A k \in 1..n : Agrees(o, start + StartOf(ss, k - 1), ss[k])
  BY <1>1, <1>2, <1>3, FlattenedAgrees
<1>9. \A k \in 0..n : s[k] = start + StartOf(ss, k) /\ s[k] \in Nat /\ StartOf(ss, k) \in Nat
  BY <1>7 DEF StartsOf
<1>10. s \in [0..n -> Nat] /\ s[0] = start
  BY <1>1, <1>9, <1>7 DEF StartsOf
<1> HIDE DEF s
<1>11. ASSUME NEW k \in 1..n
       PROVE  /\ s[k] = s[k - 1] + 2 + Len(parts[k]) + Padding(Len(parts[k]))
              /\ HasPartition(o, s[k - 1], parts[k], TopBit(k, n))
  <2>1. k - 1 \in 0..n /\ k \in 0..n
    BY <1>1
  <2>2. StartOf(ss, k) = StartOf(ss, k - 1) + Len(ss[k])
    BY <1>7 DEF StartsOf
  <2>3. s[k] = s[k - 1] + 2 + Len(parts[k]) + Padding(Len(parts[k]))
    <3>1. PICK x \in Nat, y \in {0, 1} : x = Len(parts[k]) /\ y = Padding(Len(parts[k]))
      BY <1>4
    <3>2. Len(ss[k]) = 2 + x + y
      BY <1>5, <3>1
    <3>3. s[k] = s[k - 1] + (2 + x + y) /\ s[k - 1] \in Nat
      BY <1>9, <2>1, <2>2, <3>2
    <3>4. s[k] = s[k - 1] + 2 + x + y
      BY <3>3
    <3> QED
      BY <3>1, <3>4
  <2>4. Agrees(o, s[k - 1], ss[k])
    BY <1>8, <1>9, <2>1
  <2>5. ss[k] = WordOctets(Len(parts[k]) + TopBit(k, n)) \o parts[k] \o Pad(Len(parts[k]))
    BY <1>2, PartitionOctetsType
  <2>6. HasPartition(o, s[k - 1], parts[k], TopBit(k, n))
    BY <2>4, <2>5 DEF HasPartition
  <2> QED
    BY <2>3, <2>6
<1>12. \A k \in 0..n : s[k] >= 2 * k
  BY <1>7, <1>9 DEF StartsOf
<1>13. \A k \in 0..n : \A m \in 0..n : k <= m => s[k] <= s[m]
  <2> TAKE k \in 0..n
  <2> TAKE m \in 0..n
  <2> HAVE k <= m
  <2>1. StartOf(ss, k) <= StartOf(ss, m)
    BY <1>7 DEF StartsOf
  <2> QED
    BY <1>9, <2>1
<1>14. LaidOut(s, o, start, parts)
  BY <1>10, <1>11, <1>12, <1>13 DEF LaidOut
<1>15. FlattenSeq(ss) \in Seq(Octet) /\ s[n] = start + Len(FlattenSeq(ss))
  <2>1. UpTo(ss, n) = ss
    BY <1>2, UpToAll
  <2>2. n \in 0..n
    BY <1>1
  <2> QED
    BY <1>2, <1>9, <2>1, <2>2, FlattenType DEF StartOf
<1> QED
  BY <1>3, <1>14, <1>15

\* f[k] is the partition k + 1, of n, that lies between s[k] and s[k + 1].
ReadAt(f, k, o, parts, s) ==
  /\ f[k] \in PartitionReadings
  /\ s[k + 1] <= Len(o) => IsRead(f[k], parts[k + 1], s[k + 1], TopBit(k + 1, Len(parts)))
  /\ ~(s[k + 1] <= Len(o)) => Short(f[k])

LEMMA ReadFromStart ==
  ASSUME NEW o \in Seq(Octet), NEW start \in Nat, NEW parts, FitsPartitions(parts),
         NEW s, LaidOut(s, o, start, parts), NEW f, NEW k \in Nat, k < Len(parts), f[k] = LongPartition(o, s[k])
  PROVE  ReadAt(f, k, o, parts, s)
<1>1. k + 1 \in 1..Len(parts) /\ (k + 1) - 1 = k /\ k \in 0..Len(parts)
  BY LenProperties DEF FitsPartitions
<1>2. PICK a \in Seq(Octet) : a = parts[k + 1] /\ Len(a) < 32768
  BY <1>1, ElementOfSeq DEF FitsPartitions
<1>3. PICK pos \in Nat : pos = s[k]
  BY <1>1 DEF LaidOut
<1>4. PICK top \in TopBits : top = TopBit(k + 1, Len(parts))
  BY DEF TopBit, TopBits
<1>5. /\ s[k + 1] = s[(k + 1) - 1] + 2 + Len(parts[k + 1]) + Padding(Len(parts[k + 1]))
      /\ HasPartition(o, s[(k + 1) - 1], parts[k + 1], TopBit(k + 1, Len(parts)))
  BY <1>1 DEF LaidOut
<1>6. PICK e : e = s[k + 1]
  OBVIOUS
<1>7. e = pos + 2 + Len(a) + Padding(Len(a)) /\ HasPartition(o, pos, a, top)
  BY <1>1, <1>2, <1>3, <1>4, <1>5, <1>6
<1>8. /\ e <= Len(o) => IsRead(LongPartition(o, pos), a, e, top)
      /\ ~(e <= Len(o)) => Short(LongPartition(o, pos))
  <2>1. Len(a) < 32768
    BY <1>2
  <2>2. e = pos + 2 + Len(a) + Padding(Len(a))
    BY <1>7
  <2>3. HasPartition(o, pos, a, top)
    BY <1>7
  <2> QED
    BY <2>1, <2>2, <2>3, LongPartitionRead
<1>9. f[k] \in PartitionReadings
  BY <1>3, LongPartitionType
<1> QED
  BY <1>2, <1>3, <1>4, <1>6, <1>8, <1>9 DEF ReadAt

LEMMA PartitionsRead ==
  ASSUME NEW o \in Seq(Octet), NEW start \in Nat, NEW parts, FitsPartitions(parts),
         NEW s, LaidOut(s, o, start, parts), NEW f, Reads(f, o, start)
  PROVE  \A k \in Nat : k < Len(parts) /\ k <= Len(o) /\ s[k] <= Len(o) => ReadAt(f, k, o, parts, s)
<1> DEFINE n == Len(parts)
           Good == {k \in Nat : k < n /\ k <= Len(o) /\ s[k] <= Len(o) => ReadAt(f, k, o, parts, s)}
<1>1. n \in Nat /\ Len(o) \in Nat /\ s[0] = start
  BY LenProperties DEF FitsPartitions, LaidOut
<1>2. \A k \in 0..Len(o) : f[k] = LongPartition(o, IF k = 0 THEN start ELSE f[k - 1].at)
  BY DEF Reads
<1>3. 0 \in Good
  <2>1. 0 \in 0..Len(o) /\ 0 \in Nat
    BY <1>1
  <2>2. f[0] = LongPartition(o, s[0])
    BY <1>1, <1>2, <2>1
  <2> QED
    BY <2>1, <2>2, ReadFromStart
<1>4. ASSUME NEW k \in Nat, k \in Good PROVE k + 1 \in Good
  <2>1. SUFFICES ASSUME k + 1 < n, k + 1 <= Len(o), s[k + 1] <= Len(o) PROVE ReadAt(f, k + 1, o, parts, s)
    OBVIOUS
  <2>2. k < n /\ k <= Len(o) /\ k \in 0..n /\ k + 1 \in 0..n /\ k <= k + 1 /\ s[k] \in Nat /\ s[k + 1] \in Nat
    <3>1. k \in 0..n /\ k + 1 \in 0..n /\ k < n /\ k <= k + 1 /\ k <= Len(o)
      BY <1>1, <2>1
    <3>2. \A m \in 0..n : s[m] \in Nat
      BY DEF LaidOut
    <3> QED
      BY <3>1, <3>2
  <2>3. s[k] <= s[k + 1]
    BY <2>2 DEF LaidOut
  <2>4. s[k] <= Len(o)
    BY <1>1, <2>1, <2>2, <2>3
  <2>5. ReadAt(f, k, o, parts, s)
    BY <1>4, <2>2, <2>4
  <2>6. f[k].at = s[k + 1]
    BY <2>1, <2>5 DEF ReadAt, IsRead
  <2>7. k + 1 \in 0..Len(o) /\ k + 1 # 0 /\ (k + 1) - 1 = k /\ k + 1 \in Nat
    BY <1>1, <2>1
  <2>8. f[k + 1] = LongPartition(o, s[k + 1])
    BY <1>2, <2>6, <2>7
  <2> QED
    BY <2>1, <2>7, <2>8, ReadFromStart
<1>5. Nat \subseteq Good
  <2> HIDE DEF Good
  <2> QED
    BY <1>3, <1>4, Counting
<1> QED
  BY <1>5

\* The reading r ends at e, with the arguments a, unless o ends before.
Answers(r, a, e, o) ==
  /\ e <= Len(o) => r.args = a /\ r.at = e /\ ~r.cut
  /\ ~(e <= Len(o)) => r.cut

\* A reading whose arguments are replaced.
LEMMA ArgumentsReplaced ==
  ASSUME NEW r \in PartitionReadings, NEW a
  PROVE  /\ [r EXCEPT !.args = a].args = a /\ [r EXCEPT !.args = a].at = r.at
         /\ [r EXCEPT !.args = a].cut = r.cut
BY DEF PartitionReadings

\* What is known of the partitions in front of number m, which the file holds.
LEMMA PartitionsInFront ==
  ASSUME NEW o \in Seq(Octet), NEW start \in Nat, NEW parts, FitsPartitions(parts),
         NEW s, LaidOut(s, o, start, parts), NEW f, Reads(f, o, start),
         NEW m \in Nat, m < Len(parts), s[m] <= Len(o)
  PROVE  /\ m \in 0..Len(o) /\ ReadAt(f, m, o, parts, s)
         /\ \A j \in 0..m - 1 : IsRead(f[j], parts[j + 1], s[j + 1], 32768) /\ f[j].more
<1>1. PICK n \in Nat, l \in Nat : n = Len(parts) /\ l = Len(o)
  BY LenProperties DEF FitsPartitions
<1>2. ASSUME NEW j \in Nat, j <= m PROVE j \in 0..l /\ ReadAt(f, j, o, parts, s) /\ s[j] <= l
  <2>1. j \in 0..n /\ m \in 0..n /\ j < n
    BY <1>1, <1>2
  <2>2. s[j] \in Nat /\ s[m] \in Nat /\ s[j] <= s[m] /\ s[j] >= 2 * j
    BY <1>1, <1>2, <2>1 DEF LaidOut
  <2>3. s[j] <= l /\ j <= l
    BY <1>1, <2>2
  <2> QED
    BY <1>1, <2>1, <2>3, PartitionsRead
<1>3. ASSUME NEW j \in 0..m - 1
      PROVE  IsRead(f[j], parts[j + 1], s[j + 1], 32768) /\ f[j].more
  <2>1. j \in Nat /\ j <= m /\ j + 1 \in Nat /\ j + 1 <= m /\ j + 1 < n
    BY <1>1
  <2>2. ReadAt(f, j, o, parts, s) /\ s[j + 1] <= Len(o)
    BY <1>1, <1>2, <2>1
  <2>3. TopBit(j + 1, Len(parts)) = 32768
    BY <1>1, <2>1 DEF TopBit
  <2>4. IsRead(f[j], parts[j + 1], s[j + 1], 32768)
    BY <2>2, <2>3 DEF ReadAt
  <2> QED
    BY <2>4 DEF IsRead
<1> QED
  BY <1>1, <1>2, <1>3

\* Partitions are put together again, and are known to be cut off if they are.
LEMMA LongRead ==
  ASSUME NEW o \in Seq(Octet), NEW start \in Nat, start <= Len(o), NEW parts, FitsPartitions(parts),
         Agrees(o, start, Partitioned(parts))
  PROVE  Answers(LongArguments(o, start), FlattenSeq(parts), start + Len(Partitioned(parts)), o)
<1>1. PICK n \in Nat, l \in Nat : n = Len(parts) /\ l = Len(o) /\ n # 0
  BY LenProperties, EmptySeq DEF FitsPartitions
<1>2. PICK s : LaidOut(s, o, start, parts) /\ s[n] = start + Len(Partitioned(parts))
  BY <1>1, PartitionedLaidOut
<1>3. PICK f : /\ Reads(f, o, start)
               /\ \A m : IsLast(f, m, l) => LongArguments(o, start) = UpToLast(f, m)
  BY <1>1, LongArgumentsRead
<1>4. PICK e : e = s[n]
  OBVIOUS
<1>5. s[0] = start /\ \A k \in 0..n : s[k] \in Nat
  BY <1>1, <1>2 DEF LaidOut
<1>6. ASSUME e <= l
      PROVE  /\ LongArguments(o, start).args = FlattenSeq(parts)
             /\ LongArguments(o, start).at = e /\ ~LongArguments(o, start).cut
  <2>1. PICK m \in Nat : m = n - 1 /\ m < n /\ m + 1 = n /\ m \in 0..n
    <3>1. n - 1 \in Nat /\ n - 1 < n /\ (n - 1) + 1 = n /\ n - 1 \in 0..n
      BY <1>1
    <3> QED
      BY <3>1
  <2>2. s[m] <= l
    <3>1. n \in 0..n /\ m <= n
      BY <2>1
    <3>2. s[m] <= s[n] /\ s[m] \in Nat /\ s[n] \in Nat
      BY <1>1, <1>2, <2>1, <3>1 DEF LaidOut
    <3> QED
      BY <1>1, <1>4, <1>6, <3>2
  <2>3. /\ m \in 0..l /\ ReadAt(f, m, o, parts, s)
        /\ \A j \in 0..m - 1 : IsRead(f[j], parts[j + 1], s[j + 1], 32768) /\ f[j].more
    BY <1>1, <1>2, <1>3, <2>1, <2>2, PartitionsInFront
  <2>4. IsRead(f[m], parts[n], e, 0) /\ f[m] \in PartitionReadings
    <3>1. TopBit(m + 1, Len(parts)) = 0
      BY <1>1, <2>1 DEF TopBit
    <3>2. s[m + 1] <= Len(o)
      BY <1>1, <1>4, <1>6, <2>1
    <3> QED
      BY <1>4, <2>1, <2>3, <3>1, <3>2 DEF ReadAt
  <2>5. IsLast(f, m, l)
    BY <2>3, <2>4 DEF IsLast, IsRead
  <2>6. LongArguments(o, start) = UpToLast(f, m)
    BY <1>3, <2>5
  <2>7. [i \in 1 .. m + 1 |-> f[i - 1].args] = parts
    <3>1. parts = [i \in 1..n |-> parts[i]]
      BY <1>1, LenProperties DEF FitsPartitions
    <3>2. ASSUME NEW i \in 1..n PROVE f[i - 1].args = parts[i]
      <4>1. CASE i = n
        <5>1. i - 1 = m
          BY <2>1, <4>1
        <5> QED
          BY <2>4, <4>1, <5>1 DEF IsRead
      <4>2. CASE i # n
        <5>1. i - 1 \in 0..m - 1 /\ (i - 1) + 1 = i
          BY <1>1, <2>1, <4>2
        <5> QED
          BY <2>3, <5>1 DEF IsRead
      <4> QED
        BY <4>1, <4>2
    <3>3. [i \in 1..n |-> f[i - 1].args] = [i \in 1..n |-> parts[i]]
      BY <3>2
    <3> QED
      BY <2>1, <3>1, <3>3
  <2>8. LongArguments(o, start) = [f[m] EXCEPT !.args = FlattenSeq(parts)]
    BY <2>6, <2>7 DEF UpToLast
  <2>9. f[m].at = e /\ ~f[m].cut
    BY <2>4 DEF IsRead
  <2> QED
    BY <2>4, <2>8, <2>9, ArgumentsReplaced
<1>7. ASSUME ~(e <= l) PROVE LongArguments(o, start).cut
  <2> DEFINE Good == {k \in Nat : k <= n => s[k] <= l}
  <2>1. 0 \in Good
    BY <1>1, <1>5
  <2>2. n \notin Good
    BY <1>4, <1>7
  <2>3. PICK m \in Nat : m \in Good /\ m + 1 \notin Good
    <3> HIDE DEF Good
    <3> QED
      BY <1>1, <2>1, <2>2, Counting
  <2>4. m < n /\ s[m] <= l /\ ~(s[m + 1] <= l)
    BY <1>1, <2>3
  <2>5. /\ m \in 0..l /\ ReadAt(f, m, o, parts, s)
        /\ \A j \in 0..m - 1 : IsRead(f[j], parts[j + 1], s[j + 1], 32768) /\ f[j].more
    <3>1. m < Len(parts) /\ s[m] <= Len(o)
      BY <1>1, <2>4
    <3>2. LaidOut(s, o, start, parts) /\ Reads(f, o, start)
      BY <1>2, <1>3
    <3>3. /\ m \in 0..Len(o) /\ ReadAt(f, m, o, parts, s)
          /\ \A j \in 0..m - 1 : IsRead(f[j], parts[j + 1], s[j + 1], 32768) /\ f[j].more
      BY <3>1, <3>2, PartitionsInFront
    <3> QED
      BY <1>1, <3>3
  <2>6. f[m] \in PartitionReadings /\ Short(f[m])
    BY <1>1, <2>4, <2>5 DEF ReadAt
  <2>7. IsLast(f, m, l)
    BY <2>5, <2>6 DEF IsLast, Short
  <2>8. PICK a : LongArguments(o, start) = [f[m] EXCEPT !.args = a]
    BY <1>3, <2>7 DEF UpToLast
  <2> QED
    BY <2>6, <2>8, ArgumentsReplaced DEF Short
<1> QED
  BY <1>1, <1>2, <1>4, <1>6, <1>7 DEF Answers

-----------------------------------------------------------------------------
(* Frames.                                                                 *)

\* t is the header and s.
IsFramed(t, class, id, count, s) == t = Header(class, id, count) \o s

\* t is the word k, a header, and s.
HasHeader(t, k, class, id, count, s) ==
  /\ IsHeader(k, class, id, count)
  /\ t = WordOctets(k) \o s /\ t \in Seq(Octet) /\ Len(t) = 2 + Len(s)

\* What a header has room for.
IsCode(class, id) == class \in 0..15 /\ id \in 0..127

LEMMA HeaderLength ==
  ASSUME NEW class, NEW id, IsCode(class, id), NEW count \in Nat, count < 32, NEW s \in Seq(Octet),
         NEW t, IsFramed(t, class, id, count, s)
  PROVE  \E k \in Nat : HasHeader(t, k, class, id, count, s)
<1>1. PICK k \in Nat : IsHeader(k, class, id, count)
  <2>1. class \in 0..15 /\ id \in Nat /\ id < 128
    BY DEF IsCode
  <2> QED
    BY <2>1, HeaderWord
<1>2. k < 65536 /\ Header(class, id, count) = WordOctets(k)
  BY <1>1 DEF IsHeader
<1>3. PICK w \in Seq(Octet) : w = WordOctets(k) /\ Len(w) = 2
  BY <1>2, WordRoundTrip
<1>4. w \o s \in Seq(Octet) /\ Len(w \o s) = Len(w) + Len(s)
  <2>1. w \o s \in Seq(Octet)
    BY ConcatProperties
  <2>2. Len(w \o s) = Len(w) + Len(s)
    BY ConcatProperties
  <2> QED
    BY <2>1, <2>2
<1>5. t = w \o s
  BY <1>2, <1>3 DEF IsFramed
<1> QED
  BY <1>1, <1>3, <1>4, <1>5 DEF HasHeader

LEMMA HeaderAgrees ==
  ASSUME NEW o \in Seq(Octet), NEW pos \in Nat, NEW class, NEW id, IsCode(class, id),
         NEW count \in Nat, count < 32, NEW s \in Seq(Octet),
         NEW t, IsFramed(t, class, id, count, s), Agrees(o, pos, t)
  PROVE  /\ Agrees(o, pos + 2, s)
         /\ pos + 2 <= Len(o) => /\ ElementClass(Word(o, pos + 1)) = class
                                /\ ElementId(Word(o, pos + 1)) = id
                                /\ ArgumentCount(Word(o, pos + 1)) = count
<1>1. PICK k \in Nat : HasHeader(t, k, class, id, count, s)
  BY HeaderLength
<1>2. /\ k < 65536 /\ t = WordOctets(k) \o s
      /\ ElementClass(k) = class /\ ElementId(k) = id /\ ArgumentCount(k) = count
  BY <1>1 DEF IsHeader, HasHeader
<1>3. PICK w \in Seq(Octet) : w = WordOctets(k) /\ Len(w) = 2
  BY <1>2, WordRoundTrip
<1>5. Agrees(o, pos, w \o s) /\ Len(o) \in Nat
  BY <1>2, <1>3, LenProperties
<1>6. Agrees(o, pos, w) /\ Agrees(o, pos + Len(w), s)
  BY <1>5, AgreeingParts
<1>7. ASSUME pos + 2 <= Len(o) PROVE Word(o, pos + 1) = k
  <2>1. Holds(o, pos, w)
    <3>1. Len(w) \in Nat /\ pos + Len(w) <= Len(o)
      BY <1>3, <1>7
    <3> QED
      BY <1>5, <1>6, <3>1, AgreesHolds
  <2>2. Holds(o, pos, WordOctets(k)) /\ k < 65536
    BY <1>2, <1>3, <2>1
  <2> QED
    BY <2>2, WordHeld
<1> QED
  BY <1>2, <1>3, <1>6, <1>7

\* A short command's arguments are found, or are known to be cut off.
LEMMA ShortRead ==
  ASSUME NEW o \in Seq(Octet), NEW pos \in Nat, NEW a \in Seq(Octet), Len(a) < LongForm,
         Agrees(o, pos, a \o Pad(Len(a)))
  PROVE  Answers(Arguments(o, pos, Len(a)), a, pos + Len(a \o Pad(Len(a))), o)
<1>1. PICK n \in Nat, x \in {0, 1} : n = Len(a) /\ x = Padding(n) /\ n # LongForm
  BY LenProperties, PadType DEF LongForm
<1>2. PICK s : IsPadded(s, a, Pad(Len(a)))
  BY Padded
<1>3. s = a \o Pad(Len(a)) /\ Len(s) = n + x
  BY <1>1, <1>2 DEF IsPadded
<1>4. Len(o) \in Nat /\ Agrees(o, pos, s)
  BY <1>3, LenProperties
<1>5. PICK r : r = Arguments(o, pos, n) /\ r = Partition(o, pos, n)
  BY <1>1 DEF Arguments
<1>6. ASSUME pos + (n + x) <= Len(o) PROVE r.args = a /\ r.at = pos + (n + x) /\ ~r.cut
  <2>1. Holds(o, pos, s)
    <3>1. Len(s) \in Nat /\ pos + Len(s) <= Len(o)
      BY <1>1, <1>3, <1>6
    <3> QED
      BY <1>4, <3>1, AgreesHolds
  <2>2. Holds(o, pos, a \o Pad(Len(a)))
    BY <1>3, <2>1
  <2>3. Partition(o, pos, Len(a)) =
          [args |-> a, at |-> pos + Len(a) + Padding(Len(a)), cut |-> FALSE, more |-> FALSE]
    BY <2>2, PartitionHeld
  <2>4. r = [args |-> a, at |-> pos + n + x, cut |-> FALSE, more |-> FALSE]
    BY <1>1, <1>5, <2>3
  <2>5. pos + n + x = pos + (n + x)
    BY <1>1
  <2> QED
    BY <2>4, <2>5
<1>7. ASSUME ~(pos + (n + x) <= Len(o)) PROVE r.cut
  <2>1. Len(o) < pos + n + Padding(n)
    BY <1>1, <1>4, <1>7
  <2>2. r = [args |-> <<>>, at |-> pos, cut |-> TRUE, more |-> FALSE]
    BY <1>5, <2>1, PartitionCut
  <2> QED
    BY <2>2
<1>8. Answers(r, a, pos + (n + x), o)
  BY <1>6, <1>7 DEF Answers
<1> QED
  BY <1>1, <1>3, <1>5, <1>8

LEMMA FlattenOne ==
  ASSUME NEW S, NEW ss \in Seq(Seq(S)), Len(ss) = 1
  PROVE  FlattenSeq(ss) = ss[1]
<1>1. ss[1] \in Seq(S)
  BY ElementOfSeq
<1>2. PICK s \in Seq(S) : s = ss[1]
  BY <1>1
<1>3. <<>> \in Seq(Seq(S)) /\ <<>> \in Seq(S) /\ Len(<<>>) = 0
  BY EmptySeq
<1> DEFINE t == Append(<<>>, s)
<1>4. t \in Seq(Seq(S)) /\ Len(t) = 1 /\ t[1] = s
  BY <1>3, AppendProperties
<1>5. FlattenSeq(t) = <<>> \o s
  BY <1>3, FlattenAppend, FlattenEmpty
<1> HIDE DEF t
<1>6. t = ss
  BY <1>2, <1>4, SeqEqual
<1>7. <<>> \o s = s
  BY ConcatEmptySeq
<1> QED
  BY <1>2, <1>5, <1>6, <1>7

LEMMA HeaderType ==
  ASSUME NEW class, NEW id, IsCode(class, id), NEW count \in Nat, count < 32
  PROVE  Header(class, id, count) \in Seq(Octet)
<1>1. PICK k \in Nat : IsHeader(k, class, id, count)
  <2>1. class \in 0..15 /\ id \in Nat /\ id < 128
    BY DEF IsCode
  <2> QED
    BY <2>1, HeaderWord
<1>2. k < 65536 /\ Header(class, id, count) = WordOctets(k)
  BY <1>1 DEF IsHeader
<1> QED
  BY <1>2, WordRoundTrip

LEMMA PartitionedType ==
  ASSUME NEW parts, FitsPartitions(parts)
  PROVE  Partitioned(parts) \in Seq(Octet)
<1>1. parts \in Seq(Seq(Octet)) /\ DOMAIN parts = 1..Len(parts) /\ Len(parts) \in Nat
  BY LenProperties DEF FitsPartitions
<1> DEFINE ss == [i \in DOMAIN parts |-> PartitionOctets(parts, i)]
<1>2. \A k \in 1..Len(parts) : PartitionOctets(parts, k) \in Seq(Octet)
  BY PartitionOctetsType
<1>3. ss \in Seq(Seq(Octet))
  BY <1>1, <1>2, IsASeq
<1> HIDE DEF ss
<1>4. FlattenSeq(ss) \in Seq(Octet)
  BY <1>3, FlattenType
<1> QED
  BY <1>4 DEF Partitioned, ss

\* What a producer may put in a frame.
IsCommand(class, id, parts, long) ==
  /\ IsCode(class, id) /\ FitsPartitions(parts)
  /\ ~long => Len(parts) = 1 /\ Len(parts[1]) < LongForm

\* r is the command with these arguments that ends at e, unless o ends before.
ReadsCommand(r, class, id, a, e, o) ==
  /\ e <= Len(o) => r.class = class /\ r.id = id /\ r.args = a /\ r.at = e /\ ~r.cut
  /\ ~(e <= Len(o)) => r.cut

\* The frame t at `pos` is a command with the arguments a, or cut off.
IsWholeOrCut(o, pos, t, class, id, a) ==
  /\ t \in Seq(Octet) /\ Len(t) >= 2
  /\ ~AtEnd(o, pos) => ReadsCommand(ReadFrame(o, pos), class, id, a, pos + Len(t), o)
  /\ AtEnd(o, pos) => ~(pos + Len(t) <= Len(o))

LEMMA CommandRead ==
  ASSUME NEW o, NEW pos, NEW class, NEW id, NEW count, NEW a, NEW e,
         ElementClass(Word(o, pos + 1)) = class, ElementId(Word(o, pos + 1)) = id,
         ArgumentCount(Word(o, pos + 1)) = count, Answers(Arguments(o, pos + 2, count), a, e, o)
  PROVE  ReadsCommand(ReadFrame(o, pos), class, id, a, e, o)
BY DEF ReadFrame, ReadsCommand, Answers

\* A header and the arguments behind it.
LEMMA HeaderRead ==
  ASSUME NEW o \in Seq(Octet), NEW pos \in Nat, NEW class, NEW id, IsCode(class, id),
         NEW count \in Nat, count < 32, NEW s \in Seq(Octet),
         NEW t, IsFramed(t, class, id, count, s), Agrees(o, pos, t), NEW a,
         pos + 2 <= Len(o) => Answers(Arguments(o, pos + 2, count), a, (pos + 2) + Len(s), o)
  PROVE  IsWholeOrCut(o, pos, t, class, id, a)
<1>1. PICK n \in Nat, l \in Nat : n = Len(s) /\ l = Len(o)
  BY LenProperties
<1>3. /\ t \in Seq(Octet) /\ Len(t) = 2 + Len(s)
      /\ pos + 2 <= Len(o) => /\ ElementClass(Word(o, pos + 1)) = class
                             /\ ElementId(Word(o, pos + 1)) = id
                             /\ ArgumentCount(Word(o, pos + 1)) = count
  <2>1. t \in Seq(Octet) /\ Len(t) = 2 + Len(s)
    <3>1. PICK k \in Nat : HasHeader(t, k, class, id, count, s)
      BY HeaderLength
    <3> QED
      BY <3>1 DEF HasHeader
  <2>3. ASSUME pos + 2 <= Len(o)
        PROVE  /\ ElementClass(Word(o, pos + 1)) = class
               /\ ElementId(Word(o, pos + 1)) = id
               /\ ArgumentCount(Word(o, pos + 1)) = count
    BY <2>3, HeaderAgrees
  <2> QED
    BY <2>1, <2>3
<1>4. PICK e : e = pos + Len(t)
  OBVIOUS
<1>5. e = (pos + 2) + Len(s) /\ (AtEnd(o, pos) => ~(e <= Len(o))) /\ (~AtEnd(o, pos) => pos + 2 <= Len(o))
  BY <1>1, <1>3, <1>4 DEF AtEnd
<1>6. ASSUME ~AtEnd(o, pos) PROVE ReadsCommand(ReadFrame(o, pos), class, id, a, e, o)
  <2>1. Answers(Arguments(o, pos + 2, count), a, e, o)
    BY <1>5, <1>6
  <2> QED
    BY <1>3, <1>5, <1>6, <2>1, CommandRead
<1>7. Len(t) >= 2
  BY <1>1, <1>3
<1> QED
  BY <1>3, <1>4, <1>5, <1>6, <1>7 DEF IsWholeOrCut

LEMMA OneShort ==
  ASSUME NEW parts, FitsPartitions(parts), Len(parts) = 1, Len(parts[1]) < LongForm
  PROVE  \E a \in Seq(Octet) : a = parts[1] /\ FlattenSeq(parts) = a /\ Len(a) \in Nat /\ Len(a) < 31
<1>1. parts \in Seq(Seq(Octet)) /\ 1 \in 1..Len(parts)
  BY DEF FitsPartitions
<1>2. parts[1] \in Seq(Octet) /\ FlattenSeq(parts) = parts[1]
  BY <1>1, ElementOfSeq, FlattenOne
<1> QED
  BY <1>2, LenProperties DEF LongForm

LEMMA LongFrameRead ==
  ASSUME NEW o \in Seq(Octet), NEW pos \in Nat, NEW class, NEW id, IsCode(class, id),
         NEW parts, FitsPartitions(parts), NEW t \in Seq(Octet), t = Partitioned(parts),
         NEW c \in Nat, c = LongForm, NEW s, IsFramed(s, class, id, c, t), Agrees(o, pos, s)
  PROVE  IsWholeOrCut(o, pos, s, class, id, FlattenSeq(parts))
<1>1. c < 32
  BY DEF LongForm
<1>2. Agrees(o, pos + 2, t)
  BY <1>1, HeaderAgrees
<1>3. ASSUME pos + 2 <= Len(o)
      PROVE  Answers(Arguments(o, pos + 2, c), FlattenSeq(parts), (pos + 2) + Len(t), o)
  <2>1. PICK q \in Nat : q = pos + 2 /\ q <= Len(o)
    BY <1>3
  <2>2. Agrees(o, q, Partitioned(parts))
    BY <1>2, <2>1
  <2>3. Answers(LongArguments(o, q), FlattenSeq(parts), q + Len(Partitioned(parts)), o)
    BY <2>1, <2>2, LongRead
  <2>4. Arguments(o, q, c) = LongArguments(o, q)
    BY DEF Arguments
  <2> QED
    BY <2>1, <2>3, <2>4
<1> QED
  BY <1>1, <1>3, HeaderRead

LEMMA ShortFrameRead ==
  ASSUME NEW o \in Seq(Octet), NEW pos \in Nat, NEW class, NEW id, IsCode(class, id),
         NEW a \in Seq(Octet), Len(a) < LongForm, NEW n \in Nat, n = Len(a),
         NEW t \in Seq(Octet), t = a \o Pad(Len(a)), NEW s, IsFramed(s, class, id, n, t), Agrees(o, pos, s)
  PROVE  IsWholeOrCut(o, pos, s, class, id, a)
<1>1. n < 32
  BY DEF LongForm
<1>2. Agrees(o, pos + 2, t)
  BY <1>1, HeaderAgrees
<1>3. Answers(Arguments(o, pos + 2, n), a, (pos + 2) + Len(t), o)
  <2>1. PICK q \in Nat : q = pos + 2
    OBVIOUS
  <2>2. Agrees(o, q, a \o Pad(Len(a)))
    BY <1>2, <2>1
  <2>3. Answers(Arguments(o, q, Len(a)), a, q + Len(a \o Pad(Len(a))), o)
    BY <2>2, ShortRead
  <2> QED
    BY <2>1, <2>3
<1> QED
  BY <1>1, <1>3, HeaderRead

\* How a short command is framed.
LEMMA ShortFramed ==
  ASSUME NEW class, NEW id, IsCode(class, id), NEW a \in Seq(Octet), NEW n \in Nat, n < 32, n = Len(a),
         NEW s, s = Header(class, id, Len(a)) \o a \o Pad(Len(a))
  PROVE  \E t \in Seq(Octet) : t = a \o Pad(Len(a)) /\ IsFramed(s, class, id, n, t)
<1>1. PICK p \in Seq(Octet) : p = Pad(n)
  BY PadType
<1>2. PICK h \in Seq(Octet) : h = Header(class, id, n)
  BY HeaderType
<1>3. PICK t \in Seq(Octet) : t = a \o p
  BY ConcatProperties
<1>4. s = h \o a \o p
  BY <1>1, <1>2
<1>5. h \o a \o p = h \o t
  BY <1>3, Behind, SMTT(30)
<1>6. IsFramed(s, class, id, n, t)
  BY <1>2, <1>4, <1>5 DEF IsFramed
<1>7. t = a \o Pad(Len(a))
  BY <1>1, <1>3
<1> QED
  BY <1>6, <1>7

\* Every frame is read back, with its class, its identifier and its arguments, and up to
\* its end; and no frame that the end of the file cuts off is taken for a whole one.
LEMMA FrameOctetsRead ==
  ASSUME NEW o \in Seq(Octet), NEW pos \in Nat, NEW class, NEW id, NEW parts, NEW long,
         IsCommand(class, id, parts, long), NEW s, s = FrameOctets(class, id, parts, long), Agrees(o, pos, s)
  PROVE  IsWholeOrCut(o, pos, s, class, id, FlattenSeq(parts))
<1>1. IsCode(class, id) /\ FitsPartitions(parts)
  BY DEF IsCommand
<1>2. CASE long
  <2>1. PICK t \in Seq(Octet) : t = Partitioned(parts)
    BY <1>1, PartitionedType
  <2>2. PICK c \in Nat : c = LongForm
    BY DEF LongForm
  <2>3. IsFramed(s, class, id, c, t)
    BY <1>2, <2>1, <2>2 DEF FrameOctets, IsFramed
  <2> QED
    BY <1>1, <2>1, <2>2, <2>3, LongFrameRead
<1>3. CASE ~long
  <2>1. PICK a \in Seq(Octet) : a = parts[1] /\ FlattenSeq(parts) = a /\ Len(a) \in Nat /\ Len(a) < 31
    BY <1>1, <1>3, OneShort DEF IsCommand
  <2>2. PICK n \in Nat : n = Len(a) /\ n < 32 /\ Len(a) < LongForm
    BY <2>1 DEF LongForm
  <2>3. s = Header(class, id, Len(a)) \o a \o Pad(Len(a))
    BY <1>3, <2>1 DEF FrameOctets
  <2>4. PICK t \in Seq(Octet) : t = a \o Pad(Len(a)) /\ IsFramed(s, class, id, n, t)
    BY <1>1, <2>2, <2>3, ShortFramed
  <2>5. IsWholeOrCut(o, pos, s, class, id, a)
    BY <1>1, <2>2, <2>4, ShortFrameRead
  <2> QED
    BY <2>1, <2>5
<1> QED
  BY <1>2, <1>3
-----------------------------------------------------------------------------
(* Arguments in pieces.                                                    *)

\* The stretches of a between the positions e[0] <= e[1] <= ... <= e[n], the last its end.
IsCut(ss, a, e, n) ==
  /\ e \in [0..n -> 0..Len(a)] /\ e[0] = 0 /\ e[n] = Len(a)
  /\ \A i \in 1..n : e[i - 1] <= e[i]
  /\ ss = [i \in 1..n |-> SubSeq(a, e[i - 1] + 1, e[i])]

LEMMA CutTogether ==
  ASSUME NEW S, NEW a \in Seq(S), NEW n \in Nat, NEW e, NEW ss, IsCut(ss, a, e, n)
  PROVE  /\ ss \in Seq(Seq(S)) /\ Len(ss) = n /\ FlattenSeq(ss) = a
         /\ \A i \in 1..n : Len(ss[i]) = e[i] - e[i - 1]
<1>1. PICK l \in Nat : l = Len(a)
  BY LenProperties
<1>2. \A k \in 0..n : e[k] \in 0..l
  BY <1>1 DEF IsCut
<1>3. ASSUME NEW i \in 1..n
      PROVE  /\ ss[i] = SubSeq(a, e[i - 1] + 1, e[i]) /\ ss[i] \in Seq(S)
             /\ Len(ss[i]) = e[i] - e[i - 1] /\ e[i - 1] \in 0..l /\ e[i] \in e[i - 1]..l
  <2>1. i \in 0..n /\ i - 1 \in 0..n
    OBVIOUS
  <2>2. e[i - 1] \in 0..l /\ e[i] \in 0..l /\ e[i - 1] <= e[i]
    BY <1>2, <2>1 DEF IsCut
  <2>3. PICK x \in 0..l, y \in 0..l : x = e[i - 1] /\ y = e[i] /\ x <= y
    BY <2>2
  <2>4. ss[i] = SubSeq(a, x + 1, y)
    BY <2>3 DEF IsCut
  <2>5. \A j \in x + 1 .. y : a[j] \in S
    <3> TAKE j \in x + 1 .. y
    <3>1. j \in 1..Len(a)
      BY <1>1
    <3> QED
      BY <3>1, ElementOfSeq
  <2>6. SubSeq(a, x + 1, y) \in Seq(S) /\ Len(SubSeq(a, x + 1, y)) = IF x + 1 <= y THEN y - (x + 1) + 1 ELSE 0
    <3>1. PICK m \in Int : m = x + 1
      OBVIOUS
    <3>2. y \in Int /\ \A j \in m .. y : a[j] \in S
      BY <2>5, <3>1
    <3>3. SubSeq(a, m, y) \in Seq(S) /\ Len(SubSeq(a, m, y)) = IF m <= y THEN y - m + 1 ELSE 0
      BY <3>2, SubSeqProperties
    <3> QED
      BY <3>1, <3>3
  <2>7. Len(ss[i]) = y - x
    <3>1. y - x = IF x + 1 <= y THEN y - (x + 1) + 1 ELSE 0
      <4>1. PICK u \in Nat, v \in Nat : u = x /\ v = y /\ u <= v
        BY <2>3
      <4>2. v - u = IF u + 1 <= v THEN v - (u + 1) + 1 ELSE 0
        BY <4>1
      <4> QED
        BY <4>1, <4>2
    <3> QED
      BY <2>4, <2>6, <3>1
  <2> QED
    BY <2>3, <2>4, <2>6, <2>7
<1>4. ss \in Seq(Seq(S)) /\ Len(ss) = n
  <2>1. ss = [i \in 1..n |-> ss[i]]
    BY DEF IsCut
  <2>2. [i \in 1..n |-> ss[i]] \in Seq(Seq(S))
    BY <1>3, IsASeq
  <2>3. DOMAIN ss = 1..n
    BY DEF IsCut
  <2> QED
    <3>1. ss \in Seq(Seq(S))
      BY <2>1, <2>2
    <3> QED
      BY <2>3, <3>1, LenProperties
<1> DEFINE Good == {k \in Nat : k <= n => FlattenSeq(UpTo(ss, k)) = SubSeq(a, 1, e[k])}
<1>5. 0 \in Good
  <2>1. UpTo(ss, 0) = <<>>
    BY DEF UpTo
  <2>2. SubSeq(a, 1, 0) = <<>>
    BY SubSeqEmpty
  <2>3. e[0] = 0
    BY DEF IsCut
  <2> QED
    BY <2>1, <2>2, <2>3, FlattenEmpty
<1>6. ASSUME NEW k \in Nat, k \in Good PROVE k + 1 \in Good
  <2>1. SUFFICES ASSUME k + 1 <= n PROVE FlattenSeq(UpTo(ss, k + 1)) = SubSeq(a, 1, e[k + 1])
    OBVIOUS
  <2>2. FlattenSeq(UpTo(ss, k)) = SubSeq(a, 1, e[k])
    BY <1>6, <2>1
  <2>3. k + 1 \in 1..n /\ (k + 1) - 1 = k /\ k + 1 > 0 /\ k + 1 \in 0..n
    BY <2>1
  <2>4. FlattenSeq(UpTo(ss, k + 1)) = FlattenSeq(UpTo(ss, k)) \o ss[k + 1]
    <3>1. k + 1 \in 0..Len(ss)
      BY <1>4, <2>3
    <3>2. FlattenSeq(UpTo(ss, k + 1)) = FlattenSeq(UpTo(ss, (k + 1) - 1)) \o ss[k + 1]
      BY <1>4, <2>3, <3>1, UpToProperties
    <3> QED
      BY <2>3, <3>2
  <2>5. PICK x \in 0..l, y \in 0..l : x <= y /\ x = e[k] /\ y = e[k + 1] /\ ss[k + 1] = SubSeq(a, x + 1, y)
    <3>1. /\ ss[k + 1] = SubSeq(a, e[(k + 1) - 1] + 1, e[k + 1])
          /\ e[(k + 1) - 1] \in 0..l /\ e[k + 1] \in e[(k + 1) - 1]..l
      BY <1>3, <2>3
    <3>2. /\ ss[k + 1] = SubSeq(a, e[k] + 1, e[k + 1])
          /\ e[k] \in 0..l /\ e[k + 1] \in e[k]..l
      BY <2>3, <3>1
    <3>3. e[k + 1] \in 0..l /\ e[k] <= e[k + 1]
      BY <3>2
    <3> QED
      BY <3>2, <3>3
  <2>6. SubSeq(a, 1, x) \o SubSeq(a, x + 1, y) = SubSeq(a, 1, y)
    <3>1. 1 \in 1 .. Len(a) + 1 /\ x \in 1 - 1 .. Len(a) /\ y \in x .. Len(a)
      BY <1>1, <2>5
    <3> QED
      BY <3>1, ConcatAdjacentSubSeq
  <2> QED
    BY <2>2, <2>4, <2>5, <2>6
<1>7. Nat \subseteq Good
  <2> HIDE DEF Good
  <2> QED
    BY <1>5, <1>6, Counting
<1>8. FlattenSeq(UpTo(ss, n)) = SubSeq(a, 1, e[n])
  BY <1>7
<1>9. FlattenSeq(ss) = a
  <2>1. e[n] = Len(a) /\ UpTo(ss, n) = ss
    BY <1>4, UpToAll DEF IsCut
  <2> QED
    BY <1>8, <2>1, SubSeqFull
<1> QED
  BY <1>3, <1>4, <1>9

LEMMA Ceiling ==
  ASSUME NEW l \in Nat, NEW m \in Nat \ {0}
  PROVE  /\ (l + m - 1) \div m \in Nat
         /\ l <= ((l + m - 1) \div m) * m
         /\ ((l + m - 1) \div m) * m < l + m
OBVIOUS

LEMMA Multiples ==
  ASSUME NEW i \in Nat, NEW n \in Nat, i <= n, NEW m \in Nat
  PROVE  i * m <= n * m /\ i * m \in Nat
OBVIOUS

LEMMA OneLess ==
  ASSUME NEW i \in Nat, NEW n \in Nat, i < n, NEW m \in Nat
  PROVE  i * m <= n * m - m /\ (i + 1) * m = i * m + m /\ i * m \in Nat
OBVIOUS

\* The pieces MaxPartition octets long are put together again.
LEMMA ChunksTogether ==
  ASSUME NEW a \in Seq(Octet), a # <<>>
  PROVE  FitsPartitions(Chunks(a)) /\ FlattenSeq(Chunks(a)) = a
<1>1. PICK l \in Nat, m \in Nat \ {0} : l = Len(a) /\ m = MaxPartition /\ m < 32768
  BY LenProperties, MaxPartitionAssumption
<1>2. l # 0
  BY <1>1, EmptySeq
<1>3. PICK n \in Nat : n = (l + m - 1) \div m /\ l <= n * m /\ n * m < l + m
  BY Ceiling
<1>4. n # 0
  BY <1>2, <1>3
<1>5. \A i \in 0..n : i * m \in Nat
  OBVIOUS
<1>6. \A i \in 0..n : i < n => i * m < l /\ (i + 1) * m = i * m + m
  <2> TAKE i \in 0..n
  <2> HAVE i < n
  <2>1. i * m <= n * m - m /\ (i + 1) * m = i * m + m /\ i * m \in Nat
    BY OneLess
  <2>2. PICK p \in Nat, q \in Int : p = i * m /\ q = n * m
    BY <2>1
  <2>3. p < l
    BY <1>3, <2>1, <2>2
  <2> QED
    BY <2>1, <2>2, <2>3
<1> DEFINE e == [i \in 0..n |-> IF i * m < l THEN i * m ELSE l]
           ss == Chunks(a)
<1>7. \A i \in 0..n : e[i] \in 0..l
  BY <1>5
<1>8. \A i \in 0..n : i < n => e[i] = i * m
  BY <1>6
<1>9. e[n] = l
  BY <1>3
<1>10. e[0] = 0
  BY <1>4, <1>8
<1>11. ASSUME NEW i \in 1..n
       PROVE  /\ (i - 1) * m = e[i - 1] /\ e[i - 1] <= e[i] /\ e[i] - e[i - 1] <= m
              /\ (IF i * m < l THEN i * m ELSE l) = e[i]
  <2>1. i - 1 \in 0..n /\ i - 1 < n /\ (i - 1) + 1 = i /\ i \in 0..n
    OBVIOUS
  <2>2. (i - 1) * m < l /\ i * m = (i - 1) * m + m /\ e[i - 1] = (i - 1) * m
    BY <1>6, <1>8, <2>1
  <2>3. PICK p \in Nat, q \in Nat : p = (i - 1) * m /\ q = i * m /\ p < l /\ q = p + m /\ e[i - 1] = p
    BY <1>5, <2>1, <2>2
  <2>4. e[i] = IF q < l THEN q ELSE l
    BY <2>1, <2>3
  <2> HIDE DEF e
  <2> QED
    BY <2>3, <2>4
<1> HIDE DEF e
<1>12. ss = [i \in 1..n |-> SubSeq(a, e[i - 1] + 1, e[i])]
  <2>1. ss = [i \in 1..n |-> SubSeq(a, ((i - 1) * m) + 1, IF i * m < l THEN i * m ELSE l)]
    BY <1>1, <1>3 DEF Chunks
  <2>2. \A i \in 1..n : SubSeq(a, ((i - 1) * m) + 1, IF i * m < l THEN i * m ELSE l) = SubSeq(a, e[i - 1] + 1, e[i])
    BY <1>11
  <2> HIDE DEF ss
  <2> QED
    BY <2>1, <2>2
<1> HIDE DEF ss
<1>13. e \in [0..n -> 0..Len(a)]
  BY <1>1, <1>7 DEF e
<1>14. IsCut(ss, a, e, n)
  BY <1>1, <1>9, <1>10, <1>11, <1>12, <1>13 DEF IsCut
<1>15. ss \in Seq(Seq(Octet)) /\ Len(ss) = n /\ FlattenSeq(ss) = a /\ \A i \in 1..n : Len(ss[i]) = e[i] - e[i - 1]
  BY <1>14, CutTogether
<1>16. \A i \in 1..n : Len(ss[i]) < 32768
  <2> TAKE i \in 1..n
  <2>1. i \in 0..n /\ i - 1 \in 0..n
    OBVIOUS
  <2>2. e[i] \in 0..l /\ e[i - 1] \in 0..l /\ e[i] - e[i - 1] <= m
    BY <1>7, <1>11, <2>1
  <2> QED
    BY <1>1, <1>15, <2>2
<1>17. FitsPartitions(ss)
  BY <1>4, <1>15, <1>16, EmptySeq DEF FitsPartitions
<1> QED
  BY <1>15, <1>17 DEF ss

\* How the writer frames a command: with `parts` for its arguments.
IsFramedAs(class, id, a, parts, long) ==
  /\ IsCommand(class, id, parts, long) /\ FlattenSeq(parts) = a
  /\ WriteFrame(class, id, a) = FrameOctets(class, id, parts, long)

LEMMA WriteFrameIs ==
  ASSUME NEW class, NEW id, IsCode(class, id), NEW a \in Seq(Octet)
  PROVE  \E parts : \E long : IsFramedAs(class, id, a, parts, long)
<1>1. PICK n \in Nat : n = Len(a)
  BY LenProperties
<1>2. CASE n >= LongForm
  <2>1. a # <<>>
    BY <1>1, <1>2, EmptySeq DEF LongForm
  <2>2. FitsPartitions(Chunks(a)) /\ FlattenSeq(Chunks(a)) = a
    BY <2>1, ChunksTogether
  <2>3. IsCommand(class, id, Chunks(a), TRUE)
    BY <2>2 DEF IsCommand
  <2>4. WriteFrame(class, id, a) = FrameOctets(class, id, Chunks(a), TRUE)
    BY <1>1, <1>2 DEF WriteFrame
  <2> QED
    BY <2>2, <2>3, <2>4 DEF IsFramedAs
<1>3. CASE ~(n >= LongForm)
  <2> DEFINE t == <<a>>
  <2>1. t \in Seq(Seq(Octet)) /\ Len(t) = 1 /\ t[1] = a /\ t # <<>>
    OBVIOUS
  <2>2. WriteFrame(class, id, a) = FrameOctets(class, id, t, FALSE)
    BY <1>1, <1>3 DEF WriteFrame
  <2> HIDE DEF t
  <2>3. FlattenSeq(t) = a
    BY <2>1, FlattenOne
  <2>4. n < LongForm /\ n < 32768
    BY <1>1, <1>3 DEF LongForm
  <2>5. FitsPartitions(t)
    <3>1. \A i \in 1..1 : i = 1
      OBVIOUS
    <3> QED
      BY <1>1, <2>1, <2>4, <3>1 DEF FitsPartitions
  <2>6. IsCommand(class, id, t, FALSE)
    BY <1>1, <2>1, <2>4, <2>5 DEF IsCommand
  <2> QED
    BY <2>2, <2>3, <2>6 DEF IsFramedAs
<1> QED
  BY <1>2, <1>3

\* What the writer frames, the reader finds again, wherever in the file the frame
\* stands: for arguments of every length, in one partition or many, the class, the
\* identifier and the argument octets come back as they were and the reader stands
\* behind the frame. A frame that the end of the file cuts off, wherever that is, is
\* never taken for a whole one. (readCommand and its
\* readShortFormCommandArguments and readLongFormCommandArguments in
\* binary_reader.cpp, against writeCommand and writeHeader in binary_writer.cpp.)
THEOREM FrameReadsBack ==
  ASSUME NEW o \in Seq(Octet), NEW pos \in Nat, NEW class \in 0..15, NEW id \in 0..127,
         NEW a \in Seq(Octet), NEW frame, frame = WriteFrame(class, id, a), Agrees(o, pos, frame)
  PROVE  /\ pos + Len(frame) <= Len(o) =>
              /\ ~AtEnd(o, pos) /\ ~ReadFrame(o, pos).cut
              /\ ReadFrame(o, pos).class = class /\ ReadFrame(o, pos).id = id
              /\ ReadFrame(o, pos).args = a /\ ReadFrame(o, pos).at = pos + Len(frame)
         /\ ~(pos + Len(frame) <= Len(o)) => AtEnd(o, pos) \/ ReadFrame(o, pos).cut
<1>1. PICK parts, long : IsFramedAs(class, id, a, parts, long)
  <2>1. IsCode(class, id)
    BY DEF IsCode
  <2> QED
    BY <2>1, WriteFrameIs
<1>2. /\ IsCommand(class, id, parts, long) /\ FlattenSeq(parts) = a
      /\ frame = FrameOctets(class, id, parts, long)
  BY <1>1 DEF IsFramedAs
<1>3. IsWholeOrCut(o, pos, frame, class, id, FlattenSeq(parts))
  BY <1>2, FrameOctetsRead
<1>4. IsWholeOrCut(o, pos, frame, class, id, a)
  BY <1>2, <1>3
<1> QED
  BY <1>4 DEF IsWholeOrCut, ReadsCommand

-----------------------------------------------------------------------------
(* The elements of a file.                                                 *)

\* Where the first k of the marked elements end.
EndOf(ms, k) == IF k = 0 THEN 0 ELSE ms[k].end

\* The element m stands at `pos` of o, whole.
StandsAt(o, pos, m) ==
  /\ ~AtEnd(o, pos) /\ ~ReadFrame(o, pos).cut
  /\ ReadFrame(o, pos).class = m.class /\ ReadFrame(o, pos).id = m.id
  /\ ReadFrame(o, pos).args = m.args /\ ReadFrame(o, pos).at = m.end
  /\ m.end \in pos + 1 .. Len(o) /\ m.args \in Seq(Octet)

\* o consists of the n elements of ms, one behind the other, and perhaps the beginning
\* of another one.
Consists(o, ms, n) ==
  /\ o \in Seq(Octet) /\ ms \in Seq({ms[i] : i \in 1..n}) /\ n \in Nat /\ n = Len(ms)
  /\ \A i \in 1..n : EndOf(ms, i - 1) \in Nat /\ StandsAt(o, EndOf(ms, i - 1), ms[i])
  /\ EndOf(ms, n) \in 0..Len(o)
  /\ AtEnd(o, EndOf(ms, n)) \/ ReadFrame(o, EndOf(ms, n)).cut

\* The greatest number up to n with a property that 0 has.
LEMMA Greatest ==
  ASSUME NEW n \in Nat, NEW T, 0 \in T
  PROVE  \E m \in 0..n : m \in T /\ \A k \in m + 1 .. n : k \notin T
<1> DEFINE Good == {d \in Nat : \E m \in 0..d : m \in T /\ \A k \in m + 1 .. d : k \notin T}
<1>1. 0 \in Good
  OBVIOUS
<1>2. ASSUME NEW d \in Nat, d \in Good PROVE d + 1 \in Good
  <2>1. PICK m \in 0..d : m \in T /\ \A k \in m + 1 .. d : k \notin T
    BY <1>2
  <2>2. CASE d + 1 \in T
    <3>1. d + 1 \in 0 .. d + 1 /\ \A k \in (d + 1) + 1 .. d + 1 : k \notin T
      OBVIOUS
    <3> QED
      BY <2>2, <3>1
  <2>3. CASE d + 1 \notin T
    <3>1. m \in 0 .. d + 1 /\ \A k \in m + 1 .. d + 1 : k \in m + 1 .. d \/ k = d + 1
      OBVIOUS
    <3> QED
      BY <2>1, <2>3, <3>1
  <2> QED
    BY <2>2, <2>3
<1>3. Nat \subseteq Good
  <2> HIDE DEF Good
  <2> QED
    BY <1>1, <1>2, Counting
<1> QED
  BY <1>3
-----------------------------------------------------------------------------
(* How a producer lays the elements out.                                   *)

LEMMA EncodedType ==
  ASSUME NEW e \in Elements
  PROVE  /\ IsCommand(e.class, e.id, e.parts, e.long)
         /\ Encoded(e) = FrameOctets(e.class, e.id, e.parts, e.long)
<1>1. /\ e.class \in 0..15 /\ e.id \in 0..127 /\ e.parts \in Seq(Seq(Octet)) /\ e.parts # <<>>
      /\ \A i \in DOMAIN e.parts : Len(e.parts[i]) < 32768
      /\ ~e.long => Len(e.parts) = 1 /\ Len(e.parts[1]) < LongForm
  BY DEF Elements
<1>2. DOMAIN e.parts = 1..Len(e.parts)
  BY <1>1, LenProperties
<1> QED
  BY <1>1, <1>2 DEF IsCommand, IsCode, FitsPartitions, Encoded

\* An element that is in o as far as o goes is read, or cut off.
LEMMA ElementRead ==
  ASSUME NEW e \in Elements, NEW o \in Seq(Octet), NEW pos \in Nat, Agrees(o, pos, Encoded(e))
  PROVE  IsWholeOrCut(o, pos, Encoded(e), e.class, e.id, FlattenSeq(e.parts))
<1>1. PICK class, id, parts, long :
        class = e.class /\ id = e.id /\ parts = e.parts /\ long = e.long
  OBVIOUS
<1>2. PICK s : s = Encoded(e)
  OBVIOUS
<1>3. IsCommand(class, id, parts, long) /\ s = FrameOctets(class, id, parts, long) /\ Agrees(o, pos, s)
  BY <1>1, <1>2, EncodedType
<1>4. IsWholeOrCut(o, pos, s, class, id, FlattenSeq(parts))
  BY <1>3, FrameOctetsRead
<1> QED
  BY <1>1, <1>2, <1>4

LEMMA EncodedOctets ==
  ASSUME NEW e \in Elements
  PROVE  Encoded(e) \in Seq(Octet) /\ Len(Encoded(e)) >= 2
<1>1. PICK o \in Seq(Octet), pos \in Nat : o = <<>> /\ Len(o) = 0 /\ pos = 0
  BY EmptySeq
<1>2. PICK s : s = Encoded(e)
  OBVIOUS
<1>3. \A i \in 1..Len(s) : ~(pos + i <= Len(o))
  BY <1>1
<1>4. Agrees(o, pos, s)
  BY <1>3 DEF Agrees
<1> QED
  BY <1>2, <1>4, ElementRead DEF IsWholeOrCut

\* The frames of the elements.
Frames(elements) == [i \in DOMAIN elements |-> Encoded(elements[i])]

LEMMA FramesType ==
  ASSUME NEW elements \in Seq(Elements)
  PROVE  /\ Frames(elements) \in Seq(Seq(Octet)) /\ Len(Frames(elements)) = Len(elements)
         /\ EncodedFile(elements) = FlattenSeq(Frames(elements))
         /\ \A i \in 1..Len(elements) :
              /\ elements[i] \in Elements /\ Frames(elements)[i] = Encoded(elements[i])
              /\ Len(Frames(elements)[i]) >= 2
<1>1. PICK n \in Nat : n = Len(elements) /\ DOMAIN elements = 1..n
  BY LenProperties
<1>2. \A i \in 1..n : elements[i] \in Elements
  BY <1>1, ElementOfSeq
<1>3. \A i \in 1..n : Encoded(elements[i]) \in Seq(Octet) /\ Len(Encoded(elements[i])) >= 2
  BY <1>2, EncodedOctets
<1>4. Frames(elements) = [i \in 1..n |-> Encoded(elements[i])]
  BY <1>1 DEF Frames
<1>5. Frames(elements) \in Seq(Seq(Octet))
  BY <1>3, <1>4, IsASeq
<1>6. Len(Frames(elements)) = n
  BY <1>1, <1>4, <1>5, LenProperties
<1>7. EncodedFile(elements) = FlattenSeq(Frames(elements))
  BY DEF EncodedFile, Frames
<1> QED
  BY <1>1, <1>2, <1>3, <1>4, <1>5, <1>6, <1>7

LEMMA FramesUpTo ==
  ASSUME NEW elements \in Seq(Elements), NEW k \in 0..Len(elements)
  PROVE  Len(EncodedFile(SubSeq(elements, 1, k))) = StartOf(Frames(elements), k)
<1>1. PICK n \in Nat : n = Len(elements) /\ DOMAIN elements = 1..n
  BY LenProperties
<1>2. PICK s : s = SubSeq(elements, 1, k)
  OBVIOUS
<1>3. s \in Seq(Elements) /\ Len(s) = k /\ \A i \in 1..k : s[i] = elements[i]
  BY <1>1, <1>2, SubSeqProperties
<1>4. DOMAIN s = 1..k
  BY <1>3, LenProperties
<1>5. Frames(s) = UpTo(Frames(elements), k)
  <2>1. \A i \in 1..k : i \in 1..n
    BY <1>1
  <2>2. \A i \in 1..k : Frames(elements)[i] = Encoded(s[i])
    BY <1>1, <1>3, <2>1 DEF Frames
  <2> QED
    BY <1>4, <2>2 DEF Frames, UpTo
<1>6. EncodedFile(s) = FlattenSeq(UpTo(Frames(elements), k))
  BY <1>3, <1>5, FramesType
<1> QED
  BY <1>2, <1>6 DEF StartOf

LEMMA MarksAre ==
  ASSUME NEW elements \in Seq(Elements)
  PROVE  /\ Marks(elements) \in Seq({Marks(elements)[i] : i \in 1..Len(elements)})
         /\ Len(Marks(elements)) = Len(elements) /\ DOMAIN Marks(elements) = 1..Len(elements)
         /\ \A i \in 1..Len(elements) :
              /\ Marks(elements)[i].class = elements[i].class /\ Marks(elements)[i].id = elements[i].id
              /\ Marks(elements)[i].args = FlattenSeq(elements[i].parts)
              /\ Marks(elements)[i].end = StartOf(Frames(elements), i)
<1>1. PICK n \in Nat : n = Len(elements) /\ DOMAIN elements = 1..n
  BY LenProperties
<1> DEFINE m(i) == Mark(elements[i].class, elements[i].id, FlattenSeq(elements[i].parts),
                        Len(EncodedFile(SubSeq(elements, 1, i))))
           T == {Marks(elements)[i] : i \in 1..n}
<1>2. Marks(elements) = [i \in 1..n |-> m(i)]
  BY <1>1 DEF Marks
<1>3. \A i \in 1..n : m(i).end = StartOf(Frames(elements), i)
  <2> TAKE i \in 1..n
  <2>1. i \in 0..Len(elements)
    BY <1>1
  <2>2. Len(EncodedFile(SubSeq(elements, 1, i))) = StartOf(Frames(elements), i)
    BY <2>1, FramesUpTo
  <2> QED
    BY <2>2 DEF Mark
<1>4. \A i \in 1..n : /\ m(i).class = elements[i].class /\ m(i).id = elements[i].id
                      /\ m(i).args = FlattenSeq(elements[i].parts)
  BY DEF Mark
<1> HIDE DEF m
<1>5. \A i \in 1..n : Marks(elements)[i] = m(i)
  BY <1>2
<1>6. [i \in 1..n |-> m(i)] \in Seq(T)
  <2>1. \A i \in 1..n : m(i) \in T
    BY <1>5
  <2> HIDE DEF T
  <2> QED
    BY <2>1, IsASeq
<1>7. Len(Marks(elements)) = n
  BY <1>2
<1> QED
  BY <1>1, <1>2, <1>3, <1>4, <1>5, <1>6, <1>7

\* The elements that are whole: those up to the last one that ends within n octets.
LEMMA WholeIs ==
  ASSUME NEW ms, NEW n, NEW N \in Nat, N = Len(ms), DOMAIN ms = 1..N, NEW K \in 0..N,
         \A i \in 1..N : ms[i].end <= n <=> i <= K
  PROVE  Whole(ms, n) = SubSeq(ms, 1, K)
<1> DEFINE P(k) == \A i \in DOMAIN ms : ms[i].end <= n <=> i <= k
<1>1. K \in 0..Len(ms) /\ P(K)
  OBVIOUS
<1>2. ASSUME NEW k \in 0..Len(ms), P(k) PROVE k = K
  <2>1. SUFFICES ASSUME k # K PROVE FALSE
    OBVIOUS
  <2>2. PICK i \in 1..N : i = IF k < K THEN k + 1 ELSE K + 1
    BY <2>1
  <2>3. (i <= k) <=> (i <= K)
    BY <1>1, <1>2
  <2> QED
    BY <2>1, <2>2, <2>3
<1>3. (CHOOSE k \in 0..Len(ms) : P(k)) = K
  <2> HIDE DEF P
  <2> QED
    BY <1>1, <1>2
<1> QED
  BY <1>3 DEF Whole

\* The beginning of a sequence.
LEMMA Prefix ==
  ASSUME NEW S, NEW s \in Seq(S), NEW n \in 0..Len(s)
  PROVE  /\ SubSeq(s, 1, n) \in Seq(S) /\ Len(SubSeq(s, 1, n)) = n
         /\ \A i \in 1..n : SubSeq(s, 1, n)[i] = s[i]
<1>1. Len(s) \in Nat /\ n \in Nat
  BY LenProperties
<1>2. 1 \in Int /\ n \in Int /\ \A i \in 1..n : s[i] \in S
  BY <1>1, ElementOfSeq
<1>3. /\ SubSeq(s, 1, n) \in Seq(S) /\ Len(SubSeq(s, 1, n)) = IF 1 <= n THEN n - 1 + 1 ELSE 0
      /\ \A i \in 1 .. n - 1 + 1 : SubSeq(s, 1, n)[i] = s[1 + i - 1]
  BY <1>2, SubSeqProperties
<1> QED
  BY <1>1, <1>3

\* A file with these elements, from which the last octets may be missing, consists of
\* those that are whole.
LEMMA FileConsists ==
  ASSUME NEW elements \in Seq(Elements), NEW n \in 0..Len(EncodedFile(elements)),
         NEW o, o = SubSeq(EncodedFile(elements), 1, n), NEW ms, ms = Whole(Marks(elements), n)
  PROVE  Consists(o, ms, Len(ms))
<1>0. PICK m : m = Marks(elements)
  OBVIOUS
<1>1. PICK N \in Nat, ss \in Seq(Seq(Octet)), total \in Seq(Octet) :
        /\ N = Len(elements) /\ ss = Frames(elements) /\ Len(ss) = N
        /\ total = EncodedFile(elements) /\ total = FlattenSeq(ss)
        /\ \A i \in 1..N : elements[i] \in Elements /\ ss[i] = Encoded(elements[i]) /\ Len(ss[i]) >= 2
  <2>1. Len(elements) \in Nat
    BY LenProperties
  <2>2. /\ Frames(elements) \in Seq(Seq(Octet)) /\ Len(Frames(elements)) = Len(elements)
        /\ EncodedFile(elements) = FlattenSeq(Frames(elements))
        /\ \A i \in 1..Len(elements) :
             /\ elements[i] \in Elements /\ Frames(elements)[i] = Encoded(elements[i])
             /\ Len(Frames(elements)[i]) >= 2
    BY FramesType
  <2>3. EncodedFile(elements) \in Seq(Octet)
    BY <2>2, FlattenType
  <2> QED
    BY <2>1, <2>2, <2>3
<1>2. n \in Nat /\ Len(total) \in Nat /\ n <= Len(total)
  BY <1>1, LenProperties
<1>3. o \in Seq(Octet) /\ Len(o) = n /\ \A i \in 1..n : o[i] = total[i]
  <2>1. o = SubSeq(total, 1, n) /\ n \in 0..Len(total)
    BY <1>1, <1>2
  <2> QED
    BY <2>1, Prefix, ZenonT(40)
<1>4. Agrees(o, 0, FlattenSeq(ss))
  BY <1>1, <1>2, <1>3 DEF Agrees
<1>5. StartsOf(ss, N, 2)
  BY <1>1, Starts
<1>6. \A k \in 0..N : StartOf(ss, k) \in Nat
  BY <1>5 DEF StartsOf
<1>7. ASSUME NEW k \in 1..N
      PROVE  IsWholeOrCut(o, StartOf(ss, k - 1), ss[k], elements[k].class, elements[k].id,
                          FlattenSeq(elements[k].parts))
  <2>1. Agrees(o, 0 + StartOf(ss, k - 1), ss[k])
    BY <1>1, <1>2, <1>3, <1>4, FlattenedAgrees
  <2>2. StartOf(ss, k - 1) \in Nat
    BY <1>6
  <2>3. Agrees(o, StartOf(ss, k - 1), Encoded(elements[k]))
    BY <1>1, <2>1, <2>2
  <2> QED
    BY <1>1, <1>3, <2>2, <2>3, ElementRead
<1>8. PICK K \in 0..N : StartOf(ss, K) <= n /\ \A k \in K + 1 .. N : ~(StartOf(ss, k) <= n)
  <2> DEFINE T == {k \in 0..N : StartOf(ss, k) <= n}
  <2>1. 0 \in T
    BY <1>2, <1>5 DEF StartsOf
  <2>2. PICK K \in 0..N : K \in T /\ \A k \in K + 1 .. N : k \notin T
    <3> HIDE DEF T
    <3> QED
      BY <2>1, Greatest
  <2>3. \A k \in K + 1 .. N : ~(StartOf(ss, k) <= n)
    BY <2>2
  <2> QED
    BY <2>2, <2>3
<1>9. \A i \in 1..N : StartOf(ss, i) <= n <=> i <= K
  <2> TAKE i \in 1..N
  <2>1. CASE i <= K
    <3>1. StartOf(ss, i) <= StartOf(ss, K)
      BY <1>5, <2>1 DEF StartsOf
    <3> QED
      BY <1>2, <1>6, <1>8, <2>1, <3>1
  <2>2. CASE ~(i <= K)
    BY <1>8, <2>2
  <2> QED
    BY <2>1, <2>2
<1>10. /\ Len(m) = N /\ DOMAIN m = 1..N
       /\ \A i \in 1..N : /\ m[i].class = elements[i].class /\ m[i].id = elements[i].id
                          /\ m[i].args = FlattenSeq(elements[i].parts) /\ m[i].end = StartOf(ss, i)
  <2>1. /\ Len(Marks(elements)) = Len(elements) /\ DOMAIN Marks(elements) = 1..Len(elements)
        /\ \A i \in 1..Len(elements) :
             /\ Marks(elements)[i].class = elements[i].class /\ Marks(elements)[i].id = elements[i].id
             /\ Marks(elements)[i].args = FlattenSeq(elements[i].parts)
             /\ Marks(elements)[i].end = StartOf(Frames(elements), i)
    BY MarksAre
  <2> QED
    BY <1>0, <1>1, <2>1, ZenonT(40)
<1>11. ms = SubSeq(m, 1, K)
  <2>1. \A i \in 1..N : m[i].end <= n <=> i <= K
    BY <1>9, <1>10
  <2>2. Whole(m, n) = SubSeq(m, 1, K)
    BY <1>8, <1>10, <2>1, WholeIs
  <2> QED
    BY <1>0, <2>2
<1>12. ms = [i \in 1..K |-> m[i]] /\ Len(ms) = K
  <2> DEFINE T == {m[i] : i \in 1..N}
  <2>1. \A i \in 1..K : m[i] \in T
    BY <1>8
  <2> HIDE DEF T
  <2>2. 1 \in Int /\ K \in Int
    BY <1>8
  <2>3. /\ ms \in Seq(T) /\ Len(ms) = IF 1 <= K THEN K - 1 + 1 ELSE 0
        /\ \A i \in 1 .. K - 1 + 1 : ms[i] = m[1 + i - 1]
    BY <1>11, <2>1, <2>2, SubSeqProperties
  <2>4. Len(ms) = K /\ \A i \in 1..K : ms[i] = m[i]
    BY <1>8, <2>3
  <2>5. ms = [i \in 1..Len(ms) |-> ms[i]]
    BY <2>3, LenProperties
  <2> QED
    BY <2>4, <2>5
<1>13. ms \in Seq({ms[i] : i \in 1..K})
  <2> DEFINE T == {ms[i] : i \in 1..K}
  <2>1. \A i \in 1..K : m[i] \in T
    BY <1>12
  <2> HIDE DEF T
  <2>2. [i \in 1..K |-> m[i]] \in Seq(T)
    BY <1>8, <2>1, IsASeq
  <2> QED
    BY <1>12, <2>2 DEF T
<1>14. ASSUME NEW i \in 0..K PROVE EndOf(ms, i) = StartOf(ss, i)
  <2>1. CASE i = 0
    BY <1>5, <2>1 DEF EndOf, StartsOf
  <2>2. CASE i # 0
    <3>1. i \in 1..K /\ i \in 1..N
      BY <2>2
    <3> QED
      BY <1>10, <1>12, <2>2, <3>1 DEF EndOf
  <2> QED
    BY <2>1, <2>2
<1>15. ASSUME NEW i \in 1..K PROVE EndOf(ms, i - 1) \in Nat /\ StandsAt(o, EndOf(ms, i - 1), ms[i])
  <2>1. i \in 1..N /\ i - 1 \in 0..K /\ i <= K /\ i - 1 \in 0..N /\ i \in 0..N
    OBVIOUS
  <2>2. PICK pos \in Nat, end \in Nat : pos = StartOf(ss, i - 1) /\ end = StartOf(ss, i)
    BY <1>6, <2>1
  <2>3. EndOf(ms, i - 1) = pos /\ ms[i] = m[i]
    BY <1>12, <1>14, <2>2, <2>1
  <2>4. end = pos + Len(ss[i]) /\ Len(ss[i]) \in Nat /\ Len(ss[i]) >= 2
    <3>1. ss[i] \in Seq(Octet)
      BY <1>1, <2>1, ElementOfSeq
    <3> QED
      BY <1>1, <1>5, <2>2, <2>1, <3>1, LenProperties DEF StartsOf
  <2>5. end <= n /\ end \in pos + 1 .. Len(o) /\ pos + Len(ss[i]) <= Len(o)
    <3>1. end <= n
      BY <1>9, <2>2, <2>1
    <3> QED
      BY <1>2, <1>3, <2>4, <3>1, SMTT(30)
  <2>6. IsWholeOrCut(o, pos, ss[i], elements[i].class, elements[i].id, FlattenSeq(elements[i].parts))
    BY <1>7, <2>2, <2>1
  <2>7. m[i].args \in Seq(Octet)
    <3>1. elements[i].parts \in Seq(Seq(Octet)) /\ m[i].args = FlattenSeq(elements[i].parts)
      BY <1>1, <1>10, <2>1 DEF Elements
    <3> QED
      BY <3>1, FlattenType
  <2>8. StandsAt(o, pos, m[i])
    BY <1>10, <2>1, <2>2, <2>4, <2>5, <2>6, <2>7 DEF IsWholeOrCut, ReadsCommand, StandsAt
  <2> QED
    BY <2>3, <2>8
<1>16. EndOf(ms, K) \in 0..Len(o)
  <2>1. K \in 0..K
    OBVIOUS
  <2>2. EndOf(ms, K) = StartOf(ss, K)
    BY <1>14, <2>1
  <2>3. StartOf(ss, K) \in Nat /\ StartOf(ss, K) <= n
    BY <1>6, <1>8
  <2> QED
    BY <1>2, <1>3, <2>2, <2>3, SMTT(30)
<1>17. AtEnd(o, EndOf(ms, K)) \/ ReadFrame(o, EndOf(ms, K)).cut
  <2>1. PICK pos \in Nat : pos = StartOf(ss, K) /\ EndOf(ms, K) = pos
    BY <1>6, <1>14
  <2>2. CASE K = N
    <3>1. pos = Len(total)
      BY <1>1, <2>1, <2>2, UpToAll DEF StartOf
    <3> QED
      BY <1>2, <1>3, <2>1, <3>1 DEF AtEnd
  <2>3. CASE K # N
    <3>1. PICK k \in 1..N : k = K + 1 /\ k - 1 = K
      BY <2>3
    <3>2. IsWholeOrCut(o, pos, ss[k], elements[k].class, elements[k].id, FlattenSeq(elements[k].parts))
      BY <1>7, <2>1, <3>1
    <3>3. ~(pos + Len(ss[k]) <= Len(o))
      <4>1. StartOf(ss, k) = pos + Len(ss[k])
        BY <1>5, <2>1, <3>1 DEF StartsOf
      <4>2. ~(StartOf(ss, k) <= n)
        BY <1>8, <3>1
      <4> QED
        BY <1>3, <4>1, <4>2
    <3> QED
      BY <2>1, <3>2, <3>3 DEF IsWholeOrCut, ReadsCommand
  <2> QED
    BY <2>2, <2>3
<1>18. Len(ms) = K /\ K \in Nat
  BY <1>8, <1>12
<1> QED
  BY <1>3, <1>13, <1>15, <1>16, <1>17, <1>18 DEF Consists
-----------------------------------------------------------------------------
(* Lists.                                                                  *)

\* A sequence, of whatever it holds.
IsList(s) == s \in Seq({s[i] : i \in 1..Len(s)}) /\ Len(s) \in Nat

LEMMA SequencesAreLists ==
  ASSUME NEW S, NEW s \in Seq(S)
  PROVE  IsList(s)
<1>1. PICK n \in Nat : n = Len(s)
  BY LenProperties
<1>2. s = [i \in 1..n |-> s[i]]
  BY <1>1, LenProperties
<1> DEFINE T == {s[i] : i \in 1..n}
<1>3. \A i \in 1..n : s[i] \in T
  OBVIOUS
<1>4. [i \in 1..n |-> s[i]] \in Seq(T)
  <2> HIDE DEF T
  <2> QED
    BY <1>3, IsASeq
<1> QED
  BY <1>1, <1>2, <1>4 DEF IsList

LEMMA EmptyList == IsList(<<>>) /\ Len(<<>>) = 0
BY EmptySeq DEF IsList

LEMMA AppendedList ==
  ASSUME NEW s, IsList(s), NEW e
  PROVE  /\ IsList(Append(s, e)) /\ Len(Append(s, e)) = Len(s) + 1 /\ Append(s, e)[Len(s) + 1] = e
         /\ \A i \in 1..Len(s) : Append(s, e)[i] = s[i]
<1>1. PICK S : s \in Seq(S) /\ e \in S
  <2> DEFINE T == {s[i] : i \in 1..Len(s)}
             S == T \cup {e}
  <2>1. s \in Seq(T)
    BY DEF IsList
  <2>2. T \subseteq S /\ e \in S
    OBVIOUS
  <2> HIDE DEF T, S
  <2>3. s \in Seq(S)
    BY <2>1, <2>2, SeqMonotonic
  <2> QED
    BY <2>2, <2>3
<1>2. /\ Append(s, e) \in Seq(S) /\ Len(Append(s, e)) = Len(s) + 1 /\ Append(s, e)[Len(s) + 1] = e
      /\ \A i \in 1..Len(s) : Append(s, e)[i] = s[i]
  BY <1>1, AppendProperties
<1> QED
  BY <1>2, SequencesAreLists

LEMMA ConcatenatedList ==
  ASSUME NEW s, IsList(s), NEW t, IsList(t)
  PROVE  IsList(s \o t)
<1> DEFINE T == {s[i] : i \in 1..Len(s)}
           U == {t[i] : i \in 1..Len(t)}
           S == T \cup U
<1>1. s \in Seq(T) /\ t \in Seq(U)
  BY DEF IsList
<1>2. T \subseteq S /\ U \subseteq S
  OBVIOUS
<1> HIDE DEF T, U, S
<1>3. s \in Seq(S) /\ t \in Seq(S)
  BY <1>1, <1>2, SeqMonotonic
<1>4. s \o t \in Seq(S)
  BY <1>3, ConcatProperties
<1> QED
  BY <1>4, SequencesAreLists

LEMMA PartOfList ==
  ASSUME NEW s, IsList(s), NEW m \in Nat \ {0}, NEW n \in Nat, n <= Len(s)
  PROVE  IsList(SubSeq(s, m, n))
<1> DEFINE T == {s[i] : i \in 1..Len(s)}
<1>1. \A i \in m..n : s[i] \in T
  BY DEF IsList
<1>2. m \in Int /\ n \in Int
  OBVIOUS
<1> HIDE DEF T
<1>3. SubSeq(s, m, n) \in Seq(T)
  BY <1>1, <1>2, SubSeqProperties
<1> QED
  BY <1>3, SequencesAreLists
-----------------------------------------------------------------------------
(* One element read.                                                       *)

\* Whatever its octets, one command is delivered, and it is made for the element.
LEMMA OneDelivered ==
  ASSUME NEW cs, NEW ds, NEW state, NEW class, NEW id, NEW args, NEW y,
         y = ReadOne([commands |-> cs, defaults |-> ds, cgm |-> state], class, id, args)
  PROVE  \E c : y.commands = Append(cs, c) /\ c.code = CreateCommand(class, id).own
<1> DEFINE x == [commands |-> cs, defaults |-> ds, cgm |-> state]
           l == CreateCommand(class, id)
           r == ReadCommand(l, args, state)
           c == Command(l, r.fields, r.ok)
<1>1. c.code = l.own
  BY DEF Command
<1>2. \E z : ReadPlain(x, class, id, args) = [commands |-> Append(cs, c), defaults |-> ds, cgm |-> z]
  <2> HIDE DEF l
  <2>1. ReadPlain(x, class, id, args) = Done(x, l, r)
    BY DEF ReadPlain, ReadAs, l
  <2> HIDE DEF r
  <2>2. c = Command(l, r.fields, r.ok)
    OBVIOUS
  <2> HIDE DEF c
  <2> QED
    BY <2>1, <2>2 DEF Done
<1> HIDE DEF c, x
<1>3. PICK p, z : p = ReadPlain(x, class, id, args) /\ p = [commands |-> Append(cs, c), defaults |-> ds, cgm |-> z]
  BY <1>2
<1>4. y.commands = p.commands
  <2>1. y = ReadOne(x, class, id, args)
    BY DEF x
  <2>2. CASE <<class, id>> # MetafileDefaultsReplacement.code \/ args = <<>>
    BY <1>3, <2>1, <2>2 DEF ReadOne
  <2>3. CASE ~(<<class, id>> # MetafileDefaultsReplacement.code \/ args = <<>>)
    <3>1. PICK d : d = Replacement(args, x.cgm)
      OBVIOUS
    <3>2. y = [p EXCEPT !.defaults = @ \o d.commands, !.cgm = d.cgm]
      BY <1>3, <2>1, <2>3, <3>1 DEF ReadOne
    <3> QED
      BY <1>3, <3>2
  <2> QED
    BY <2>2, <2>3
<1>5. y.commands = Append(cs, c) /\ c.code = CreateCommand(class, id).own
  BY <1>1, <1>3, <1>4
<1> QED
  BY <1>5

\* What has been read, as ElementDelivery sees it.
CodesRead(cs) == [i \in DOMAIN cs |-> cs[i].code]

LEMMA CodesOfAppended ==
  ASSUME NEW cs, IsList(cs), NEW c
  PROVE  CodesRead(Append(cs, c)) = Append(CodesRead(cs), c.code) /\ Len(CodesRead(cs)) = Len(cs)
<1>1. PICK n \in Nat : n = Len(cs) /\ DOMAIN cs = 1..n
  BY LenProperties DEF IsList
<1>2. PICK t : t = Append(cs, c)
  OBVIOUS
<1>3. IsList(t) /\ Len(t) = n + 1 /\ t[n + 1] = c /\ \A i \in 1..n : t[i] = cs[i]
  BY <1>1, <1>2, AppendedList
<1>4. DOMAIN t = 1..n + 1
  BY <1>3, LenProperties DEF IsList
<1>5. CodesRead(t) = [i \in 1..n + 1 |-> t[i].code]
  BY <1>4 DEF CodesRead
<1>6. PICK d : d = CodesRead(cs) /\ d = [i \in 1..n |-> cs[i].code]
  BY <1>1 DEF CodesRead
<1>7. IsList(d) /\ Len(d) = n
  <2> DEFINE T == {cs[i].code : i \in 1..n}
  <2>1. \A i \in 1..n : cs[i].code \in T
    OBVIOUS
  <2> HIDE DEF T
  <2>2. d \in Seq(T) /\ Len(d) = n
    BY <1>6, <2>1, IsASeq, LenProperties
  <2> QED
    BY <2>2, SequencesAreLists
<1>8. PICK e : e = Append(d, c.code)
  OBVIOUS
<1>9. IsList(e) /\ Len(e) = n + 1 /\ e[n + 1] = c.code /\ \A i \in 1..n : e[i] = cs[i].code
  BY <1>6, <1>7, <1>8, AppendedList
<1>10. e = [i \in 1..n + 1 |-> e[i]]
  BY <1>9, LenProperties DEF IsList
<1>11. \A i \in 1..n + 1 : e[i] = t[i].code
  <2> TAKE i \in 1..n + 1
  <2>1. CASE i = n + 1
    BY <1>3, <1>9, <2>1
  <2>2. CASE i # n + 1
    <3>1. i \in 1..n
      BY <2>2
    <3> QED
      BY <1>3, <1>9, <3>1
  <2> QED
    BY <2>1, <2>2
<1>12. e = CodesRead(t)
  BY <1>5, <1>10, <1>11
<1> QED
  BY <1>1, <1>2, <1>6, <1>7, <1>8, <1>12

LEMMA CodesOfMarks ==
  ASSUME NEW ms, IsList(ms)
  PROVE  /\ IsList(CodesOf(ms)) /\ Len(CodesOf(ms)) = Len(ms) /\ DOMAIN CodesOf(ms) = 1..Len(ms)
         /\ \A i \in 1..Len(ms) : CodesOf(ms)[i] = OwnCode(ms[i])
<1>1. PICK n \in Nat : n = Len(ms) /\ DOMAIN ms = 1..n
  BY LenProperties DEF IsList
<1>2. CodesOf(ms) = [i \in 1..n |-> OwnCode(ms[i])]
  BY <1>1 DEF CodesOf
<1> DEFINE T == {OwnCode(ms[i]) : i \in 1..n}
<1>3. \A i \in 1..n : OwnCode(ms[i]) \in T
  OBVIOUS
<1> HIDE DEF T
<1>4. CodesOf(ms) \in Seq(T) /\ Len(CodesOf(ms)) = n
  BY <1>2, <1>3, IsASeq, LenProperties
<1> QED
  BY <1>1, <1>2, <1>4, SequencesAreLists
-----------------------------------------------------------------------------
(* The reader keeps in step with the file, in the first load of it.        *)

\* The first commands are those of the first elements, and the reader is behind these.
InStep ==
  /\ Consists(file, marks, Len(marks))
  /\ Len(commands) <= Len(marks) /\ at = EndOf(marks, Len(commands))
  /\ \A i \in 1..Len(commands) : commands[i].code = OwnCode(marks[i])

Inv ==
  /\ loads \in Nat \ {0}
  /\ phase = "reading" => IsList(commands)
  /\ phase = "reading" /\ loads = 1 => InStep

LEMMA ConsistsOfList ==
  ASSUME NEW o, NEW ms, Consists(o, ms, Len(ms))
  PROVE  IsList(ms)
BY DEF Consists, IsList

\* Where the reader finds an element, it is the next one that is whole.
LEMMA NextFound ==
  ASSUME InStep, IsList(commands), HoldsElement
  PROVE  \E m : /\ m = marks[Len(commands) + 1] /\ Len(commands) + 1 \in 1..Len(marks)
                /\ Frame.class = m.class /\ Frame.id = m.id /\ Frame.at = m.end
<1>1. PICK n \in Nat, k \in Nat : n = Len(marks) /\ k = Len(commands) /\ k <= n
  BY DEF InStep, Consists, IsList
<1>2. Consists(file, marks, n) /\ at = EndOf(marks, k)
  BY <1>1 DEF InStep
<1>3. k # n
  BY <1>2 DEF HoldsElement, Frame, Consists
<1>4. k + 1 \in 1..n /\ (k + 1) - 1 = k
  BY <1>1, <1>3
<1>5. StandsAt(file, at, marks[k + 1])
  BY <1>2, <1>4 DEF Consists
<1> QED
  BY <1>1, <1>4, <1>5 DEF StandsAt, Frame

\* Where it finds none, there are no more.
LEMMA NoneFound ==
  ASSUME InStep, IsList(commands), ~HoldsElement
  PROVE  Len(commands) = Len(marks)
<1>1. PICK n \in Nat, k \in Nat : n = Len(marks) /\ k = Len(commands) /\ k <= n
  BY DEF InStep, Consists, IsList
<1>2. Consists(file, marks, n) /\ at = EndOf(marks, k)
  BY <1>1 DEF InStep
<1>3. SUFFICES ASSUME k # n PROVE FALSE
  BY <1>1
<1>4. k + 1 \in 1..n /\ (k + 1) - 1 = k
  BY <1>1, <1>3
<1>5. StandsAt(file, at, marks[k + 1])
  BY <1>2, <1>4 DEF Consists
<1> QED
  BY <1>5 DEF StandsAt, HoldsElement, Frame

\* ReadNext appends one command.
LEMMA ReadNextAppends ==
  ASSUME ReadNext
  PROVE  \E c : commands' = Append(commands, c) /\ c.code = CreateCommand(Frame.class, Frame.id).own
<1>1. PICK y : /\ y = ReadOne([commands |-> commands, defaults |-> defaults, cgm |-> cgm],
                              Frame.class, Frame.id, Frame.args)
               /\ commands' = y.commands
  BY DEF ReadNext
<1>2. PICK class, id, args : class = Frame.class /\ id = Frame.id /\ args = Frame.args
  OBVIOUS
<1>3. y = ReadOne([commands |-> commands, defaults |-> defaults, cgm |-> cgm], class, id, args)
  BY <1>1, <1>2
<1>4. \E c : y.commands = Append(commands, c) /\ c.code = CreateCommand(class, id).own
  BY <1>3, OneDelivered
<1> QED
  BY <1>1, <1>2, <1>4

LEMMA InitInv == Init => Inv
<1> SUFFICES ASSUME Init PROVE Inv
  OBVIOUS
<1>1. commands = <<>> /\ at = 0 /\ loads = 1
  BY DEF Init, Opened
<1>2. Consists(file, marks, Len(marks))
  <2>1. PICK f \in Files : LET n == Len(EncodedFile(f.elements)) - f.cut
                           IN  /\ file = SubSeq(EncodedFile(f.elements), 1, n)
                               /\ marks = Whole(Marks(f.elements), n)
    BY DEF Init
  <2>2. PICK elements, n : /\ elements = f.elements /\ n = Len(EncodedFile(elements)) - f.cut
                           /\ file = SubSeq(EncodedFile(elements), 1, n)
                           /\ marks = Whole(Marks(elements), n)
    BY <2>1
  <2>3. elements \in Seq(Elements) /\ f.cut \in 0 .. Len(EncodedFile(elements))
    BY <2>2, FilesAssumption
  <2>4. Len(EncodedFile(elements)) \in Nat
    BY <2>3, FramesType, FlattenType, LenProperties
  <2>5. n \in 0 .. Len(EncodedFile(elements))
    BY <2>2, <2>3, <2>4
  <2> QED
    BY <2>2, <2>3, <2>5, FileConsists
<1>3. Len(marks) \in Nat
  BY <1>2 DEF Consists
<1>4. InStep
  BY <1>1, <1>2, <1>3, EmptyList DEF InStep, EndOf
<1> QED
  BY <1>1, <1>4, EmptyList DEF Inv

LEMMA NextInv == Inv /\ [Next]_vars => Inv'
<1> SUFFICES ASSUME Inv, [Next]_vars PROVE Inv'
  OBVIOUS
<1>1. CASE ReadNext
  <2>1. PICK c : commands' = Append(commands, c) /\ c.code = CreateCommand(Frame.class, Frame.id).own
    BY <1>1, ReadNextAppends
  <2>2. IsList(commands) /\ HoldsElement
    BY <1>1 DEF ReadNext, Inv
  <2>3. /\ IsList(commands') /\ Len(commands') = Len(commands) + 1 /\ commands'[Len(commands) + 1] = c
        /\ \A i \in 1..Len(commands) : commands'[i] = commands[i]
    BY <2>1, <2>2, AppendedList
  <2>4. ASSUME loads = 1 PROVE InStep'
    <3>1. InStep /\ UNCHANGED <<file, marks>> /\ at' = Frame.at
      BY <1>1, <2>4 DEF Inv, ReadNext
    <3>2. PICK k \in Nat : k = Len(commands)
      BY <2>2 DEF IsList
    <3> PICK m : m = marks[k + 1]
      OBVIOUS
    <3>3. k + 1 \in 1..Len(marks) /\ Frame.class = m.class /\ Frame.id = m.id /\ Frame.at = m.end
      BY <2>2, <3>1, <3>2, NextFound
    <3>4. c.code = OwnCode(m)
      BY <2>1, <3>3 DEF OwnCode
    <3>5. \A i \in 1..k + 1 : commands'[i].code = OwnCode(marks[i])
      <4> TAKE i \in 1..k + 1
      <4>1. CASE i = k + 1
        BY <2>3, <3>2, <3>4, <4>1
      <4>2. CASE i # k + 1
        <5>1. i \in 1..k
          BY <4>2
        <5> QED
          BY <2>3, <3>1, <3>2, <5>1 DEF InStep
      <4> QED
        BY <4>1, <4>2
    <3>6. Len(commands') = k + 1 /\ k + 1 # 0 /\ Len(marks) \in Nat
      BY <2>3, <3>1, <3>2 DEF InStep, Consists
    <3>7. at' = EndOf(marks, k + 1) /\ k + 1 <= Len(marks)
      BY <3>1, <3>2, <3>3, <3>6 DEF EndOf
    <3> QED
      BY <3>1, <3>5, <3>6, <3>7 DEF InStep
  <2> QED
    BY <1>1, <2>3, <2>4 DEF Inv, ReadNext
<1>2. CASE EndReading
  BY <1>2 DEF EndReading, Inv
<1>3. CASE StartSave
  BY <1>3 DEF StartSave, Inv
<1>4. CASE WriteNext
  BY <1>4 DEF WriteNext, Inv
<1>5. CASE WriteThrows
  BY <1>5 DEF WriteThrows, Inv
<1>6. CASE EndWriting
  BY <1>6 DEF EndWriting, Inv
<1>7. CASE Crash
  BY <1>7 DEF Crash, Inv
<1>8. CASE Reload
  BY <1>8, EmptyList DEF Reload, Inv, Opened
<1>9. CASE UNCHANGED vars
  BY <1>9 DEF vars, Inv, InStep
<1> QED
  BY <1>1, <1>2, <1>3, <1>4, <1>5, <1>6, <1>7, <1>8, <1>9 DEF Next, Loading, Saving

\* What has been delivered of the file being read.
Got == IF phase = "reading" THEN CodesRead(commands) ELSE <<>>

LEMMA NoCodes == CodesRead(<<>>) = <<>>
BY DEF CodesRead

\* A step of the first load delivers the next element, or ends when all have been.
LEMMA FirstLoadStep ==
  ASSUME Inv, loads = 1, [Next]_vars
  PROVE  Delivery!Next \/ UNCHANGED <<CodesOf(marks), Got>>
<1>1. CASE ReadNext
  <2>1. PICK c : commands' = Append(commands, c) /\ c.code = CreateCommand(Frame.class, Frame.id).own
    BY <1>1, ReadNextAppends
  <2>2. IsList(commands) /\ HoldsElement /\ InStep
    BY <1>1 DEF ReadNext, Inv
  <2>3. PICK m : /\ m = marks[Len(commands) + 1] /\ Len(commands) + 1 \in 1..Len(marks)
                 /\ Frame.class = m.class /\ Frame.id = m.id
    BY <2>2, NextFound
  <2>4. c.code = OwnCode(m)
    BY <2>1, <2>3 DEF OwnCode
  <2>5. IsList(marks)
    BY <2>2, ConsistsOfList DEF InStep
  <2>6. /\ Len(CodesOf(marks)) = Len(marks)
        /\ CodesOf(marks)[Len(commands) + 1] = OwnCode(m)
    BY <2>3, <2>5, CodesOfMarks
  <2>7. CodesRead(commands') = Append(CodesRead(commands), c.code) /\ Len(CodesRead(commands)) = Len(commands)
    BY <2>1, <2>2, CodesOfAppended
  <2>8. Got = CodesRead(commands) /\ Got' = CodesRead(commands')
    BY <1>1 DEF ReadNext, Got
  <2>9. Len(Got) < Len(CodesOf(marks)) /\ Got' = Append(Got, CodesOf(marks)[Len(Got) + 1])
    <3>1. Len(commands) \in Nat /\ Len(marks) \in Nat
      BY <2>2, <2>5 DEF IsList
    <3> QED
      BY <2>3, <2>4, <2>6, <2>7, <2>8, <3>1
  <2>10. CodesOf(marks)' = CodesOf(marks)
    BY <1>1 DEF ReadNext
  <2>11. Delivery!Deliver
    BY <2>9, <2>10 DEF Delivery!Deliver, Got, CodesRead
  <2> QED
    BY <2>11 DEF Delivery!Next
<1>2. CASE EndReading
  <2>1. IsList(commands) /\ ~HoldsElement /\ InStep
    BY <1>2 DEF EndReading, Inv
  <2>2. PICK n \in Nat : n = Len(commands) /\ n = Len(marks)
    BY <2>1, NoneFound DEF IsList
  <2>3. IsList(marks)
    BY <2>1, ConsistsOfList DEF InStep
  <2>4. DOMAIN commands = 1..n /\ DOMAIN marks = 1..n
    BY <2>1, <2>2, <2>3, LenProperties DEF IsList
  <2>5. CodesRead(commands) = CodesOf(marks)
    <3>1. \A i \in 1..n : commands[i].code = OwnCode(marks[i])
      BY <2>1, <2>2 DEF InStep
    <3> QED
      BY <2>4, <3>1 DEF CodesRead, CodesOf
  <2>6. Got = CodesOf(marks) /\ Got' = <<>>
    BY <1>2, <2>5 DEF EndReading, Got
  <2>7. Delivery!Close
    BY <2>6 DEF Delivery!Close, Got, CodesRead
  <2> QED
    BY <2>7 DEF Delivery!Next
<1>3. ASSUME phase # "reading", phase' # "reading"
      PROVE  Delivery!Next
  <2>1. Got = <<>> /\ Got' = <<>>
    BY <1>3 DEF Got
  <2>2. Delivery!Store
    BY <2>1 DEF Delivery!Store, Got, CodesRead
  <2> QED
    BY <2>2 DEF Delivery!Next
<1>4. CASE StartSave \/ WriteNext \/ WriteThrows \/ EndWriting \/ Crash
  <2>1. phase # "reading" /\ phase' # "reading"
    BY <1>4 DEF StartSave, WriteNext, WriteThrows, EndWriting, Crash
  <2> QED
    BY <1>3, <2>1
<1>5. CASE Reload
  <2>1. Got = <<>> /\ Got' = <<>> /\ UNCHANGED marks
    BY <1>5, NoCodes DEF Reload, Got, Opened
  <2> QED
    BY <2>1
<1>6. CASE UNCHANGED vars
  BY <1>6 DEF vars, Got
<1> QED
  BY <1>1, <1>2, <1>4, <1>5, <1>6 DEF Next, Loading, Saving

LEMMA Invariance == Spec => []Inv
BY InitInv, NextInv, PTL DEF Spec

\* In the first load of a file, whatever its octets, partitions and parameters and wherever
\* it ends, the elements that are whole in it are delivered one by one, in order, each once
\* and as itself, and the load does not end before they all are (readCommand, readCommands).
THEOREM FirstLoadDelivers ==
  Spec => Delivery!Init /\ [][loads = 1 => Delivery!Next \/ UNCHANGED <<CodesOf(marks), Got>>]_vars
<1>1. Init => Delivery!Init
  BY NoCodes DEF Init, Opened, Delivery!Init, CodesRead
<1>2. Inv /\ [Next]_vars => (loads = 1 => Delivery!Next \/ UNCHANGED <<CodesOf(marks), Got>>)
  BY FirstLoadStep
<1> QED
  BY <1>1, <1>2, Invariance, PTL DEF Spec

\* Where no file is loaded twice, none is saved.
LEMMA OneLoadInv ==
  ASSUME MaxLoads = 1
  PROVE  Spec => [](loads = 1 /\ phase \in {"reading", "loaded"})
<1>1. Init => loads = 1 /\ phase \in {"reading", "loaded"}
  BY DEF Init
<1>2. loads = 1 /\ phase \in {"reading", "loaded"} /\ [Next]_vars
      => (loads = 1 /\ phase \in {"reading", "loaded"})'
  BY DEF Next, Loading, Saving, ReadNext, EndReading, StartSave, WriteNext, WriteThrows, EndWriting,
         Crash, Reload, vars
<1> QED
  BY <1>1, <1>2, PTL DEF Spec

\* A system that loads files, and does not save them, implements the abstract delivery
\* of elements: see FirstLoadDelivers.
THEOREM LoadingDelivers ==
  ASSUME MaxLoads = 1
  PROVE  Spec => ElementsDelivered
<1> DEFINE got == IF phase = "reading" THEN [i \in DOMAIN commands |-> commands[i].code] ELSE <<>>
<1>1. Inv /\ loads = 1 /\ phase \in {"reading", "loaded"} /\ [Next]_vars
      => [Delivery!Next]_<<CodesOf(marks), got>>
  BY FirstLoadStep DEF Got, CodesRead
<1>2. Init => Delivery!Init
  BY NoCodes DEF Init, Opened, Delivery!Init, CodesRead
<1> QED
  BY <1>1, <1>2, Invariance, OneLoadInv, PTL DEF Spec, ElementsDelivered, Delivery!Spec
-----------------------------------------------------------------------------
(* METAFILE DEFAULTS REPLACEMENT.                                          *)

\* The first of the numbers up to n that has a property, if there is one.
LEMMA First ==
  ASSUME NEW n \in Nat, NEW T, T # {}, T \subseteq 1..n
  PROVE  (CHOOSE i \in T : \A j \in T : i <= j) \in T
         /\ \A j \in T : (CHOOSE i \in T : \A k \in T : i <= k) <= j
<1> DEFINE R == {ss \in Nat \X Nat : ss[1] < ss[2]}
<1>1. T \subseteq Nat
  OBVIOUS
<1>2. IsWellFoundedOn(R, Nat)
  BY NatLessThanWellFounded, Zenon DEF OpToRel
<1>3. PICK m \in T : \A y \in T : ~(<<y, m>> \in R)
  <2> HIDE DEF R
  <2> QED
    BY <1>1, <1>2, WFMin
<1>4. \A j \in T : m <= j
  <2> TAKE j \in T
  <2>1. ~(j < m)
    BY <1>1, <1>3
  <2> QED
    BY <1>1, <2>1
<1> QED
  BY <1>4

\* Where the defaults go: behind the leading descriptors, and before any picture.
LEMMA PositionFound ==
  ASSUME IsList(commands)
  PROVE  /\ DefaultsPosition(commands) \in 0 .. Len(commands)
         /\ \A j \in DOMAIN commands : LeadingDescriptors(j) => j <= DefaultsPosition(commands)
         /\ \A j \in 1 .. DefaultsPosition(commands) : ~IsA(commands[j], 0, 3)
<1>1. PICK n \in Nat : n = Len(commands) /\ DOMAIN commands = 1..n
  BY LenProperties DEF IsList
<1>2. PICK start \in {0, 1} : start = IF commands # <<>> /\ IsA(commands[1], 0, 1) THEN 1 ELSE 0
  OBVIOUS
<1>3. start = 1 => n >= 1 /\ IsA(commands[1], 0, 1)
  <2>1. n = 0 => commands = <<>>
    BY <1>1 DEF IsList
  <2> QED
    BY <1>1, <1>2, <2>1
<1>4. PICK others : others = {i \in start + 1 .. n : commands[i].code[1] # 1}
  OBVIOUS
<1>5. DefaultsPosition(commands)
      = IF others = {} THEN n ELSE (CHOOSE i \in others : \A j \in others : i <= j) - 1
  BY <1>1, <1>2, <1>4 DEF DefaultsPosition
<1>6. PICK k \in 0..n : /\ k = DefaultsPosition(commands) /\ start <= k
                        /\ \A j \in start + 1 .. k : j \notin others
                        /\ k # n => k + 1 \in others
  <2>1. CASE others = {}
    BY <1>2, <1>3, <1>5, <2>1
  <2>2. CASE others # {}
    <3>1. others \subseteq 1..n
      BY <1>2, <1>4
    <3>2. PICK i \in others : i = (CHOOSE h \in others : \A j \in others : h <= j) /\ \A j \in others : i <= j
      BY <2>2, <3>1, First
    <3>3. i \in start + 1 .. n /\ i - 1 \in 0..n /\ start <= i - 1 /\ (i - 1) + 1 = i
      BY <1>2, <1>4, <3>2
    <3>4. \A j \in start + 1 .. i - 1 : j \notin others
      BY <1>2, <3>2, <3>3
    <3>5. DefaultsPosition(commands) = i - 1
      BY <1>5, <2>2, <3>2
    <3> QED
      BY <3>2, <3>3, <3>4, <3>5
  <2> QED
    BY <2>1, <2>2
<1>7. ASSUME NEW j \in 1..n, LeadingDescriptors(j) PROVE j <= k
  <2>1. SUFFICES ASSUME ~(j <= k) PROVE FALSE
    OBVIOUS
  <2>2. k # n /\ k + 1 \in 1..j /\ k + 1 \in others
    BY <1>6, <2>1
  <2>3. commands[k + 1].code[1] # 1 /\ k + 1 \in start + 1 .. n
    BY <1>4, <2>2
  <2>4. k + 1 = 1 /\ IsA(commands[1], 0, 1)
    BY <1>7, <2>2, <2>3 DEF LeadingDescriptors
  <2>5. commands # <<>>
    BY <1>1, <1>7
  <2> QED
    BY <1>2, <1>6, <2>3, <2>4, <2>5
<1>8. ASSUME NEW j \in 1..k PROVE ~IsA(commands[j], 0, 3)
  <2>1. CASE j <= start
    <3>1. j = 1 /\ start = 1
      BY <1>2, <2>1
    <3>2. commands[j].code = <<0, 1>>
      BY <1>3, <3>1 DEF IsA
    <3> QED
      BY <3>2 DEF IsA
  <2>2. CASE ~(j <= start)
    <3>1. j \in start + 1 .. k /\ j \in start + 1 .. n
      BY <1>2, <1>6, <2>2
    <3>2. commands[j].code[1] = 1
      BY <1>4, <1>6, <3>1
    <3> QED
      BY <3>2 DEF IsA
  <2> QED
    BY <2>1, <2>2
<1> QED
  BY <1>1, <1>6, <1>7, <1>8

LEMMA EndReadingPlaces ==
  ASSUME Inv, EndReading
  PROVE  \E k \in 0 .. Len(commands) :
           /\ commands' = SubSeq(commands, 1, k) \o defaults \o SubSeq(commands, k + 1, Len(commands))
           /\ \A j \in DOMAIN commands : LeadingDescriptors(j) => j <= k
           /\ \A j \in 1..k : ~IsA(commands[j], 0, 3)
<1>1. IsList(commands)
  BY DEF Inv, EndReading
<1>2. PICK k : k = DefaultsPosition(commands)
  OBVIOUS
<1>3. commands' = SubSeq(commands, 1, k) \o defaults \o SubSeq(commands, k + 1, Len(commands))
  BY <1>2 DEF EndReading, WithDefaults
<1> QED
  BY <1>1, <1>2, <1>3, PositionFound

\* In every load, the first as well as that of a file saved, damaged or not, the commands
\* of METAFILE DEFAULTS REPLACEMENT are put, once and in their order, behind all leading
\* descriptors and before any picture (readData).
THEOREM DefaultsArePlaced == Spec => DefaultsInPlace
<1>1. Inv /\ [Next]_vars
      => [EndReading =>
            \E k \in 0 .. Len(commands) :
              /\ commands' = SubSeq(commands, 1, k) \o defaults \o SubSeq(commands, k + 1, Len(commands))
              /\ \A j \in DOMAIN commands : LeadingDescriptors(j) => j <= k
              /\ \A j \in 1..k : ~IsA(commands[j], 0, 3)]_vars
  BY EndReadingPlaces
<1> QED
  BY <1>1, Invariance, PTL DEF Spec, DefaultsInPlace
-----------------------------------------------------------------------------
(* The commands in the octets of a METAFILE DEFAULTS REPLACEMENT.          *)

\* A reading of several commands.
IsReading(x) == x = [commands |-> x.commands, at |-> x.at, cgm |-> x.cgm] /\ IsList(x.commands)

\* One turn of readCommands.
OneMore(o, x) == IF AtEnd(o, x.at) THEN x ELSE ReadFramed(x, ReadFrame(o, x.at))

LEMMA DoneIs ==
  ASSUME NEW cs, NEW pos, NEW state, NEW l, NEW r
  PROVE  Done([commands |-> cs, at |-> pos, cgm |-> state], l, r)
         = [commands |-> Append(cs, Command(l, r.fields, r.ok)), at |-> pos,
            cgm |-> IF r.ok THEN Effect(l.own, r.fields, state) ELSE state]
<1>1. PICK x : x = [commands |-> cs, at |-> pos, cgm |-> state]
  OBVIOUS
<1>2. x.commands = cs /\ x.cgm = state /\ x.at = pos
  BY <1>1
<1>3. PICK e, z : /\ e = Append(cs, Command(l, r.fields, r.ok))
                  /\ z = IF r.ok THEN Effect(l.own, r.fields, state) ELSE state
  OBVIOUS
<1>4. Done(x, l, r) = [x EXCEPT !.commands = e, !.cgm = z]
  BY <1>2, <1>3 DEF Done
<1>5. [x EXCEPT !.commands = e, !.cgm = z] = [commands |-> e, at |-> pos, cgm |-> z]
  <2>1. PICK y \in [commands : {e}, at : {pos}, cgm : {z}] : y = [x EXCEPT !.commands = e, !.cgm = z]
    BY <1>1
  <2>2. y = [commands |-> y.commands, at |-> y.at, cgm |-> y.cgm]
    OBVIOUS
  <2>3. y.commands = e /\ y.at = pos /\ y.cgm = z
    OBVIOUS
  <2> QED
    BY <2>1, <2>2, <2>3
<1> QED
  BY <1>1, <1>3, <1>4, <1>5

LEMMA OneMoreRead ==
  ASSUME NEW o, NEW x, IsReading(x)
  PROVE  IsReading(OneMore(o, x))
<1>1. PICK cs, pos, state : x = [commands |-> cs, at |-> pos, cgm |-> state] /\ IsList(cs)
  BY DEF IsReading
<1>2. PICK f : f = ReadFrame(o, x.at)
  OBVIOUS
<1>3. CASE AtEnd(o, x.at) \/ f.cut
  BY <1>2, <1>3 DEF OneMore, ReadFramed
<1>4. CASE ~(AtEnd(o, x.at) \/ f.cut)
  <2>1. PICK l : l = CreateCommand(f.class, f.id)
    OBVIOUS
  <2>2. PICK r : r = ReadCommand(l, f.args, x.cgm)
    OBVIOUS
  <2>3. OneMore(o, x) = [Done(x, l, r) EXCEPT !.at = f.at]
    BY <1>2, <1>4, <2>1, <2>2 DEF OneMore, ReadFramed, ReadPlain, ReadAs
  <2>4. PICK c : c = Command(l, r.fields, r.ok)
    OBVIOUS
  <2>5. PICK z : z = IF r.ok THEN Effect(l.own, r.fields, state) ELSE state
    OBVIOUS
  <2>6. PICK d, list : list = Append(cs, c) /\ d = [commands |-> list, at |-> pos, cgm |-> z]
    OBVIOUS
  <2>7. Done(x, l, r) = d
    BY <1>1, <2>4, <2>5, <2>6, DoneIs
  <2>8. OneMore(o, x) = [d EXCEPT !.at = f.at]
    BY <2>3, <2>7
  <2>9. OneMore(o, x) = [commands |-> list, at |-> f.at, cgm |-> z]
    BY <2>6, <2>8
  <2>10. IsList(list)
    BY <1>1, <2>6, AppendedList
  <2> QED
    BY <2>9, <2>10 DEF IsReading
<1> QED
  BY <1>3, <1>4

\* m turns, as they are taken.
Few(o, m, start) ==
  LET after[i \in 0..m] ==
        IF i = 0 THEN start ELSE CHOOSE z \in {OneMore(o, y) : y \in {after[i - 1]}} : TRUE
  IN  after[m]

Many(o, n, x) ==
  LET many[i \in 0..n \div 16] ==
        IF i = 0 THEN Few(o, n % 16, x) ELSE CHOOSE z \in {Few(o, 16, y) : y \in {many[i - 1]}} : TRUE
  IN  many[n \div 16]

LEMMA ReadPlainAllTurns ==
  ASSUME NEW o, NEW state
  PROVE  ReadPlainAll(o, state) = Many(o, Len(o), [commands |-> <<>>, at |-> 0, cgm |-> state])
BY DEF ReadPlainAll, Repeat, Many, Few, OneMore

LEMMA FewReadings ==
  ASSUME NEW o, NEW m \in Nat, NEW start, IsReading(start)
  PROVE  IsReading(Few(o, m, start))
<1> DEFINE N(v) == CHOOSE z \in {OneMore(o, y) : y \in {v}} : TRUE
           Is(f, k) == f = [i \in 0..k |-> IF i = 0 THEN start ELSE N(f[i - 1])]
           Good == {k \in Nat : \E f : Is(f, k)}
<1>1. ASSUME NEW v, IsReading(v) PROVE IsReading(N(v))
  <2>1. N(v) = OneMore(o, v)
    OBVIOUS
  <2> QED
    BY <1>1, <2>1, OneMoreRead
<1> HIDE DEF N
<1>2. 0 \in Good
  <2>1. PICK f : f = [i \in 0..0 |-> start]
    OBVIOUS
  <2>2. f = [i \in 0..0 |-> IF i = 0 THEN start ELSE N(f[i - 1])]
    BY <2>1
  <2>3. Is(f, 0)
    BY <2>2
  <2> HIDE DEF Is
  <2> QED
    BY <2>3
<1>3. ASSUME NEW k \in Nat, k \in Good PROVE k + 1 \in Good
  <2>1. PICK f : Is(f, k)
    BY <1>3
  <2>2. PICK h : h = [i \in 0..k + 1 |-> IF i = k + 1 THEN N(f[k]) ELSE f[i]]
    OBVIOUS
  <2>3. k + 1 \in 0..k + 1 /\ h[k + 1] = N(f[k]) /\ \A i \in 0..k : h[i] = f[i]
    BY <2>2
  <2>4. \A i \in 0..k + 1 : h[i] = IF i = 0 THEN start ELSE N(h[i - 1])
    <3> TAKE i \in 0..k + 1
    <3>1. CASE i = k + 1
      <4>1. i # 0 /\ i - 1 = k /\ k \in 0..k
        BY <3>1
      <4> QED
        BY <2>3, <3>1, <4>1
    <3>2. CASE i # k + 1
      <4>1. i \in 0..k /\ (i # 0 => i - 1 \in 0..k)
        BY <3>2
      <4>2. f[i] = IF i = 0 THEN start ELSE N(f[i - 1])
        BY <2>1, <4>1
      <4> QED
        BY <2>3, <4>1, <4>2
    <3> QED
      BY <3>1, <3>2
  <2>5. Is(h, k + 1)
    BY <2>2, <2>4
  <2> HIDE DEF Is
  <2> QED
    BY <2>5
<1>4. m \in Good
  <2> HIDE DEF Good
  <2> QED
    BY <1>2, <1>3, Counting
<1>5. PICK f : f = (CHOOSE g : Is(g, m)) /\ Is(f, m)
  <2>1. \E f : Is(f, m)
    BY <1>4
  <2> HIDE DEF Is
  <2> QED
    BY <2>1
<1>10. Is(f, m)
  BY <1>5
<1> DEFINE Read == {k \in Nat : k <= m => IsReading(f[k])}
<1>6. 0 \in Read
  <2>1. Is(f, m) /\ 0 \in 0..m
    BY <1>10
  <2>2. f[0] = start
    BY <2>1
  <2> QED
    BY <2>2
<1>7. ASSUME NEW k \in Nat, k \in Read PROVE k + 1 \in Read
  <2>1. SUFFICES ASSUME k + 1 <= m PROVE IsReading(f[k + 1])
    OBVIOUS
  <2>2. k + 1 \in 0..m /\ k + 1 # 0 /\ (k + 1) - 1 = k /\ k <= m
    BY <2>1
  <2>3. f[k + 1] = N(f[k]) /\ IsReading(f[k])
    BY <1>5, <1>7, <2>2
  <2> QED
    BY <1>1, <2>3
<1>8. IsReading(f[m])
  <2>1. m \in Read
    <3> HIDE DEF Read
    <3> QED
      BY <1>6, <1>7, Counting
  <2> QED
    BY <2>1
<1>9. Few(o, m, start) = f[m]
  BY <1>5 DEF Few, N
<1> QED
  BY <1>8, <1>9

LEMMA ManyReadings ==
  ASSUME NEW o, NEW n \in Nat, NEW x, IsReading(x)
  PROVE  IsReading(Many(o, n, x))
<1> DEFINE N(v) == CHOOSE z \in {Few(o, 16, y) : y \in {v}} : TRUE
           m == n \div 16
           Is(f, k) == f = [i \in 0..k |-> IF i = 0 THEN Few(o, n % 16, x) ELSE N(f[i - 1])]
           Good == {k \in Nat : \E f : Is(f, k)}
<1>1. ASSUME NEW v, IsReading(v) PROVE IsReading(N(v))
  <2>1. N(v) = Few(o, 16, v)
    OBVIOUS
  <2> QED
    BY <1>1, <2>1, FewReadings
<1>11. m \in Nat /\ n % 16 \in Nat
  OBVIOUS
<1>12. PICK start : start = Few(o, n % 16, x) /\ IsReading(start)
  BY <1>11, FewReadings
<1> HIDE DEF N, m
<1>2. 0 \in Good
  <2>1. PICK f : f = [i \in 0..0 |-> start]
    OBVIOUS
  <2>2. f = [i \in 0..0 |-> IF i = 0 THEN Few(o, n % 16, x) ELSE N(f[i - 1])]
    BY <1>12, <2>1
  <2>3. Is(f, 0)
    BY <2>2
  <2> HIDE DEF Is
  <2> QED
    BY <2>3
<1>3. ASSUME NEW k \in Nat, k \in Good PROVE k + 1 \in Good
  <2>1. PICK f : Is(f, k)
    BY <1>3
  <2>2. PICK h : h = [i \in 0..k + 1 |-> IF i = k + 1 THEN N(f[k]) ELSE f[i]]
    OBVIOUS
  <2>3. k + 1 \in 0..k + 1 /\ h[k + 1] = N(f[k]) /\ \A i \in 0..k : h[i] = f[i]
    BY <2>2
  <2>4. \A i \in 0..k + 1 : h[i] = IF i = 0 THEN Few(o, n % 16, x) ELSE N(h[i - 1])
    <3> TAKE i \in 0..k + 1
    <3>1. CASE i = k + 1
      <4>1. i # 0 /\ i - 1 = k /\ k \in 0..k
        BY <3>1
      <4> QED
        BY <2>3, <3>1, <4>1
    <3>2. CASE i # k + 1
      <4>1. i \in 0..k /\ (i # 0 => i - 1 \in 0..k)
        BY <3>2
      <4>2. f[i] = IF i = 0 THEN Few(o, n % 16, x) ELSE N(f[i - 1])
        BY <2>1, <4>1
      <4> QED
        BY <2>3, <4>1, <4>2
    <3> QED
      BY <3>1, <3>2
  <2>5. Is(h, k + 1)
    BY <2>2, <2>4
  <2> HIDE DEF Is
  <2> QED
    BY <2>5
<1>4. m \in Good
  <2> HIDE DEF Good
  <2> QED
    BY <1>2, <1>3, <1>11, Counting
<1>5. PICK f : f = (CHOOSE g : Is(g, m)) /\ Is(f, m)
  <2>1. \E f : Is(f, m)
    BY <1>4
  <2> HIDE DEF Is
  <2> QED
    BY <2>1
<1>10. Is(f, m)
  BY <1>5
<1> DEFINE Read == {k \in Nat : k <= m => IsReading(f[k])}
<1>6. 0 \in Read
  <2>1. Is(f, m) /\ 0 \in 0..m
    BY <1>10, <1>11
  <2>2. f[0] = Few(o, n % 16, x)
    BY <2>1
  <2> QED
    BY <1>12, <2>2
<1>7. ASSUME NEW k \in Nat, k \in Read PROVE k + 1 \in Read
  <2>1. SUFFICES ASSUME k + 1 <= m PROVE IsReading(f[k + 1])
    OBVIOUS
  <2>2. k + 1 \in 0..m /\ k + 1 # 0 /\ (k + 1) - 1 = k /\ k <= m
    BY <1>11, <2>1
  <2>3. f[k + 1] = N(f[k]) /\ IsReading(f[k])
    BY <1>7, <1>10, <2>2
  <2> QED
    BY <1>1, <2>3
<1>8. IsReading(f[m])
  <2>1. m \in Read
    <3> HIDE DEF Read
    <3> QED
      BY <1>6, <1>7, <1>11, Counting
  <2> QED
    BY <1>11, <2>1
<1>9. Many(o, n, x) = f[m]
  BY <1>5 DEF Many, N, m
<1> QED
  BY <1>8, <1>9

\* A replacement leaves a list of commands.
LEMMA ReplacementList ==
  ASSUME NEW o, Len(o) \in Nat, NEW state
  PROVE  IsList(Replacement(o, state).commands)
<1>1. PICK n, s : n \in Nat /\ n = Len(o) /\ s = DecodingState(state, Defaults)
  OBVIOUS
<1>2. PICK x : x = [commands |-> <<>>, at |-> 0, cgm |-> s]
  OBVIOUS
<1>3. IsReading(x)
  BY <1>2, EmptyList DEF IsReading
<1>4. PICK y : y = ReadPlainAll(o, s) /\ IsReading(y)
  BY <1>1, <1>2, <1>3, ReadPlainAllTurns, ManyReadings
<1>5. Replacement(o, state).commands = y.commands
  <2>1. PICK z : z = DecodingState(y.cgm, state)
    OBVIOUS
  <2>2. Replacement(o, state) = [y EXCEPT !.cgm = z]
    BY <1>1, <1>4, <2>1 DEF Replacement
  <2>3. y = [commands |-> y.commands, at |-> y.at, cgm |-> y.cgm]
    BY <1>4 DEF IsReading
  <2> QED
    BY <2>2, <2>3
<1> QED
  BY <1>4, <1>5 DEF IsReading

LEMMA ReplacedList ==
  ASSUME NEW cs, NEW ds, IsList(ds), NEW state, NEW class, NEW id, NEW args, Len(args) \in Nat, NEW y,
         y = ReadOne([commands |-> cs, defaults |-> ds, cgm |-> state], class, id, args)
  PROVE  IsList(y.defaults)
<1>1. PICK x, l, r : /\ x = [commands |-> cs, defaults |-> ds, cgm |-> state]
                     /\ l = CreateCommand(class, id) /\ r = ReadCommand(l, args, x.cgm)
  OBVIOUS
<1>2. PICK p, e, z : /\ p = ReadPlain(x, class, id, args) /\ p = [x EXCEPT !.commands = e, !.cgm = z]
  <2>1. ReadPlain(x, class, id, args) = Done(x, l, r)
    BY <1>1 DEF ReadPlain, ReadAs
  <2>2. PICK e, z : /\ e = Append(x.commands, Command(l, r.fields, r.ok))
                    /\ z = IF r.ok THEN Effect(l.own, r.fields, x.cgm) ELSE x.cgm
    OBVIOUS
  <2>3. Done(x, l, r) = [x EXCEPT !.commands = e, !.cgm = z]
    BY <2>2 DEF Done
  <2> QED
    BY <2>1, <2>3, Zenon
<1>3. p \in [commands : {e}, defaults : {ds}, cgm : {z}]
  BY <1>1, <1>2
<1>4. y = ReadOne(x, class, id, args)
  BY <1>1
<1>5. CASE <<class, id>> # MetafileDefaultsReplacement.code \/ args = <<>>
  BY <1>2, <1>3, <1>4, <1>5 DEF ReadOne
<1>6. CASE ~(<<class, id>> # MetafileDefaultsReplacement.code \/ args = <<>>)
  <2>1. PICK d : d = Replacement(args, x.cgm) /\ IsList(d.commands)
    BY ReplacementList
  <2>2. PICK list : list = ds \o d.commands /\ IsList(list)
    BY <2>1, ConcatenatedList
  <2>3. y = [p EXCEPT !.defaults = list, !.cgm = d.cgm]
    BY <1>2, <1>3, <1>4, <1>6, <2>1, <2>2 DEF ReadOne
  <2>4. y.defaults = list
    BY <1>3, <2>3
  <2> QED
    BY <2>2, <2>4
<1> QED
  BY <1>5, <1>6
-----------------------------------------------------------------------------
(* The pictures of a list.                                                 *)

Begins(cs, j) == IsA(cs[j], 0, 3)
Ends(cs, j) == IsA(cs[j], 0, 5)

\* A picture from b to e: no delimiter of pictures is between them.
IsPicture(cs, b, e) ==
  b < e /\ Begins(cs, b) /\ Ends(cs, e) /\ \A j \in b + 1 .. e - 1 : ~Begins(cs, j) /\ ~Ends(cs, j)

\* What getPictureRanges has found among the first i commands.
ScanStep(cs, s, i) ==
  CASE Begins(cs, i) -> Ranges(s.ranges, i)
    [] Ends(cs, i) /\ s.start > 0 -> Ranges(Append(s.ranges, <<s.start, i>>), 0)
    [] OTHER -> s

IsScan(f, cs, n) == f = [i \in 0..n |-> IF i = 0 THEN Ranges(<<>>, 0) ELSE ScanStep(cs, f[i - 1], i)]

\* The ranges found are those of the pictures that end within the first i commands; and
\* `start` is the last delimiter among these, if that is a beginning, and else 0.
FoundPictures(cs, r, i) ==
  /\ r \in Seq(Nat \X Nat)
  /\ \A b, e \in Nat : (\E k \in 1..Len(r) : r[k] = <<b, e>>) <=> b > 0 /\ e <= i /\ IsPicture(cs, b, e)
  /\ \A k \in 1..Len(r) - 1 : r[k][2] < r[k + 1][1]

OpenSince(cs, start, i) ==
  /\ start \in 0..i
  /\ start > 0 => Begins(cs, start) /\ \A j \in start + 1 .. i : ~Begins(cs, j) /\ ~Ends(cs, j)
  /\ start = 0 => \A b \in 1..i : Begins(cs, b) => \E j \in b + 1 .. i : Begins(cs, j) \/ Ends(cs, j)

Scanned(cs, s, i) ==
  /\ s = Ranges(s.ranges, s.start) /\ FoundPictures(cs, s.ranges, i) /\ OpenSince(cs, s.start, i)

LEMMA NotBoth ==
  ASSUME NEW cs, NEW j
  PROVE  ~(Begins(cs, j) /\ Ends(cs, j))
BY DEF Begins, Ends, IsA

LEMMA NothingFound ==
  ASSUME NEW cs
  PROVE  Scanned(cs, Ranges(<<>>, 0), 0)
<1>1. PICK s : s = Ranges(<<>>, 0)
  OBVIOUS
<1>2. s.ranges = <<>> /\ s.start = 0 /\ s = Ranges(s.ranges, s.start)
  BY <1>1 DEF Ranges
<1>3. PICK r : r = <<>> /\ r \in Seq(Nat \X Nat) /\ Len(r) = 0
  BY EmptySeq
<1>4. FoundPictures(cs, r, 0)
  BY <1>3 DEF FoundPictures, IsPicture
<1>5. OpenSince(cs, 0, 0)
  BY DEF OpenSince
<1> QED
  BY <1>1, <1>2, <1>3, <1>4, <1>5 DEF Scanned

\* Where no picture ends, none is found.
LEMMA SameFound ==
  ASSUME NEW cs, NEW i \in Nat, NEW j, j = i + 1, NEW r, FoundPictures(cs, r, i),
         \A b, e \in Nat : b > 0 /\ e <= j /\ IsPicture(cs, b, e) => e <= i
  PROVE  FoundPictures(cs, r, j)
<1>1. ASSUME NEW b \in Nat, NEW e \in Nat
      PROVE  (\E k \in 1..Len(r) : r[k] = <<b, e>>) <=> b > 0 /\ e <= j /\ IsPicture(cs, b, e)
  <2>1. (\E k \in 1..Len(r) : r[k] = <<b, e>>) <=> b > 0 /\ e <= i /\ IsPicture(cs, b, e)
    BY DEF FoundPictures
  <2>2. e <= i => e <= j
    OBVIOUS
  <2> QED
    BY <2>1, <2>2
<1> QED
  BY <1>1 DEF FoundPictures

\* A beginning is remembered; what it leaves open is forgotten.
LEMMA ScannedBegin ==
  ASSUME NEW cs, NEW i \in Nat, NEW j, j = i + 1, NEW r, NEW start, FoundPictures(cs, r, i),
         OpenSince(cs, start, i), Begins(cs, j)
  PROVE  FoundPictures(cs, r, j) /\ OpenSince(cs, j, j)
<1>1. j \in Nat /\ j > 0 /\ j \in 0..j
  OBVIOUS
<1>2. \A b, e \in Nat : e <= j /\ IsPicture(cs, b, e) => e <= i
  BY NotBoth DEF IsPicture
<1>3. FoundPictures(cs, r, j)
  BY <1>2, SameFound
<1>4. OpenSince(cs, j, j)
  BY <1>1 DEF OpenSince
<1> QED
  BY <1>3, <1>4

\* An end closes the picture that is open.
LEMMA ScannedEnd ==
  ASSUME NEW cs, NEW i \in Nat, NEW j, j = i + 1, NEW r, NEW start, FoundPictures(cs, r, i),
         OpenSince(cs, start, i), Ends(cs, j), start > 0, NEW t, t = Append(r, <<start, j>>)
  PROVE  FoundPictures(cs, t, j) /\ OpenSince(cs, 0, j)
<1>1. j \in Nat /\ j > 0 /\ start \in Nat /\ start <= i /\ r \in Seq(Nat \X Nat)
  BY DEF OpenSince, FoundPictures
<1>2. PICK n \in Nat : n = Len(r)
  BY <1>1, LenProperties
<1>3. <<start, j>> \in Nat \X Nat
  BY <1>1
<1>4. /\ t \in Seq(Nat \X Nat) /\ Len(t) = n + 1 /\ t[n + 1] = <<start, j>>
      /\ \A k \in 1..n : t[k] = r[k]
  BY <1>1, <1>2, <1>3, AppendProperties
<1>5. Begins(cs, start) /\ \A m \in start + 1 .. i : ~Begins(cs, m) /\ ~Ends(cs, m)
  BY DEF OpenSince
<1>6. IsPicture(cs, start, j)
  BY <1>1, <1>5 DEF IsPicture
<1>7. ASSUME NEW b \in Nat, b > 0, IsPicture(cs, b, j) PROVE b = start
  <2>1. b < j /\ Begins(cs, b) /\ \A m \in b + 1 .. j - 1 : ~Begins(cs, m) /\ ~Ends(cs, m)
    BY <1>7 DEF IsPicture
  <2>2. ~(b < start)
    <3>1. b < start => start \in b + 1 .. j - 1
      BY <1>1
    <3> QED
      BY <1>5, <2>1, <3>1
  <2>3. ~(start < b)
    <3>1. start < b => b \in start + 1 .. i
      BY <1>1, <2>1
    <3> QED
      BY <1>5, <2>1, <3>1
  <2> QED
    BY <1>1, <2>2, <2>3
<1>8. ASSUME NEW b \in Nat, NEW e \in Nat
      PROVE  (\E k \in 1..Len(t) : t[k] = <<b, e>>) <=> b > 0 /\ e <= j /\ IsPicture(cs, b, e)
  <2>1. (\E k \in 1..n : r[k] = <<b, e>>) <=> b > 0 /\ e <= i /\ IsPicture(cs, b, e)
    BY <1>2 DEF FoundPictures
  <2>2. (\E k \in 1..n + 1 : t[k] = <<b, e>>) <=> (\E k \in 1..n : r[k] = <<b, e>>) \/ <<b, e>> = <<start, j>>
    <3>1. \A k \in 1..n + 1 : k \in 1..n \/ k = n + 1
      BY <1>2
    <3>2. n + 1 \in 1..n + 1 /\ \A k \in 1..n : k \in 1..n + 1
      BY <1>2
    <3> QED
      BY <1>4, <3>1, <3>2
  <2>3. e <= j <=> e <= i \/ e = j
    BY <1>1
  <2>4. <<b, e>> = <<start, j>> <=> b = start /\ e = j
    OBVIOUS
  <2>5. b > 0 /\ e = j /\ IsPicture(cs, b, e) <=> b = start /\ e = j
    BY <1>6, <1>7
  <2> QED
    BY <1>4, <2>1, <2>2, <2>3, <2>4, <2>5
<1>9. ASSUME NEW k \in 1..n PROVE t[k][2] < t[k + 1][1]
  <2>1. t[k] = r[k] /\ r[k] \in Nat \X Nat
    BY <1>1, <1>2, <1>4, ElementOfSeq
  <2>2. CASE k # n
    <3>1. k + 1 \in 1..n /\ k \in 1..n - 1
      BY <1>2, <2>2
    <3>2. r[k][2] < r[k + 1][1]
      BY <1>2, <3>1 DEF FoundPictures
    <3> QED
      BY <1>4, <2>1, <3>1, <3>2
  <2>3. CASE k = n
    <3>1. PICK b \in Nat, e \in Nat : r[k] = <<b, e>>
      BY <2>1
    <3>2. e <= i /\ IsPicture(cs, b, e)
      BY <1>2, <3>1 DEF FoundPictures
    <3>3. Ends(cs, e)
      BY <3>2 DEF IsPicture
    <3>4. e # start
      BY <1>5, <3>3, NotBoth
    <3>5. ~(e \in start + 1 .. i)
      BY <1>5, <3>3
    <3>6. e < start
      BY <1>1, <3>2, <3>4, <3>5
    <3> QED
      BY <1>4, <2>1, <2>3, <3>1, <3>6
  <2> QED
    BY <2>2, <2>3
<1>10. Len(t) - 1 = n
  BY <1>2, <1>4
<1>11. FoundPictures(cs, t, j)
  BY <1>4, <1>8, <1>9, <1>10 DEF FoundPictures
<1>12. OpenSince(cs, 0, j)
  <2>1. ASSUME NEW b \in 1..j, Begins(cs, b) PROVE j \in b + 1 .. j
    <3>1. b # j
      BY <2>1, NotBoth
    <3> QED
      BY <1>1, <3>1
  <2> QED
    BY <1>1, <2>1 DEF OpenSince
<1> QED
  BY <1>11, <1>12

\* Anything else changes nothing.
LEMMA ScannedOther ==
  ASSUME NEW cs, NEW i \in Nat, NEW j, j = i + 1, NEW r, NEW start, FoundPictures(cs, r, i),
         OpenSince(cs, start, i), ~Begins(cs, j), ~(Ends(cs, j) /\ start > 0)
  PROVE  FoundPictures(cs, r, j) /\ OpenSince(cs, start, j)
<1>1. j \in Nat /\ start \in 0..i /\ start \in 0..j /\ start \in Nat
  BY DEF OpenSince
<1>2. CASE start > 0
  <2>1. ~Ends(cs, j)
    BY <1>2
  <2>2. \A b, e \in Nat : e <= j /\ IsPicture(cs, b, e) => e <= i
    BY <2>1 DEF IsPicture
  <2>3. FoundPictures(cs, r, j)
    BY <2>2, SameFound
  <2>4. \A m \in start + 1 .. j : m \in start + 1 .. i \/ m = j
    BY <1>1
  <2>5. OpenSince(cs, start, j)
    BY <1>1, <1>2, <2>1, <2>4 DEF OpenSince
  <2> QED
    BY <2>3, <2>5
<1>3. CASE ~(start > 0)
  <2>1. start = 0 /\ \A b \in 1..i : Begins(cs, b) => \E m \in b + 1 .. i : Begins(cs, m) \/ Ends(cs, m)
    BY <1>1, <1>3 DEF OpenSince
  <2>2. ASSUME NEW b \in Nat, b > 0, IsPicture(cs, b, j) PROVE FALSE
    <3>1. b \in 1..i /\ Begins(cs, b) /\ \A m \in b + 1 .. j - 1 : ~Begins(cs, m) /\ ~Ends(cs, m)
      BY <2>2 DEF IsPicture
    <3>2. j - 1 = i
      OBVIOUS
    <3> QED
      BY <2>1, <3>1, <3>2
  <2>3. \A b, e \in Nat : b > 0 /\ e <= j /\ IsPicture(cs, b, e) => e <= i
    <3> SUFFICES ASSUME NEW b \in Nat, NEW e \in Nat, b > 0, e <= j, IsPicture(cs, b, e), ~(e <= i) PROVE FALSE
      OBVIOUS
    <3>1. e = j
      OBVIOUS
    <3> QED
      BY <2>2, <3>1
  <2>4. FoundPictures(cs, r, j)
    BY <2>3, SameFound
  <2>5. ASSUME NEW b \in 1..j, Begins(cs, b) PROVE \E m \in b + 1 .. j : Begins(cs, m) \/ Ends(cs, m)
    <3>1. b \in 1..i
      <4>1. b # j
        BY <2>5
      <4> QED
        BY <4>1
    <3>2. PICK m \in b + 1 .. i : Begins(cs, m) \/ Ends(cs, m)
      BY <2>1, <2>5, <3>1
    <3> QED
      BY <3>2
  <2>6. OpenSince(cs, start, j)
    BY <1>1, <2>1, <2>5 DEF OpenSince
  <2> QED
    BY <2>4, <2>6
<1> QED
  BY <1>2, <1>3

LEMMA ScannedNext ==
  ASSUME NEW cs, NEW i \in Nat, NEW s, Scanned(cs, s, i)
  PROVE  Scanned(cs, ScanStep(cs, s, i + 1), i + 1)
<1>1. PICK j, r, start : j \in Nat /\ j = i + 1 /\ r = s.ranges /\ start = s.start
  OBVIOUS
<1>2. s = Ranges(r, start) /\ FoundPictures(cs, r, i) /\ OpenSince(cs, start, i)
  BY <1>1 DEF Scanned
<1>3. \A u, v : Ranges(u, v).ranges = u /\ Ranges(u, v).start = v
  BY DEF Ranges
<1>4. CASE Begins(cs, j)
  <2>1. FoundPictures(cs, r, j) /\ OpenSince(cs, j, j)
    BY <1>1, <1>2, <1>4, ScannedBegin
  <2>2. ScanStep(cs, s, j) = Ranges(r, j)
    BY <1>1, <1>4, NotBoth DEF ScanStep
  <2> QED
    BY <1>1, <1>3, <2>1, <2>2 DEF Scanned
<1>5. CASE ~Begins(cs, j) /\ Ends(cs, j) /\ start > 0
  <2>1. PICK t : t = Append(r, <<start, j>>)
    OBVIOUS
  <2>2. FoundPictures(cs, t, j) /\ OpenSince(cs, 0, j)
    BY <1>1, <1>2, <1>5, <2>1, ScannedEnd
  <2>3. ScanStep(cs, s, j) = Ranges(t, 0)
    BY <1>1, <1>5, <2>1 DEF ScanStep
  <2> QED
    BY <1>1, <1>3, <2>2, <2>3 DEF Scanned
<1>6. CASE ~Begins(cs, j) /\ ~(Ends(cs, j) /\ start > 0)
  <2>1. FoundPictures(cs, r, j) /\ OpenSince(cs, start, j)
    BY <1>1, <1>2, <1>6, ScannedOther
  <2>2. ScanStep(cs, s, j) = s
    BY <1>1, <1>6 DEF ScanStep
  <2> QED
    BY <1>1, <1>2, <2>1, <2>2 DEF Scanned
<1> QED
  BY <1>4, <1>5, <1>6

LEMMA ScanExists ==
  ASSUME NEW cs, NEW n \in Nat
  PROVE  \E f : IsScan(f, cs, n)
<1> DEFINE Good == {k \in Nat : \E f : IsScan(f, cs, k)}
<1>1. 0 \in Good
  <2>1. PICK f : f = [i \in 0..0 |-> Ranges(<<>>, 0)]
    OBVIOUS
  <2>2. IsScan(f, cs, 0)
    BY <2>1 DEF IsScan
  <2> QED
    BY <2>2
<1>2. ASSUME NEW k \in Nat, k \in Good PROVE k + 1 \in Good
  <2>1. PICK f : IsScan(f, cs, k)
    BY <1>2
  <2>2. PICK h : h = [i \in 0..k + 1 |-> IF i = k + 1 THEN ScanStep(cs, f[k], k + 1) ELSE f[i]]
    OBVIOUS
  <2>3. k + 1 \in 0..k + 1 /\ h[k + 1] = ScanStep(cs, f[k], k + 1) /\ \A i \in 0..k : h[i] = f[i]
    BY <2>2
  <2>4. \A i \in 0..k + 1 : h[i] = IF i = 0 THEN Ranges(<<>>, 0) ELSE ScanStep(cs, h[i - 1], i)
    <3> TAKE i \in 0..k + 1
    <3>1. CASE i = k + 1
      <4>1. i # 0 /\ i - 1 = k /\ k \in 0..k
        BY <3>1
      <4> QED
        BY <2>3, <3>1, <4>1
    <3>2. CASE i # k + 1
      <4>1. i \in 0..k /\ (i # 0 => i - 1 \in 0..k)
        BY <3>2
      <4>2. f[i] = IF i = 0 THEN Ranges(<<>>, 0) ELSE ScanStep(cs, f[i - 1], i)
        BY <2>1, <4>1 DEF IsScan
      <4> QED
        BY <2>3, <4>1, <4>2
    <3> QED
      BY <3>1, <3>2
  <2>5. IsScan(h, cs, k + 1)
    BY <2>2, <2>4 DEF IsScan
  <2> QED
    BY <2>5
<1>3. Nat \subseteq Good
  <2> HIDE DEF Good
  <2> QED
    BY <1>1, <1>2, Counting
<1> QED
  BY <1>3

\* getPictureRanges finds the pictures of a list of n commands.
LEMMA PicturesFound ==
  ASSUME NEW cs, NEW n \in Nat, n = Len(cs)
  PROVE  FoundPictures(cs, PictureRanges(cs), n)
<1>1. PICK f : f = (CHOOSE g : IsScan(g, cs, n)) /\ IsScan(f, cs, n)
  BY ScanExists
<1> DEFINE Good == {k \in Nat : k <= n => Scanned(cs, f[k], k)}
<1>2. 0 \in Good
  <2>1. f[0] = Ranges(<<>>, 0)
    BY <1>1 DEF IsScan
  <2> QED
    BY <2>1, NothingFound
<1>3. ASSUME NEW k \in Nat, k \in Good PROVE k + 1 \in Good
  <2>1. SUFFICES ASSUME k + 1 <= n PROVE Scanned(cs, f[k + 1], k + 1)
    OBVIOUS
  <2>2. k + 1 \in 0..n /\ k + 1 # 0 /\ (k + 1) - 1 = k /\ k <= n
    BY <2>1
  <2>3. f[k + 1] = ScanStep(cs, f[k], k + 1) /\ Scanned(cs, f[k], k)
    BY <1>1, <1>3, <2>2 DEF IsScan
  <2> QED
    BY <2>3, ScannedNext
<1>4. Scanned(cs, f[n], n)
  <2>1. n \in Good
    <3> HIDE DEF Good
    <3> QED
      BY <1>2, <1>3, Counting
  <2> QED
    BY <2>1
<1>5. PictureRanges(cs) = f[n].ranges
  BY <1>1 DEF PictureRanges, IsScan, ScanStep, Begins, Ends
<1> QED
  BY <1>4, <1>5 DEF Scanned

\* The pictures of every list that has been loaded are whole.
LEMMA ListsArePictured ==
  ASSUME IsList(commands)
  PROVE  PicturesWhole
<1>1. PICK n \in Nat : n = Len(commands) /\ DOMAIN commands = 1..n
  BY LenProperties DEF IsList
<1>2. PICK r : r = PictureRanges(commands) /\ FoundPictures(commands, r, n)
  BY <1>1, PicturesFound
<1>3. PICK m \in Nat : m = Len(r) /\ DOMAIN r = 1..m /\ \A k \in 1..m : r[k] \in Nat \X Nat
  BY <1>2, LenProperties, ElementOfSeq DEF FoundPictures
<1>4. {r[k] : k \in DOMAIN r}
      = {p \in (DOMAIN commands) \X (DOMAIN commands) : IsPicture(commands, p[1], p[2])}
  <2>1. ASSUME NEW k \in 1..m
        PROVE  r[k] \in (1..n) \X (1..n) /\ IsPicture(commands, r[k][1], r[k][2])
    <3>1. PICK b \in Nat, e \in Nat : r[k] = <<b, e>>
      BY <1>3
    <3>2. b > 0 /\ e <= n /\ IsPicture(commands, b, e)
      BY <1>2, <1>3, <3>1 DEF FoundPictures
    <3>3. b \in 1..n /\ e \in 1..n
      BY <3>2 DEF IsPicture
    <3> QED
      BY <3>1, <3>2, <3>3
  <2>2. ASSUME NEW b \in 1..n, NEW e \in 1..n, IsPicture(commands, b, e)
        PROVE  \E k \in 1..m : r[k] = <<b, e>>
    BY <1>2, <1>3, <2>2 DEF FoundPictures
  <2> DEFINE P == {p \in (1..n) \X (1..n) : IsPicture(commands, p[1], p[2])}
  <2>3. {r[k] : k \in 1..m} \subseteq P
    BY <2>1
  <2>4. ASSUME NEW p \in P PROVE p \in {r[k] : k \in 1..m}
    <3>1. PICK b \in 1..n, e \in 1..n : p = <<b, e>> /\ IsPicture(commands, b, e)
      OBVIOUS
    <3>2. PICK k \in 1..m : r[k] = <<b, e>>
      BY <2>2, <3>1
    <3> QED
      BY <3>1, <3>2
  <2>5. {r[k] : k \in 1..m} = P
    <3> HIDE DEF P
    <3> QED
      BY <2>3, <2>4
  <2> QED
    BY <1>1, <1>3, <2>5
<1>5. \A k \in 1 .. Len(r) - 1 : r[k][2] < r[k + 1][1]
  BY <1>2 DEF FoundPictures
<1> QED
  BY <1>2, <1>4, <1>5 DEF PicturesWhole, IsPicture, Begins, Ends

\* While a file is read for the first time, its commands and its defaults are lists.
Lists ==
  /\ phase = "reading" /\ loads = 1 => IsList(defaults)
  /\ phase \in {"reading", "loaded"} /\ loads = 1 => IsList(commands)

LEMMA ElementArguments ==
  ASSUME InStep, IsList(commands), HoldsElement
  PROVE  Len(Frame.args) \in Nat
<1>1. PICK n \in Nat, k \in Nat : n = Len(marks) /\ k = Len(commands) /\ k <= n
  BY DEF InStep, Consists, IsList
<1>2. Consists(file, marks, n) /\ at = EndOf(marks, k)
  BY <1>1 DEF InStep
<1>3. k # n
  BY <1>2 DEF HoldsElement, Frame, Consists
<1>4. k + 1 \in 1..n /\ (k + 1) - 1 = k
  BY <1>1, <1>3
<1>5. StandsAt(file, at, marks[k + 1])
  BY <1>2, <1>4 DEF Consists
<1> QED
  BY <1>5, LenProperties DEF StandsAt, Frame

LEMMA NextLists == Inv /\ Lists /\ [Next]_vars => Lists'
<1> SUFFICES ASSUME Inv, Lists, [Next]_vars PROVE Lists'
  OBVIOUS
<1>1. CASE ReadNext
  <2>1. IsList(commands) /\ HoldsElement
    BY <1>1 DEF ReadNext, Inv
  <2>2. ASSUME loads = 1 PROVE IsList(defaults')
    <3>1. InStep /\ IsList(defaults)
      BY <1>1, <2>2 DEF Inv, Lists, ReadNext
    <3>2. PICK class, id, args : class = Frame.class /\ id = Frame.id /\ args = Frame.args
      OBVIOUS
    <3>3. Len(args) \in Nat
      BY <2>1, <3>1, <3>2, ElementArguments
    <3>4. PICK y : /\ y = ReadOne([commands |-> commands, defaults |-> defaults, cgm |-> cgm], class, id, args)
                   /\ defaults' = y.defaults
      BY <1>1, <3>2 DEF ReadNext
    <3> QED
      BY <3>1, <3>3, <3>4, ReplacedList
  <2>3. IsList(commands')
    <3>1. PICK c : commands' = Append(commands, c)
      BY <1>1, ReadNextAppends
    <3> QED
      BY <2>1, <3>1, AppendedList
  <2> QED
    BY <1>1, <2>2, <2>3 DEF Lists, ReadNext
<1>2. CASE EndReading
  <2>1. ASSUME loads = 1 PROVE IsList(commands')
    <3>1. IsList(commands) /\ IsList(defaults)
      BY <1>2, <2>1 DEF Lists, EndReading
    <3>2. PICK n \in Nat, k \in Nat : n = Len(commands) /\ k = DefaultsPosition(commands) /\ k <= n
      BY <3>1, PositionFound DEF IsList
    <3>3. IsList(SubSeq(commands, 1, k)) /\ IsList(SubSeq(commands, k + 1, n))
      BY <3>1, <3>2, PartOfList
    <3>4. commands' = SubSeq(commands, 1, k) \o defaults \o SubSeq(commands, k + 1, n)
      BY <1>2, <3>2 DEF EndReading, WithDefaults
    <3> QED
      BY <3>1, <3>3, <3>4, ConcatenatedList
  <2> QED
    BY <1>2, <2>1 DEF EndReading, Lists
<1>3. CASE StartSave
  BY <1>3 DEF StartSave, Lists
<1>4. CASE WriteNext
  BY <1>4 DEF WriteNext, Lists
<1>5. CASE WriteThrows
  BY <1>5 DEF WriteThrows, Lists
<1>6. CASE EndWriting
  BY <1>6 DEF EndWriting, Lists
<1>7. CASE Crash
  BY <1>7 DEF Crash, Lists
<1>8. CASE Reload
  BY <1>8, EmptyList DEF Reload, Lists, Opened
<1>9. CASE UNCHANGED vars
  BY <1>9 DEF vars, Lists
<1> QED
  BY <1>1, <1>2, <1>3, <1>4, <1>5, <1>6, <1>7, <1>8, <1>9 DEF Next, Loading, Saving

\* The pictures found in a file loaded for the first time are those between a BEGIN PICTURE
\* and the next END PICTURE with neither in between, all of them, in the order of the file
\* and without overlapping, wherever the defaults have been put (getPictureRanges).
THEOREM FirstPicturesWhole == Spec => [](loads = 1 => PicturesWhole)
<1>1. Init => Lists
  BY EmptyList DEF Init, Opened, Lists
<1>2. Spec => []Lists
  BY <1>1, NextLists, Invariance, PTL DEF Spec
<1>3. Lists => (loads = 1 => PicturesWhole)
  <2> SUFFICES ASSUME Lists, loads = 1, phase = "loaded" PROVE PicturesWhole
    BY DEF PicturesWhole
  <2> QED
    BY ListsArePictured DEF Lists
<1> QED
  BY <1>2, <1>3, PTL
=============================================================================
