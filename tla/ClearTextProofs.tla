--------------------------- MODULE ClearTextProofs --------------------------
(***************************************************************************)
(* What a clear text metafile defines, how it is answered, and where its   *)
(* reader halts: theorems of ClearTextFile for every text, every table of  *)
(* words and numerals, any limit of tokens and any number of reads.        *)
(*                                                                         *)
(* Loops are reasoned about by counting their turns: a number at which     *)
(* something fails would have a least one (SmallestOf).                    *)
(***************************************************************************)
EXTENDS ClearTextFile, SequenceTheorems, FiniteSetTheorems, WellFoundedInduction, TLAPS

-----------------------------------------------------------------------------
(* Counting.                                                               *)

\* Of natural numbers there is a smallest.
LEMMA SmallestOf ==
  ASSUME NEW S, S \subseteq Nat, S # {}
  PROVE  Min(S) \in S /\ \A y \in S : Min(S) <= y
<1> DEFINE R == {ss \in Nat \X Nat : ss[1] < ss[2]}
<1>1. IsWellFoundedOn(R, Nat)
  BY NatLessThanWellFounded, Zenon DEF OpToRel
<1> HIDE DEF R
<1>2. PICK x \in S : \A y \in S : ~(<<y, x>> \in R)
  BY <1>1, WFMin
<1>3. \A y \in S : x <= y
  <2>1. SUFFICES ASSUME NEW y \in S, ~(x <= y) PROVE FALSE
    OBVIOUS
  <2>2. <<y, x>> \in R
    BY <2>1 DEF R
  <2> QED
    BY <1>2, <2>2
<1> QED
  BY <1>2, <1>3 DEF Min

\* What holds at first, and at every number behind one at which it holds, holds.
LEMMA Counting ==
  ASSUME NEW Good, 0 \in Good, \A n \in Nat : n \in Good => n + 1 \in Good
  PROVE  Nat \subseteq Good
<1> DEFINE Bad == {n \in Nat : n \notin Good}
<1>1. SUFFICES ASSUME Bad # {} PROVE FALSE
  OBVIOUS
<1>2. Bad \subseteq Nat
  OBVIOUS
<1>3. Min(Bad) \in Bad /\ \A y \in Bad : Min(Bad) <= y
  BY <1>1, <1>2, SmallestOf
<1>4. PICK m \in Bad : \A y \in Bad : m <= y
  BY <1>3
<1>5. m \in Nat /\ m # 0 /\ m - 1 \in Nat /\ m - 1 \notin Bad
  BY <1>4
<1> QED
  BY <1>4, <1>5

\* The states of a loop of m turns, each of which does F, from x on.
AreStates(g, F, x, m, D) == g \in [0..m -> D] /\ g[0] = x /\ \A n \in 1..m : g[n] = F[g[n - 1]]
HasStates(F, x, m, D) == \E g : AreStates(g, F, x, m, D)

\* A loop has its states.
LEMMA LoopStates ==
  ASSUME NEW D, NEW F \in [D -> D], NEW x \in D, NEW m \in Nat
  PROVE  HasStates(F, x, m, D)
<1> DEFINE Is(g, k) == AreStates(g, F, x, k, D)
           Good == {k \in Nat : \E g : Is(g, k)}
<1>1. 0 \in Good
  <2>1. Is([n \in 0..0 |-> x], 0)
    BY DEF AreStates
  <2> QED
    BY <2>1
<1>2. ASSUME NEW k \in Nat, k \in Good PROVE k + 1 \in Good
  <2>1. PICK g : Is(g, k)
    BY <1>2
  <2> DEFINE h == [n \in 0..k + 1 |-> IF n = k + 1 THEN F[g[k]] ELSE g[n]]
  <2>2. F[g[k]] \in D
    BY <2>1 DEF AreStates
  <2>3. h \in [0..k + 1 -> D] /\ h[0] = x
    BY <2>1, <2>2 DEF AreStates
  <2>4. \A n \in 1..k + 1 : h[n] = F[h[n - 1]]
    BY <2>1 DEF AreStates
  <2>5. Is(h, k + 1)
    BY <2>3, <2>4 DEF AreStates
  <2> HIDE DEF Is, h
  <2> QED
    BY <2>5
<1>3. m \in Good
  <2> HIDE DEF Good
  <2> QED
    BY <1>1, <1>2, Counting
<1> QED
  BY <1>3 DEF HasStates

-----------------------------------------------------------------------------
(* The lexer.                                                              *)

\* A text is a sequence of signs; a place is in it, or where the reader ends up
\* behind it.
IsText(signs) == signs \in Seq(Range(signs))
Places(signs) == [at : 1..Len(signs) + 2, line : Nat \ {0}, ended : BOOLEAN]

\* A place where the reader looks for the next token.
Halt(signs, p) == p \in Places(signs) /\ (p.at > Len(signs) + 1 => p.ended)

\* The first position in a set of them, or n + 1.
FirstIn(S, n) == IF S = {} THEN n + 1 ELSE Min(S)

LEMMA FirstBounds ==
  ASSUME NEW i \in Nat, NEW n \in Nat, NEW S, S \subseteq i..n
  PROVE  FirstIn(S, n) \in Nat /\ FirstIn(S, n) <= n + 1 /\ (FirstIn(S, n) >= i \/ FirstIn(S, n) = n + 1)
<1>1. CASE S = {}
  BY <1>1 DEF FirstIn
<1>2. CASE S # {}
  <2>1. S \subseteq Nat
    OBVIOUS
  <2>2. Min(S) \in S
    BY <1>2, <2>1, SmallestOf
  <2>3. FirstIn(S, n) \in S
    BY <1>2, <2>2 DEF FirstIn
  <2> HIDE DEF FirstIn
  <2>4. FirstIn(S, n) \in i..n
    BY <2>3
  <2> QED
    BY <2>4
<1> QED
  BY <1>1, <1>2

LEMMA CountedLines ==
  ASSUME NEW signs, NEW i \in Nat, NEW n \in Nat
  PROVE  NewLines(signs, i, n) \in Nat
<1> DEFINE S == {j \in i..n : j \in DOMAIN signs /\ signs[j] = NewLine}
<1>1. IsFiniteSet(i..n)
  BY FS_Interval
<1>2. S \subseteq i..n
  OBVIOUS
<1>3. IsFiniteSet(S)
  BY <1>1, <1>2, FS_Subset
<1>4. Cardinality(S) \in Nat
  BY <1>3, FS_CardinalityType
<1>5. NewLines(signs, i, n) = Cardinality(S)
  BY DEF NewLines
<1> QED
  BY <1>4, <1>5

\* A turn of skipWhitespaceAndComments takes the reader on, or stays at a sign
\* that is not to be skipped; behind the text it sees the end.
LEMMA TurnTaken ==
  ASSUME NEW signs, IsText(signs), NEW p \in Places(signs)
  PROVE  /\ SkipOne(signs, p) \in Places(signs) /\ SkipOne(signs, p).line >= p.line
         /\ p.at > Len(signs) => SkipOne(signs, p).ended /\ SkipOne(signs, p).at = Len(signs) + 1
         /\ p.at <= Len(signs) =>
              SkipOne(signs, p) = p \/ (SkipOne(signs, p).at > p.at /\ ~SkipOne(signs, p).ended)
<1>1. PICK n \in Nat : n = Len(signs) /\ DOMAIN signs = 1..n
  BY DEF IsText
<1>2. PICK at \in Nat, l \in Nat : /\ at = p.at /\ at >= 1 /\ at <= n + 2 /\ l = p.line /\ l >= 1
                                /\ p.ended \in BOOLEAN
  BY <1>1 DEF Places
<1>0. Places(signs) = [at : 1..n + 2, line : Nat \ {0}, ended : BOOLEAN]
  BY <1>1 DEF Places
<1> DEFINE Onward(q) == q \in Places(signs) /\ q.line >= p.line /\ q.at > p.at /\ ~q.ended
<1>3. ASSUME NEW to \in Nat, NEW line \in Nat, to > at, to <= n + 2, line >= l
      PROVE  Onward(Place(to, line, FALSE))
  <2>1. to \in 1..n + 2 /\ line \in Nat \ {0}
    BY <1>2, <1>3
  <2>2. Place(to, line, FALSE) \in Places(signs)
    BY <1>0, <2>1 DEF Place
  <2>3. /\ Place(to, line, FALSE).line = line /\ Place(to, line, FALSE).at = to
        /\ ~Place(to, line, FALSE).ended
    BY DEF Place
  <2> QED
    BY <1>2, <1>3, <2>2, <2>3
<1>4. CASE at > n
  <2>1. p.at > Len(signs) /\ ~(p.at <= Len(signs))
    BY <1>1, <1>2, <1>4
  <2>2. SkipOne(signs, p) = [p EXCEPT !.at = Len(signs) + 1, !.ended = TRUE]
    BY <2>1, Zenon DEF SkipOne
  <2>3. n + 1 \in 1..n + 2
    OBVIOUS
  <2>4. SkipOne(signs, p) = [at |-> n + 1, line |-> p.line, ended |-> TRUE]
    BY <1>1, <2>2 DEF Places
  <2>5. SkipOne(signs, p) \in Places(signs)
    BY <1>0, <1>2, <2>3, <2>4
  <2> QED
    BY <1>1, <1>2, <1>4, <2>4, <2>5
<1>5. CASE at <= n
  <2> DEFINE c == signs[p.at]
  <2>1. p.at <= Len(signs) /\ ~(p.at > Len(signs))
    BY <1>1, <1>2, <1>5
  <2>2. SkipOne(signs, p) = p \/ Onward(SkipOne(signs, p))
    <3>1. CASE c = NewLine
      <4>1. SkipOne(signs, p) = Place(at + 1, l + 1, FALSE)
        <5>1. c \notin Blanks \ {NewLine} /\ c # "!" /\ c # "/"
          BY <3>1 DEF NewLine
        <5> QED
          BY <1>2, <2>1, <3>1, <5>1, Zenon DEF SkipOne
      <4> HIDE DEF Onward
      <4>2. at + 1 \in Nat /\ at + 1 > at /\ at + 1 <= n + 2 /\ l + 1 \in Nat /\ l + 1 >= l /\ l >= l
        BY <1>5
      <4> QED
        BY <1>3, <4>1, <4>2
    <3>2. CASE c \in Blanks \ {NewLine}
      <4>1. SkipOne(signs, p) = Place(at + 1, l, FALSE)
        <5>1. c # NewLine /\ c # "!" /\ c # "/"
          BY <3>2 DEF Blanks, NewLine
        <5> QED
          BY <1>2, <2>1, <3>2, <5>1, Zenon DEF SkipOne
      <4> HIDE DEF Onward
      <4>2. at + 1 \in Nat /\ at + 1 > at /\ at + 1 <= n + 2 /\ l + 1 \in Nat /\ l + 1 >= l /\ l >= l
        BY <1>5
      <4> QED
        BY <1>3, <4>1, <4>2
    <3>3. CASE c = "!"
      <4> DEFINE S == {j \in at..n : signs[j] = NewLine}
                 last == FirstIn(S, n)
      <4>1. SkipOne(signs, p) = Exclamation(signs, p)
        <5>1. c # NewLine /\ c \notin Blanks \ {NewLine} /\ c # "/"
          BY <3>3 DEF Blanks, NewLine
        <5> QED
          BY <2>1, <3>3, <5>1, Zenon DEF SkipOne
      <4>2. Exclamation(signs, p) = Place(last + 1, l, FALSE)
        BY <1>1, <1>2 DEF Exclamation, First, FirstIn
      <4>3. last \in Nat /\ last <= n + 1 /\ last >= at
        <5>1. S \subseteq at..n
          OBVIOUS
        <5> QED
          BY <1>1, <1>2, <1>5, <5>1, FirstBounds
      <4> HIDE DEF S, last, Onward
      <4>4. last + 1 \in Nat /\ last + 1 > at /\ last + 1 <= n + 2 /\ l >= l
        BY <4>3
      <4> QED
        BY <1>3, <4>1, <4>2, <4>4
    <3>4. CASE c = "/" /\ Next1(signs, p) = "/"
      <4> DEFINE S == {j \in at + 1..n : signs[j] = NewLine}
                 last == FirstIn(S, n)
      <4>1. SkipOne(signs, p) = DoubleSlash(signs, p)
        <5>1. c # NewLine /\ c \notin Blanks \ {NewLine} /\ c # "!" /\ Next1(signs, p) # "*"
          BY <3>4 DEF Blanks, NewLine
        <5> QED
          BY <2>1, <3>4, <5>1, Zenon DEF SkipOne
      <4>2. DoubleSlash(signs, p) = Place(last, l, FALSE)
        BY <1>1, <1>2 DEF DoubleSlash, First, FirstIn
      <4>3. last \in Nat /\ last <= n + 1 /\ last >= at + 1
        <5>1. S \subseteq at + 1..n /\ at + 1 \in Nat
          OBVIOUS
        <5> QED
          BY <1>1, <1>2, <1>5, <5>1, FirstBounds
      <4> HIDE DEF S, last, Onward
      <4>4. last > at /\ last <= n + 2 /\ l >= l
        BY <4>3
      <4> QED
        BY <1>3, <4>1, <4>2, <4>3, <4>4
    <3>5. CASE c = "/" /\ Next1(signs, p) = "*"
      <4> DEFINE S == {j \in at + 3..n : signs[j - 1] = "*" /\ signs[j] = "/"}
                 last == FirstIn(S, n)
                 lines == NewLines(signs, at + 2, last)
      <4>1. SkipOne(signs, p) = SlashStar(signs, p)
        <5>1. c # NewLine /\ c \notin Blanks \ {NewLine} /\ c # "!" /\ Next1(signs, p) # "/"
          BY <3>5 DEF Blanks, NewLine
        <5> QED
          BY <2>1, <3>5, <5>1, Zenon DEF SkipOne
      <4>2. SlashStar(signs, p) = Place(last + 1, l + lines, FALSE)
        BY <1>1, <1>2 DEF SlashStar, First, FirstIn
      <4>3. last \in Nat /\ last <= n + 1 /\ last >= at
        <5>1. S \subseteq at + 3..n /\ at + 3 \in Nat
          OBVIOUS
        <5> QED
          BY <1>1, <1>2, <1>5, <5>1, FirstBounds
      <4> HIDE DEF S, last
      <4>4. lines \in Nat
        <5>1. at + 2 \in Nat
          OBVIOUS
        <5> QED
          BY <4>3, <5>1, CountedLines
      <4> HIDE DEF lines, Onward
      <4>5. last + 1 \in Nat /\ last + 1 > at /\ last + 1 <= n + 2 /\ l + lines \in Nat /\ l + lines >= l
        BY <4>3, <4>4
      <4> QED
        BY <1>3, <4>1, <4>2, <4>5
    <3>6. CASE c \notin Blanks /\ c # "!" /\ ~(c = "/" /\ Next1(signs, p) \in {"/", "*"})
      <4>1. c # NewLine /\ c \notin Blanks \ {NewLine}
        BY <3>6 DEF Blanks
      <4>2. SkipOne(signs, p) = p
        BY <2>1, <3>6, <4>1, Zenon DEF SkipOne
      <4> QED
        BY <4>2
    <3> QED
      BY <3>1, <3>2, <3>3, <3>4, <3>5, <3>6 DEF Blanks
  <2>3. p.line >= p.line
    BY <1>2
  <2>4. CASE SkipOne(signs, p) = p
    <3>1. SkipOne(signs, p) \in Places(signs) /\ SkipOne(signs, p).line >= p.line
      BY <2>3, <2>4
    <3> QED
      BY <2>1, <2>4, <3>1
  <2>5. CASE Onward(SkipOne(signs, p))
    BY <2>1, <2>5
  <2> QED
    BY <2>2, <2>4, <2>5
<1> QED
  BY <1>1, <1>2, <1>4, <1>5

\* skipWhitespaceAndComments ends, wherever the reader halted: at a sign that is not
\* to be skipped, or having seen the end of the text. The number of its turns is enough.
LEMMA SkippedTo ==
  ASSUME NEW signs, IsText(signs), NEW p, Halt(signs, p), ~p.ended,
         NEW q, q = SkipWhitespaceAndComments(signs, p)
  PROVE  /\ q \in Places(signs) /\ q.line >= p.line /\ q.at >= p.at
         /\ q.ended \/ q.at <= Len(signs)
<1>1. PICK n \in Nat : n = Len(signs)
  BY DEF IsText
<1>2. PICK at \in Nat : at = p.at /\ at >= 1 /\ at <= n + 1
  BY <1>1 DEF Halt, Places
<1>3. PICK m \in Nat : m = n + 2 - at /\ m = Len(signs) + 2 - p.at /\ m >= 1
  <2>1. n + 2 - at \in Nat /\ n + 2 - at >= 1
    BY <1>2
  <2> QED
    BY <1>1, <1>2, <2>1
<1> DEFINE D == Places(signs)
           F == [r \in D |-> SkipOne(signs, r)]
           States(g) == [k \in 0..m |-> IF k = 0 THEN p ELSE SkipOne(signs, g[k - 1])]
<1>4. p \in D
  BY DEF Halt
<1>5. \E g \in [0..m -> D] : g = States(g)
  <2>1. F \in [D -> D]
    BY TurnTaken
  <2>2. HasStates(F, p, m, D)
    <3> HIDE DEF F, D
    <3> QED
      BY <1>4, <2>1, LoopStates
  <2>3. PICK g : g \in [0..m -> D] /\ g[0] = p /\ \A k \in 1..m : g[k] = F[g[k - 1]]
    BY <2>2 DEF HasStates, AreStates
  <2>4. \A k \in 0..m : k # 0 => F[g[k - 1]] = SkipOne(signs, g[k - 1])
    <3>1. SUFFICES ASSUME NEW k \in 0..m, k # 0 PROVE F[g[k - 1]] = SkipOne(signs, g[k - 1])
      OBVIOUS
    <3>2. g[k - 1] \in D
      BY <2>3, <3>1
    <3> QED
      BY <3>2
  <2>5. g = States(g)
    <3>1. g = [k \in 0..m |-> g[k]]
      BY <2>3
    <3>2. \A k \in 0..m : g[k] = IF k = 0 THEN p ELSE SkipOne(signs, g[k - 1])
      <4> HIDE DEF F
      <4>1. \A k \in 0..m : k # 0 => k \in 1..m
        OBVIOUS
      <4> QED
        BY <2>3, <2>4, <4>1
    <3>3. [k \in 0..m |-> g[k]] = States(g)
      BY <3>2
    <3> QED
      BY <3>1, <3>3
  <2> HIDE DEF D, States
  <2> QED
    BY <2>3, <2>5
<1> DEFINE g == CHOOSE f : f = States(f)
<1>6. g = States(g)
  <2> HIDE DEF States
  <2> QED
    BY <1>5
<1> HIDE DEF g
<1>7. g[0] = p /\ \A k \in 0..m : k + 1 \in 0..m => g[k + 1] = SkipOne(signs, g[k])
  <2>1. 0 \in 0..m /\ \A k \in 0..m : k + 1 # 0 /\ (k + 1) - 1 = k
    OBVIOUS
  <2>2. \A k \in 0..m : g[k] = IF k = 0 THEN p ELSE SkipOne(signs, g[k - 1])
    BY <1>6
  <2> QED
    BY <2>1, <2>2
<1> HIDE DEF States
<1> DEFINE Reached(r, k) ==
             /\ r \in D /\ r.line >= p.line /\ r.at >= at /\ (r.ended => r.at = n + 1)
             /\ r.ended \/ (r.at <= n /\ SkipOne(signs, r) = r) \/ r.at >= at + k
           Good == {k \in Nat : k <= m => Reached(g[k], k)}
<1>8. 0 \in Good
  <2>1. p.line >= p.line /\ p.at >= at + 0 /\ p.at >= at
    BY <1>2 DEF Halt, Places
  <2> QED
    BY <1>4, <1>7, <2>1
<1>9. ASSUME NEW k \in Nat, k \in Good PROVE k + 1 \in Good
  <2>1. SUFFICES ASSUME k + 1 <= m PROVE Reached(g[k + 1], k + 1)
    OBVIOUS
  <2>2. Reached(g[k], k) /\ g[k + 1] = SkipOne(signs, g[k])
    <3>1. k <= m /\ k \in 0..m /\ k + 1 \in 0..m
      BY <2>1
    <3> QED
      BY <1>7, <1>9, <3>1
  <2> DEFINE r == g[k]
             next1 == SkipOne(signs, r)
  <2>3. r.at \in Nat /\ r.line \in Nat /\ p.line \in Nat /\ r.ended \in BOOLEAN
    BY <1>1, <1>4, <2>2 DEF Places
  <2>4. /\ next1 \in D /\ next1.line >= r.line
        /\ r.at > n => next1.ended /\ next1.at = n + 1
        /\ r.at <= n => next1 = r \/ (next1.at > r.at /\ ~next1.ended)
    BY <1>1, <2>2, TurnTaken
  <2>5. next1.at \in Nat /\ next1.line \in Nat /\ next1.ended \in BOOLEAN
    BY <1>1, <2>4 DEF Places
  <2> HIDE DEF next1, D
  <2>6. Reached(next1, k + 1)
    <3>1. next1.line >= p.line /\ next1.at >= at
      BY <1>2, <2>2, <2>3, <2>4, <2>5
    <3>2. CASE r.at > n
      BY <2>4, <3>1, <3>2
    <3>3. CASE r.at <= n /\ next1 = r
      <4>1. ~r.ended
        BY <2>2, <3>3
      <4>2. SkipOne(signs, next1) = next1
        BY <3>3 DEF next1
      <4> QED
        BY <2>4, <3>1, <3>3, <4>1, <4>2
    <3>4. CASE r.at <= n /\ next1.at > r.at /\ ~next1.ended
      <4>1. ~r.ended /\ next1 # r
        BY <2>2, <2>3, <3>4
      <4>2. SkipOne(signs, r) # r
        BY <4>1 DEF next1
      <4>3. r.at >= at + k
        BY <2>2, <4>1, <4>2
      <4>4. next1.at >= at + (k + 1)
        BY <2>3, <2>5, <3>4, <4>3
      <4> QED
        BY <2>4, <3>1, <3>4, <4>4
    <3> QED
      BY <2>3, <2>4, <3>2, <3>3, <3>4
  <2> QED
    BY <2>2, <2>6 DEF next1
<1>10. Nat \subseteq Good
  <2> HIDE DEF Good
  <2> QED
    BY <1>8, <1>9, Counting
<1>11. Reached(g[m - 1], m - 1) /\ Reached(g[m], m) /\ g[m] = SkipOne(signs, g[m - 1])
  <2>1. m - 1 \in Nat /\ m - 1 <= m /\ m <= m /\ m - 1 \in 0..m /\ (m - 1) + 1 = m /\ m \in 0..m
    BY <1>3
  <2>2. m \in Good /\ m - 1 \in Good
    BY <1>10, <2>1
  <2> QED
    BY <1>7, <2>1, <2>2
<1>12. q = g[m]
  <2>1. g = CHOOSE f : f = [k \in 0..Len(signs) + 2 - p.at |->
                              IF k = 0 THEN p ELSE SkipOne(signs, f[k - 1])]
    BY <1>3 DEF g, States
  <2> QED
    BY <1>3, <2>1 DEF SkipWhitespaceAndComments
<1>13. g[m].ended \/ g[m].at <= n
  <2> DEFINE r == g[m - 1]
  <2>1. r \in D /\ r.at \in Nat /\ g[m].at \in Nat
    BY <1>1, <1>11 DEF Places
  <2>2. /\ r.at > n => SkipOne(signs, r).ended
        /\ r.at <= n => SkipOne(signs, r) = r \/ SkipOne(signs, r).at > r.at
    BY <1>1, <2>1, TurnTaken
  <2>3. CASE r.at > n
    BY <1>11, <2>2, <2>3
  <2>4. CASE r.at <= n
    <3>1. SkipOne(signs, r) = r
      <4>1. ~(r.at >= at + (m - 1))
        BY <1>3, <2>1, <2>4
      <4> QED
        BY <1>11, <2>4, <4>1
    <3> QED
      BY <1>11, <2>4, <3>1
  <2> QED
    BY <2>1, <2>3, <2>4
<1> QED
  BY <1>1, <1>2, <1>11, <1>12, <1>13

\* Where a token may end: behind its first sign or, for a number that is none,
\* where it began.
LEMMA TokenTaken ==
  ASSUME NEW signs, IsText(signs), NEW p \in Places(signs), p.ended \/ p.at <= Len(signs),
         NEW t, t = LexToken(signs, p)
  PROVE  /\ t.line = p.line /\ Halt(signs, t.next) /\ t.next.line >= p.line
         /\ ~p.ended /\ signs[p.at] \notin Signs => t.next.at > p.at
         /\ p.ended => t.type = "EndOfFile"
         /\ t.next.at >= p.at
<1>1. PICK n \in Nat : n = Len(signs) /\ DOMAIN signs = 1..n
  BY DEF IsText
<1>2. PICK at \in Nat, l \in Nat : /\ at = p.at /\ at >= 1 /\ at <= n + 2 /\ l = p.line /\ l >= 1
                                /\ p.ended \in BOOLEAN
  BY <1>1 DEF Places
<1>3. Places(signs) = [at : 1..n + 2, line : Nat \ {0}, ended : BOOLEAN]
  BY <1>1 DEF Places
<1> DEFINE Taken(x) == x.line = p.line /\ Halt(signs, x.next) /\ x.next.line >= p.line /\ x.next.at >= p.at
           OnlyBehind(x) == Taken(x) /\ x.next.at > p.at
\* A token that ends before a place of the text, and one that ends at a new place.
<1>4. ASSUME ~p.ended, NEW to \in Nat, to >= at, to <= n + 1, NEW type, NEW lexeme
      PROVE  /\ Taken(Token(type, lexeme, p.line, [p EXCEPT !.at = to]))
             /\ to > at => OnlyBehind(Token(type, lexeme, p.line, [p EXCEPT !.at = to]))
  <2> DEFINE x == Token(type, lexeme, p.line, [p EXCEPT !.at = to])
  <2>1. to \in 1..n + 2
    BY <1>2, <1>4
  <2>2. [p EXCEPT !.at = to] = [at |-> to, line |-> p.line, ended |-> p.ended]
    BY DEF Places
  <2>3. x.line = p.line /\ x.next = [at |-> to, line |-> p.line, ended |-> p.ended]
    BY <2>2 DEF Token
  <2>4. x.next \in Places(signs) /\ x.next.at = to /\ x.next.line = l
    BY <1>2, <1>3, <2>1, <2>3
  <2> QED
    BY <1>1, <1>2, <1>4, <2>3, <2>4 DEF Halt
<1>5. CASE p.ended
  <2>1. t = Token("EndOfFile", <<>>, p.line, p)
    BY <1>5, Zenon DEF LexToken
  <2>2. t.line = p.line /\ t.next = p /\ t.type = "EndOfFile"
    BY <2>1 DEF Token
  <2> QED
    BY <1>2, <1>5, <2>2 DEF Halt
<1> DEFINE c == signs[p.at]
<1>0. IsIdentifierStart(c) => ~IsNumberStart(c) /\ c \notin Quotes
  BY SignsAssumption DEF IsIdentifierStart, IsNumberStart, Signs, Quotes
<1>10. IsNumberStart(c) => c \notin Quotes
  BY SignsAssumption DEF IsNumberStart, Signs, Quotes
<1>6. CASE ~p.ended /\ IsIdentifierStart(c)
  <2> DEFINE S == {j \in at..n : ~IsIdentifierChar(signs[j])}
             end == FirstIn(S, n)
  <2>1. t = Identifier(signs, p)
    BY <1>0, <1>6, Zenon DEF LexToken
  <2>2. t = Token("Identifier", SubSeq(signs, p.at, end - 1), p.line, [p EXCEPT !.at = end])
    BY <1>1, <1>2, <2>1 DEF Identifier, First, FirstIn
  <2>3. at <= n
    BY <1>1, <1>2, <1>6
  <2>4. end \in Nat /\ end <= n + 1 /\ end >= at + 1
    <3>1. IsIdentifierChar(signs[at])
      BY <1>2, <1>6 DEF IsIdentifierChar
    <3>2. S \subseteq at + 1..n /\ at + 1 \in Nat
      BY <3>1
    <3> QED
      BY <1>1, <2>3, <3>2, FirstBounds
  <2> HIDE DEF S, end, Taken
  <2>5. end >= at /\ end > at
    BY <2>4
  <2>6. OnlyBehind(t)
    BY <1>4, <1>6, <2>2, <2>4, <2>5
  <2> QED
    BY <1>6, <2>6 DEF Taken
<1>7. CASE ~p.ended /\ ~IsIdentifierStart(c) /\ IsNumberStart(c)
  <2> DEFINE S == {j \in at..n : ~GoesOn(SubSeq(signs, at, j - 1), signs[j])}
             end == FirstIn(S, n)
  <2>1. t = Number(signs, p)
    BY <1>7, <1>10, Zenon DEF LexToken
  <2>2. t = Token("Number", SubSeq(signs, p.at, end - 1), p.line, [p EXCEPT !.at = end])
    BY <1>1, <1>2, <2>1 DEF Number, First, FirstIn
  <2>3. at <= n
    BY <1>1, <1>2, <1>7
  <2>4. end \in Nat /\ end <= n + 1 /\ end >= at
    <3>1. S \subseteq at..n
      OBVIOUS
    <3> QED
      BY <1>1, <2>3, <3>1, FirstBounds
  <2>5. c \notin Signs => end > at
    <3>1. SUFFICES ASSUME c \notin Signs PROVE end > at
      OBVIOUS
    <3>2. SubSeq(signs, at, at - 1) = <<>>
      BY SubSeqEmpty
    <3>3. c \in Numerals \/ c = "."
      BY <1>7, <3>1 DEF IsNumberStart
    <3>4. Range(<<>>) = {}
      BY DEF Range
    <3>5. GoesOn(<<>>, c)
      BY <3>3, <3>4 DEF GoesOn
    <3>6. at \notin S
      BY <1>2, <3>2, <3>5
    <3>7. S \subseteq at + 1..n /\ at + 1 \in Nat
      BY <3>6
    <3>8. end >= at + 1
      BY <1>1, <2>3, <3>7, FirstBounds
    <3> QED
      BY <2>4, <3>8
  <2> HIDE DEF S, end, Taken
  <2>6. Taken(t) /\ (end > at => OnlyBehind(t))
    BY <1>4, <1>7, <2>2, <2>4
  <2> QED
    BY <1>2, <1>7, <2>5, <2>6 DEF Taken
<1>8. CASE ~p.ended /\ ~IsIdentifierStart(c) /\ ~IsNumberStart(c) /\ c \in Quotes
  <2> DEFINE S == {j \in at + 1..n : Closes(signs, at, j) /\ (j = n \/ signs[j + 1] # signs[j])}
             close == FirstIn(S, n)
             lines == NewLines(signs, at, close)
             behind == Place(close + 1, l + lines, close > n)
  <2>1. t = Quoted(signs, p)
    BY <1>8, Zenon DEF LexToken
  <2>2. t.line = p.line /\ t.next = behind
    BY <1>1, <1>2, <2>1 DEF Quoted, First, FirstIn, Token
  <2>3. at <= n
    BY <1>1, <1>2, <1>8
  <2>4. close \in Nat /\ close <= n + 1 /\ close >= at + 1
    <3>1. S \subseteq at + 1..n /\ at + 1 \in Nat
      OBVIOUS
    <3> QED
      BY <1>1, <2>3, <3>1, FirstBounds
  <2> HIDE DEF S, close
  <2>5. lines \in Nat
    BY <2>4, CountedLines
  <2> HIDE DEF lines
  <2>6. behind = [at |-> close + 1, line |-> l + lines, ended |-> close > n]
    BY DEF Place
  <2>7. close + 1 \in 1..n + 2 /\ l + lines \in Nat \ {0} /\ (close > n) \in BOOLEAN
    BY <1>2, <2>4, <2>5
  <2>8. behind \in Places(signs)
    BY <1>3, <2>6, <2>7
  <2>9. behind.at > at /\ behind.line >= l /\ (behind.at > n + 1 => behind.ended)
    <3>1. behind.at = close + 1 /\ behind.line = l + lines /\ behind.ended = (close > n)
      BY <2>6
    <3>2. close + 1 > at /\ l + lines >= l /\ (close + 1 > n + 1 => close > n)
      BY <2>4, <2>5
    <3> HIDE DEF behind
    <3> QED
      BY <3>1, <3>2
  <2> HIDE DEF behind
  <2>10. behind.at \in Nat /\ behind.at >= at
    BY <1>1, <2>8, <2>9 DEF Places
  <2> QED
    BY <1>1, <1>2, <1>8, <2>2, <2>8, <2>9, <2>10 DEF Halt
<1>9. CASE ~p.ended /\ ~IsIdentifierStart(c) /\ ~IsNumberStart(c) /\ c \notin Quotes
  <2>1. t = Token("Symbol", <<c>>, p.line, [p EXCEPT !.at = @ + 1])
    BY <1>9, Zenon DEF LexToken
  <2>2. at + 1 \in Nat /\ at + 1 >= at /\ at + 1 > at /\ at + 1 <= n + 1
    BY <1>1, <1>2, <1>9
  <2>3. t = Token("Symbol", <<c>>, p.line, [p EXCEPT !.at = at + 1])
    BY <1>2, <2>1 DEF Places
  <2> HIDE DEF Taken
  <2>4. OnlyBehind(t)
    BY <1>4, <1>9, <2>2, <2>3
  <2> QED
    BY <1>9, <2>4 DEF Taken
<1> QED
  BY <1>5, <1>6, <1>7, <1>8, <1>9

\* nextToken: the reader halts behind every token, further on unless the token is
\* the end of the text or a number that begins with a sign.
THEOREM ReaderAdvances ==
  ASSUME NEW signs, IsText(signs), NEW p, Halt(signs, p),
         NEW t, t = NextToken(signs, p)
  PROVE  /\ Halt(signs, t.next) /\ t.line >= p.line /\ t.next.line >= t.line /\ t.line \in Nat \ {0}
         /\ \/ t.type = "EndOfFile" \/ t.next.at > p.at
            \/ p.at \in DOMAIN signs /\ signs[p.at] \in Signs
<1>1. PICK q : /\ t = LexToken(signs, q) /\ q \in Places(signs) /\ q.line >= p.line /\ q.at >= p.at
               /\ q.ended \/ q.at <= Len(signs)
  <2>1. CASE p.ended
    <3>1. t = LexToken(signs, p)
      BY <2>1 DEF NextToken
    <3>2. p \in Places(signs) /\ p.line >= p.line /\ p.at >= p.at
      BY DEF Halt, Places
    <3> QED
      BY <2>1, <3>1, <3>2
  <2>2. CASE ~p.ended
    <3> DEFINE q == SkipWhitespaceAndComments(signs, p)
    <3>1. t = LexToken(signs, q)
      BY <2>2 DEF NextToken
    <3> QED
      BY <2>2, <3>1, SkippedTo
  <2> QED
    BY <2>1, <2>2
<1>2. /\ t.line = q.line /\ Halt(signs, t.next) /\ t.next.line >= q.line
      /\ ~q.ended /\ signs[q.at] \notin Signs => t.next.at > q.at
      /\ q.ended => t.type = "EndOfFile"
  BY <1>1, TokenTaken
<1>3. PICK n \in Nat : n = Len(signs) /\ DOMAIN signs = 1..n
  BY DEF IsText
<1>4. /\ p.at \in Nat /\ p.at >= 1 /\ p.line \in Nat \ {0} /\ q.at \in Nat /\ q.line \in Nat \ {0}
      /\ t.next.at \in Nat /\ t.next.line \in Nat
  BY <1>1, <1>2, <1>3 DEF Halt, Places
<1>5. CASE q.ended
  BY <1>1, <1>2, <1>4, <1>5
<1>6. CASE ~q.ended /\ signs[q.at] \notin Signs
  BY <1>1, <1>2, <1>4, <1>6
<1>7. CASE ~q.ended /\ signs[q.at] \in Signs
  <2>1. q.at \in DOMAIN signs
    BY <1>1, <1>3, <1>4, <1>7
  <2>2. t.next.at > p.at \/ q.at = p.at
    <3>1. t.next.at >= q.at
      BY <1>1, TokenTaken
    <3> QED
      BY <1>1, <1>4, <3>1
  <2> QED
    BY <1>1, <1>2, <1>4, <1>7, <2>1, <2>2
<1> QED
  BY <1>5, <1>6, <1>7

-----------------------------------------------------------------------------
(* Statements and commands.                                                *)

\* What the keywords set is kept apart: no two definitions have a keyword in common.
Fields == DOMAIN Undefined

LEMMA FieldNames ==
  Fields = {"name", "vdcType", "integerPrecision", "realPrecision", "indexPrecision",
            "colourPrecision", "colourIndexPrecision", "vdcExtent"}
  BY DEF Fields, Undefined

LEMMA PrecisionNames ==
  /\ DOMAIN Precisions = {"INTEGERPREC", "INDEXPREC", "COLOURPREC", "COLOURINDEXPREC"}
  /\ Precisions["INTEGERPREC"] = "integerPrecision"
  /\ Precisions["INDEXPREC"] = "indexPrecision"
  /\ Precisions["COLOURPREC"] = "colourPrecision"
  /\ Precisions["COLOURINDEXPREC"] = "colourIndexPrecision"
  BY DEF Precisions

\* A command has its keyword from the statement, and only few may lack a parameter.
LEMMA CommandMade ==
  ASSUME NEW s, CommandOf(s) # NoCommand
  PROVE  /\ CommandOf(s).keyword = Keyword(s)
         /\ CommandOf(s).parameter = <<>> => CommandOf(s).keyword \in Texted \cup Bare
<1> DEFINE p == ParameterOf(Keyword(s), s.tokens)
<1>1. CommandOf(s) = [keyword |-> Keyword(s), parameter |-> p]
      /\ ~(p = <<>> /\ Keyword(s) \notin Texted \cup Bare)
  BY DEF CommandOf
<1> QED
  BY <1>1

\* translateStatement: a command sets the definitions its keyword sets, if it has
\* a parameter, and no other one.
LEMMA DefinedBy ==
  ASSUME NEW d, d = [f \in Fields |-> d[f]],
         NEW c, c.parameter = <<>> => c.keyword \in Texted \cup Bare
  PROVE  /\ Defined(c, d) = [f \in Fields |-> Defined(c, d)[f]]
         /\ \A f \in Fields :
              Defined(c, d)[f] = IF c.keyword \in Setters[f] /\ c.parameter # <<>>
                                 THEN c.parameter ELSE d[f]
<1> DEFINE k == c.keyword
<1>1. CASE k = "BEGMF" /\ c.parameter # <<>>
  <2>1. Defined(c, d) = [d EXCEPT !.name = c.parameter]
    BY <1>1, PrecisionNames DEF Defined
  <2> QED
    BY <1>1, <2>1, FieldNames DEF Setters
<1>2. CASE k \in DOMAIN Precisions
  <2>1. Defined(c, d) = [d EXCEPT ![Precisions[k]] = c.parameter]
    BY <1>2, PrecisionNames DEF Defined
  <2>2. c.parameter # <<>>
    BY <1>2, PrecisionNames DEF Texted, Bare
  <2> QED
    BY <1>2, <2>1, <2>2, FieldNames, PrecisionNames DEF Setters
<1>3. CASE k = "VDCTYPE"
  <2>1. Defined(c, d) = [d EXCEPT !.vdcType = c.parameter]
    BY <1>3, PrecisionNames DEF Defined
  <2>2. c.parameter # <<>>
    BY <1>3 DEF Texted, Bare
  <2> QED
    BY <1>3, <2>1, <2>2, FieldNames DEF Setters
<1>4. CASE k = "REALPREC"
  <2>1. Defined(c, d) = [d EXCEPT !.realPrecision = c.parameter]
    BY <1>4, PrecisionNames DEF Defined
  <2>2. c.parameter # <<>>
    BY <1>4 DEF Texted, Bare
  <2> QED
    BY <1>4, <2>1, <2>2, FieldNames DEF Setters
<1>5. CASE k \in {"MAXVDCEXT", "VDCEXT"}
  <2>1. Defined(c, d) = [d EXCEPT !.vdcExtent = c.parameter]
    BY <1>5, PrecisionNames DEF Defined
  <2>2. c.parameter # <<>>
    BY <1>5 DEF Texted, Bare
  <2> QED
    BY <1>5, <2>1, <2>2, FieldNames DEF Setters
<1>6. CASE /\ ~(k = "BEGMF" /\ c.parameter # <<>>) /\ k \notin DOMAIN Precisions
           /\ k # "VDCTYPE" /\ k # "REALPREC" /\ k \notin {"MAXVDCEXT", "VDCEXT"}
  <2>1. Defined(c, d) = d
    BY <1>6 DEF Defined
  <2>2. \A f \in Fields : ~(k \in Setters[f] /\ c.parameter # <<>>)
    BY <1>6, FieldNames, PrecisionNames DEF Setters
  <2> QED
    BY <2>1, <2>2
<1> QED
  BY <1>1, <1>2, <1>3, <1>4, <1>5, <1>6
-----------------------------------------------------------------------------
(* The invariant.                                                          *)

Phases == {"reading", "token read", "translating", "read", "thrown"}
Answering == phase \in {"translating", "read"}

IsSequence(s) == \E S : s \in Seq(S)

PlaceOK ==
  /\ phase \in Phases /\ next \in Nat \ {0}
  /\ next <= Len(statements) + 1
  /\ phase = "read" => next = Len(statements) + 1

SequencesOK == IsSequence(found) /\ IsSequence(statements) /\ IsSequence(commands) /\ IsSequence(messages)

\* Statements stay within the limit of readStatements.
TokensLimited == statement # NoStatement => Len(statement.tokens) <= MaxTokens
StatementOK == TokensLimited /\ (statement # NoStatement => IsSequence(statement.tokens))

Setting(f, cs) == {i \in DOMAIN cs : cs[i].keyword \in Setters[f] /\ cs[i].parameter # <<>>}

SetBy(f, cs) == IF Setting(f, cs) = {} THEN Undefined[f] ELSE cs[Max(Setting(f, cs))].parameter

HasLast(f, cs) ==
  Setting(f, cs) # {} => \E x \in Setting(f, cs) : \A y \in Setting(f, cs) : x >= y

DefinitionsOK ==
  /\ definitions = [f \in Fields |-> definitions[f]]
  /\ \A f \in Fields : HasLast(f, commands) /\ definitions[f] = SetBy(f, commands)

Reported(ms) == {i \in DOMAIN ms : ms[i].what = "not translated"}

\* The first n statements are answered.
Answered(n, cs, ms) ==
  /\ Len(cs) + Cardinality(Reported(ms)) = n
  /\ \A i \in Reported(ms) : \E j \in 1..n : statements[j].line = ms[i].line
  /\ \A j \in 1..n :
       \/ \E i \in Reported(ms) : ms[i].line = statements[j].line
       \/ \E k \in DOMAIN cs : cs[k].keyword = Keyword(statements[j])

AnswersOK ==
  /\ ~Answering => commands = <<>> /\ Reported(messages) = {}
  /\ Answering => Answered(next - 1, commands, messages)

Inv == PlaceOK /\ SequencesOK /\ StatementOK /\ DefinitionsOK /\ AnswersOK

\* What Append does to a sequence of any kind.
LEMMA Appended ==
  ASSUME NEW s, IsSequence(s), NEW x
  PROVE  /\ IsSequence(Append(s, x))
         /\ Len(s) \in Nat /\ DOMAIN s = 1..Len(s)
         /\ Len(Append(s, x)) = Len(s) + 1 /\ DOMAIN Append(s, x) = 1..Len(s) + 1
         /\ \A i \in 1..Len(s) : Append(s, x)[i] = s[i]
         /\ Append(s, x)[Len(s) + 1] = x
<1>1. PICK S : s \in Seq(S)
  BY DEF IsSequence
<1>2. s \in Seq(S \cup {x})
  BY <1>1, SeqMonotonic
<1>3. Append(s, x) \in Seq(S \cup {x})
  BY <1>2
<1>4. IsSequence(Append(s, x))
  BY <1>3 DEF IsSequence
<1>5. Len(s) \in Nat /\ DOMAIN s = 1..Len(s)
  BY <1>1
<1>6. Len(Append(s, x)) = Len(s) + 1 /\ DOMAIN Append(s, x) = 1..Len(s) + 1
  BY <1>2
<1>7. \A i \in 1..Len(s) : Append(s, x)[i] = s[i]
  BY <1>2
<1>8. Append(s, x)[Len(s) + 1] = x
  BY <1>2
<1> QED
  BY <1>4, <1>5, <1>6, <1>7, <1>8

LEMMA EmptySequence == IsSequence(<<>>) /\ Len(<<>>) = 0 /\ DOMAIN <<>> = {}
<1>1. <<>> \in Seq({})
  OBVIOUS
<1> QED
  BY <1>1 DEF IsSequence

\* Only the message of a statement that is not translated counts.
LEMMA ReportedMore ==
  ASSUME NEW ms, IsSequence(ms), NEW m
  PROVE  /\ IsFiniteSet(Reported(ms)) /\ Cardinality(Reported(ms)) \in Nat
         /\ m.what # "not translated" => Reported(Append(ms, m)) = Reported(ms)
         /\ m.what = "not translated" =>
              /\ Reported(Append(ms, m)) = Reported(ms) \cup {Len(ms) + 1}
              /\ Cardinality(Reported(Append(ms, m))) = Cardinality(Reported(ms)) + 1
<1> DEFINE n == Len(ms)
           more == Append(ms, m)
<1>1. /\ n \in Nat /\ DOMAIN ms = 1..n /\ DOMAIN more = 1..n + 1
      /\ \A i \in 1..n : more[i] = ms[i]
      /\ more[n + 1] = m
  BY Appended
<1> HIDE DEF more, n
<1>2. IsFiniteSet(Reported(ms))
  <2>1. IsFiniteSet(1..n)
    BY <1>1, FS_Interval
  <2>2. Reported(ms) \subseteq 1..n
    BY <1>1 DEF Reported
  <2> QED
    BY <2>1, <2>2, FS_Subset
<1>3. Cardinality(Reported(ms)) \in Nat
  BY <1>2, FS_CardinalityType
<1>4. Reported(more) = Reported(ms) \cup (IF m.what = "not translated" THEN {n + 1} ELSE {})
  <2>1. \A i : i \in Reported(ms) <=> i \in 1..n /\ ms[i].what = "not translated"
    BY <1>1 DEF Reported
  <2>2. \A i : i \in Reported(more) <=> i \in 1..n + 1 /\ more[i].what = "not translated"
    BY <1>1 DEF Reported
  <2>3. \A i : i \in 1..n + 1 <=> i \in 1..n \/ i = n + 1
    BY <1>1
  <2>4. n + 1 \notin 1..n
    BY <1>1
  <2> QED
    BY <1>1, <2>1, <2>2, <2>3, <2>4
<1>5. n + 1 \notin Reported(ms)
  <2>1. Reported(ms) \subseteq 1..n
    BY <1>1 DEF Reported
  <2>2. n + 1 \notin 1..n
    BY <1>1
  <2> QED
    BY <2>1, <2>2
<1>6. Cardinality(Reported(ms) \cup {n + 1}) = Cardinality(Reported(ms)) + 1
  BY <1>2, <1>5, FS_AddElement
<1> QED
  BY <1>2, <1>3, <1>4, <1>6 DEF more, n

\* The last command that sets a definition is the new one, or the one of before.
LEMMA SetByMore ==
  ASSUME NEW cs, IsSequence(cs), NEW c, NEW f \in Fields, HasLast(f, cs)
  PROVE  /\ HasLast(f, Append(cs, c))
         /\ SetBy(f, Append(cs, c)) = IF c.keyword \in Setters[f] /\ c.parameter # <<>>
                                      THEN c.parameter ELSE SetBy(f, cs)
<1> DEFINE n == Len(cs)
           more == Append(cs, c)
           new == c.keyword \in Setters[f] /\ c.parameter # <<>>
<1>1. /\ n \in Nat /\ DOMAIN cs = 1..n /\ DOMAIN more = 1..n + 1
      /\ \A i \in 1..n : more[i] = cs[i]
      /\ more[n + 1] = c
  BY Appended
<1> HIDE DEF more, n
<1>2. Setting(f, more) = Setting(f, cs) \cup (IF new THEN {n + 1} ELSE {})
  BY <1>1 DEF Setting
<1>3. Setting(f, cs) \subseteq 1..n
  BY <1>1 DEF Setting
<1>4. CASE new
  <2>1. n + 1 \in Setting(f, more) /\ Setting(f, more) \subseteq 1..n + 1
    BY <1>1, <1>2, <1>3, <1>4
  <2>2. Max(Setting(f, more)) = n + 1
    <3>1. \A y \in Setting(f, more) : n + 1 >= y
      BY <1>1, <2>1
    <3>2. \A x \in Setting(f, more) : (\A y \in Setting(f, more) : x >= y) => x = n + 1
      BY <1>1, <2>1
    <3> QED
      BY <2>1, <3>1, <3>2 DEF Max
  <2>3. HasLast(f, more)
    BY <1>1, <2>1 DEF HasLast
  <2> QED
    BY <1>1, <1>4, <2>1, <2>2, <2>3 DEF SetBy, more
<1>5. CASE ~new
  <2>1. Setting(f, more) = Setting(f, cs)
    BY <1>2, <1>5
  <2>2. Setting(f, cs) # {} => Max(Setting(f, cs)) \in 1..n
    BY <1>3 DEF HasLast, Max
  <2> QED
    BY <1>1, <1>5, <2>1, <2>2 DEF SetBy, HasLast, more
<1> QED
  BY <1>4, <1>5 DEF more
-----------------------------------------------------------------------------
(* The invariant holds.                                                    *)

LEMMA Fresh == commands = <<>> /\ definitions = Undefined => DefinitionsOK
<1> SUFFICES ASSUME commands = <<>>, definitions = Undefined PROVE DefinitionsOK
  OBVIOUS
<1>1. Undefined = [f \in Fields |-> Undefined[f]]
  BY FieldNames DEF Undefined, Fields
<1>2. \A f \in Fields : Setting(f, commands) = {}
  BY EmptySequence DEF Setting
<1> QED
  BY <1>1, <1>2 DEF DefinitionsOK, HasLast, SetBy

LEMMA InitInv == Init => Inv
<1> SUFFICES ASSUME Init PROVE Inv
  OBVIOUS
<1>1. PlaceOK
  BY EmptySequence DEF Init, PlaceOK, Phases
<1>2. SequencesOK
  BY EmptySequence DEF Init, SequencesOK
<1>3. StatementOK
  BY DEF Init, StatementOK, TokensLimited
<1>4. DefinitionsOK
  BY Fresh DEF Init
<1>5. AnswersOK
  BY EmptySequence DEF Init, AnswersOK, Answering, Reported
<1> QED
  BY <1>1, <1>2, <1>3, <1>4, <1>5 DEF Inv

\* Whatever becomes of a token, nothing is translated meanwhile.
LEMMA StillReading ==
  ASSUME Inv, ~Answering, ~Answering', phase' \in Phases, UNCHANGED <<next, contents>>,
         Reported(messages') = Reported(messages)
  PROVE  PlaceOK' /\ DefinitionsOK' /\ AnswersOK'
<1>1. PlaceOK'
  BY DEF Inv, PlaceOK, Answering, contents
<1>2. DefinitionsOK'
  BY DEF Inv, DefinitionsOK, HasLast, SetBy, Setting, contents
<1>3. AnswersOK'
  BY DEF Inv, AnswersOK, contents
<1> QED
  BY <1>1, <1>2, <1>3

LEMMA Unreported ==
  ASSUME Inv, NEW w, NEW l, Report(w, l), w # "not translated"
  PROVE  Reported(messages') = Reported(messages) /\ IsSequence(messages')
<1>1. IsSequence(messages)
  BY DEF Inv, SequencesOK
<1> QED
  BY <1>1, ReportedMore, Appended DEF Report

LEMMA ReadTokenInv == Inv /\ ReadToken => Inv'
<1> SUFFICES ASSUME Inv, ReadToken PROVE Inv'
  OBVIOUS
<1>1. ~Answering /\ ~Answering' /\ phase' \in Phases /\ UNCHANGED <<statement, found, next, messages, contents>>
  BY DEF ReadToken, Answering, Phases
<1>2. PlaceOK' /\ DefinitionsOK' /\ AnswersOK'
  BY <1>1, StillReading
<1>3. SequencesOK' /\ StatementOK'
  BY <1>1 DEF Inv, SequencesOK, StatementOK, TokensLimited, contents
<1> QED
  BY <1>2, <1>3 DEF Inv

\* The tokens that do not end the text.
LEMMA TakeTokenInv ==
  Inv /\ (BeginStatement \/ StrayToken \/ AddToken \/ TooManyTokens \/ InvalidToken
          \/ EndStatement \/ CutOff) => Inv'
<1> SUFFICES ASSUME Inv,
                    BeginStatement \/ StrayToken \/ AddToken \/ TooManyTokens \/ InvalidToken
                      \/ EndStatement \/ CutOff
             PROVE  Inv'
  OBVIOUS
<1> USE DEF Got, GoOn, rest
<1>1. ~Answering /\ ~Answering' /\ phase' \in Phases /\ UNCHANGED <<next, contents>>
  BY DEF BeginStatement, StrayToken, AddToken, TooManyTokens, InvalidToken, EndStatement, CutOff,
     Answering, Phases
<1>2. Reported(messages') = Reported(messages) /\ IsSequence(messages')
  <2>1. CASE UNCHANGED messages
    BY <2>1 DEF Inv, SequencesOK
  <2>2. CASE \E w \in {"invalid token", "command expected", "invalid token in statement", "unexpected end"} :
               Report(w, 0)
    BY <2>2, Unreported
  <2> QED
    BY <2>1, <2>2 DEF BeginStatement, StrayToken, AddToken, TooManyTokens, InvalidToken, EndStatement, CutOff
<1>3. IsSequence(found')
  <2>1. CASE UNCHANGED found
    BY <2>1 DEF Inv, SequencesOK
  <2>2. CASE found' = Append(found, statement)
    BY <2>2, Appended DEF Inv, SequencesOK
  <2> QED
    BY <2>1, <2>2 DEF BeginStatement, StrayToken, AddToken, TooManyTokens, InvalidToken, EndStatement, CutOff
<1>4. SequencesOK'
  BY <1>1, <1>2, <1>3 DEF Inv, SequencesOK, contents
<1>5. StatementOK'
  <2>1. CASE UNCHANGED statement \/ statement' = NoStatement
    BY <2>1 DEF Inv, StatementOK, TokensLimited
  <2>2. CASE BeginStatement
    <3>1. statement'.tokens = <<>>
      BY <2>2 DEF BeginStatement
    <3> QED
      BY <3>1, EmptySequence, BoundsAssumption DEF StatementOK, TokensLimited
  <2>3. CASE AddToken
    <3>1. PICK t : statement' = [statement EXCEPT !.tokens = Append(@, t)]
      BY <2>3 DEF AddToken
    <3>2. statement # NoStatement /\ Len(statement.tokens) < MaxTokens
      BY <2>3 DEF AddToken
    <3>3. IsSequence(statement.tokens)
      BY <3>2 DEF Inv, StatementOK
    <3>4. statement'.tokens = Append(statement.tokens, t) \/ statement'.tokens = statement.tokens
      BY <3>1
    <3>5. /\ Len(statement.tokens) \in Nat /\ IsSequence(Append(statement.tokens, t))
          /\ Len(Append(statement.tokens, t)) = Len(statement.tokens) + 1
      BY <3>3, Appended
    <3>6. IsSequence(statement'.tokens)
      BY <3>3, <3>4, <3>5
    <3>7. Len(statement'.tokens) <= MaxTokens
      BY <3>2, <3>4, <3>5, BoundsAssumption
    <3> QED
      BY <3>6, <3>7 DEF StatementOK, TokensLimited
  <2> QED
    BY <2>1, <2>2, <2>3 DEF StrayToken, TooManyTokens, InvalidToken, EndStatement, CutOff
<1>6. PlaceOK' /\ DefinitionsOK' /\ AnswersOK'
  BY <1>1, <1>2, StillReading
<1> QED
  BY <1>4, <1>5, <1>6 DEF Inv
\* The end of the text: every statement is still to be answered.
LEMMA EndOfTextInv == Inv /\ EndOfText => Inv'
<1> SUFFICES ASSUME Inv, EndOfText PROVE Inv'
  OBVIOUS
<1>1. /\ phase' = "translating" /\ next' = 1 /\ statements' = found
      /\ UNCHANGED <<statement, found, commands, messages, definitions>>
  BY DEF EndOfText
<1>2. commands = <<>> /\ Reported(messages) = {}
  BY DEF EndOfText, Got, Inv, AnswersOK, Answering
<1>3. Len(found) \in Nat
  BY Appended DEF Inv, SequencesOK
<1>4. PlaceOK'
  BY <1>1, <1>3 DEF PlaceOK, Phases, Answering
<1>5. SequencesOK' /\ StatementOK' /\ DefinitionsOK'
  BY <1>1 DEF Inv, SequencesOK, StatementOK, TokensLimited, DefinitionsOK, HasLast, SetBy, Setting
<1>6. AnswersOK'
  <2>1. Answered(0, commands, messages)'
    <3>1. Len(commands') = 0 /\ Reported(messages') = {}
      BY <1>1, <1>2, EmptySequence
    <3>2. Cardinality(Reported(messages')) = 0
      BY <3>1, FS_EmptySet
    <3> QED
      BY <3>1, <3>2 DEF Answered
  <2> QED
    BY <1>1, <2>1 DEF AnswersOK, Answering
<1> QED
  BY <1>4, <1>5, <1>6 DEF Inv

\* A statement makes a command: its definitions are set, and it is answered by it.
LEMMA TranslatedInv ==
  ASSUME Inv, TranslateStatement, NEW c, c = CommandOf(statements[next]), Translated(c)
  PROVE  DefinitionsOK' /\ AnswersOK' /\ IsSequence(commands') /\ IsSequence(messages')
<1>1. /\ commands' = Append(commands, c) /\ definitions' = Defined(c, definitions)
      /\ UNCHANGED <<messages, statements, phase>> /\ next' = next + 1
      /\ c # NoCommand /\ next \in Nat \ {0} /\ phase = "translating"
  BY DEF Translated, TranslateStatement, Inv, PlaceOK
<1>2. IsSequence(commands) /\ IsSequence(messages)
  BY DEF Inv, SequencesOK
<1>3. c.keyword = Keyword(statements[next]) /\ (c.parameter = <<>> => c.keyword \in Texted \cup Bare)
  BY <1>1, CommandMade
<1>4. DefinitionsOK'
  <2>1. definitions = [f \in Fields |-> definitions[f]]
    BY DEF Inv, DefinitionsOK
  <2>2. /\ definitions' = [f \in Fields |-> definitions'[f]]
        /\ \A f \in Fields : definitions'[f] = IF c.keyword \in Setters[f] /\ c.parameter # <<>>
                                               THEN c.parameter ELSE definitions[f]
    BY <1>1, <1>3, <2>1, DefinedBy
  <2>3. \A f \in Fields : HasLast(f, commands) /\ definitions[f] = SetBy(f, commands)
    BY DEF Inv, DefinitionsOK
  <2>4. \A f \in Fields : HasLast(f, commands') /\ definitions'[f] = SetBy(f, commands')
    BY <1>1, <1>2, <2>2, <2>3, SetByMore
  <2> QED
    BY <2>2, <2>4 DEF DefinitionsOK
<1>5. AnswersOK'
  <2>1. Answered(next - 1, commands, messages)
    BY <1>1 DEF Inv, AnswersOK, Answering
  <2>2. /\ Len(commands) \in Nat /\ DOMAIN commands = 1..Len(commands)
        /\ Len(commands') = Len(commands) + 1 /\ DOMAIN commands' = 1..Len(commands) + 1
        /\ \A k \in 1..Len(commands) : commands'[k] = commands[k]
        /\ commands'[Len(commands) + 1] = c
    BY <1>1, <1>2, Appended
  <2>3. Cardinality(Reported(messages)) \in Nat
    BY <1>2, ReportedMore
  <2>4. Len(commands') + Cardinality(Reported(messages)) = next
    <3>1. Len(commands) + Cardinality(Reported(messages)) = next - 1
      BY <2>1 DEF Answered
    <3> QED
      BY <1>1, <2>2, <2>3, <3>1
  <2>5. \A i \in Reported(messages) : \E j \in 1..next : statements[j].line = messages[i].line
    BY <1>1, <2>1 DEF Answered
  <2>6. \A j \in 1..next :
          \/ \E i \in Reported(messages) : messages[i].line = statements[j].line
          \/ \E k \in DOMAIN commands' : commands'[k].keyword = Keyword(statements[j])
    <3>1. SUFFICES ASSUME NEW j \in 1..next
                   PROVE  \/ \E i \in Reported(messages) : messages[i].line = statements[j].line
                          \/ \E k \in DOMAIN commands' : commands'[k].keyword = Keyword(statements[j])
      OBVIOUS
    <3>2. CASE j = next
      BY <1>3, <2>2, <3>2
    <3>3. CASE j \in 1..next - 1
      <4>1. CASE \E i \in Reported(messages) : messages[i].line = statements[j].line
        BY <4>1
      <4>2. CASE \E k \in DOMAIN commands : commands[k].keyword = Keyword(statements[j])
        <5>1. PICK k \in DOMAIN commands : commands[k].keyword = Keyword(statements[j])
          BY <4>2
        <5>2. k \in DOMAIN commands' /\ commands'[k] = commands[k]
          BY <2>2
        <5> QED
          BY <5>1, <5>2
      <4> QED
        BY <2>1, <3>3, <4>1, <4>2 DEF Answered
    <3> QED
      BY <1>1, <3>2, <3>3
  <2>7. next' - 1 = next /\ messages' = messages /\ statements' = statements
    BY <1>1
  <2>8. Answered(next - 1, commands, messages)'
    BY <2>4, <2>5, <2>6, <2>7 DEF Answered
  <2> QED
    BY <1>1, <2>8 DEF AnswersOK, Answering
<1> QED
  BY <1>1, <1>2, <1>4, <1>5, Appended
\* A statement makes no command: it is answered by the message of its line.
LEMMA UntranslatedInv ==
  ASSUME Inv, TranslateStatement, NEW c, LogTranslationError(c)
  PROVE  DefinitionsOK' /\ AnswersOK' /\ IsSequence(commands') /\ IsSequence(messages')
<1> DEFINE m == [what |-> "not translated", line |-> statements[next].line]
<1>1. /\ messages' = Append(messages, m)
      /\ UNCHANGED <<commands, definitions, statements, phase>> /\ next' = next + 1
      /\ next \in Nat \ {0} /\ phase = "translating"
  BY DEF LogTranslationError, Report, TranslateStatement, Inv, PlaceOK
<1>0. next \in Nat /\ next >= 1 /\ next \in 1..next /\ next' - 1 = next
      /\ \A j \in 1..next : j = next \/ j \in 1..next - 1
  <2>1. next \in Nat /\ next >= 1 /\ next' = next + 1
    BY DEF TranslateStatement, Inv, PlaceOK
  <2> QED
    BY <2>1
<1>2. m.what = "not translated" /\ m.line = statements[next].line
  OBVIOUS
<1> HIDE DEF m
<1>3. IsSequence(commands) /\ IsSequence(messages)
  BY DEF Inv, SequencesOK
<1>4. DefinitionsOK'
  BY <1>1 DEF Inv, DefinitionsOK, HasLast, SetBy, Setting
<1>5. Answered(next - 1, commands, messages)
  BY <1>1 DEF Inv, AnswersOK, Answering
<1> DEFINE n == Len(messages)
<1>6. /\ n \in Nat /\ DOMAIN messages = 1..n
      /\ \A i \in 1..n : messages'[i] = messages[i]
      /\ messages'[n + 1] = m
  BY <1>1, <1>3, Appended
<1>7. /\ Reported(messages') = Reported(messages) \cup {n + 1}
      /\ Cardinality(Reported(messages')) = Cardinality(Reported(messages)) + 1
      /\ Cardinality(Reported(messages)) \in Nat
      /\ Reported(messages) \subseteq 1..n
  <2>1. Reported(messages) \subseteq 1..n
    BY <1>6 DEF Reported
  <2> QED
    BY <1>1, <1>2, <1>3, <2>1, ReportedMore
<1> HIDE DEF n
<1>8. Len(commands) + Cardinality(Reported(messages')) = next
  <2>1. Len(commands) + Cardinality(Reported(messages)) = next - 1
    BY <1>5 DEF Answered
  <2>2. Len(commands) \in Nat
    BY <1>3, Appended
  <2> QED
    <3>1. Cardinality(Reported(messages')) = Cardinality(Reported(messages)) + 1
          /\ Cardinality(Reported(messages)) \in Nat
      BY <1>7
    <3> QED
      BY <1>0, <2>1, <2>2, <3>1
<1>9. \A i \in Reported(messages') : \E j \in 1..next : statements[j].line = messages'[i].line
  <2>1. SUFFICES ASSUME NEW i \in Reported(messages')
                 PROVE  \E j \in 1..next : statements[j].line = messages'[i].line
    OBVIOUS
  <2>2. CASE i = n + 1
    <3>1. messages'[i] = m
      BY <1>6, <2>2
    <3> QED
      BY <1>0, <1>2, <3>1
  <2>3. CASE i \in Reported(messages)
    <3>1. PICK j \in 1..next - 1 : statements[j].line = messages[i].line
      BY <1>5, <2>3 DEF Answered
    <3>2. j \in 1..next /\ messages'[i] = messages[i]
      BY <1>1, <1>6, <1>7, <2>3
    <3> QED
      BY <3>1, <3>2
  <2> QED
    BY <1>7, <2>2, <2>3
<1>10. \A j \in 1..next :
         \/ \E i \in Reported(messages') : messages'[i].line = statements[j].line
         \/ \E k \in DOMAIN commands : commands[k].keyword = Keyword(statements[j])
  <2>1. SUFFICES ASSUME NEW j \in 1..next
                 PROVE  \/ \E i \in Reported(messages') : messages'[i].line = statements[j].line
                        \/ \E k \in DOMAIN commands : commands[k].keyword = Keyword(statements[j])
    OBVIOUS
  <2>2. CASE j = next
    <3>1. n + 1 \in Reported(messages') /\ messages'[n + 1].line = statements[j].line
      BY <1>2, <1>6, <1>7, <2>2
    <3> QED
      BY <3>1
  <2>3. CASE j \in 1..next - 1
    <3>1. CASE \E i \in Reported(messages) : messages[i].line = statements[j].line
      <4>1. PICK i \in Reported(messages) : messages[i].line = statements[j].line
        BY <3>1
      <4>2. i \in Reported(messages') /\ messages'[i] = messages[i]
        BY <1>6, <1>7
      <4> QED
        BY <4>1, <4>2
    <3> QED
      BY <1>5, <2>3, <3>1 DEF Answered
  <2> QED
    BY <1>0, <2>2, <2>3
<1>11. next' - 1 = next /\ commands' = commands /\ statements' = statements
  BY <1>0, <1>1
<1>12. Answered(next - 1, commands, messages)'
  BY <1>8, <1>9, <1>10, <1>11 DEF Answered
<1>13. AnswersOK'
  BY <1>1, <1>12 DEF AnswersOK, Answering
<1>14. IsSequence(messages') /\ IsSequence(commands')
  BY <1>1, <1>3, Appended
<1> QED
  BY <1>4, <1>13, <1>14

LEMMA TranslateInv == Inv /\ TranslateStatement => Inv'
<1> SUFFICES ASSUME Inv, TranslateStatement PROVE Inv'
  OBVIOUS
<1>1. PICK c \in {CommandOf(statements[next])} : Translated(c) \/ LogTranslationError(c)
  BY DEF TranslateStatement
<1>2. DefinitionsOK' /\ AnswersOK' /\ IsSequence(commands') /\ IsSequence(messages')
  BY <1>1, TranslatedInv, UntranslatedInv
<1>3. /\ phase = "translating" /\ next <= Len(statements) /\ next' = next + 1
      /\ UNCHANGED <<statement, found, phase, statements>>
  BY DEF TranslateStatement
<1>4. Len(statements) \in Nat
  BY Appended DEF Inv, SequencesOK
<1>5. PlaceOK'
  BY <1>3, <1>4 DEF Inv, PlaceOK, Phases, Answering
<1>6. SequencesOK' /\ StatementOK'
  BY <1>2, <1>3 DEF Inv, SequencesOK, StatementOK, TokensLimited
<1> QED
  BY <1>2, <1>5, <1>6 DEF Inv

LEMMA EndOfStatementsInv == Inv /\ EndOfStatements => Inv'
<1> SUFFICES ASSUME Inv, EndOfStatements PROVE Inv'
  OBVIOUS
<1>1. /\ phase = "translating" /\ next > Len(statements) /\ phase' = "read"
      /\ UNCHANGED <<next, statements, commands, definitions, statement, found, messages>>
  BY DEF EndOfStatements, rest, contents
<1>2. Len(statements) \in Nat
  BY Appended DEF Inv, SequencesOK
<1>3. PlaceOK'
  BY <1>1, <1>2 DEF Inv, PlaceOK, Phases, Answering
<1>4. SequencesOK' /\ StatementOK' /\ DefinitionsOK'
  BY <1>1 DEF Inv, SequencesOK, StatementOK, TokensLimited, DefinitionsOK, HasLast, SetBy, Setting
<1>5. AnswersOK'
  BY <1>1 DEF Inv, AnswersOK, Answering, Answered
<1> QED
  BY <1>3, <1>4, <1>5 DEF Inv

LEMMA ReadAgainInv == Inv /\ ReadAgain => Inv'
<1> SUFFICES ASSUME Inv, ReadAgain PROVE Inv'
  OBVIOUS
<1>1. /\ statement' = NoStatement /\ found' = <<>> /\ phase' = "reading" /\ next' = 1
      /\ commands' = <<>> /\ messages' = <<>> /\ definitions' = Undefined /\ UNCHANGED statements
  BY DEF ReadAgain
<1>2. PlaceOK'
  <2>1. Len(statements) \in Nat
    BY Appended DEF Inv, SequencesOK
  <2> QED
    BY <1>1, <2>1 DEF PlaceOK, Phases
<1>3. SequencesOK' /\ StatementOK'
  BY <1>1, EmptySequence DEF Inv, SequencesOK, StatementOK, TokensLimited
<1>4. DefinitionsOK'
  <2>1. Undefined = [f \in Fields |-> Undefined[f]]
    BY FieldNames DEF Undefined, Fields
  <2>2. \A f \in Fields : Setting(f, commands') = {}
    BY <1>1, EmptySequence DEF Setting
  <2> QED
    BY <1>1, <2>1, <2>2 DEF DefinitionsOK, HasLast, SetBy
<1>5. AnswersOK'
  BY <1>1, EmptySequence DEF AnswersOK, Answering, Reported
<1> QED
  BY <1>2, <1>3, <1>4, <1>5 DEF Inv

LEMMA NextInv == Inv /\ [Next]_vars => Inv'
<1> SUFFICES ASSUME Inv, [Next]_vars PROVE Inv'
  OBVIOUS
<1>1. CASE UNCHANGED vars
  BY <1>1 DEF vars, Inv, PlaceOK, Answering, SequencesOK, StatementOK, TokensLimited, DefinitionsOK,
     HasLast, SetBy, Setting, AnswersOK, Answered
<1> QED
  BY <1>1, ReadTokenInv, TakeTokenInv, EndOfTextInv, TranslateInv, EndOfStatementsInv, ReadAgainInv
  DEF Next, TakeToken

LEMMA Invariant == Spec => []Inv
<1> QED
  BY InitInv, NextInv, PTL DEF Spec

\* The definitions of a file are those of the commands it holds, and of nothing
\* that was read before or not translated (translateStatement,
\* resetMetaDefinitions).
THEOREM DefinitionsOfCommands == Spec => []DefinitionsFollow
<1>1. Inv => DefinitionsFollow
  <2>1. SUFFICES ASSUME Inv, NEW d \in DOMAIN definitions
                 PROVE  definitions[d] = SetBy(d, commands)
    BY DEF DefinitionsFollow, SetBy, Setting
  <2>2. d \in Fields
    BY <2>1 DEF Inv, DefinitionsOK
  <2> QED
    BY <2>1, <2>2 DEF Inv, DefinitionsOK
<1> QED
  BY <1>1, Invariant, PTL

\* Every statement that was read is answered once, by a command or by a
\* message of its line (readData, logTranslationError).
THEOREM StatementsAnswered == Spec => []EveryStatementAnswered
<1>1. Inv => EveryStatementAnswered
  <2>1. SUFFICES ASSUME Inv, phase = "read"
                 PROVE  /\ Len(commands) + Cardinality(Reported(messages)) = Len(statements)
                        /\ \A i \in Reported(messages) :
                             \E j \in DOMAIN statements : statements[j].line = messages[i].line
                        /\ \A j \in DOMAIN statements :
                             \/ \E i \in Reported(messages) : messages[i].line = statements[j].line
                             \/ \E k \in DOMAIN commands : commands[k].keyword = Keyword(statements[j])
    BY DEF EveryStatementAnswered, Reported
  <2>2. next = Len(statements) + 1 /\ Answered(next - 1, commands, messages)
    BY <2>1 DEF Inv, PlaceOK, AnswersOK, Answering
  <2>3. Len(statements) \in Nat /\ DOMAIN statements = 1..Len(statements)
    BY <2>1, Appended DEF Inv, SequencesOK
  <2>4. next - 1 = Len(statements)
    BY <2>2, <2>3
  <2> QED
    BY <2>2, <2>3, <2>4 DEF Answered
<1> QED
  BY <1>1, Invariant, PTL

-----------------------------------------------------------------------------
(* Types.                                                                  *)

TokenOK ==
  /\ IsText(text.signs) /\ Halt(text.signs, token.next)
  /\ token.line \in Nat \ {0} /\ token.next.line >= token.line

Typed ==
  /\ TokenOK /\ reads \in 1..MaxReads
  /\ \A i \in DOMAIN commands : DOMAIN commands[i] = {"keyword", "parameter"}

LEMMA StartOK == ASSUME NEW signs, IsText(signs) PROVE Halt(signs, NoToken.next) /\ NoToken.line = 1 /\ NoToken.next.line = 1
<1>1. PICK n \in Nat : n = Len(signs)
  BY DEF IsText
<1>2. NoToken.next = [at |-> 1, line |-> 1, ended |-> FALSE] /\ NoToken.line = 1
  BY DEF NoToken, Token, Start, Place
<1>3. 1 \in 1..n + 2 /\ ~(1 > n + 1)
  OBVIOUS
<1> QED
  BY <1>1, <1>2, <1>3 DEF Halt, Places

LEMMA InitTyped == Init => Typed
<1> SUFFICES ASSUME Init PROVE Typed
  OBVIOUS
<1>1. IsText(text.signs)
  BY TextsAssumption DEF Init, IsText
<1>2. TokenOK
  BY <1>1, StartOK DEF Init, TokenOK
<1>3. reads \in 1..MaxReads
  BY BoundsAssumption DEF Init
<1>4. \A i \in DOMAIN commands : DOMAIN commands[i] = {"keyword", "parameter"}
  BY EmptySequence DEF Init
<1> QED
  BY <1>2, <1>3, <1>4 DEF Typed

LEMMA NextTyped == Inv /\ Typed /\ [Next]_vars => Typed'
<1> SUFFICES ASSUME Inv, Typed, [Next]_vars PROVE Typed'
  OBVIOUS
<1>1. CASE ReadToken
  <2>1. token' = NextToken(text.signs, token.next) /\ UNCHANGED <<text, commands, reads>>
    BY <1>1 DEF ReadToken, contents
  <2>2. IsText(text.signs) /\ Halt(text.signs, token.next) /\ token.next.line >= token.line
        /\ token.line \in Nat \ {0}
    BY DEF Typed, TokenOK
  <2>3. Halt(text.signs, token'.next) /\ token'.next.line >= token'.line /\ token'.line \in Nat \ {0}
    BY <2>1, <2>2, ReaderAdvances
  <2> QED
    BY <2>1, <2>2, <2>3 DEF Typed, TokenOK
<1>2. CASE TakeToken \/ EndOfStatements \/ UNCHANGED vars
  <2>1. UNCHANGED <<text, token, commands, reads>>
    BY <1>2 DEF TakeToken, BeginStatement, StrayToken, EndOfText, AddToken, TooManyTokens, InvalidToken,
       EndStatement, CutOff, EndOfStatements, GoOn, rest, contents, vars
  <2> QED
    BY <2>1 DEF Typed, TokenOK
<1>3. CASE TranslateStatement
  <2>1. PICK c \in {CommandOf(statements[next])} : Translated(c) \/ LogTranslationError(c)
    BY <1>3 DEF TranslateStatement
  <2>2. UNCHANGED <<text, token, reads>>
    BY <1>3 DEF TranslateStatement
  <2>3. CASE Translated(c)
    <3>1. commands' = Append(commands, c) /\ c # NoCommand
      BY <2>3 DEF Translated
    <3>2. DOMAIN c = {"keyword", "parameter"}
      <4>1. c = [keyword |-> Keyword(statements[next]),
                 parameter |-> ParameterOf(Keyword(statements[next]), statements[next].tokens)]
        BY <2>1, <3>1 DEF CommandOf
      <4> QED
        BY <4>1
    <3>3. /\ Len(commands) \in Nat /\ DOMAIN commands = 1..Len(commands)
          /\ DOMAIN commands' = 1..Len(commands) + 1
          /\ \A i \in 1..Len(commands) : commands'[i] = commands[i]
          /\ commands'[Len(commands) + 1] = c
      BY <3>1, Appended DEF Inv, SequencesOK
    <3>4. \A i \in DOMAIN commands' : DOMAIN commands'[i] = {"keyword", "parameter"}
      BY <3>2, <3>3 DEF Typed
    <3> QED
      BY <2>2, <3>4 DEF Typed, TokenOK
  <2>4. CASE LogTranslationError(c)
    BY <2>2, <2>4 DEF LogTranslationError, Typed, TokenOK
  <2> QED
    BY <2>1, <2>3, <2>4
<1>4. CASE ReadAgain
  <2>1. text' \in Again /\ token' = NoToken /\ reads' = reads + 1 /\ reads < MaxReads /\ commands' = <<>>
    BY <1>4 DEF ReadAgain
  <2>2. IsText(text'.signs)
    BY <2>1, TextsAssumption DEF IsText
  <2>3. TokenOK'
    BY <2>1, <2>2, StartOK DEF TokenOK
  <2>4. reads' \in 1..MaxReads
    BY <2>1, BoundsAssumption DEF Typed
  <2> QED
    BY <2>1, <2>3, <2>4, EmptySequence DEF Typed
<1> QED
  BY <1>1, <1>2, <1>3, <1>4 DEF Next

\* The state of a file object keeps its shape, whatever it reads: the position
\* stays in the text, lines count up, statements keep their limit, and commands
\* and definitions their fields.
THEOREM TypeCorrect == Spec => []TypeOK
<1>1. Init => Inv /\ Typed
  BY InitInv, InitTyped
<1>2. (Inv /\ Typed) /\ [Next]_vars => (Inv /\ Typed)'
  BY NextInv, NextTyped
<1>3. Inv /\ Typed => TypeOK
  <2>1. SUFFICES ASSUME Inv, Typed PROVE TypeOK
    OBVIOUS
  <2>2. token.next.at \in 1 .. Len(text.signs) + 2
    BY <2>1 DEF Typed, TokenOK, Halt, Places
  <2>3. token.next.line >= token.line /\ token.line >= 1
    BY <2>1 DEF Typed, TokenOK
  <2>4. next \in 1 .. Len(statements) + 1
    <3>1. Len(statements) \in Nat
      BY <2>1, Appended DEF Inv, SequencesOK
    <3> QED
      BY <2>1, <3>1 DEF Inv, PlaceOK
  <2>5. phase \in {"reading", "token read", "translating", "read", "thrown"}
    BY <2>1 DEF Inv, PlaceOK, Phases
  <2>6. statement # NoStatement => Len(statement.tokens) <= MaxTokens
    BY <2>1 DEF Inv, StatementOK, TokensLimited
  <2>7. DOMAIN definitions = DOMAIN Undefined
    BY <2>1 DEF Inv, DefinitionsOK, Fields
  <2> QED
    BY <2>1, <2>2, <2>3, <2>4, <2>5, <2>6, <2>7 DEF TypeOK, Typed
<1> QED
  BY <1>1, <1>2, <1>3, PTL DEF Spec
=============================================================================
