------------------------------ MODULE Iteration -----------------------------
(***************************************************************************)
(* Loops, as recursive functions.                                          *)
(***************************************************************************)
EXTENDS Naturals, Sequences

\* F applied n times. The state is bound as the member of a set, so that it
\* is evaluated once, and the turns are taken in groups of sixteen, which
\* keeps the evaluation of a long loop shallow.
Repeat(F(_), n, x) ==
  LET few(m, start) ==
        LET after[i \in 0..m] ==
              IF i = 0 THEN start ELSE CHOOSE z \in {F(y) : y \in {after[i - 1]}} : TRUE
        IN  after[m]
      many[i \in 0..n \div 16] ==
        IF i = 0 THEN few(n % 16, x) ELSE CHOOSE z \in {few(16, y) : y \in {many[i - 1]}} : TRUE
  IN  many[n \div 16]

\* F over the elements of s, from the first to the last.
Fold(F(_, _), x, s) ==
  LET after[i \in 0..Len(s)] ==
        IF i = 0 THEN x ELSE F(after[i - 1], s[i])
  IN  after[Len(s)]

\* The sequences in s, one after the other.
Concatenation(s) ==
  LET upTo[i \in 0..Len(s)] == IF i = 0 THEN <<>> ELSE upTo[i - 1] \o s[i]
  IN  upTo[Len(s)]

\* The elements of s that pass a test, in their order.
Those(s, test(_)) == Concatenation([i \in DOMAIN s |-> IF test(s[i]) THEN <<s[i]>> ELSE <<>>])
=============================================================================
