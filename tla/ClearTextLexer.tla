--------------------------- MODULE ClearTextLexer ---------------------------
(***************************************************************************)
(* From the characters of a clear text metafile to its tokens.             *)
(* (clear_text_reader.cpp: skipWhitespaceAndComments, lexToken, nextToken) *)
(*                                                                         *)
(* A text is a sequence of signs. A sign is one character, but a run of    *)
(* letters (one of Words) and a run of digits (one of Numerals) are one    *)
(* sign each: the lexer never divides them. Left out are words that begin  *)
(* with e directly behind digits, unless they are e or E, and words that   *)
(* the C library takes for numbers ("inf", "nan").                         *)
(*                                                                         *)
(* A place is where the reader is: the next sign, the line counted so far, *)
(* and whether the end of the stream has been seen.                        *)
(***************************************************************************)
EXTENDS Integers, Sequences, FiniteSetsExt, SequencesExt

CONSTANTS
  Words,       \* runs of letters
  Numerals     \* runs of digits

NewLine == "\n"
Blanks == {" ", NewLine, "\t", "\r"}
Quotes == {"'", "\""}
Exponents == {"e", "E"}
Signs == {"+", "-"}

\* Letters are no digits, and neither are other characters.
ASSUME SignsAssumption ==
  Words \cap Numerals = {} /\ (Words \cup Numerals) \cap (Quotes \cup Signs \cup {"_", "$", "."}) = {}

Place(at, line, ended) == [at |-> at, line |-> line, ended |-> ended]
Start == Place(1, 1, FALSE)

IsIdentifierStart(c) == c \in Words \cup {"_", "$"}
IsIdentifierChar(c) == IsIdentifierStart(c) \/ c \in Numerals \cup {"-"}
IsNumberStart(c) == c \in Numerals \cup Signs \cup {"."}

\* The first position from i on of which P is true, or the one behind the text.
First(text, i, P(_)) ==
  LET found == {j \in i..Len(text) : P(j)}
  IN  IF found = {} THEN Len(text) + 1 ELSE Min(found)

NewLines(text, from, to) == Cardinality({j \in from..to : j \in DOMAIN text /\ text[j] = NewLine})
-----------------------------------------------------------------------------
\* Blanks and comments.

\* The comment counts the line it ends.
ExclamationCounted(text, p) ==
  LET last == First(text, p.at, LAMBDA j : text[j] = NewLine)
  IN  Place(last + 1, p.line + NewLines(text, p.at, last), FALSE)

\* "!": up to the end of the line, which is taken without being counted.
Exclamation(text, p) == Place(First(text, p.at, LAMBDA j : text[j] = NewLine) + 1, p.line, FALSE)

\* "//": the end of the line is left.
DoubleSlash(text, p) == Place(First(text, p.at + 1, LAMBDA j : text[j] = NewLine), p.line, FALSE)

SlashStar(text, p) ==
  LET last == First(text, p.at + 3, LAMBDA j : text[j - 1] = "*" /\ text[j] = "/")
  IN  Place(last + 1, p.line + NewLines(text, p.at + 2, last), FALSE)

Next1(text, p) == IF p.at < Len(text) THEN text[p.at + 1] ELSE ""

\* One turn of the loop; the same place, when there is nothing more to skip.
SkipOne(text, p) ==
  CASE p.at > Len(text) -> [p EXCEPT !.at = Len(text) + 1, !.ended = TRUE]
    [] p.at <= Len(text) /\ text[p.at] = NewLine -> Place(p.at + 1, p.line + 1, FALSE)
    [] p.at <= Len(text) /\ text[p.at] \in Blanks \ {NewLine} -> Place(p.at + 1, p.line, FALSE)
    [] p.at <= Len(text) /\ text[p.at] = "!" -> Exclamation(text, p)
    [] p.at <= Len(text) /\ text[p.at] = "/" /\ Next1(text, p) = "/" -> DoubleSlash(text, p)
    [] p.at <= Len(text) /\ text[p.at] = "/" /\ Next1(text, p) = "*" -> SlashStar(text, p)
    [] OTHER -> p

\* Every turn but the last takes the reader on, and behind the text one more sees the end.
SkipWhitespaceAndComments(text, p) ==
  LET turns == Len(text) + 2 - p.at
      after[n \in 0..turns] == IF n = 0 THEN p ELSE SkipOne(text, after[n - 1])
  IN  after[turns]
-----------------------------------------------------------------------------
\* Tokens. A token carries the place behind it.

Token(type, lexeme, line, next) == [type |-> type, lexeme |-> lexeme, line |-> line, next |-> next]

Identifier(text, p) ==
  LET end == First(text, p.at, LAMBDA j : ~IsIdentifierChar(text[j]))
  IN  Token("Identifier", SubSeq(text, p.at, end - 1), p.line, [p EXCEPT !.at = end])

\* Whether c goes on with the number read so far. A sign only follows an exponent.
GoesOn(number, c) ==
  \/ c \in Numerals
  \/ c \in Signs /\ number # <<>> /\ Last(number) \in Exponents
  \/ c \in Exponents \cup {"."} /\ c \notin Range(number) /\ (c \in Exponents => Range(number) \cap Exponents = {})

\* A sign in front takes the reader on.
SignedNumber(text, p) ==
  LET first == IF text[p.at] \in Signs THEN p.at + 1 ELSE p.at
      end == First(text, first, LAMBDA j : ~GoesOn(SubSeq(text, first, j - 1), text[j]))
  IN  Token("Number", SubSeq(text, p.at, end - 1), p.line, [p EXCEPT !.at = end])

Number(text, p) ==
  LET end == First(text, p.at, LAMBDA j : ~GoesOn(SubSeq(text, p.at, j - 1), text[j]))
  IN  Token("Number", SubSeq(text, p.at, end - 1), p.line, [p EXCEPT !.at = end])

\* Any quote of its kind ends the string.
QuotedOnce(text, p) ==
  LET close == First(text, p.at + 1, LAMBDA j : text[j] = text[p.at])
  IN  Token(IF close > Len(text) THEN "Invalid" ELSE "String", SubSeq(text, p.at + 1, close - 1), p.line,
            Place(close + 1, p.line + NewLines(text, p.at, close), close > Len(text)))

\* Whether the character at j is one that is not the first of two.
Closes(text, from, j) ==
  text[j] = text[from] /\ Cardinality({k \in from + 1 .. j : text[k] = text[from]}) % 2 = 1

\* A doubled quote stands for one; the first that is not doubled ends the string.
Quoted(text, p) ==
  LET close == First(text, p.at + 1, LAMBDA j : Closes(text, p.at, j) /\ (j = Len(text) \/ text[j + 1] # text[j]))
      kept == SelectSeq([i \in 1 .. close - p.at - 1 |-> p.at + i],
                        LAMBDA j : text[j] # text[p.at] \/ Closes(text, p.at, j))
  IN  Token(IF close > Len(text) THEN "Invalid" ELSE "String", [i \in DOMAIN kept |-> text[kept[i]]],
            p.line, Place(close + 1, p.line + NewLines(text, p.at, close), close > Len(text)))

LexToken(text, p) ==
  CASE p.ended -> Token("EndOfFile", <<>>, p.line, p)
    [] ~p.ended /\ IsIdentifierStart(text[p.at]) -> Identifier(text, p)
    [] ~p.ended /\ IsNumberStart(text[p.at]) -> Number(text, p)
    [] ~p.ended /\ text[p.at] \in Quotes -> Quoted(text, p)
    [] OTHER -> Token("Symbol", <<text[p.at]>>, p.line, [p EXCEPT !.at = @ + 1])

NextToken(text, p) == LexToken(text, IF p.ended THEN p ELSE SkipWhitespaceAndComments(text, p))
=============================================================================
