---------------------------- MODULE ClearTextFile -----------------------------
(***************************************************************************)
(* A TextCGMFile reads a clear text metafile: readStatements collects the  *)
(* statements token by token, then each is translated into a command or a  *)
(* message. The same object may be used to read another file.              *)
(* (clear_text_reader.cpp, text_cgm_file.cpp)                              *)
(***************************************************************************)
EXTENDS ClearTextLexer

CONSTANTS
  Texts,        \* the texts there are: [signs, meant, whole]
  Again,        \* those that a file object reads that has read before
  Upper(_),     \* the upper case of a word
  MaxTokens,    \* tokens in a statement: 1,000,000 in the code
  MaxReads      \* bound: how often a file object reads

ASSUME TextsAssumption == \A t \in Texts \cup Again : t.signs \in Seq(Range(t.signs))
ASSUME BoundsAssumption == MaxTokens \in Nat /\ MaxReads \in Nat \ {0}

VARIABLES
  text,         \* the stream: its signs, and what is meant by them (Meant)
  token,        \* the last token, and the place behind it
  statement,    \* the one that is being read, or NoStatement
  found,        \* the statements of the reader
  phase,        \* "reading", "token read", "translating", "read", "thrown"
  next,         \* the statement to translate
  statements,   \* statements_ of the file
  commands,     \* commands_
  messages,     \* messages_
  definitions,  \* what the commands have set in the file
  reads

vars == <<text, token, statement, found, phase, next, statements, commands, messages,
          definitions, reads>>
contents == <<statements, commands, definitions>>
rest == <<text, token, next, contents, reads>>

NoStatement == [command |-> <<>>]
NoToken == Token("none", <<>>, 1, Start)

\* resetMetaDefinitions, and the name of the stream.
Undefined ==
  [name |-> <<"stream">>, vdcType |-> <<"Integer">>, integerPrecision |-> <<"16">>,
   realPrecision |-> <<"Fixed", "32">>, indexPrecision |-> <<"16">>, colourPrecision |-> <<"8">>,
   colourIndexPrecision |-> <<"8">>, vdcExtent |-> << <<"0">>, <<"0">>, <<"1">>, <<"1">> >>]

Init ==
  /\ text \in Texts /\ token = NoToken /\ statement = NoStatement /\ found = <<>>
  /\ phase = "reading" /\ next = 1 /\ reads = 1
  /\ statements = <<>> /\ commands = <<>> /\ messages = <<>> /\ definitions = Undefined
-----------------------------------------------------------------------------
\* readStatements: a token, and then one action for each thing that becomes of it.

ReadToken ==
  /\ phase = "reading"
  /\ token' = NextToken(text.signs, token.next)
  /\ phase' = "token read"
  /\ UNCHANGED <<text, statement, found, next, messages, contents, reads>>

Got(types) == phase = "token read" /\ token.type \in types
GoOn == phase' = "reading" /\ UNCHANGED rest

EndsStatement == token.type = "Symbol" /\ token.lexeme = <<";">>

Report(what, line) == messages' = Append(messages, [what |-> what, line |-> line])

\* Between statements.

BeginStatement ==
  /\ Got({"Identifier"}) /\ statement = NoStatement
  /\ statement' = [command |-> token.lexeme, tokens |-> <<>>, line |-> token.line]
  /\ GoOn /\ UNCHANGED <<found, messages>>

StrayToken ==
  /\ Got({"Number", "String", "Symbol", "Invalid"}) /\ statement = NoStatement
  /\ Report(IF token.type = "Invalid" THEN "invalid token" ELSE "command expected", 0)
  /\ GoOn /\ UNCHANGED <<statement, found>>

EndOfText ==
  /\ Got({"EndOfFile"}) /\ statement = NoStatement
  /\ phase' = "translating" /\ next' = 1 /\ statements' = found
  /\ UNCHANGED <<text, token, statement, found, commands, messages, definitions, reads>>

\* Inside a statement.

\* The limit is looked at too late.
AddTokenOverLimit ==
  /\ Got({"Identifier", "Number", "String", "Symbol"}) /\ statement # NoStatement
  /\ ~EndsStatement /\ Len(statement.tokens) <= MaxTokens
  /\ statement' = [statement EXCEPT !.tokens = Append(@, [type |-> token.type, lexeme |-> token.lexeme])]
  /\ GoOn /\ UNCHANGED <<found, messages>>

AddToken ==
  /\ Got({"Identifier", "Number", "String", "Symbol"}) /\ statement # NoStatement
  /\ ~EndsStatement /\ Len(statement.tokens) < MaxTokens
  /\ statement' = [statement EXCEPT !.tokens = Append(@, [type |-> token.type, lexeme |-> token.lexeme])]
  /\ GoOn /\ UNCHANGED <<found, messages>>

\* The exception leaves readFile; the file keeps the statements of the read before.
TooManyTokens ==
  /\ Got({"Identifier", "Number", "String", "Symbol"}) /\ statement # NoStatement
  /\ ~EndsStatement /\ Len(statement.tokens) = MaxTokens
  /\ phase' = "thrown"
  /\ UNCHANGED <<rest, statement, found, messages>>

InvalidToken ==
  /\ Got({"Invalid"}) /\ statement # NoStatement
  /\ Report("invalid token in statement", 0)
  /\ GoOn /\ UNCHANGED <<statement, found>>

EndStatement ==
  /\ Got({"Symbol"}) /\ statement # NoStatement
  /\ EndsStatement
  /\ found' = Append(found, statement) /\ statement' = NoStatement
  /\ GoOn /\ UNCHANGED messages

\* The end of the text does not end the statement.
CutOffMissed ==
  /\ Got({"EndOfFile"}) /\ statement # NoStatement
  /\ GoOn /\ UNCHANGED <<statement, found, messages>>

\* The text ends inside a statement, which is kept.
CutOff ==
  /\ Got({"EndOfFile"}) /\ statement # NoStatement
  /\ Report("unexpected end", 0)
  /\ found' = Append(found, statement) /\ statement' = NoStatement
  /\ GoOn

TakeToken ==
  \/ BeginStatement \/ StrayToken \/ EndOfText
  \/ AddToken \/ TooManyTokens \/ InvalidToken \/ EndStatement \/ CutOff
-----------------------------------------------------------------------------
\* What translateStatement takes from tokens; <<>> is for a value there is not.

IsSymbol(t, s) == t.type = "Symbol" /\ t.lexeme = <<s>>

\* Behind any commas at i.
SkipCommaTokens(tokens, i) == First(tokens, i, LAMBDA j : ~IsSymbol(tokens[j], ","))

\* std::stoi takes the digits in front, if an int can hold them.
Huge == {"99999999999"}

TokenToInt(t) ==
  IF t.type \in {"Number", "Identifier"} /\ t.lexeme # <<>> /\ t.lexeme[1] \in Numerals \ Huge
  THEN <<t.lexeme[1]>> ELSE <<>>

\* std::stod: digits with at most one point, and an exponent if it has digits.
TokenToDouble(t) ==
  LET n == t.lexeme
      exponent == First(n, 1, LAMBDA i : n[i] \in Exponents)
      digit == First(n, exponent, LAMBDA i : n[i] \in Numerals)
      whole == digit <= Len(n) /\ \A i \in exponent + 1 .. digit - 1 : n[i] \in Signs
      mantissa == SubSeq(n, 1, exponent - 1)
  IN  IF t.type \notin {"Number", "Identifier"} \/ Range(mantissa) \cap Numerals = {} \/ ~IsNumberStart(n[1])
      THEN <<>> ELSE IF whole THEN SubSeq(n, 1, digit) ELSE mantissa

\* A point from position i on: its coordinates, and the position behind it.
ParsePoint(tokens, i) ==
  LET x == SkipCommaTokens(tokens, i + 1)
      y == SkipCommaTokens(tokens, x + 1)
      close == SkipCommaTokens(tokens, y + 1)
      ok == /\ i <= Len(tokens) /\ IsSymbol(tokens[i], "(")
            /\ y <= Len(tokens) /\ TokenToDouble(tokens[x]) # <<>> /\ TokenToDouble(tokens[y]) # <<>>
            /\ close <= Len(tokens) /\ IsSymbol(tokens[close], ")")
  IN  IF ok THEN [ok |-> TRUE, point |-> <<TokenToDouble(tokens[x]), TokenToDouble(tokens[y])>>, at |-> close + 1]
      ELSE [ok |-> FALSE, point |-> <<>>, at |-> i]

Corners(tokens) ==
  LET first == ParsePoint(tokens, 1)
      second == ParsePoint(tokens, SkipCommaTokens(tokens, first.at))
  IN  IF first.ok /\ second.ok THEN first.point \o second.point ELSE <<>>

Uppers(lexeme) == [i \in DOMAIN lexeme |-> Upper(lexeme[i])]

FirstLexeme(tokens) == IF tokens = <<>> THEN <<>> ELSE tokens[1].lexeme

JoinTokensAsString(tokens) ==
  LET texts == SelectSeq(tokens, LAMBDA t : t.type # "Symbol")
      blank(i) == IF i = 1 THEN <<>> ELSE <<" ">>
  IN  FlattenSeq([i \in DOMAIN texts |-> blank(i) \o texts[i].lexeme])

\* A string that comes first is the description, whatever follows.
Described(tokens) ==
  IF tokens # <<>> /\ tokens[1].type = "String" THEN tokens[1].lexeme ELSE JoinTokensAsString(tokens)

RealPrecisionOf(tokens) ==
  LET given == SelectSeq(tokens, LAMBDA t : ~IsSymbol(t, ","))
      fixed == given # <<>> /\ given[1].type = "Identifier" /\ Uppers(given[1].lexeme) = <<"FIXED">>
      at == IF fixed THEN 2 ELSE 1
      width == IF at > Len(given) THEN <<>> ELSE TokenToInt(given[at])
  IN  IF width = <<>> THEN <<>>
      ELSE <<IF fixed THEN "Fixed" ELSE "Floating", IF width = <<"64">> THEN "64" ELSE "32">>

VdcTypeOf(tokens) ==
  CASE Uppers(FirstLexeme(tokens)) = <<"REAL">> -> <<"Real">>
    [] Uppers(FirstLexeme(tokens)) = <<"INTEGER">> -> <<"Integer">>
    [] OTHER -> <<>>
-----------------------------------------------------------------------------
\* translateStatement.

\* The precisions that are one number.
Precisions ==
  [INTEGERPREC |-> "integerPrecision", INDEXPREC |-> "indexPrecision",
   COLOURPREC |-> "colourPrecision", COLOURINDEXPREC |-> "colourIndexPrecision"]

Keyword(s) == IF Len(s.command) = 1 THEN Upper(s.command[1]) ELSE ""

\* The command of a statement: its keyword and its parameter. None, if the keyword is
\* not known or a parameter is not what it should be.
NoCommand == [keyword |-> "none"]

\* Keywords whose parameter may be missing, those that have none, and all others.
Texted == {"BEGMF", "BEGPIC", "MFDESC"}
Bare == {"ENDMF", "BEGPICBODY", "ENDPIC"}

ParameterOf(k, tokens) ==
  CASE k \in {"BEGMF", "BEGPIC"} -> FirstLexeme(tokens)
    [] k = "MFDESC" -> Described(tokens)
    [] k \in DOMAIN Precisions \cup {"MFVERSION"} /\ tokens # <<>> -> TokenToInt(tokens[1])
    [] k = "VDCTYPE" -> VdcTypeOf(tokens)
    [] k = "REALPREC" -> RealPrecisionOf(tokens)
    [] k \in {"MAXVDCEXT", "VDCEXT"} -> Corners(tokens)
    [] OTHER -> <<>>

CommandOf(s) ==
  LET k == Keyword(s)
      made(parameter) == IF parameter = <<>> /\ k \notin Texted \cup Bare THEN NoCommand
                         ELSE [keyword |-> k, parameter |-> parameter]
  IN  made(ParameterOf(k, s.tokens))

\* The maximum extent is not taken for the extent.
DefinedApart(c, d) == IF c.keyword = "VDCEXT" THEN [d EXCEPT !.vdcExtent = c.parameter] ELSE d

\* What a command sets in the file.
Defined(c, d) ==
  CASE c.keyword = "BEGMF" /\ c.parameter # <<>> -> [d EXCEPT !.name = c.parameter]
    [] c.keyword \in DOMAIN Precisions -> [d EXCEPT ![Precisions[c.keyword]] = c.parameter]
    [] c.keyword = "VDCTYPE" -> [d EXCEPT !.vdcType = c.parameter]
    [] c.keyword = "REALPREC" -> [d EXCEPT !.realPrecision = c.parameter]
    [] c.keyword \in {"MAXVDCEXT", "VDCEXT"} -> [d EXCEPT !.vdcExtent = c.parameter]
    [] OTHER -> d

\* What becomes of a statement that a command was, or was not, made of.

Translated(c) ==
  /\ c # NoCommand
  /\ commands' = Append(commands, c) /\ definitions' = Defined(c, definitions)
  /\ UNCHANGED messages

\* A command is kept although it was not whole.
KeptAnyway(c) ==
  /\ c = NoCommand
  /\ Report("not translated", statements[next].line)
  /\ commands' = Append(commands, [keyword |-> Keyword(statements[next]), parameter |-> <<>>])
  /\ UNCHANGED definitions

LogTranslationError(c) ==
  /\ c = NoCommand
  /\ Report("not translated", statements[next].line)
  /\ UNCHANGED <<commands, definitions>>

TranslateStatement ==
  /\ phase = "translating" /\ next <= Len(statements)
  /\ \E c \in {CommandOf(statements[next])} : Translated(c) \/ LogTranslationError(c)
  /\ next' = next + 1
  /\ UNCHANGED <<text, token, statement, found, phase, statements, reads>>

EndOfStatements ==
  /\ phase = "translating" /\ next > Len(statements)
  /\ phase' = "read"
  /\ UNCHANGED <<rest, statement, found, messages>>
-----------------------------------------------------------------------------
\* readData on a file that has been read before, whether that went well or not.
ReadAgain ==
  /\ phase \in {"read", "thrown"} /\ reads < MaxReads
  /\ text' \in Again /\ token' = NoToken /\ statement' = NoStatement /\ found' = <<>>
  /\ phase' = "reading" /\ next' = 1 /\ reads' = reads + 1
  /\ commands' = <<>> /\ messages' = <<>> /\ definitions' = Undefined
  /\ UNCHANGED statements

Next == ReadToken \/ TakeToken \/ TranslateStatement \/ EndOfStatements \/ ReadAgain

\* readFile is one call, and nothing suspends its two loops. The two actions are what
\* reading and translating do to the position.
ReadsOn == phase = "reading" /\ phase' = "token read"

TranslatesOn ==
  /\ phase = "translating"
  /\ \/ next <= Len(statements) /\ next' = next + 1 /\ phase' = phase
     \/ next > Len(statements) /\ phase' = "read" /\ next' = next

Fairness == WF_phase(ReadsOn) /\ WF_vars(TakeToken) /\ WF_<<phase, next>>(TranslatesOn)

Spec == Init /\ [][Next]_vars /\ Fairness
-----------------------------------------------------------------------------
\* What a producer of clear text writes, and what reading it must keep to

\* A statement as it is meant: its keyword and the tokens behind it.
Meant(keyword, tokens) == [command |-> <<keyword>>, tokens |-> tokens]

\* In a string every quote of the kind around it is doubled.
Spelled(t, quote) ==
  LET doubled(c) == IF c = quote THEN <<c, c>> ELSE <<c>>
  IN  IF t.type = "String"
      THEN <<quote>> \o FlattenSeq([i \in DOMAIN t.lexeme |-> doubled(t.lexeme[i])]) \o <<quote>>
      ELSE t.lexeme

\* The statement with a gap before everything.
StatementSigns(m, gap, quote) ==
  gap \o m.command \o FlattenSeq([i \in DOMAIN m.tokens |-> gap \o Spelled(m.tokens[i], quote)])
  \o gap \o <<";">>

DocumentSigns(ms, gap, quote) == FlattenSeq([i \in DOMAIN ms |-> StatementSigns(ms[i], gap, quote)])

\* The line a statement begins in.
LineOf(ms, i, gap, quote) ==
  LET before == DocumentSigns(SubSeq(ms, 1, i - 1), gap, quote) \o gap
  IN  1 + NewLines(before, 1, Len(before))

FirstOf(s, n) == SubSeq(s, 1, Min({n, Len(s)}))

\* The first n signs of a text; `whole` is how many statements they hold whole.
Written(ms, gap, quote, n) ==
  [signs |-> FirstOf(DocumentSigns(ms, gap, quote), n),
   meant |-> [i \in DOMAIN ms |-> [command |-> ms[i].command, tokens |-> ms[i].tokens,
                                   line |-> LineOf(ms, i, gap, quote)]],
   whole |-> Cardinality({i \in DOMAIN ms : Len(DocumentSigns(SubSeq(ms, 1, i), gap, quote)) <= n})]
-----------------------------------------------------------------------------
\* The variables hold what they are meant to hold.
TypeOK ==
  /\ token.next.at \in 1 .. Len(text.signs) + 2 /\ token.next.line >= token.line /\ token.line >= 1
  /\ phase \in {"reading", "token read", "translating", "read", "thrown"}
  /\ next \in 1 .. Len(statements) + 1 /\ reads \in 1..MaxReads
  /\ statement # NoStatement => Len(statement.tokens) <= MaxTokens
  /\ DOMAIN definitions = DOMAIN Undefined
  /\ \A i \in DOMAIN commands : DOMAIN commands[i] = {"keyword", "parameter"}

\* However a text is laid out, with blanks, line ends, comments and quotes, and wherever
\* it is cut off, its statements are read as they are meant: every one that is whole,
\* in order, and at most one more. Lines are those of the text, where no comment begins
\* with an exclamation mark. (readStatements, skipWhitespaceAndComments, lexToken)
StatementsRead ==
  phase = "read" =>
    /\ Len(statements) \in text.whole .. text.whole + 1
    /\ \A i \in 1 .. text.whole :
         /\ statements[i].command = text.meant[i].command
         /\ statements[i].tokens = text.meant[i].tokens
         /\ "!" \notin Range(text.signs) => statements[i].line = text.meant[i].line

\* The keywords whose commands set a definition.
Setters ==
  [name |-> {"BEGMF"}, vdcType |-> {"VDCTYPE"}, integerPrecision |-> {"INTEGERPREC"},
   realPrecision |-> {"REALPREC"}, indexPrecision |-> {"INDEXPREC"}, colourPrecision |-> {"COLOURPREC"},
   colourIndexPrecision |-> {"COLOURINDEXPREC"}, vdcExtent |-> {"MAXVDCEXT", "VDCEXT"}]

\* The definitions of the file are those of the commands it holds: each of the last
\* command that sets it, or else as at first. Neither a statement that was not
\* translated nor a file read before has a part in them. (translateStatement,
\* resetMetaDefinitions)
DefinitionsFollow ==
  phase \in {"translating", "read"} =>
    \A d \in DOMAIN definitions :
      LET setting == {i \in DOMAIN commands : commands[i].keyword \in Setters[d] /\ commands[i].parameter # <<>>}
      IN  definitions[d] = IF setting = {} THEN Undefined[d] ELSE commands[Max(setting)].parameter

\* Every statement is answered, and once: by a command or by a message of its line.
\* (readData, translateStatement)
EveryStatementAnswered ==
  phase = "read" =>
    LET reported == {i \in DOMAIN messages : messages[i].what = "not translated"}
    IN  /\ Len(commands) + Cardinality(reported) = Len(statements)
        /\ \A i \in reported : \E j \in DOMAIN statements : statements[j].line = messages[i].line
        /\ \A j \in DOMAIN statements :
             \/ \E i \in reported : messages[i].line = statements[j].line
             \/ \E k \in DOMAIN commands : commands[k].keyword = Keyword(statements[j])

\* Reading comes to an end, whatever the text, unless a number begins with a sign.
\* (readStatements)
ReadingEnds == phase = "reading" ~> phase \in {"read", "thrown"}

\* "Parses CGM binary and clear-text encodings": a metafile that is well formed is read
\* without an exception.
ReadsWellFormed == phase # "thrown"
=============================================================================
