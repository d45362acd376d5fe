----------------------------- MODULE MCClearText ----------------------------
(***************************************************************************)
(* Texts for ClearTextFile: pairs of statements of every kind in several   *)
(* layouts, every beginning of some texts, and texts that are none.        *)
(***************************************************************************)
EXTENDS ClearTextFile

MCWords == {"BEGMF", "ENDMF", "MFVERSION", "MFDESC", "VDCTYPE", "Vdctype", "INTEGERPREC", "REALPREC",
            "INDEXPREC", "COLOURPREC", "COLOURINDEXPREC", "MAXVDCEXT", "BEGPIC", "BEGPICBODY", "ENDPIC",
            "VDCEXT", "LINE", "Fixed", "real", "integer", "a", "e", "E"}
MCNumerals == {"0", "1", "5", "16", "64", "99999999999"}

MCUpper(w) ==
  CASE w = "Vdctype" -> "VDCTYPE" [] w = "Fixed" -> "FIXED" [] w = "real" -> "REAL"
    [] w = "integer" -> "INTEGER" [] OTHER -> w

Id(w) == [type |-> "Identifier", lexeme |-> <<w>>]
Num(signs) == [type |-> "Number", lexeme |-> signs]
Text(signs) == [type |-> "String", lexeme |-> signs]
Sym(c) == [type |-> "Symbol", lexeme |-> <<c>>]
Comma == Sym(",")
Point(x, y) == <<Sym("("), x, Comma, y, Sym(")")>>

Zero == Num(<<"0">>)
Five == Num(<<"5">>)

Statements ==
  {Meant("BEGMF", <<Text(<<"a", "'", "'", "\"", ";">>)>>), Meant("BEGMF", <<>>), Meant("ENDMF", <<>>),
   Meant("MFVERSION", <<Num(<<"1", ".", "5">>)>>), Meant("MFVERSION", <<Num(<<"99999999999">>)>>),
   Meant("MFDESC", <<Text(<<"!", "\n", "/", "*", "a">>), Id("a")>>), Meant("MFDESC", <<Id("a"), Comma, Five>>),
   Meant("Vdctype", <<Id("real")>>), Meant("VDCTYPE", <<Five>>), Meant("VDCTYPE", <<Id("integer")>>),
   Meant("INTEGERPREC", <<Five>>), Meant("INTEGERPREC", <<Id("a"), Five>>), Meant("INDEXPREC", <<>>),
   Meant("INDEXPREC", <<Num(<<"16">>), Sym("?"), Sym("*")>>), Meant("COLOURPREC", <<Num(<<".", "5">>)>>),
   Meant("COLOURPREC", <<Five>>), Meant("COLOURINDEXPREC", <<Num(<<"16">>)>>),
   Meant("REALPREC", <<Comma, Id("Fixed"), Comma, Num(<<"64">>)>>), Meant("REALPREC", <<Id("Fixed")>>),
   Meant("REALPREC", <<Num(<<"64">>)>>), Meant("REALPREC", <<Comma>>),
   Meant("MAXVDCEXT", Point(Zero, Num(<<"0", ".">>)) \o Point(Num(<<"1", "e", "+", "5">>), Five)),
   Meant("VDCEXT", Point(Zero, Five) \o <<Comma>> \o Point(Five, Num(<<".", "5", "E", "1">>))),
   Meant("VDCEXT", Point(Zero, Five)), Meant("MAXVDCEXT", Point(Num(<<"1", "e", ".", "5">>), Five) \o Point(Num(<<"5", "e">>), Zero)),
   Meant("VDCEXT", Point(Zero, Id("a")) \o Point(Zero, Five)),
   Meant("BEGPIC", <<Text(<<>>)>>), Meant("BEGPICBODY", <<>>), Meant("ENDPIC", <<>>),
   Meant("LINE", Point(Zero, Five) \o Point(Five, Five))}

Gaps ==
  {<<" ">>, <<"\r", "\n">>, <<"\t", "/", "/", "'", "\n">>, <<"/", "*", "/", "*", "\n", "*", "*", "/">>,
   <<" ", "!", ";", "\n">>}

Pairs == {<<a, b>> : a \in Statements, b \in Statements}

Documents ==
  {Written(d, gap, "'", 99) : d \in Pairs, gap \in {<<" ">>, <<"\n", "/", "*", "*", "/">>}}
  \cup {Written(<<s>>, gap, quote, 99) : s \in Statements, gap \in Gaps, quote \in Quotes}

CutDocuments ==
  {Written(<<Meant("BEGPIC", <<Text(<<"a", "'">>), Five>>), Meant("LINE", Point(Zero, Five)), Meant("ENDPIC", <<>>)>>,
           gap, "'", n) : gap \in Gaps, n \in 0..70}

\* Texts that nobody has meant anything by.
OtherTexts ==
  {[signs |-> s, meant |-> <<>>, whole |-> 0] :
     s \in {<<"5", "e", "e", ";">>, <<"'", "a", "'", "a">>, <<"/">>, <<";">>, <<"\"">>, <<".", ".">>,
            <<"a", ";", "?">>, <<"a", "-", "5", "5">>}}

\* Statements of many tokens.
LongTexts ==
  {Written(<<Meant("LINE", [i \in 1..n |-> Five]), Meant("ENDPIC", <<>>)>>, <<" ">>, "'", 99) : n \in 10..13}

MCTexts == Documents \cup CutDocuments \cup LongTexts \cup OtherTexts

AgainTexts ==
  {Written(<<Meant("BEGMF", <<>>), Meant("VDCTYPE", <<Five>>)>>, <<" ">>, "'", 99)}
  \cup {t \in LongTexts : Len(t.signs) = 29}

\* A coordinate below zero.
SignedTexts ==
  {Written(<<Meant("BEGMF", <<>>), Meant("VDCEXT", Point(Num(<<"-", "5">>), Zero) \o Point(Five, Five))>>,
           <<" ">>, "'", 99)}
=============================================================================
