------------------------------ MODULE MCBinary ------------------------------
(***************************************************************************)
(* Files for BinaryRequirements. One family puts every command of the      *)
(* catalogue, with parameters of many lengths and values, behind three     *)
(* different preludes of precisions and modes; another one has a few short *)
(* files of pictures, defaults, character sets, unknown elements, long     *)
(* partitions and missing octets.                                          *)
(***************************************************************************)
EXTENDS BinaryRequirements

E(command, args) ==
  [class |-> command.code[1], id |-> command.code[2], parts |-> <<args>>,
   long |-> Len(args) >= LongForm]

Long(command, parts) ==
  [class |-> command.code[1], id |-> command.code[2], parts |-> parts, long |-> TRUE]

File(elements) == [elements |-> elements, cut |-> 0]
Without(cut, elements) == [elements |-> elements, cut |-> cut]

Str3 == <<3, 65, 66, 67>>
Words(n) == [i \in 1 .. 2 * n |-> IF i % 2 = 0 THEN i \div 2 ELSE 0]
Zeros(n) == [i \in 1..n |-> 0]
Begin == E(BeginMetafile, Str3)
End == E(EndMetafile, <<>>)

Preludes ==
  {<<>>,
   <<E(VDCTypeCommand, <<0, 1>>), E(RealPrecision, <<0, 0, 0, 9, 0, 23>>),
     E(VdcRealPrecision, <<0, 0, 0, 9, 0, 23>>), E(ColourSelectionMode, <<0, 1>>),
     E(IndexPrecision, <<0, 8>>)>>,
   <<E(ColourIndexPrecision, <<0, 4>>), E(LineWidthSpecificationMode, <<0, 1>>),
     E(ColourPrecision, <<0, 16>>), E(VdcIntegerPrecision, <<0, 24>>),
     E(RealPrecision, <<0, 1, 0, 32, 0, 32>>), E(IntegerPrecision, <<0, 24>>)>>}

Parameters ==
  {Words(n) : n \in {0, 1, 3, 8, 12, 17}} \cup {Zeros(n) : n \in {1, 5, 16}}
  \cup {<<0, 1>> \o Str3 \o <<0, 2>> \o Str3, <<255, 254, 255, 0, 128, 3, 0, 7, 200, 100>>,
        Str3 \o Str3 \o <<0, 1>>, Zeros(6) \o Str3, <<0, 1>> \o Str3 \o <<0, 2, 0, 3>>,
        <<0, 1, 0, 1, 0, 1, 0, 1>> \o Str3,
        <<0, 1, 0, 1, 0, 2, 0, 1, 0, 1, 0, 0, 5, 6>>}

EveryCommand ==
  {File(<<Begin>> \o p \o <<E(c, a), End>>) : p \in Preludes, c \in Catalogue, a \in Parameters}
-----------------------------------------------------------------------------
Picture(body) == <<E(BeginPicture, Str3), E(BeginPictureBody, <<>>)>> \o body \o <<E(EndPicture, <<>>)>>
Line(n) == E(Polyline, Words(n))
Replacing(elements) == E(MetafileDefaultsReplacement, EncodedFile(elements))

WideVdc == E(VdcIntegerPrecision, <<0, 24>>)
RealVdc == E(VDCTypeCommand, <<0, 1>>)
Thick == E(LineWidth, <<0, 3>>)
Dashed == E(LineType, <<0, 2>>)
Strange == [class |-> 12, id |-> 100, parts |-> << <<1, 2, 3>> >>, long |-> FALSE]
NoSuchDelimiter == [class |-> 0, id |-> 10, parts |-> << <<>> >>, long |-> FALSE]
Escaped == [class |-> 6, id |-> 5, parts |-> << <<0, 1>> \o Str3 >>, long |-> FALSE]

\* Defaults, once and twice, with precisions, with an element that is cut off or bad,
\* before and behind other elements.
DefaultsFiles ==
  {File(head \o <<Replacing(d)>> \o tail \o Picture(<<Line(6)>>) \o <<End>>) :
     head \in {<<Begin>>, <<Begin, E(MetafileVersion, <<0, 3>>)>>, <<>>, <<Begin, E(NoOp, <<>>)>>},
     d \in {<<Thick>>, <<WideVdc, Thick>>, <<RealVdc, E(LineType, <<>>), Thick>>, <<Dashed>>, <<WideVdc, Dashed>>},
     tail \in {<<>>, <<Replacing(<<Dashed, Dashed>>)>>, <<Replacing(<<Thick, Dashed>>)>>,
              <<E(IntegerPrecision, <<0, 24>>), E(MetafileVersion, <<0, 0, 2>>)>>}}
  \cup {File(<<Begin, E(MetafileDefaultsReplacement, SubSeq(Encoded(Thick) \o Encoded(Thick), 1, n)),
                 E(LineWidth, <<0, 1>>)>>) : n \in 0..8}

\* Pictures that are whole, empty, not ended or ended twice, and missing octets.
PictureFiles ==
  {Without(cut, <<Begin>> \o p \o q \o <<End>>) :
     cut \in 0..9,
     p \in {Picture(<<Line(2)>>), <<E(BeginPicture, Str3)>>, <<E(EndPicture, <<>>)>>},
     q \in {Picture(<<>>), Picture(<<E(EndPicture, <<>>), Long(Polyline, <<Words(2), Words(2)>>)>>)}}

\* Partitions of odd, even and no length, and more octets than one partition holds.
PartitionFiles ==
  {Without(cut, <<Begin, Long(Polyline, p), Strange, NoSuchDelimiter, Escaped, E(LineType, <<0, 1>>)>>) :
     cut \in {0, 20, 24, 27, 29, 30},
     p \in {<<Words(4)>>, <<Words(2), <<>>, Words(2)>>, <<SubSeq(Words(4), 1, 3), SubSeq(Words(4), 4, 8)>>,
           <<Words(16), Words(16)>>, << <<>> >>}}

\* Character sets listed, selected and announced before a name.
CharacterFiles ==
  {File(<<Begin, E(CharacterSetList, list), E(CharacterCodingAnnouncer, <<0, coding>>),
          E(CharacterSetIndex, <<0, index>>), E(AlternateCharacterSetIndex, <<0, 2>>),
          E(BeginPicture, name), E(MetafileDescription, <<2, 90, 32>>)>>) :
     list \in {<<>>, <<0, 0, 1, 66, 0, 1, 1, 65>>, <<0, 0, 5, 71, 114, 101, 101, 107, 0, 0, 2, 37, 71>>},
     coding \in {0, 1, 5}, index \in {1, 2, 3},
     name \in {Str3, <<5, 27, 45, 65, 14, 66>>, <<6, 27, 36, 41, 66, 14, 66>>, <<4, 65, 233, 27, 110>>,
              <<255, 0, 4, 65, 66, 67, 68>>}}

\* Colours that end in the middle of an octet, before octets of other commands.
BitFiles ==
  {File(<<Begin, E(ColourIndexPrecision, <<0, bits>>), E(LineColour, <<octet>>), E(LineWidth, <<0, 1>>),
          E(LineColour, <<octet>>), E(PatternTable, <<0, 1, 0, 3, 0, 1, 0, local, 171, 205>>),
          E(FillColour, <<octet>>), E(MetafileDescription, Str3), E(BackgroundColour, <<1, 2, 3>>)>>) :
     bits \in {1, 2, 4, 8}, local \in {0, 1, 2, 4, 8}, octet \in {0, 171}}

ShortFiles == DefaultsFiles \cup PictureFiles \cup PartitionFiles \cup CharacterFiles \cup BitFiles

BinaryFiles == EveryCommand \cup ShortFiles

\* The shortest file that does not come back: a marker type.
MarkerFile == {File(<<Begin, E(MarkerType, <<0, 3>>), End>>)}
=============================================================================
