--------------------------- MODULE ElementDelivery --------------------------
(***************************************************************************)
(* What reading a metafile promises, whatever its octets: the elements     *)
(* that are in the file whole are delivered one by one, in order, each     *)
(* once and as itself, and nothing else is. When they all are, the next    *)
(* file may be opened.                                                     *)
(***************************************************************************)
EXTENDS Naturals, Sequences

VARIABLES
  file,     \* the codes of the elements that are in the file whole
  got       \* the codes of the commands delivered

Init == got = <<>>

Deliver ==
  /\ Len(got) < Len(file)
  /\ got' = Append(got, file[Len(got) + 1])
  /\ UNCHANGED file

\* The file is being written: what it holds grows, and a crash cuts it short.
Store == got = <<>> /\ UNCHANGED got

Close == got = file /\ got' = <<>>

Next == Deliver \/ Store \/ Close

Spec == Init /\ [][Next]_<<file, got>>
=============================================================================
