----------------------------- MODULE ApsGroups ------------------------------
(***************************************************************************)
(* Application structures: a stack of APS nodes, the attributes read since *)
(* the last BEGIN APS BODY, and the <g> (with an <a> inside when the       *)
(* structure has a link) each node becomes. Attributes belong to nobody    *)
(* until a BEGIN APS BODY gives all of them to the innermost node.         *)
(***************************************************************************)
EXTENDS ConverterState

\* UniqueIdAllocator: the identifier itself or, when taken, with the first
\* letters that make it new. The n-th suffix, a to z, aa to zz or longer (up
\* to three letters are told apart), moves the letters before it.
Places(n) == IF n <= 26 THEN 26 ELSE IF n <= 702 THEN 676 ELSE 17576
Lettered(id, n) ==
  IF n = 0 THEN id ELSE <<id[1], id[2], Places(n) * id[3] + n>>

\* Defect: only the identifier itself is looked up.
AllocatedOnce(id) == IF id \in aps.ids THEN Lettered(id, 1) ELSE id

Allocated(id) ==
  Lettered(id, CHOOSE n \in 0 .. Cardinality(aps.ids) :
                 /\ Lettered(id, n) \notin aps.ids
                 /\ \A k \in 0 .. n - 1 : Lettered(id, k) \in aps.ids)

BeginApplicationStructure ==
  \E c \in Alphabet :
    /\ c.op = "BEGIN APS"
    /\ Reads(c)
    /\ aps' = [aps EXCEPT
                 !.ids = @ \cup {Allocated(c.id)},
                 !.stack = Append(@, [id |-> Allocated(c.id),
                                      attributes |-> aps.attributes,
                                      anchor |-> FALSE])]
    /\ FlushesText
    /\ Continues
    /\ UNCHANGED <<picture, clip, region, figure, fill, symbols>>

\* A command stands for an attribute that is taken: one whose link is unsafe or
\* empty sets nothing, and an empty value, which erases, is in no alphabet.
ApplicationStructureAttribute ==
  \E c \in Alphabet :
    /\ c.op = "APS ATTRIBUTE"
    /\ Reads(c)
    /\ aps' = [aps EXCEPT !.attributes = @ \cup {c.type}]
    /\ FlushesText
    /\ Continues
    /\ UNCHANGED <<picture, clip, region, figure, fill, symbols>>

Top == aps.stack[Len(aps.stack)]

\* outputAPSOpenTag: closes <defs>, then opens the group and its anchor.
OpenGroup(d, id, linked) ==
  LET g == WriteId(Open(CloseOpenDefs(d), "g"), id)
  IN  IF linked THEN Open(g, "a") ELSE g

BeginApplicationStructureBody ==
  \E c \in Alphabet :
    /\ c.op = "BEGIN APS BODY"
    /\ Reads(c)
    /\ IF aps.stack = <<>>
       THEN UNCHANGED aps /\ doc' = Flush(doc)
       ELSE LET linked == "linkuri" \in aps.attributes IN
            /\ doc' = OpenGroup(Flush(doc), Top.id, linked)
            /\ aps' = [aps EXCEPT
                         !.attributes = {},
                         !.stack[Len(aps.stack)] =
                            [@ EXCEPT !.attributes = aps.attributes, !.anchor = linked]]
    /\ text' = NoPending
    /\ Continues
    /\ UNCHANGED <<picture, clip, region, figure, fill, symbols>>

\* Defect: the anchor is not closed.
CloseGroupOnly(d, linked) == Close(d, "g")

\* outputAPSCloseTag: </a> and </g>, whatever else is open.
CloseGroup(d, linked) == Close(IF linked THEN Close(d, "a") ELSE d, "g")

\* Defect: the pending text is flushed after the group is closed.
EndStructureBeforeText ==
  \E c \in Alphabet :
    /\ c.op = "END APS"
    /\ Reads(c)
    /\ IF aps.stack = <<>>
       THEN UNCHANGED aps /\ doc' = Flush(doc)
       ELSE /\ doc' = Flush(CloseGroup(doc, Top.anchor))
            /\ aps' = [aps EXCEPT !.stack = SubSeq(@, 1, Len(@) - 1)]
    /\ text' = NoPending
    /\ Continues
    /\ UNCHANGED <<picture, clip, region, figure, fill, symbols>>

EndApplicationStructure ==
  \E c \in Alphabet :
    /\ c.op = "END APS"
    /\ Reads(c)
    /\ IF aps.stack = <<>>
       THEN UNCHANGED aps /\ doc' = Flush(doc)
       ELSE /\ doc' = CloseGroup(Flush(doc), Top.anchor)
            /\ aps' = [aps EXCEPT !.stack = SubSeq(@, 1, Len(@) - 1)]
    /\ text' = NoPending
    /\ Continues
    /\ UNCHANGED <<picture, clip, region, figure, fill, symbols>>
=============================================================================
