---------------------------- MODULE PatternFills ----------------------------
(***************************************************************************)
(* Interior style PATTERN: the attribute commands that choose and define   *)
(* patterns, and the <pattern> definitions the converter writes the first  *)
(* time a pattern is painted with. fill.cached[p] is the id under which    *)
(* pattern p is defined, NoId when it must be defined (again) before use.  *)
(* A table is the command that defined it (0: none), a size likewise.      *)
(***************************************************************************)
EXTENDS ConverterState

PatternId(n) == <<"cgm-pattern-", n, 0>>

\* What a <pattern> element shows.
PatternValue(f, p) ==
  [table |-> f.tables[p].at, size |-> f.sizes[p], reference |-> f.reference]

Attribute == Continues /\ UNCHANGED <<doc, picture, clip, region, figure, aps, symbols>>

InteriorStyle ==
  \E c \in Alphabet :
    /\ c.op = "INTERIOR STYLE"
    /\ Reads(c)
    /\ fill' = [fill EXCEPT !.style = c.style]
    /\ Attribute /\ UNCHANGED text

PatternIndex ==
  \E c \in Alphabet :
    /\ c.op = "PATTERN INDEX"
    /\ Reads(c)
    /\ fill' = [fill EXCEPT !.index = c.index, !.last = c.index]
    /\ Attribute /\ UNCHANGED text

\* A new table takes over the size in force unless its index already has one.
PatternTable ==
  \E c \in Alphabet :
    /\ c.op = "PATTERN TABLE"
    /\ Reads(c)
    /\ fill' = [fill EXCEPT
                  !.tables[c.index] = [at |-> Here, valid |-> c.valid],
                  !.cached[c.index] = NoId,
                  !.last = c.index,
                  !.sizes[c.index] = IF @ = 0 THEN fill.activeSize ELSE @]
    /\ Attribute /\ UNCHANGED text

\* Defect: binding a size to older tables leaves their patterns defined.
PatternSizeKeepingIds ==
  \E c \in Alphabet :
    /\ c.op = "PATTERN SIZE"
    /\ Reads(c)
    /\ LET bound == {p \in Patterns :
                       \/ p = fill.last
                       \/ fill.tables[p].at # 0 /\ fill.sizes[p] = 0}
       IN  fill' = [fill EXCEPT
                      !.sizes = [p \in Patterns |-> IF p \in bound THEN Here ELSE @[p]],
                      !.cached[fill.last] = NoId,
                      !.activeSize = Here]
    /\ Attribute /\ UNCHANGED text

\* A size is bound to the last pattern mentioned and to every table that has
\* none yet, and is the one in force for later tables.
PatternSize ==
  \E c \in Alphabet :
    /\ c.op = "PATTERN SIZE"
    /\ Reads(c)
    /\ LET bound == {p \in Patterns :
                       \/ p = fill.last
                       \/ fill.tables[p].at # 0 /\ fill.sizes[p] = 0}
       IN  fill' = [fill EXCEPT
                      !.sizes = [p \in Patterns |-> IF p \in bound THEN Here ELSE @[p]],
                      !.cached = [p \in Patterns |-> IF p \in bound THEN NoId ELSE @[p]],
                      !.activeSize = Here]
    /\ Attribute /\ UNCHANGED text

FillReferencePoint ==
  \E c \in Alphabet :
    /\ c.op = "FILL REFERENCE POINT"
    /\ Reads(c)
    /\ fill' = [fill EXCEPT !.reference = Here,
                            !.cached = [p \in Patterns |-> NoId]]
    /\ Attribute /\ UNCHANGED text

-----------------------------------------------------------------------------
(* getFillAttributeForCurrentStyle and ensurePatternFill: the id a filled  *)
(* primitive is painted with, and the definition written to have it.       *)

Tiled == fill.style = "pattern" /\ fill.tables[fill.index].at # 0
Defined == fill.cached[fill.index] # NoId

FillFails ==
  /\ fill.style = "pattern" /\ ~Compat
  /\ \/ fill.tables[fill.index].at = 0
     \/ ~Defined /\ ~fill.tables[fill.index].valid

FillId ==
  IF ~Tiled THEN NoId
  ELSE IF Defined THEN fill.cached[fill.index] ELSE PatternId(fill.made + 1)

EnsuredFill ==
  IF Tiled /\ ~Defined
  THEN [fill EXCEPT !.made = @ + 1, !.cached[fill.index] = FillId]
  ELSE fill

EnsuredFillDoc(d) ==
  IF Tiled /\ ~Defined
  THEN Define(d, FillId, PatternValue(fill, fill.index))
  ELSE d
=============================================================================
