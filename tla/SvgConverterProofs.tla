------------------------- MODULE SvgConverterProofs -------------------------
(***************************************************************************)
(* The type invariant of SvgConverter, and that every reference of the     *)
(* document to a clipPath or a pattern resolves, for every instance.       *)
(* First come facts about the operators on documents: they keep the type   *)
(* of a document, and what they do to its definitions and its marks.       *)
(***************************************************************************)
EXTENDS SvgRequirements, SequenceTheorems, FiniteSetTheorems, TLAPS

-----------------------------------------------------------------------------
(* Types.                                                                  *)

\* The fields of a document have the types TypeOK gives them.
LEMMA DocumentFields ==
  ASSUME NEW d \in Documents
  PROVE  /\ d.tags \in Seq(Tags) /\ d.defsOpen \in BOOLEAN
         /\ d.malformed \in BOOLEAN /\ d.ids \subseteq Identifiers
         /\ d.reused \in BOOLEAN
         /\ d.defs \subseteq [id : Identifiers, content : Contents]
         /\ d.marks \in Seq(Marks)
BY DEF Documents

\* An opened element ends the list of open elements.
LEMMA OpenType ==
  ASSUME NEW d \in Documents, NEW tag \in Tags
  PROVE  /\ Open(d, tag) \in Documents
         /\ Open(d, tag).defs = d.defs /\ Open(d, tag).marks = d.marks
<1>1. Append(d.tags, tag) \in Seq(Tags)
  BY DocumentFields
<1> QED
  BY <1>1 DEF Documents, Open

\* Closing an element, matched or not, changes no definition and no mark.
LEMMA CloseType ==
  ASSUME NEW d \in Documents, NEW tag \in Tags
  PROVE  /\ Close(d, tag) \in Documents
         /\ Close(d, tag).defs = d.defs /\ Close(d, tag).marks = d.marks
<1>1. d.tags \in Seq(Tags)
  BY DocumentFields
<1>2. d.tags # <<>> => SubSeq(d.tags, 1, Len(d.tags) - 1) \in Seq(Tags)
  BY <1>1
<1> QED
  BY <1>2 DEF Documents, Close

\* Neither does opening or closing <defs>.
LEMMA OpenDefsType ==
  ASSUME NEW d \in Documents
  PROVE  /\ OpenDefs(d) \in Documents
         /\ OpenDefs(d).defs = d.defs /\ OpenDefs(d).marks = d.marks
<1>1. "defs" \in Tags
  BY DEF Tags
<1> QED
  BY <1>1, OpenType DEF Documents, OpenDefs

LEMMA CloseOpenDefsType ==
  ASSUME NEW d \in Documents
  PROVE  /\ CloseOpenDefs(d) \in Documents
         /\ CloseOpenDefs(d).defs = d.defs /\ CloseOpenDefs(d).marks = d.marks
<1>1. "defs" \in Tags
  BY DEF Tags
<1> QED
  BY <1>1, CloseType DEF Documents, CloseOpenDefs

LEMMA WriteIdType ==
  ASSUME NEW d \in Documents, NEW id \in Identifiers
  PROVE  /\ WriteId(d, id) \in Documents
         /\ WriteId(d, id).defs = d.defs /\ WriteId(d, id).marks = d.marks
<1>1. (d.reused \/ id \in d.ids) \in BOOLEAN
  OBVIOUS
<1>2. d.ids \cup {id} \in SUBSET Identifiers
  BY DocumentFields
<1> QED
  BY <1>1, <1>2 DEF Documents, WriteId

\* A definition is added to those there are.
LEMMA DefineType ==
  ASSUME NEW d \in Documents, NEW id \in Identifiers, NEW content \in Contents
  PROVE  /\ Define(d, id, content) \in Documents
         /\ Define(d, id, content).defs = d.defs \cup {[id |-> id, content |-> content]}
         /\ Define(d, id, content).marks = d.marks
<1> DEFINE w == WriteId(OpenDefs(d), id)
<1>1. w \in Documents /\ w.defs = d.defs /\ w.marks = d.marks
  BY OpenDefsType, WriteIdType
<1>2. w.defs \cup {[id |-> id, content |-> content]}
        \in SUBSET [id : Identifiers, content : Contents]
  BY <1>1, DocumentFields
<1>3. Define(d, id, content) =
        [w EXCEPT !.defs = w.defs \cup {[id |-> id, content |-> content]}]
  BY DEF Define
<1> HIDE DEF w
<1> QED
  BY <1>1, <1>2, <1>3 DEF Documents

LEMMA MarksBehindMarks ==
  ASSUME NEW a \in Seq(Marks), NEW b \in Seq(Marks)
  PROVE  /\ a \o b \in Seq(Marks)
         /\ Len(a \o b) = Len(a) + Len(b)
         /\ \A i \in 1 .. Len(a) : (a \o b)[i] = a[i]
         /\ \A i \in 1 .. Len(b) : (a \o b)[Len(a) + i] = b[i]
<1>1. a \o b \in Seq(Marks) /\ Len(a \o b) = Len(a) + Len(b)
  OBVIOUS
<1>2. \A i \in 1 .. Len(a) : (a \o b)[i] = a[i]
  OBVIOUS
<1>3. \A i \in 1 .. Len(b) : (a \o b)[Len(a) + i] = b[i]
  OBVIOUS
<1> QED
  BY <1>1, <1>2, <1>3

\* Marks are added behind those there are, each inside the open elements.
LEMMA DrawType ==
  ASSUME NEW d \in Documents, NEW ms \in Seq(Marks)
  PROVE  /\ Draw(d, ms) \in Documents
         /\ Draw(d, ms).defs = d.defs
         /\ Len(Draw(d, ms).marks) = Len(d.marks) + Len(ms)
         /\ \A i \in DOMAIN d.marks : Draw(d, ms).marks[i] = d.marks[i]
         /\ \A i \in DOMAIN ms :
              Draw(d, ms).marks[Len(d.marks) + i] = [ms[i] EXCEPT !.inside = d.tags]
<1> DEFINE placed == [i \in DOMAIN ms |-> [ms[i] EXCEPT !.inside = d.tags]]
<1>1. d.marks \in Seq(Marks) /\ d.tags \in Seq(Tags)
  BY DocumentFields
<1>2. \A m \in Marks : [m EXCEPT !.inside = d.tags] \in Marks
  BY <1>1 DEF Marks
<1>3. DOMAIN ms = 1 .. Len(ms) /\ Len(ms) \in Nat /\ \A i \in 1 .. Len(ms) : ms[i] \in Marks
  OBVIOUS
<1>4. placed \in Seq(Marks) /\ Len(placed) = Len(ms) /\ DOMAIN placed = 1 .. Len(ms)
  BY <1>2, <1>3
<1>5. Draw(d, ms) = [d EXCEPT !.marks = d.marks \o placed]
  BY DEF Draw
<1>6. \A i \in DOMAIN ms : placed[i] = [ms[i] EXCEPT !.inside = d.tags]
  OBVIOUS
<1> HIDE DEF placed
<1>7. /\ d.marks \o placed \in Seq(Marks)
      /\ Len(d.marks \o placed) = Len(d.marks) + Len(ms)
      /\ \A i \in 1 .. Len(d.marks) : (d.marks \o placed)[i] = d.marks[i]
      /\ \A i \in 1 .. Len(ms) : (d.marks \o placed)[Len(d.marks) + i] = placed[i]
  <2>1. /\ d.marks \o placed \in Seq(Marks)
        /\ Len(d.marks \o placed) = Len(d.marks) + Len(placed)
        /\ \A i \in 1 .. Len(d.marks) : (d.marks \o placed)[i] = d.marks[i]
        /\ \A i \in 1 .. Len(placed) : (d.marks \o placed)[Len(d.marks) + i] = placed[i]
    BY <1>1, <1>4, MarksBehindMarks, Zenon
  <2> QED
    BY <1>4, <2>1, Zenon
<1>8. Draw(d, ms).marks = d.marks \o placed /\ Draw(d, ms).defs = d.defs
  BY <1>5 DEF Documents
<1>9. Draw(d, ms) \in Documents
  BY <1>5, <1>7 DEF Documents
<1>10. \A i \in DOMAIN d.marks : Draw(d, ms).marks[i] = d.marks[i]
  <2> TAKE i \in DOMAIN d.marks
  <2>1. i \in 1 .. Len(d.marks) /\ Len(d.marks) \in Nat
    BY <1>1
  <2> QED
    BY <1>3, <1>7, <1>8, <2>1
<1>11. \A i \in DOMAIN ms :
         Draw(d, ms).marks[Len(d.marks) + i] = [ms[i] EXCEPT !.inside = d.tags]
  <2> TAKE i \in DOMAIN ms
  <2>1. i \in 1 .. Len(ms) /\ Len(d.marks) \in Nat
    BY <1>1, <1>3
  <2>2. (d.marks \o placed)[Len(d.marks) + i] = placed[i]
    BY <1>3, <1>7, <2>1
  <2> QED
    BY <1>6, <1>8, <2>2
<1> QED
  BY <1>7, <1>8, <1>9, <1>10, <1>11

\* A mark whose parts have the right types.
LEMMA MarkType ==
  ASSUME NEW at \in Nat, NEW of \in Seq(Nat), NEW ref \in Identifiers,
         NEW paint \in Identifiers, NEW href \in Identifiers, NEW colour \in Nat
  PROVE  /\ Mark(at, of, ref, paint, href, colour) \in Marks
         /\ <<Mark(at, of, ref, paint, href, colour)>> \in Seq(Marks)
<1>1. <<>> \in Seq(Tags)
  OBVIOUS
<1>2. Mark(at, of, ref, paint, href, colour) \in Marks
  BY <1>1 DEF Mark, Marks
<1> QED
  BY <1>2

\* The empty document of a conversion.
LEMMA FreshDocType ==
  ASSUME NEW open \in BOOLEAN
  PROVE  /\ FreshDoc(open) \in Documents
         /\ FreshDoc(open).defs = {} /\ FreshDoc(open).marks = <<>>
<1>1. <<"svg">> \in Seq(Tags)
  BY DEF Tags
<1>2. <<>> \in Seq(Marks)
  OBVIOUS
<1> QED
  BY <1>1, <1>2 DEF FreshDoc, Documents

\* The ids the converter makes up itself.
LEMMA OwnIds ==
  /\ NoId \in Identifiers
  /\ \A n \in Nat : ClipPathId(n) \in Identifiers /\ PatternId(n) \in Identifiers
BY DEF NoId, ClipPathId, PatternId, Identifiers, Words
-----------------------------------------------------------------------------
(* How documents grow.                                                     *)

\* Every reference of a mark to a clipPath or a pattern is one to a
\* definition of the document.
MarksResolve(d) ==
  \A i \in DOMAIN d.marks :
    Resolves(d, d.marks[i].clip) /\ Resolves(d, d.marks[i].fill)

\* e has what d defines, and more references only to what it defines.
Extends(e, d) ==
  /\ e \in Documents
  /\ d.defs \subseteq e.defs
  /\ MarksResolve(d) => MarksResolve(e)

\* A document with more definitions resolves what one with fewer does.
LEMMA StillResolves ==
  ASSUME NEW d, NEW e, d.defs \subseteq e.defs, NEW id, Resolves(d, id)
  PROVE  Resolves(e, id)
BY DEF Resolves, DefinedIds

\* Writing that touches neither definitions nor marks.
LEMMA SameMarks ==
  ASSUME NEW d \in Documents, NEW e \in Documents,
         e.defs = d.defs, e.marks = d.marks
  PROVE  Extends(e, d)
BY DEF Extends, MarksResolve, Resolves, DefinedIds

LEMMA ExtendsTransitive ==
  ASSUME NEW d, NEW e, NEW f, Extends(f, e), Extends(e, d)
  PROVE  Extends(f, d)
BY DEF Extends

LEMMA DefineExtends ==
  ASSUME NEW d \in Documents, NEW id \in Identifiers, NEW content \in Contents
  PROVE  /\ Extends(Define(d, id, content), d)
         /\ id \in DefinedIds(Define(d, id, content))
<1> DEFINE e == Define(d, id, content)
<1>1. /\ e \in Documents /\ e.marks = d.marks
      /\ e.defs = d.defs \cup {[id |-> id, content |-> content]}
  BY DefineType
<1> HIDE DEF e
<1>2. [id |-> id, content |-> content] \in e.defs /\ d.defs \subseteq e.defs
  BY <1>1
<1>3. MarksResolve(d) => MarksResolve(e)
  BY <1>1, <1>2, StillResolves DEF MarksResolve
<1>4. id \in DefinedIds(e)
  BY <1>2 DEF DefinedIds
<1> QED
  BY <1>1, <1>2, <1>3, <1>4 DEF Extends, e

LEMMA DrawExtends ==
  ASSUME NEW d \in Documents, NEW ms \in Seq(Marks),
         \A i \in DOMAIN ms : Resolves(d, ms[i].clip) /\ Resolves(d, ms[i].fill)
  PROVE  Extends(Draw(d, ms), d)
<1> DEFINE e == Draw(d, ms)
<1>1. /\ e \in Documents /\ e.defs = d.defs
      /\ Len(e.marks) = Len(d.marks) + Len(ms)
      /\ \A i \in DOMAIN d.marks : e.marks[i] = d.marks[i]
      /\ \A i \in DOMAIN ms : e.marks[Len(d.marks) + i] = [ms[i] EXCEPT !.inside = d.tags]
  BY DrawType
<1> HIDE DEF e
<1>2. /\ e.marks \in Seq(Marks) /\ d.marks \in Seq(Marks)
      /\ Len(e.marks) \in Nat /\ Len(d.marks) \in Nat /\ Len(ms) \in Nat
      /\ DOMAIN e.marks = 1 .. Len(e.marks) /\ DOMAIN d.marks = 1 .. Len(d.marks)
      /\ DOMAIN ms = 1 .. Len(ms) /\ \A i \in DOMAIN ms : ms[i] \in Marks
  BY <1>1, DocumentFields
<1>3. ASSUME MarksResolve(d), NEW k \in DOMAIN e.marks
      PROVE  Resolves(e, e.marks[k].clip) /\ Resolves(e, e.marks[k].fill)
  <2>1. CASE k \in DOMAIN d.marks
    BY <1>1, <1>3, <2>1, StillResolves DEF MarksResolve
  <2>2. CASE k \notin DOMAIN d.marks
    <3>1. PICK i \in DOMAIN ms : k = Len(d.marks) + i
      <4>1. k - Len(d.marks) \in 1 .. Len(ms) /\ k = Len(d.marks) + (k - Len(d.marks))
        BY <1>1, <1>2, <2>2
      <4> QED
        BY <1>2, <4>1
    <3>2. e.marks[k].clip = ms[i].clip /\ e.marks[k].fill = ms[i].fill
      BY <1>1, <1>2, <3>1 DEF Marks
    <3> QED
      BY <1>1, <3>2, StillResolves
  <2> QED
    BY <2>1, <2>2
<1> QED
  BY <1>1, <1>3 DEF Extends, MarksResolve, e

\* One element, painted and clipped with definitions the document has.
LEMMA DrawOneExtends ==
  ASSUME NEW d \in Documents, NEW at \in Nat, NEW of \in Seq(Nat),
         NEW ref \in Identifiers, NEW paint \in Identifiers,
         NEW href \in Identifiers, NEW colour \in Nat,
         Resolves(d, ref), Resolves(d, paint)
  PROVE  Extends(Draw(d, <<Mark(at, of, ref, paint, href, colour)>>), d)
<1> DEFINE m == Mark(at, of, ref, paint, href, colour)
<1>1. <<m>> \in Seq(Marks) /\ m.clip = ref /\ m.fill = paint
  BY MarkType DEF Mark
<1> HIDE DEF m
<1>2. \A i \in DOMAIN <<m>> : Resolves(d, <<m>>[i].clip) /\ Resolves(d, <<m>>[i].fill)
  BY <1>1
<1> QED
  BY <1>1, <1>2, DrawExtends DEF m

-----------------------------------------------------------------------------
(***************************************************************************)
(* The identifiers of application structures and symbols are new: there is *)
(* always a suffix nobody has, among as many as ids have been given plus   *)
(* one, and the first such suffix is taken.                                *)
(***************************************************************************)
\* A set of naturals that is not empty has a least element.
LEMMA LeastElement ==
  ASSUME NEW T \in SUBSET Nat, T # {}
  PROVE  \E n \in T : \A k \in T : n <= k
<1>1. \E n \in T : \A k \in T : ~(<<k, n>> \in OpToRel(<, Nat))
  BY NatLessThanWellFounded, WFMin
<1>2. PICK n \in T : \A k \in T : ~(<<k, n>> \in OpToRel(<, Nat))
  BY <1>1
<1>3. \A k \in T : n <= k
  <2> SUFFICES ASSUME NEW k \in T, k < n PROVE FALSE
    OBVIOUS
  <2>1. <<k, n>> \in OpToRel(<, Nat)
    BY DEF OpToRel
  <2> QED
    BY <1>2, <2>1
<1> QED
  BY <1>3

\* Of n + 1 different values, one is not in a set of n.
LEMMA SomeValueFree ==
  ASSUME NEW S, IsFiniteSet(S), NEW f,
         \A i, j \in 0 .. Cardinality(S) : i # j => f[i] # f[j]
  PROVE  \E n \in 0 .. Cardinality(S) : f[n] \notin S
<1> DEFINE N == 0 .. Cardinality(S)
<1>1. Cardinality(S) \in Nat
  BY FS_CardinalityType
<1>2. IsFiniteSet(N) /\ Cardinality(N) = Cardinality(S) + 1
  BY <1>1, FS_Interval
<1>3. SUFFICES ASSUME \A n \in N : f[n] \in S PROVE FALSE
  OBVIOUS
<1> DEFINE g == [n \in N |-> f[n]]
<1>4. g \in [N -> S]
  BY <1>3
<1> HIDE DEF N
<1>5. \E i, j \in N : i # j /\ g[i] = g[j]
  <2>1. Cardinality(S) < Cardinality(N)
    BY <1>1, <1>2
  <2> HIDE DEF g
  <2> QED
    BY <1>2, <1>4, <2>1, FS_PigeonHole
<1> QED
  BY <1>5 DEF N

\* The first free value exists, and it is what CHOOSE finds.
LEMMA FirstFree ==
  ASSUME NEW S, IsFiniteSet(S), NEW f,
         \A i, j \in 0 .. Cardinality(S) : i # j => f[i] # f[j]
  PROVE  \E n \in 0 .. Cardinality(S) :
           f[n] \notin S /\ \A k \in 0 .. n - 1 : f[k] \in S
<1> DEFINE T == {n \in 0 .. Cardinality(S) : f[n] \notin S}
<1>1. Cardinality(S) \in Nat
  BY FS_CardinalityType
<1>2. T # {} /\ T \in SUBSET Nat
  BY <1>1, SomeValueFree
<1>3. PICK n \in T : \A k \in T : n <= k
  <2> HIDE DEF T
  <2> QED
    BY <1>2, LeastElement
<1>4. \A k \in 0 .. n - 1 : f[k] \in S
  BY <1>1, <1>3
<1> QED
  BY <1>3, <1>4

-----------------------------------------------------------------------------
\* Different suffixes make different identifiers.
LEMMA LetteredDistinct ==
  ASSUME NEW id \in Identifiers, NEW i \in Nat, NEW j \in Nat, i # j
  PROVE  Lettered(id, i) # Lettered(id, j)
<1>1. id[3] \in Nat /\ id = <<id[1], id[2], id[3]>>
  BY DEF Identifiers
<1>2. SUFFICES ASSUME NEW a \in Nat, NEW b \in Nat, a < b
               PROVE  Lettered(id, a) # Lettered(id, b)
  BY DEF Lettered
<1>3. CASE a = 0
  <2>1. id[3] < Places(b) * id[3] + b
    BY <1>1, <1>2 DEF Places
  <2> QED
    BY <1>1, <1>2, <1>3, <2>1 DEF Lettered
<1>4. CASE a # 0
  <2>1. Places(a) * id[3] + a < Places(b) * id[3] + b
    BY <1>1, <1>2 DEF Places
  <2>2. Places(a) * id[3] + a # Places(b) * id[3] + b
    BY <1>1, <1>2, <2>1 DEF Places
  <2>3. /\ Lettered(id, a) = <<id[1], id[2], Places(a) * id[3] + a>>
        /\ Lettered(id, b) = <<id[1], id[2], Places(b) * id[3] + b>>
    BY <1>2, <1>4 DEF Lettered
  <2> QED
    BY <2>2, <2>3
<1> QED
  BY <1>3, <1>4

\* UniqueIdAllocator::allocate returns an identifier it has not given yet.
THEOREM AllocatedIsNew ==
  ASSUME NEW id \in Identifiers, IsFiniteSet(aps.ids)
  PROVE  Allocated(id) \in Identifiers /\ Allocated(id) \notin aps.ids
<1> DEFINE f == [n \in 0 .. Cardinality(aps.ids) |-> Lettered(id, n)]
           First(n) == /\ Lettered(id, n) \notin aps.ids
                       /\ \A k \in 0 .. n - 1 : Lettered(id, k) \in aps.ids
<1>1. Cardinality(aps.ids) \in Nat
  BY FS_CardinalityType
<1>2. \A i, j \in 0 .. Cardinality(aps.ids) : i # j => f[i] # f[j]
  BY <1>1, LetteredDistinct
<1>3. \E n \in 0 .. Cardinality(aps.ids) :
        f[n] \notin aps.ids /\ \A k \in 0 .. n - 1 : f[k] \in aps.ids
  <2> HIDE DEF f
  <2> QED
    BY <1>2, FirstFree
<1>4. \E n \in 0 .. Cardinality(aps.ids) : First(n)
  <2>1. PICK n \in 0 .. Cardinality(aps.ids) :
          f[n] \notin aps.ids /\ \A k \in 0 .. n - 1 : f[k] \in aps.ids
    BY <1>3
  <2>2. \A k \in 0 .. n - 1 : k \in 0 .. Cardinality(aps.ids)
    BY <1>1
  <2>3. First(n)
    BY <2>1, <2>2
  <2> QED
    BY <2>3
<1> DEFINE m == CHOOSE n \in 0 .. Cardinality(aps.ids) : First(n)
<1>5. m \in 0 .. Cardinality(aps.ids) /\ First(m)
  BY <1>4
<1>6. Allocated(id) = Lettered(id, m)
  BY DEF Allocated
<1>7. \A n \in Nat : Lettered(id, n) \in Identifiers
  BY DEF Lettered, Places, Identifiers
<1> HIDE DEF m
<1> QED
  BY <1>1, <1>5, <1>6, <1>7

\* ensureSymbolDefinition gives a symbol an id no symbol has been given.
THEOREM SymbolIdIsNew ==
  ASSUME NEW s \in Symbols, IsFiniteSet(symbols.emitted)
  PROVE  SymbolId(s) \in Identifiers /\ SymbolId(s) \notin symbols.emitted
<1> DEFINE f == [k \in 0 .. Cardinality(symbols.emitted) |-> <<s, k, 0>>]
           First(k) == /\ <<s, k, 0>> \notin symbols.emitted
                       /\ \A j \in 0 .. k - 1 : ~(<<s, j, 0>> \notin symbols.emitted)
<1>1. Cardinality(symbols.emitted) \in Nat
  BY FS_CardinalityType
<1>2. \A i, j \in 0 .. Cardinality(symbols.emitted) : i # j => f[i] # f[j]
  OBVIOUS
<1>3. \E k \in 0 .. Cardinality(symbols.emitted) :
        f[k] \notin symbols.emitted /\ \A j \in 0 .. k - 1 : f[j] \in symbols.emitted
  <2> HIDE DEF f
  <2> QED
    BY <1>2, FirstFree
<1>4. \E k \in 0 .. Cardinality(symbols.emitted) : First(k)
  <2>1. PICK k \in 0 .. Cardinality(symbols.emitted) :
          f[k] \notin symbols.emitted /\ \A j \in 0 .. k - 1 : f[j] \in symbols.emitted
    BY <1>3
  <2>2. \A j \in 0 .. k - 1 : j \in 0 .. Cardinality(symbols.emitted)
    BY <1>1
  <2>3. First(k)
    BY <2>1, <2>2
  <2> QED
    BY <2>3
<1> DEFINE m == CHOOSE k \in 0 .. Cardinality(symbols.emitted) : First(k)
<1>5. m \in 0 .. Cardinality(symbols.emitted) /\ First(m)
  BY <1>4
<1>6. SymbolId(s) = <<s, m, 0>>
  BY DEF SymbolId
<1>7. \A n \in Nat : <<s, n, 0>> \in Identifiers
  BY DEF Identifiers, Words
<1> HIDE DEF m
<1> QED
  BY <1>1, <1>5, <1>6, <1>7

-----------------------------------------------------------------------------
(* The inductive invariant: the types, and that what the converter may     *)
(* still copy into the document is defined there, part by part.            *)

ControlOK ==
  /\ phase \in {"idle", "converting", "done", "failed"}
  /\ runs \in Nat /\ cursor \in 0 .. Len(file)
  /\ file \in Seq(Alphabet) /\ complete \in BOOLEAN

DocOK == doc \in Documents /\ MarksResolve(doc)

ClipOK ==
  /\ clip \in Clips
  /\ Resolves(doc, clip.ref) /\ \A r \in Rects : Resolves(doc, clip.cached[r])

RegionOK ==
  /\ region \in RegionStates
  /\ \A r \in Regions : Resolves(doc, region.cached[r])

FillOK ==
  /\ fill \in Fills
  /\ \A p \in Patterns : Resolves(doc, fill.cached[p])

ApsOK == aps \in Structures /\ IsFiniteSet(aps.ids)

SymbolsOK == symbols \in SymbolStates /\ IsFiniteSet(symbols.emitted)

Inv ==
  /\ ControlOK /\ DocOK /\ picture \in PictureStates
  /\ ClipOK /\ RegionOK /\ figure \in Figures /\ FillOK /\ text \in Texts
  /\ ApsOK /\ SymbolsOK

\* The invariant is the two properties together.
LEMMA InvIsBoth == Inv <=> TypeOK /\ ClipAndFillResolve
BY DEF Inv, ControlOK, DocOK, ClipOK, RegionOK, FillOK, ApsOK, SymbolsOK,
       TypeOK, ClipAndFillResolve, MarksResolve

-----------------------------------------------------------------------------
(* Reading commands.                                                       *)

\* The operands of a command of the alphabet have the types Commands says.
LEMMA Operands ==
  ASSUME NEW c \in Alphabet
  PROVE  /\ c.op = "CLIP RECTANGLE" => c.rect \in Rects
         /\ c.op = "CLIP INDICATOR" => c.on \in BOOLEAN
         /\ c.op \in {"BEGIN PROTECTION REGION", "PROTECTION REGION INDICATOR"}
              => c.rid \in Regions
         /\ c.op = "INTERIOR STYLE" => c.style \in {"hollow", "solid", "pattern"}
         /\ c.op \in {"PATTERN INDEX", "PATTERN TABLE"} => c.index \in Patterns
         /\ c.op = "PATTERN TABLE" => c.valid \in BOOLEAN
         /\ c.op = "BEGIN APS" => c.id \in Identifiers
         /\ c.op = "APS ATTRIBUTE" => c.type \in AttributeTypes
         /\ c.op = "SYMBOL LIBRARY LIST" => c.names \in Seq(Symbols)
         /\ c.op = "POLYSYMBOL" => c.index \in Int
         /\ c.op \in {"BACKGROUND COLOUR", "COLOUR TABLE"} => c.colour \in Nat
<1>1. c \in Commands
  BY AlphabetAssumption
<1>2. c.op = "CLIP RECTANGLE" => c.rect \in Rects
  BY <1>1 DEF Commands, WithoutOperands
<1>3. c.op = "CLIP INDICATOR" => c.on \in BOOLEAN
  BY <1>1 DEF Commands, WithoutOperands
<1>4. c.op \in {"BEGIN PROTECTION REGION", "PROTECTION REGION INDICATOR"}
        => c.rid \in Regions
  BY <1>1 DEF Commands, WithoutOperands
<1>5. c.op = "INTERIOR STYLE" => c.style \in {"hollow", "solid", "pattern"}
  BY <1>1 DEF Commands, WithoutOperands
<1>6. c.op \in {"PATTERN INDEX", "PATTERN TABLE"} => c.index \in Patterns
  BY <1>1 DEF Commands, WithoutOperands
<1>7. c.op = "PATTERN TABLE" => c.valid \in BOOLEAN
  BY <1>1 DEF Commands, WithoutOperands
<1>8. c.op = "BEGIN APS" => c.id \in Identifiers
  BY <1>1 DEF Commands, WithoutOperands
<1>9. c.op = "APS ATTRIBUTE" => c.type \in AttributeTypes
  BY <1>1 DEF Commands, WithoutOperands, AttributeTypes
<1>10. c.op = "SYMBOL LIBRARY LIST" => c.names \in Seq(Symbols)
  BY <1>1 DEF Commands, WithoutOperands
<1>11. c.op = "POLYSYMBOL" => c.index \in Int
  BY <1>1 DEF Commands, WithoutOperands
<1>12. c.op \in {"BACKGROUND COLOUR", "COLOUR TABLE"} => c.colour \in Nat
  BY <1>1 DEF Commands, WithoutOperands
<1> QED
  BY <1>2, <1>3, <1>4, <1>5, <1>6, <1>7, <1>8, <1>9, <1>10, <1>11, <1>12

\* Reading a command keeps the control state in order.
LEMMA ReadsControl ==
  ASSUME Inv, NEW c \in Alphabet, Reads(c), Continues \/ Throws
  PROVE  ControlOK' /\ Here \in Nat \ {0} /\ NoId \in Identifiers
<1>1. ControlOK
  BY DEF Inv
<1>2. cursor \in Nat /\ Len(file) \in Nat /\ cursor <= Len(file)
  BY <1>1 DEF ControlOK
<1>3. file' \in Seq(Alphabet) /\ Len(file') \in Nat /\ cursor + 1 <= Len(file')
  <2>1. CASE cursor < Len(file)
    BY <1>1, <1>2, <2>1 DEF Reads, ControlOK
  <2>2. CASE ~(cursor < Len(file))
    BY <1>1, <1>2, <2>2 DEF Reads, ControlOK
  <2> QED
    BY <2>1, <2>2
<1>4. cursor' \in 0 .. Len(file')
  BY <1>2, <1>3 DEF Reads
<1>5. phase' \in {"idle", "converting", "done", "failed"} /\ runs' \in Nat
  BY <1>1 DEF ControlOK, Continues, Throws
<1> QED
  BY <1>1, <1>2, <1>3, <1>4, <1>5, OwnIds DEF ControlOK, Reads, Here

-----------------------------------------------------------------------------
(* Pending text.                                                           *)

\* The marks of a text have the type of marks and refer to nothing.
LEMMA TextMarksType ==
  ASSUME NEW segments \in Seq([at : Nat, colour : Nat]), Here \in Nat
  PROVE  /\ TextMarks(segments) \in Seq(Marks)
         /\ \A i \in DOMAIN TextMarks(segments) :
              /\ TextMarks(segments)[i].clip = NoId
              /\ TextMarks(segments)[i].fill = NoId
<1>1. /\ DOMAIN segments = 1 .. Len(segments) /\ Len(segments) \in Nat
      /\ \A i \in DOMAIN segments : segments[i].at \in Nat /\ segments[i].colour \in Nat
  <2> DEFINE S == [at : Nat, colour : Nat]
  <2>1. \A x \in S : x.at \in Nat /\ x.colour \in Nat
    OBVIOUS
  <2>2. segments \in Seq(S)
    OBVIOUS
  <2> HIDE DEF S
  <2>3. /\ DOMAIN segments = 1 .. Len(segments) /\ Len(segments) \in Nat
        /\ \A i \in DOMAIN segments : segments[i] \in S
    BY <2>2
  <2> QED
    BY <2>1, <2>3
<1>2. ASSUME NEW i \in DOMAIN segments
      PROVE  Mark(Here, <<segments[i].at>>, NoId, NoId, NoId, segments[i].colour) \in Marks
  <2>1. <<segments[i].at>> \in Seq(Nat) /\ segments[i].colour \in Nat
    BY <1>1
  <2> QED
    BY <2>1, OwnIds, MarkType
<1> DEFINE M(i) == Mark(Here, <<segments[i].at>>, NoId, NoId, NoId, segments[i].colour)
<1>3. TextMarks(segments) \in Seq(Marks)
  <2>1. TextMarks(segments) = [i \in DOMAIN segments |-> M(i)]
    BY DEF TextMarks
  <2>2. \A i \in 1 .. Len(segments) : M(i) \in Marks
    BY <1>1, <1>2
  <2> HIDE DEF M
  <2> QED
    BY <1>1, <2>1, <2>2
<1>4. \A i \in DOMAIN TextMarks(segments) :
        TextMarks(segments)[i].clip = NoId /\ TextMarks(segments)[i].fill = NoId
  BY DEF TextMarks, Mark
<1> QED
  BY <1>3, <1>4

LEMMA DrawTextExtends ==
  ASSUME NEW d \in Documents, NEW segments \in Seq([at : Nat, colour : Nat]),
         Here \in Nat
  PROVE  Extends(Draw(d, TextMarks(segments)), d)
<1> DEFINE ms == TextMarks(segments)
<1>1. ms \in Seq(Marks) /\ \A i \in DOMAIN ms : ms[i].clip = NoId /\ ms[i].fill = NoId
  BY TextMarksType
<1> HIDE DEF ms
<1>2. Extends(Draw(d, ms), d)
  BY <1>1, DrawExtends DEF Resolves
<1> QED
  BY <1>2 DEF ms

\* What every command does to the document before its handler: pending text
\* is flushed and, for a primitive, <defs> closed.
LEMMA FlushExtends ==
  ASSUME NEW d \in Documents, text \in Texts, Here \in Nat
  PROVE  /\ Extends(Flush(d), d) /\ Extends(CloseOpenDefs(Flush(d)), d)
         /\ NoPending \in Texts
<1>1. text.pending \in Seq([at : Nat, colour : Nat]) /\ NoPending \in Texts
  <2>1. <<>> \in Seq([at : Nat, colour : Nat])
    OBVIOUS
  <2> QED
    BY <2>1 DEF Texts, NoPending
<1>2. Extends(Flush(d), d)
  BY <1>1, DrawTextExtends DEF Flush
<1>3. Flush(d) \in Documents
  BY <1>2 DEF Extends
<1>4. Extends(CloseOpenDefs(Flush(d)), Flush(d))
  BY <1>3, CloseOpenDefsType, SameMarks
<1> QED
  BY <1>1, <1>2, <1>4, ExtendsTransitive

\* Parts of the state a step leaves alone stay in order when the document is
\* only extended.
LEMMA PartsKept ==
  ASSUME Inv, Extends(doc', doc)
  PROVE  /\ DocOK'
         /\ UNCHANGED clip => ClipOK'
         /\ UNCHANGED region => RegionOK'
         /\ UNCHANGED fill => FillOK'
         /\ \A id : Resolves(doc, id) => Resolves(doc', id)
<1>1. \A id : Resolves(doc, id) => Resolves(doc', id)
  BY StillResolves DEF Extends
<1>2. DocOK'
  BY DEF Inv, DocOK, Extends
<1>3. UNCHANGED clip => ClipOK'
  BY <1>1 DEF Inv, ClipOK
<1>4. UNCHANGED region => RegionOK'
  BY <1>1 DEF Inv, RegionOK
<1>5. UNCHANGED fill => FillOK'
  BY <1>1 DEF Inv, FillOK
<1> QED
  BY <1>1, <1>2, <1>3, <1>4, <1>5

\* So do the parts that do not depend on the document.
LEMMA OthersKept ==
  ASSUME Inv
  PROVE  /\ UNCHANGED picture => (picture \in PictureStates)'
         /\ UNCHANGED figure => (figure \in Figures)'
         /\ UNCHANGED text => (text \in Texts)'
         /\ UNCHANGED aps => ApsOK'
         /\ UNCHANGED symbols => SymbolsOK'
BY DEF Inv, ApsOK, SymbolsOK
\* What every handler can count on: the control state is in order, and the
\* document and the text after what precedes the handler are.
LEMMA BeforeHandler ==
  ASSUME Inv, NEW c \in Alphabet, Reads(c), Continues \/ Throws
  PROVE  /\ ControlOK' /\ Here \in Nat \ {0}
         /\ doc \in Documents /\ Extends(doc, doc)
         /\ Flush(doc) \in Documents /\ Extends(Flush(doc), doc)
         /\ PrimitiveDoc \in Documents /\ Extends(PrimitiveDoc, doc)
         /\ text \in Texts /\ NoPending \in Texts
<1>1. ControlOK' /\ Here \in Nat \ {0}
  BY ReadsControl
<1>2. doc \in Documents /\ text \in Texts
  BY DEF Inv, DocOK
<1> QED
  BY <1>1, <1>2, FlushExtends, SameMarks DEF PrimitiveDoc, Extends

-----------------------------------------------------------------------------
(* Clip and protection regions.                                            *)

\* updateClipPathDefinition leaves a clip whose id and cache are defined in
\* the document it leaves.
LEMMA UpdatedClipSound ==
  ASSUME NEW d \in Documents, NEW c \in Clips,
         Resolves(d, c.ref), \A r \in Rects : Resolves(d, c.cached[r])
  PROVE  /\ Extends(UpdatedClipDoc(c, d), d)
         /\ UpdatedClip(c) \in Clips
         /\ Resolves(UpdatedClipDoc(c, d), UpdatedClip(c).ref)
         /\ \A r \in Rects : Resolves(UpdatedClipDoc(c, d), UpdatedClip(c).cached[r])
<1> DEFINE id == ClipPathId(c.made + 1)
           e == Define(d, id, RectShape(c.rect))
<1>1. /\ c.rect \in Rects \cup {NoRect} /\ c.made \in Nat /\ c.made + 1 \in Nat
      /\ c.cached \in [Rects -> Identifiers] /\ c.enabled \in BOOLEAN
  BY DEF Clips
<1>2. id \in Identifiers /\ NoId \in Identifiers
  BY <1>1, OwnIds
<1>3. CASE ~RectangleInForce(c)
  <2>1. UpdatedClip(c) = [c EXCEPT !.ref = NoId] /\ UpdatedClipDoc(c, d) = d
    BY <1>3 DEF UpdatedClip, UpdatedClipDoc
  <2> QED
    BY <1>2, <2>1, SameMarks DEF Clips, Resolves
<1>4. CASE RectangleInForce(c) /\ c.cached[c.rect] # NoId
  <2>1. /\ UpdatedClip(c) = [c EXCEPT !.ref = c.cached[c.rect]]
        /\ UpdatedClipDoc(c, d) = d
    BY <1>4 DEF UpdatedClip, UpdatedClipDoc
  <2>2. c.rect \in Rects /\ c.cached[c.rect] \in Identifiers
    BY <1>1, <1>4 DEF RectangleInForce
  <2> QED
    BY <2>1, <2>2, SameMarks DEF Clips
<1>5. CASE RectangleInForce(c) /\ c.cached[c.rect] = NoId
  <2>1. /\ UpdatedClip(c) = [c EXCEPT !.made = c.made + 1, !.ref = id,
                                      !.cached = [c.cached EXCEPT ![c.rect] = id]]
        /\ UpdatedClipDoc(c, d) = e
    BY <1>5 DEF UpdatedClip, UpdatedClipDoc
  <2>2. c.rect \in Rects
    BY <1>1, <1>5 DEF RectangleInForce
  <2>3. RectShape(c.rect) \in Contents
    BY <2>2 DEF RectShape, Contents
  <2>4. Extends(e, d) /\ id \in DefinedIds(e)
    BY <1>2, <2>3, DefineExtends
  <2> HIDE DEF e, id
  <2>5. [c.cached EXCEPT ![c.rect] = id] \in [Rects -> Identifiers]
    BY <1>1, <1>2
  <2>6. UpdatedClip(c) \in Clips
    BY <1>1, <1>2, <2>1, <2>5 DEF Clips
  <2>7. /\ UpdatedClip(c).ref = id
        /\ \A r \in Rects : UpdatedClip(c).cached[r] = IF r = c.rect THEN id ELSE c.cached[r]
    BY <1>1, <2>1 DEF Clips
  <2>8. Resolves(e, id) /\ \A r \in Rects : Resolves(e, c.cached[r])
    BY <2>4, StillResolves DEF Extends, Resolves
  <2> QED
    BY <2>1, <2>4, <2>6, <2>7, <2>8
<1> QED
  BY <1>3, <1>4, <1>5

\* CLIP RECTANGLE.
LEMMA ClipRectangleInv == Inv /\ ClipRectangle => Inv'
<1> SUFFICES ASSUME Inv, ClipRectangle PROVE Inv'
  OBVIOUS
<1>1. PICK c \in Alphabet : ClipRectangle!(c)
  BY DEF ClipRectangle
<1> DEFINE d == Flush(doc)
           given == [clip EXCEPT !.rect = c.rect]
<1>2. c.rect \in Rects
  BY <1>1, Operands
<1>3. ControlOK' /\ Extends(d, doc) /\ d \in Documents /\ text' \in Texts
  BY <1>1, BeforeHandler
<1>4. given \in Clips /\ Resolves(d, given.ref) /\ \A r \in Rects : Resolves(d, given.cached[r])
  BY <1>2, <1>3, StillResolves DEF Inv, ClipOK, Extends, Clips
<1> HIDE DEF given
<1>5. Extends(doc', doc) /\ ClipOK'
  <2>1. CASE clip.enabled
    <3>1. clip' = UpdatedClip(given) /\ doc' = UpdatedClipDoc(given, d)
      BY <1>1, <2>1 DEF UpdatesClip, given
    <3>2. Extends(doc', d) /\ ClipOK'
      BY <1>3, <1>4, <3>1, UpdatedClipSound DEF ClipOK
    <3> QED
      BY <1>3, <3>2, ExtendsTransitive
  <2>2. CASE ~clip.enabled
    BY <1>1, <1>3, <1>4, <2>2 DEF ClipOK, given
  <2> QED
    BY <2>1, <2>2
<1> QED
  BY <1>1, <1>3, <1>5, PartsKept, OthersKept DEF Inv

\* CLIP INDICATOR.
LEMMA ClipIndicatorInv == Inv /\ ClipIndicator => Inv'
<1> SUFFICES ASSUME Inv, ClipIndicator PROVE Inv'
  OBVIOUS
<1>1. PICK c \in Alphabet : ClipIndicator!(c)
  BY DEF ClipIndicator
<1> DEFINE d == Flush(doc)
           given == [clip EXCEPT !.enabled = TRUE]
<1>2. /\ ControlOK' /\ Extends(d, doc) /\ d \in Documents /\ text' \in Texts
  BY <1>1, BeforeHandler
<1>3. c.on \in BOOLEAN /\ NoId \in Identifiers
  BY <1>1, Operands, OwnIds
<1>4. given \in Clips /\ Resolves(d, given.ref) /\ \A r \in Rects : Resolves(d, given.cached[r])
  BY <1>2, StillResolves DEF Inv, ClipOK, Extends, Clips
<1> HIDE DEF given
<1>5. Extends(doc', doc) /\ ClipOK'
  <2>1. CASE c.on /\ clip.rect # NoRect
    <3>1. clip' = UpdatedClip(given) /\ doc' = UpdatedClipDoc(given, d)
      BY <1>1, <2>1 DEF UpdatesClip, given
    <3>2. Extends(doc', d) /\ ClipOK'
      BY <1>2, <1>4, <3>1, UpdatedClipSound DEF ClipOK
    <3> QED
      BY <1>2, <3>2, ExtendsTransitive
  <2>2. CASE ~(c.on /\ clip.rect # NoRect)
    <3>1. clip' = [clip EXCEPT !.enabled = c.on, !.ref = NoId] /\ doc' = d
      BY <1>1, <2>2
    <3>2. \A r \in Rects : Resolves(d, clip.cached[r])
      BY <1>2, StillResolves DEF Inv, ClipOK, Extends
    <3> QED
      BY <1>2, <1>3, <3>1, <3>2 DEF Inv, ClipOK, Clips, Resolves
  <2> QED
    BY <2>1, <2>2
<1> QED
  BY <1>1, <1>2, <1>5, PartsKept, OthersKept DEF Inv

\* Two lists of paths make one.
LEMMA PathsType ==
  /\ <<>> \in Paths
  /\ \A p, q \in Paths : p \o q \in Paths
  /\ \A p \in Paths, n \in Seq(Nat) : Append(p, n) \in Paths
BY DEF Paths

\* BEGIN PROTECTION REGION.
LEMMA BeginProtectionRegionInv == Inv /\ BeginProtectionRegion => Inv'
<1> SUFFICES ASSUME Inv, BeginProtectionRegion PROVE Inv'
  OBVIOUS
<1>1. PICK c \in Alphabet : BeginProtectionRegion!(c)
  BY DEF BeginProtectionRegion
<1>2. ControlOK' /\ Extends(doc', doc) /\ text' \in Texts
  BY <1>1, BeforeHandler DEF FlushesText
<1>3. c.rid \in Regions /\ <<>> \in Paths
  BY <1>1, Operands, PathsType
<1>4. RegionOK'
  BY <1>1, <1>2, <1>3, PartsKept DEF Inv, RegionOK, RegionStates
<1> QED
  BY <1>1, <1>2, <1>4, PartsKept, OthersKept DEF Inv

\* END PROTECTION REGION.
LEMMA EndProtectionRegionInv == Inv /\ EndProtectionRegion => Inv'
<1> SUFFICES ASSUME Inv, EndProtectionRegion PROVE Inv'
  OBVIOUS
<1>1. PICK c \in Alphabet : EndProtectionRegion!(c)
  BY DEF EndProtectionRegion
<1>2. ControlOK' /\ Extends(doc', doc) /\ text' \in Texts
  BY <1>1, BeforeHandler DEF FlushesText
<1>3. /\ region \in RegionStates
      /\ \A r \in Regions : Resolves(doc', region.cached[r])
  BY <1>2, PartsKept DEF Inv, RegionOK
<1>4. RegionOK'
  <2> DEFINE r == region.active
  <2>1. CASE region.capturing /\ region.active >= 0 /\ region.paths # <<>>
    <3>1. region' = [region EXCEPT
                       !.capturing = FALSE, !.paths = <<>>,
                       !.shapes = [region.shapes EXCEPT ![r] = region.shapes[r] \o region.paths],
                       !.cached = [region.cached EXCEPT ![r] = NoId]]
      BY <1>1, <2>1
    <3>2. r \in Regions
      BY <1>3, <2>1 DEF RegionStates
    <3>3. region.shapes[r] \o region.paths \in Paths
      BY <1>3, <3>2, PathsType DEF RegionStates
    <3> HIDE DEF r
    <3>4. region' \in RegionStates
      BY <1>3, <3>1, <3>2, <3>3, PathsType, OwnIds DEF RegionStates
    <3>5. region'.cached = [region.cached EXCEPT ![r] = NoId]
      BY <1>3, <3>1 DEF RegionStates
    <3>6. \A q \in Regions : Resolves(doc', region'.cached[q])
      BY <1>3, <3>5 DEF RegionStates, Resolves
    <3> QED
      BY <3>4, <3>6 DEF RegionOK
  <2>2. CASE ~(region.capturing /\ region.active >= 0 /\ region.paths # <<>>)
    <3>1. region' = [region EXCEPT !.capturing = FALSE, !.paths = <<>>]
      BY <1>1, <2>2
    <3> QED
      BY <1>3, <3>1, PathsType DEF RegionOK, RegionStates
  <2> QED
    BY <2>1, <2>2
<1> QED
  BY <1>1, <1>2, <1>4, PartsKept, OthersKept DEF Inv

\* PROTECTION REGION INDICATOR.
LEMMA ProtectionRegionIndicatorInv == Inv /\ ProtectionRegionIndicator => Inv'
<1> SUFFICES ASSUME Inv, ProtectionRegionIndicator PROVE Inv'
  OBVIOUS
<1>1. PICK c \in Alphabet : ProtectionRegionIndicator!(c)
  BY DEF ProtectionRegionIndicator
<1> DEFINE d == Flush(doc)
           id == ClipPathId(clip.made + 1)
           pointed == [region EXCEPT !.indicator = 2, !.active = c.rid]
<1>2. /\ ControlOK' /\ Extends(d, doc) /\ d \in Documents /\ text' \in Texts
  BY <1>1, BeforeHandler
<1>3. c.rid \in Regions
  BY <1>1, Operands
<1>4. /\ clip \in Clips /\ region \in RegionStates
      /\ Resolves(d, clip.ref) /\ \A r \in Rects : Resolves(d, clip.cached[r])
      /\ \A r \in Regions : Resolves(d, region.cached[r])
  BY <1>2, StillResolves DEF Inv, ClipOK, RegionOK, Extends
<1>5. pointed \in RegionStates /\ pointed.cached = region.cached
  BY <1>3, <1>4 DEF RegionStates
<1> HIDE DEF d
<1>6. Extends(doc', d) /\ ClipOK' /\ RegionOK'
  <2>1. CASE ~c.on
    <3>1. /\ clip' = UpdatedClip(clip) /\ doc' = UpdatedClipDoc(clip, d)
          /\ region' = [region EXCEPT !.indicator = 1, !.active = c.rid]
      BY <1>1, <2>1 DEF UpdatesClip, d
    <3>2. Extends(doc', d) /\ ClipOK'
      BY <1>2, <1>4, <3>1, UpdatedClipSound DEF ClipOK
    <3>3. RegionOK'
      BY <1>3, <1>4, <3>1, <3>2, StillResolves DEF RegionOK, RegionStates, Extends
    <3> QED
      BY <3>2, <3>3
  <2>2. CASE c.on /\ region.cached[c.rid] # NoId
    <3>1. /\ clip' = [clip EXCEPT !.ref = region.cached[c.rid]]
          /\ region' = pointed /\ doc' = d
      BY <1>1, <2>2 DEF ClipToRegion, d
    <3>2. region.cached[c.rid] \in Identifiers
      BY <1>3, <1>4 DEF RegionStates
    <3>3. ClipOK'
      BY <1>3, <1>4, <3>1, <3>2 DEF ClipOK, Clips
    <3> QED
      BY <1>2, <1>4, <1>5, <3>1, <3>3, SameMarks DEF RegionOK
  <2>3. CASE c.on /\ region.cached[c.rid] = NoId /\ region.shapes[c.rid] = <<>>
    <3>1. clip' = clip /\ region' = pointed /\ doc' = d
      BY <1>1, <2>3 DEF ClipToRegion, d
    <3> QED
      BY <1>2, <1>4, <1>5, <3>1, SameMarks DEF RegionOK, ClipOK
  <2>4. CASE c.on /\ region.cached[c.rid] = NoId /\ region.shapes[c.rid] # <<>>
    <3>1. /\ clip' = [clip EXCEPT !.made = clip.made + 1, !.ref = id]
          /\ region' = [region EXCEPT !.indicator = 2, !.active = c.rid,
                                      !.cached = [region.cached EXCEPT ![c.rid] = id]]
          /\ doc' = Define(d, id, PathShape(region.shapes[c.rid]))
      BY <1>1, <2>4 DEF ClipToRegion, d
    <3>2. id \in Identifiers /\ clip.made + 1 \in Nat
      BY <1>4, OwnIds DEF Clips
    <3>3. PathShape(region.shapes[c.rid]) \in Contents
      BY <1>3, <1>4 DEF PathShape, Contents, RegionStates
    <3>4. Extends(doc', d) /\ id \in DefinedIds(doc')
      BY <1>2, <3>1, <3>2, <3>3, DefineExtends
    <3> HIDE DEF id
    <3>5. Resolves(doc', id) /\ \A i : Resolves(d, i) => Resolves(doc', i)
      BY <3>4, StillResolves DEF Resolves, Extends
    <3>6. ClipOK'
      BY <1>4, <3>1, <3>2, <3>5 DEF ClipOK, Clips
    <3>7. region' \in RegionStates /\ region'.cached = [region.cached EXCEPT ![c.rid] = id]
      BY <1>3, <1>4, <3>1, <3>2 DEF RegionStates
    <3>8. \A r \in Regions : Resolves(doc', region'.cached[r])
      BY <1>4, <3>5, <3>7 DEF RegionStates
    <3> QED
      BY <3>4, <3>6, <3>7, <3>8 DEF RegionOK
  <2> QED
    BY <2>1, <2>2, <2>3, <2>4
<1>7. Extends(doc', doc)
  BY <1>2, <1>6, ExtendsTransitive
<1> QED
  BY <1>1, <1>2, <1>6, <1>7, PartsKept, OthersKept DEF Inv

-----------------------------------------------------------------------------
(* Primitives and figures.                                                 *)

\* getFillAttributeForCurrentStyle returns an id the document it leaves
\* defines, as is every id it keeps for later.
LEMMA EnsuredFillSound ==
  ASSUME NEW d \in Documents, fill \in Fills,
         \A p \in Patterns : Resolves(d, fill.cached[p])
  PROVE  /\ Extends(EnsuredFillDoc(d), d) /\ EnsuredFillDoc(d) \in Documents
         /\ EnsuredFill \in Fills
         /\ \A p \in Patterns : Resolves(EnsuredFillDoc(d), EnsuredFill.cached[p])
         /\ FillId \in Identifiers /\ Resolves(EnsuredFillDoc(d), FillId)
<1>1. /\ fill.index \in Patterns /\ fill.made \in Nat
      /\ fill.cached \in [Patterns -> Identifiers] /\ NoId \in Identifiers
  BY OwnIds DEF Fills
<1>2. CASE ~Tiled
  <2>1. EnsuredFillDoc(d) = d /\ EnsuredFill = fill /\ FillId = NoId
    BY <1>2 DEF EnsuredFillDoc, EnsuredFill, FillId
  <2> QED
    BY <1>1, <2>1, SameMarks DEF Resolves
<1>3. CASE Tiled /\ Defined
  <2>1. /\ EnsuredFillDoc(d) = d /\ EnsuredFill = fill
        /\ FillId = fill.cached[fill.index]
    BY <1>3 DEF EnsuredFillDoc, EnsuredFill, FillId
  <2> QED
    BY <1>1, <2>1, SameMarks
<1>4. CASE Tiled /\ ~Defined
  <2> DEFINE value == PatternValue(fill, fill.index)
  <2>1. /\ EnsuredFillDoc(d) = Define(d, FillId, value)
        /\ EnsuredFill = [fill EXCEPT !.made = fill.made + 1,
                            !.cached = [fill.cached EXCEPT ![fill.index] = FillId]]
        /\ FillId = PatternId(fill.made + 1)
    BY <1>4 DEF EnsuredFillDoc, EnsuredFill, FillId
  <2>2. FillId \in Identifiers /\ fill.made + 1 \in Nat
    BY <1>1, <2>1, OwnIds
  <2>3. value \in Contents
    <3>1. /\ fill.tables[fill.index] \in [at : Nat, valid : BOOLEAN]
          /\ fill.sizes[fill.index] \in Nat /\ fill.reference \in Nat
      BY <1>1 DEF Fills
    <3> QED
      BY <3>1 DEF PatternValue, Contents
  <2> HIDE DEF value
  <2>4. Extends(EnsuredFillDoc(d), d) /\ FillId \in DefinedIds(EnsuredFillDoc(d))
    BY <2>1, <2>2, <2>3, DefineExtends
  <2>5. /\ Resolves(EnsuredFillDoc(d), FillId)
        /\ \A id : Resolves(d, id) => Resolves(EnsuredFillDoc(d), id)
    BY <2>4, StillResolves DEF Resolves, Extends
  <2>6. /\ EnsuredFill \in Fills
        /\ EnsuredFill.cached = [fill.cached EXCEPT ![fill.index] = FillId]
    BY <1>1, <2>1, <2>2 DEF Fills
  <2>7. \A p \in Patterns : Resolves(EnsuredFillDoc(d), EnsuredFill.cached[p])
    BY <1>1, <2>5, <2>6
  <2> QED
    BY <2>2, <2>4, <2>5, <2>6, <2>7 DEF Extends
<1> QED
  BY <1>2, <1>3, <1>4

\* A filled element, clipped with an id the document already defines.
LEMMA FilledDrawing ==
  ASSUME Inv, Here \in Nat, NEW of \in Seq(Nat),
         NEW ref \in Identifiers, Resolves(doc, ref),
         fill' = EnsuredFill,
         doc' = Draw(CloseOpenDefs(EnsuredFillDoc(PrimitiveDoc)),
                     <<Mark(Here, of, ref, FillId, NoId, 0)>>)
  PROVE  Extends(doc', doc) /\ FillOK'
<1> DEFINE d == PrimitiveDoc
           e == EnsuredFillDoc(d)
           f == CloseOpenDefs(e)
<1>1. d \in Documents /\ Extends(d, doc)
  BY FlushExtends DEF Inv, DocOK, PrimitiveDoc, Extends
<1>2. fill \in Fills /\ \A p \in Patterns : Resolves(d, fill.cached[p])
  BY <1>1, StillResolves DEF Inv, FillOK, Extends
<1> HIDE DEF d
<1>3. /\ e \in Documents /\ Extends(e, d) /\ FillId \in Identifiers
      /\ EnsuredFill \in Fills /\ Resolves(e, FillId)
      /\ \A p \in Patterns : Resolves(e, EnsuredFill.cached[p])
  BY <1>1, <1>2, EnsuredFillSound
<1> HIDE DEF e
<1>4. f \in Documents /\ Extends(f, e)
  BY <1>3, CloseOpenDefsType, SameMarks
<1>5. Resolves(f, FillId) /\ Resolves(f, ref)
  BY <1>1, <1>3, <1>4, StillResolves DEF Extends
<1> HIDE DEF f
<1>6. Extends(doc', f)
  <2>1. doc' = Draw(f, <<Mark(Here, of, ref, FillId, NoId, 0)>>)
    BY DEF d, e, f
  <2>2. NoId \in Identifiers /\ 0 \in Nat
    BY OwnIds
  <2> QED
    BY <1>3, <1>4, <1>5, <2>1, <2>2, DrawOneExtends
<1>7. Extends(doc', e) /\ Extends(doc', doc)
  BY <1>1, <1>3, <1>4, <1>6, ExtendsTransitive
<1>8. FillOK'
  BY <1>3, <1>7, StillResolves DEF FillOK, Extends
<1> QED
  BY <1>7, <1>8

\* A primitive that an open figure collects.
LEMMA PrimitiveIntoFigureInv == Inv /\ PrimitiveIntoFigure => Inv'
<1> SUFFICES ASSUME Inv, PrimitiveIntoFigure PROVE Inv'
  OBVIOUS
<1>1. PICK c \in Alphabet : PrimitiveIntoFigure!(c)
  BY DEF PrimitiveIntoFigure
<1>2. ControlOK' /\ Extends(doc', doc) /\ text' \in Texts /\ Here \in Nat
  BY <1>1, BeforeHandler
<1>3. figure' \in Figures
  <2> DEFINE entry == [at |-> Here, joined |-> figure.connect]
             Entry == [at : Nat, joined : BOOLEAN]
  <2>1. figure \in [open : BOOLEAN, subpaths : Seq(Entry), connect : BOOLEAN]
    BY DEF Inv, Figures
  <2>2. entry \in Entry
    BY <1>2, <2>1
  <2>3. figure' = [figure EXCEPT !.subpaths = Append(figure.subpaths, entry),
                                 !.connect = FALSE]
    BY <1>1
  <2>4. Figures = [open : BOOLEAN, subpaths : Seq(Entry), connect : BOOLEAN]
    BY DEF Figures
  <2> HIDE DEF entry, Entry
  <2>5. Append(figure.subpaths, entry) \in Seq(Entry)
    BY <2>1, <2>2
  <2> QED
    BY <2>1, <2>3, <2>4, <2>5
<1> QED
  BY <1>1, <1>2, <1>3, PartsKept, OthersKept DEF Inv

\* A primitive that a protection region collects.
LEMMA PrimitiveIntoRegionInv == Inv /\ PrimitiveIntoRegion => Inv'
<1> SUFFICES ASSUME Inv, PrimitiveIntoRegion PROVE Inv'
  OBVIOUS
<1>1. PICK c \in Alphabet : PrimitiveIntoRegion!(c)
  BY DEF PrimitiveIntoRegion
<1>2. ControlOK' /\ Extends(doc', doc) /\ text' \in Texts /\ Here \in Nat
  BY <1>1, BeforeHandler
<1>3. /\ region \in RegionStates /\ \A r \in Regions : Resolves(doc', region.cached[r])
      /\ <<Here>> \in Seq(Nat)
  BY <1>2, PartsKept DEF Inv, RegionOK
<1>4. Append(region.paths, <<Here>>) \in Paths
  BY <1>3, PathsType DEF RegionStates
<1>5. RegionOK'
  BY <1>1, <1>3, <1>4 DEF RegionOK, RegionStates
<1> QED
  BY <1>1, <1>2, <1>5, PartsKept, OthersKept DEF Inv

\* The clip-path a primitive copies is defined.
LEMMA ClipOfResolves ==
  ASSUME Inv, NEW c
  PROVE  ClipOf(c) \in Identifiers /\ Resolves(doc, ClipOf(c))
BY OwnIds DEF Inv, ClipOK, Clips, ClipOf, Resolves

\* A primitive that is stroked only.
LEMMA DrawStrokedInv == Inv /\ DrawStroked => Inv'
<1> SUFFICES ASSUME Inv, DrawStroked PROVE Inv'
  OBVIOUS
<1>1. PICK c \in Alphabet : DrawStroked!(c)
  BY DEF DrawStroked
<1> DEFINE d == PrimitiveDoc
<1>2. ControlOK' /\ d \in Documents /\ Extends(d, doc) /\ text' \in Texts /\ Here \in Nat
  BY <1>1, BeforeHandler
<1>3. ClipOf(c) \in Identifiers /\ NoId \in Identifiers /\ <<Here>> \in Seq(Nat) /\ 0 \in Nat
  BY <1>2, ClipOfResolves, OwnIds
<1> HIDE DEF d
<1>4. Resolves(d, ClipOf(c)) /\ Resolves(d, NoId)
  BY <1>2, ClipOfResolves, StillResolves DEF Extends, Resolves
<1>5. Extends(doc', d)
  <2>1. doc' = Draw(d, <<Mark(Here, <<Here>>, ClipOf(c), NoId, NoId, 0)>>)
    BY <1>1 DEF d
  <2> QED
    BY <1>2, <1>3, <1>4, <2>1, DrawOneExtends
<1>6. Extends(doc', doc)
  BY <1>2, <1>5, ExtendsTransitive
<1> QED
  BY <1>1, <1>2, <1>6, PartsKept, OthersKept DEF Inv

\* A filled primitive.
LEMMA DrawFilledInv == Inv /\ DrawFilled => Inv'
<1> SUFFICES ASSUME Inv, DrawFilled PROVE Inv'
  OBVIOUS
<1>1. PICK c \in Alphabet : DrawFilled!(c)
  BY DEF DrawFilled
<1>2. ControlOK' /\ text' \in Texts /\ Here \in Nat
  BY <1>1, BeforeHandler
<1>3. ClipOf(c) \in Identifiers /\ Resolves(doc, ClipOf(c)) /\ <<Here>> \in Seq(Nat)
  BY <1>2, ClipOfResolves
<1>4. Extends(doc', doc) /\ FillOK'
  BY <1>1, <1>2, <1>3, FilledDrawing
<1> QED
  BY <1>1, <1>2, <1>4, PartsKept, OthersKept DEF Inv

\* A filled primitive whose fill cannot be resolved.
LEMMA FailFilledInv == Inv /\ FailFilled => Inv'
<1> SUFFICES ASSUME Inv, FailFilled PROVE Inv'
  OBVIOUS
<1>1. PICK c \in Alphabet : FailFilled!(c)
  BY DEF FailFilled
<1>2. ControlOK' /\ Extends(doc', doc) /\ text' \in Texts
  BY <1>1, BeforeHandler
<1> QED
  BY <1>1, <1>2, PartsKept, OthersKept DEF Inv

\* BEGIN FIGURE, and CONNECTING EDGE within it.
LEMMA BeginFigureInv == Inv /\ BeginFigure => Inv'
<1> SUFFICES ASSUME Inv, BeginFigure PROVE Inv'
  OBVIOUS
<1>1. PICK c \in Alphabet : BeginFigure!(c)
  BY DEF BeginFigure
<1>2. ControlOK' /\ Extends(doc', doc) /\ text' \in Texts
  BY <1>1, BeforeHandler DEF FlushesText
<1>3. figure' \in Figures
  <2>1. <<>> \in Seq([at : Nat, joined : BOOLEAN])
    OBVIOUS
  <2>2. figure' = [open |-> TRUE, subpaths |-> <<>>, connect |-> FALSE]
    BY <1>1 DEF NoFigure
  <2> QED
    BY <2>1, <2>2 DEF Figures
<1> QED
  BY <1>1, <1>2, <1>3, PartsKept, OthersKept DEF Inv

LEMMA ConnectingEdgeInv == Inv /\ ConnectingEdge => Inv'
<1> SUFFICES ASSUME Inv, ConnectingEdge PROVE Inv'
  OBVIOUS
<1>1. PICK c \in Alphabet : ConnectingEdge!(c)
  BY DEF ConnectingEdge
<1>2. ControlOK' /\ Extends(doc', doc) /\ text' \in Texts
  BY <1>1, BeforeHandler
<1>3. figure' \in Figures
  BY <1>1 DEF Inv, Figures
<1> QED
  BY <1>1, <1>2, <1>3, PartsKept, OthersKept DEF Inv

\* A closed figure is a figure, and its path a list of commands.
LEMMA FigureType ==
  ASSUME figure \in Figures
  PROVE  ClosedFigure \in Figures /\ FigurePath \in Seq(Nat)
<1> DEFINE Entry == [at : Nat, joined : BOOLEAN]
<1>1. figure.subpaths \in Seq(Entry) /\ <<>> \in Seq(Entry) /\ \A e \in Entry : e.at \in Nat
  BY DEF Figures
<1>2. ClosedFigure \in Figures
  BY <1>1 DEF ClosedFigure, Figures
<1> HIDE DEF Entry
<1>3. /\ DOMAIN figure.subpaths = 1 .. Len(figure.subpaths) /\ Len(figure.subpaths) \in Nat
      /\ \A i \in DOMAIN figure.subpaths : figure.subpaths[i] \in Entry
  BY <1>1
<1>4. FigurePath \in Seq(Nat)
  BY <1>1, <1>3 DEF FigurePath
<1> QED
  BY <1>2, <1>4

\* END FIGURE with nothing to draw.
LEMMA EndFigureInv == Inv /\ EndFigure => Inv'
<1> SUFFICES ASSUME Inv, EndFigure PROVE Inv'
  OBVIOUS
<1>1. PICK c \in Alphabet : EndFigure!(c)
  BY DEF EndFigure
<1>2. ControlOK' /\ Extends(doc', doc) /\ text' \in Texts
  BY <1>1, BeforeHandler DEF FlushesText
<1>3. figure' \in Figures
  BY <1>1, FigureType DEF Inv
<1> QED
  BY <1>1, <1>2, <1>3, PartsKept, OthersKept DEF Inv

\* END FIGURE inside a protection region.
LEMMA EndFigureIntoRegionInv == Inv /\ EndFigureIntoRegion => Inv'
<1> SUFFICES ASSUME Inv, EndFigureIntoRegion PROVE Inv'
  OBVIOUS
<1>1. PICK c \in Alphabet : EndFigureIntoRegion!(c)
  BY DEF EndFigureIntoRegion
<1>2. ControlOK' /\ Extends(doc', doc) /\ text' \in Texts
  BY <1>1, BeforeHandler
<1>3. figure' \in Figures /\ FigurePath \in Seq(Nat)
  BY <1>1, FigureType DEF Inv
<1>4. /\ region \in RegionStates /\ \A r \in Regions : Resolves(doc', region.cached[r])
      /\ Append(region.paths, FigurePath) \in Paths
  BY <1>2, <1>3, PartsKept, PathsType DEF Inv, RegionOK, RegionStates
<1>5. RegionOK'
  BY <1>1, <1>4 DEF RegionOK, RegionStates
<1> QED
  BY <1>1, <1>2, <1>3, <1>5, PartsKept, OthersKept DEF Inv

\* END FIGURE that draws the figure.
LEMMA DrawFigureInv == Inv /\ DrawFigure => Inv'
<1> SUFFICES ASSUME Inv, DrawFigure PROVE Inv'
  OBVIOUS
<1>1. PICK c \in Alphabet : DrawFigure!(c)
  BY DEF DrawFigure
<1>2. ControlOK' /\ text' \in Texts /\ Here \in Nat /\ Extends(PrimitiveDoc, doc)
  BY <1>1, BeforeHandler
<1>3. ClosedFigure \in Figures /\ FigurePath \in Seq(Nat)
  BY FigureType DEF Inv
<1>4. clip.ref \in Identifiers /\ Resolves(doc, clip.ref)
  BY DEF Inv, ClipOK, Clips
<1>5. Extends(doc', doc) /\ FillOK' /\ figure' \in Figures
  <2>1. CASE FillFails
    BY <1>1, <1>2, <2>1, PartsKept DEF Inv
  <2>2. CASE ~FillFails
    <3>1. /\ fill' = EnsuredFill /\ figure' = ClosedFigure
          /\ doc' = Draw(CloseOpenDefs(EnsuredFillDoc(PrimitiveDoc)),
                         <<Mark(Here, FigurePath, clip.ref, FillId, NoId, 0)>>)
      BY <1>1, <2>2
    <3> QED
      BY <1>2, <1>3, <1>4, <3>1, FilledDrawing
  <2> QED
    BY <2>1, <2>2
<1> QED
  BY <1>1, <1>2, <1>5, PartsKept, OthersKept DEF Inv

-----------------------------------------------------------------------------
(* Fill attributes.                                                        *)

\* An attribute command changes the fill and nothing else; it is enough that
\* the ids it keeps were kept before.
LEMMA FillAttribute ==
  ASSUME Inv, NEW c \in Alphabet, Reads(c), Attribute, UNCHANGED text,
         fill' \in Fills,
         \A p \in Patterns : fill'.cached[p] \in {fill.cached[p], NoId}
  PROVE  Inv'
<1>1. ControlOK' /\ Extends(doc, doc)
  BY BeforeHandler DEF Attribute
<1>2. doc' = doc
  BY DEF Attribute
<1>3. FillOK'
  BY <1>2 DEF Inv, FillOK, Resolves
<1> QED
  BY <1>1, <1>2, <1>3, PartsKept, OthersKept DEF Inv, Attribute

\* The five attribute commands.
LEMMA InteriorStyleInv == Inv /\ InteriorStyle => Inv'
<1> SUFFICES ASSUME Inv, InteriorStyle PROVE Inv'
  OBVIOUS
<1>1. PICK c \in Alphabet : InteriorStyle!(c)
  BY DEF InteriorStyle
<1>2. c.style \in {"hollow", "solid", "pattern"}
  BY <1>1, Operands
<1>3. fill' \in Fills /\ fill'.cached = fill.cached
  BY <1>1, <1>2 DEF Inv, FillOK, Fills
<1> QED
  BY <1>1, <1>3, FillAttribute

LEMMA PatternIndexInv == Inv /\ PatternIndex => Inv'
<1> SUFFICES ASSUME Inv, PatternIndex PROVE Inv'
  OBVIOUS
<1>1. PICK c \in Alphabet : PatternIndex!(c)
  BY DEF PatternIndex
<1>2. c.index \in Patterns
  BY <1>1, Operands
<1>3. fill' \in Fills /\ fill'.cached = fill.cached
  BY <1>1, <1>2 DEF Inv, FillOK, Fills
<1> QED
  BY <1>1, <1>3, FillAttribute

LEMMA PatternTableInv == Inv /\ PatternTable => Inv'
<1> SUFFICES ASSUME Inv, PatternTable PROVE Inv'
  OBVIOUS
<1>1. PICK c \in Alphabet : PatternTable!(c)
  BY DEF PatternTable
<1> DEFINE i == c.index
           size == IF fill.sizes[i] = 0 THEN fill.activeSize ELSE fill.sizes[i]
           table == [at |-> Here, valid |-> c.valid]
<1>2. i \in Patterns /\ c.valid \in BOOLEAN /\ Here \in Nat /\ NoId \in Identifiers
  BY <1>1, Operands, ReadsControl DEF Attribute
<1>3. fill' = [fill EXCEPT !.tables = [fill.tables EXCEPT ![i] = table],
                           !.cached = [fill.cached EXCEPT ![i] = NoId],
                           !.last = i,
                           !.sizes = [fill.sizes EXCEPT ![i] = size]]
  BY <1>1
<1>4. fill \in Fills
  BY DEF Inv, FillOK
<1>5. size \in Nat /\ table \in [at : Nat, valid : BOOLEAN]
  BY <1>2, <1>4 DEF Fills
<1> HIDE DEF i, size, table
<1>6. fill' \in Fills /\ fill'.cached = [fill.cached EXCEPT ![i] = NoId]
  BY <1>2, <1>3, <1>4, <1>5 DEF Fills
<1>7. \A p \in Patterns : fill'.cached[p] \in {fill.cached[p], NoId}
  BY <1>4, <1>6 DEF Fills
<1> QED
  BY <1>1, <1>6, <1>7, FillAttribute

LEMMA PatternSizeInv == Inv /\ PatternSize => Inv'
<1> SUFFICES ASSUME Inv, PatternSize PROVE Inv'
  OBVIOUS
<1>1. PICK c \in Alphabet : PatternSize!(c)
  BY DEF PatternSize
<1> DEFINE bound == {p \in Patterns : \/ p = fill.last
                                      \/ fill.tables[p].at # 0 /\ fill.sizes[p] = 0}
           sizes == [p \in Patterns |-> IF p \in bound THEN Here ELSE fill.sizes[p]]
           cached == [p \in Patterns |-> IF p \in bound THEN NoId ELSE fill.cached[p]]
<1>2. Here \in Nat /\ NoId \in Identifiers
  BY <1>1, ReadsControl DEF Attribute
<1>3. fill' = [fill EXCEPT !.sizes = sizes, !.cached = cached, !.activeSize = Here]
  BY <1>1
<1>4. fill \in Fills
  BY DEF Inv, FillOK
<1> HIDE DEF bound
<1>5. /\ sizes \in [Patterns -> Nat] /\ cached \in [Patterns -> Identifiers]
      /\ \A p \in Patterns : cached[p] \in {fill.cached[p], NoId}
  BY <1>2, <1>4 DEF Fills
<1> HIDE DEF sizes, cached
<1>6. fill' \in Fills /\ fill'.cached = cached
  BY <1>2, <1>3, <1>4, <1>5 DEF Fills
<1> QED
  BY <1>1, <1>5, <1>6, FillAttribute

LEMMA FillReferencePointInv == Inv /\ FillReferencePoint => Inv'
<1> SUFFICES ASSUME Inv, FillReferencePoint PROVE Inv'
  OBVIOUS
<1>1. PICK c \in Alphabet : FillReferencePoint!(c)
  BY DEF FillReferencePoint
<1>2. Here \in Nat /\ NoId \in Identifiers
  BY <1>1, ReadsControl DEF Attribute
<1>3. fill' \in Fills /\ fill'.cached = [p \in Patterns |-> NoId]
  BY <1>1, <1>2 DEF Inv, FillOK, Fills
<1> QED
  BY <1>1, <1>3, FillAttribute

-----------------------------------------------------------------------------
(* Text.                                                                   *)

\* TEXT COLOUR.
LEMMA TextColourInv == Inv /\ TextColour => Inv'
<1> SUFFICES ASSUME Inv, TextColour PROVE Inv'
  OBVIOUS
<1>1. PICK c \in Alphabet : TextColour!(c)
  BY DEF TextColour
<1>2. ControlOK' /\ Extends(doc, doc) /\ Here \in Nat
  BY <1>1, BeforeHandler
<1>3. text' \in Texts /\ doc' = doc
  BY <1>1, <1>2 DEF Inv, Texts
<1> QED
  BY <1>1, <1>2, <1>3, PartsKept, OthersKept DEF Inv

\* The segment a text command adds, alone or to those pending.
LEMMA SegmentsType ==
  ASSUME text \in Texts, Here \in Nat
  PROVE  /\ <<Segment(Here)>> \in Seq([at : Nat, colour : Nat])
         /\ Append(text.pending, Segment(Here)) \in Seq([at : Nat, colour : Nat])
         /\ text.colour \in Nat
<1> DEFINE S == [at : Nat, colour : Nat]
<1>1. Segment(Here) \in S /\ text.pending \in Seq(S) /\ text.colour \in Nat
  BY DEF Segment, Texts
<1> HIDE DEF S
<1>2. <<Segment(Here)>> \in Seq(S) /\ Append(text.pending, Segment(Here)) \in Seq(S)
  BY <1>1
<1> QED
  BY <1>1, <1>2 DEF S

\* A text command leaves its segments drawn or pending.
LEMMA PendsSound ==
  ASSUME NEW d \in Documents, NEW segments \in Seq([at : Nat, colour : Nat]),
         NEW final, text \in Texts, Here \in Nat, Pends(d, segments, final)
  PROVE  Extends(doc', d) /\ text' \in Texts
<1>1. CASE final
  <2>1. doc' = Draw(d, TextMarks(segments)) /\ text' = NoPending
    BY <1>1 DEF Pends
  <2> QED
    BY <2>1, DrawTextExtends, FlushExtends
<1>2. CASE ~final
  <2>1. doc' = d /\ text' = [text EXCEPT !.pending = segments]
    BY <1>2 DEF Pends
  <2> QED
    BY <2>1, SameMarks DEF Texts
<1> QED
  BY <1>1, <1>2

\* Text closes <defs> and then, unless it is appended, flushes what is pending.
LEMMA TextDocExtends ==
  ASSUME Inv, Here \in Nat
  PROVE  /\ CloseOpenDefs(doc) \in Documents /\ Extends(CloseOpenDefs(doc), doc)
         /\ Flush(CloseOpenDefs(doc)) \in Documents
         /\ Extends(Flush(CloseOpenDefs(doc)), doc)
<1> DEFINE d == CloseOpenDefs(doc)
<1>1. d \in Documents /\ Extends(d, doc)
  BY CloseOpenDefsType, SameMarks DEF Inv, DocOK
<1> HIDE DEF d
<1>2. Extends(Flush(d), d)
  BY <1>1, FlushExtends DEF Inv
<1>3. Extends(Flush(d), doc) /\ Flush(d) \in Documents
  BY <1>1, <1>2, ExtendsTransitive DEF Extends
<1> QED
  BY <1>1, <1>3 DEF d

LEMMA TextInv == Inv /\ Text => Inv'
<1> SUFFICES ASSUME Inv, Text PROVE Inv'
  OBVIOUS
<1>1. PICK c \in Alphabet : Text!(c)
  BY DEF Text
<1> DEFINE d == Flush(CloseOpenDefs(doc))
<1>2. ControlOK' /\ Here \in Nat /\ text \in Texts
  BY <1>1, BeforeHandler
<1>3. d \in Documents /\ Extends(d, doc)
  BY <1>2, TextDocExtends
<1> HIDE DEF d
<1>4. Pends(d, <<Segment(Here)>>, c.final)
  BY <1>1 DEF d
<1>5. Extends(doc', d) /\ text' \in Texts
  BY <1>2, <1>3, <1>4, SegmentsType, PendsSound
<1>6. Extends(doc', doc)
  BY <1>3, <1>5, ExtendsTransitive
<1> QED
  BY <1>1, <1>2, <1>5, <1>6, PartsKept, OthersKept DEF Inv

LEMMA RestrictedTextInv == Inv /\ RestrictedText => Inv'
<1> SUFFICES ASSUME Inv, RestrictedText PROVE Inv'
  OBVIOUS
<1>1. PICK c \in Alphabet : RestrictedText!(c)
  BY DEF RestrictedText
<1> DEFINE d == Flush(CloseOpenDefs(doc))
           ms == <<Mark(Here, <<Here>>, clip.ref, NoId, NoId, text.colour)>>
<1>2. ControlOK' /\ Here \in Nat /\ text \in Texts /\ NoPending \in Texts
  BY <1>1, BeforeHandler
<1>3. d \in Documents /\ Extends(d, doc)
  BY <1>2, TextDocExtends
<1>4. \/ doc' = Draw(d, ms) /\ text' = NoPending
      \/ Pends(d, <<Segment(Here)>>, FALSE)
  BY <1>1
<1> HIDE DEF d
<1>5. Extends(doc', d) /\ text' \in Texts
  <2>1. CASE doc' = Draw(d, ms) /\ text' = NoPending
    <3>1. clip.ref \in Identifiers /\ Resolves(d, clip.ref) /\ Resolves(d, NoId)
      BY <1>3, StillResolves DEF Inv, ClipOK, Clips, Extends, Resolves
    <3>2. <<Here>> \in Seq(Nat) /\ text.colour \in Nat /\ NoId \in Identifiers
      BY <1>2, SegmentsType, OwnIds
    <3> QED
      BY <1>2, <1>3, <2>1, <3>1, <3>2, DrawOneExtends
  <2>2. CASE Pends(d, <<Segment(Here)>>, FALSE)
    BY <1>2, <1>3, <2>2, SegmentsType, PendsSound
  <2> QED
    BY <1>4, <2>1, <2>2
<1>6. Extends(doc', doc)
  BY <1>3, <1>5, ExtendsTransitive
<1> QED
  BY <1>1, <1>2, <1>5, <1>6, PartsKept, OthersKept DEF Inv

LEMMA AppendTextInv == Inv /\ AppendText => Inv'
<1> SUFFICES ASSUME Inv, AppendText PROVE Inv'
  OBVIOUS
<1>1. PICK c \in Alphabet : AppendText!(c)
  BY DEF AppendText
<1> DEFINE d == CloseOpenDefs(doc)
           segments == Append(text.pending, Segment(Here))
<1>2. ControlOK' /\ Here \in Nat /\ text \in Texts
  BY <1>1, BeforeHandler
<1>3. d \in Documents /\ Extends(d, doc) /\ segments \in Seq([at : Nat, colour : Nat])
  BY <1>2, TextDocExtends, SegmentsType
<1> HIDE DEF d, segments
<1>4. Pends(d, segments, c.final)
  BY <1>1 DEF d, segments
<1>5. Extends(doc', d) /\ text' \in Texts
  BY <1>2, <1>3, <1>4, PendsSound
<1>6. Extends(doc', doc)
  BY <1>3, <1>5, ExtendsTransitive
<1> QED
  BY <1>1, <1>2, <1>5, <1>6, PartsKept, OthersKept DEF Inv

-----------------------------------------------------------------------------
(* Application structures.                                                 *)

\* The stack of structures, by the type of its nodes.
Nodes == [id : Identifiers, attributes : SUBSET AttributeTypes, anchor : BOOLEAN]

LEMMA StructuresFields ==
  ASSUME ApsOK
  PROVE  /\ aps.stack \in Seq(Nodes) /\ aps.attributes \subseteq AttributeTypes
         /\ aps.ids \subseteq Identifiers /\ IsFiniteSet(aps.ids)
         /\ aps = [stack |-> aps.stack, attributes |-> aps.attributes, ids |-> aps.ids]
         /\ Structures = [stack : Seq(Nodes), attributes : SUBSET AttributeTypes,
                          ids : SUBSET Identifiers]
BY DEF ApsOK, Structures, Nodes

\* BEGIN APS gives the structure an identifier of its own.
LEMMA BeginApplicationStructureInv == Inv /\ BeginApplicationStructure => Inv'
<1> SUFFICES ASSUME Inv, BeginApplicationStructure PROVE Inv'
  OBVIOUS
<1>1. PICK c \in Alphabet : BeginApplicationStructure!(c)
  BY DEF BeginApplicationStructure
<1> DEFINE id == Allocated(c.id)
           node == [id |-> id, attributes |-> aps.attributes, anchor |-> FALSE]
<1>2. ControlOK' /\ Extends(doc', doc) /\ text' \in Texts
  BY <1>1, BeforeHandler DEF FlushesText
<1>3. c.id \in Identifiers
  BY <1>1, Operands
<1>4. /\ aps.stack \in Seq(Nodes) /\ aps.attributes \subseteq AttributeTypes
      /\ aps.ids \subseteq Identifiers /\ IsFiniteSet(aps.ids)
  BY StructuresFields DEF Inv
<1>5. id \in Identifiers
  BY <1>3, <1>4, AllocatedIsNew
<1>6. aps' = [aps EXCEPT !.ids = aps.ids \cup {id}, !.stack = Append(aps.stack, node)]
  BY <1>1
<1> HIDE DEF id
<1>7. node \in Nodes
  BY <1>4, <1>5 DEF Nodes
<1> HIDE DEF node
<1>8. Append(aps.stack, node) \in Seq(Nodes) /\ aps.ids \cup {id} \in SUBSET Identifiers
  BY <1>4, <1>5, <1>7
<1>9. IsFiniteSet(aps.ids \cup {id})
  BY <1>4, FS_AddElement
<1>10. aps' = [stack |-> Append(aps.stack, node), attributes |-> aps.attributes,
               ids |-> aps.ids \cup {id}]
  BY <1>6, StructuresFields DEF Inv
<1>11. ApsOK'
  BY <1>4, <1>8, <1>9, <1>10 DEF ApsOK, Structures, Nodes
<1> QED
  BY <1>1, <1>2, <1>11, PartsKept, OthersKept DEF Inv

\* APPLICATION STRUCTURE ATTRIBUTE.
LEMMA ApplicationStructureAttributeInv == Inv /\ ApplicationStructureAttribute => Inv'
<1> SUFFICES ASSUME Inv, ApplicationStructureAttribute PROVE Inv'
  OBVIOUS
<1>1. PICK c \in Alphabet : ApplicationStructureAttribute!(c)
  BY DEF ApplicationStructureAttribute
<1>2. ControlOK' /\ Extends(doc', doc) /\ text' \in Texts
  BY <1>1, BeforeHandler DEF FlushesText
<1>3. c.type \in AttributeTypes
  BY <1>1, Operands
<1>4. aps' = [aps EXCEPT !.attributes = aps.attributes \cup {c.type}]
  BY <1>1
<1>5. ApsOK'
  BY <1>3, <1>4, StructuresFields DEF Inv, ApsOK, Structures
<1> QED
  BY <1>1, <1>2, <1>5, PartsKept, OthersKept DEF Inv

\* The group of a structure.
LEMMA OpenGroupExtends ==
  ASSUME NEW d \in Documents, NEW id \in Identifiers, NEW linked \in BOOLEAN
  PROVE  Extends(OpenGroup(d, id, linked), d)
<1> DEFINE e == CloseOpenDefs(d)
           f == Open(e, "g")
           g == WriteId(f, id)
           h == Open(g, "a")
<1>1. "g" \in Tags /\ "a" \in Tags
  BY DEF Tags
<1>2. e \in Documents /\ e.defs = d.defs /\ e.marks = d.marks
  BY CloseOpenDefsType
<1> HIDE DEF e
<1>3. f \in Documents /\ f.defs = d.defs /\ f.marks = d.marks
  BY <1>1, <1>2, OpenType
<1> HIDE DEF f
<1>4. g \in Documents /\ g.defs = d.defs /\ g.marks = d.marks
  BY <1>3, WriteIdType
<1> HIDE DEF g
<1>5. h \in Documents /\ h.defs = d.defs /\ h.marks = d.marks
  BY <1>1, <1>4, OpenType
<1>6. OpenGroup(d, id, linked) \in {g, h}
  BY DEF OpenGroup, e, f, g
<1> QED
  BY <1>4, <1>5, <1>6, SameMarks

LEMMA CloseGroupExtends ==
  ASSUME NEW d \in Documents, NEW linked \in BOOLEAN
  PROVE  Extends(CloseGroup(d, linked), d)
<1> DEFINE e == IF linked THEN Close(d, "a") ELSE d
<1>1. "g" \in Tags /\ "a" \in Tags
  BY DEF Tags
<1>2. e \in Documents /\ e.defs = d.defs /\ e.marks = d.marks
  BY <1>1, CloseType
<1>3. CloseGroup(d, linked) = Close(e, "g")
  BY DEF CloseGroup
<1> HIDE DEF e
<1>4. /\ Close(e, "g") \in Documents
      /\ Close(e, "g").defs = d.defs /\ Close(e, "g").marks = d.marks
  BY <1>1, <1>2, CloseType
<1> QED
  BY <1>3, <1>4, SameMarks

\* BEGIN APS BODY.
LEMMA BeginApplicationStructureBodyInv == Inv /\ BeginApplicationStructureBody => Inv'
<1> SUFFICES ASSUME Inv, BeginApplicationStructureBody PROVE Inv'
  OBVIOUS
<1>1. PICK c \in Alphabet : BeginApplicationStructureBody!(c)
  BY DEF BeginApplicationStructureBody
<1>2. /\ ControlOK' /\ text' \in Texts
      /\ Flush(doc) \in Documents /\ Extends(Flush(doc), doc)
  BY <1>1, BeforeHandler
<1>3. Extends(doc', doc) /\ ApsOK'
  <2>1. CASE aps.stack = <<>>
    BY <1>1, <1>2, <2>1 DEF Inv, ApsOK
  <2>2. CASE aps.stack # <<>>
    <3> DEFINE linked == "linkuri" \in aps.attributes
               n == Len(aps.stack)
               node == [aps.stack[n] EXCEPT !.attributes = aps.attributes, !.anchor = linked]
    <3>1. /\ doc' = OpenGroup(Flush(doc), Top.id, linked)
          /\ aps' = [aps EXCEPT !.attributes = {},
                                !.stack = [aps.stack EXCEPT ![n] = node]]
      BY <1>1, <2>2
    <3>2. /\ aps.stack \in Seq(Nodes) /\ aps.attributes \subseteq AttributeTypes
          /\ aps.ids \subseteq Identifiers /\ IsFiniteSet(aps.ids)
      BY StructuresFields DEF Inv
    <3>3. aps.stack[n] \in Nodes /\ n \in 1 .. Len(aps.stack) /\ linked \in BOOLEAN
      BY <2>2, <3>2
    <3>4. node \in Nodes /\ Top.id \in Identifiers
      BY <3>2, <3>3 DEF Nodes, Top
    <3> HIDE DEF node, linked, n
    <3>5. [aps.stack EXCEPT ![n] = node] \in Seq(Nodes)
      BY <3>2, <3>3, <3>4
    <3>6. ApsOK'
      <4>1. aps' = [stack |-> [aps.stack EXCEPT ![n] = node], attributes |-> {}, ids |-> aps.ids]
        BY <3>1, StructuresFields DEF Inv
      <4> QED
        BY <3>2, <3>5, <4>1 DEF ApsOK, Structures, Nodes
    <3>7. Extends(doc', Flush(doc))
      BY <1>2, <3>1, <3>3, <3>4, OpenGroupExtends
    <3> QED
      BY <1>2, <3>6, <3>7, ExtendsTransitive
  <2> QED
    BY <2>1, <2>2
<1> QED
  BY <1>1, <1>2, <1>3, PartsKept, OthersKept DEF Inv

\* END APS.
LEMMA EndApplicationStructureInv == Inv /\ EndApplicationStructure => Inv'
<1> SUFFICES ASSUME Inv, EndApplicationStructure PROVE Inv'
  OBVIOUS
<1>1. PICK c \in Alphabet : EndApplicationStructure!(c)
  BY DEF EndApplicationStructure
<1>2. /\ ControlOK' /\ text' \in Texts
      /\ Flush(doc) \in Documents /\ Extends(Flush(doc), doc)
  BY <1>1, BeforeHandler
<1>3. Extends(doc', doc) /\ ApsOK'
  <2>1. CASE aps.stack = <<>>
    BY <1>1, <1>2, <2>1 DEF Inv, ApsOK
  <2>2. CASE aps.stack # <<>>
    <3> DEFINE n == Len(aps.stack)
               rest == SubSeq(aps.stack, 1, n - 1)
    <3>1. /\ doc' = CloseGroup(Flush(doc), Top.anchor)
          /\ aps' = [aps EXCEPT !.stack = rest]
      BY <1>1, <2>2
    <3>2. /\ aps.stack \in Seq(Nodes) /\ aps.attributes \subseteq AttributeTypes
          /\ aps.ids \subseteq Identifiers /\ IsFiniteSet(aps.ids)
      BY StructuresFields DEF Inv
    <3>3. aps.stack[n] \in Nodes /\ rest \in Seq(Nodes)
      BY <2>2, <3>2
    <3>4. Top.anchor \in BOOLEAN
      BY <3>3 DEF Nodes, Top
    <3> HIDE DEF rest, n
    <3>5. ApsOK'
      <4>1. aps' = [stack |-> rest, attributes |-> aps.attributes, ids |-> aps.ids]
        BY <3>1, StructuresFields DEF Inv
      <4> QED
        BY <3>2, <3>3, <4>1 DEF ApsOK, Structures, Nodes
    <3>6. Extends(doc', Flush(doc))
      BY <1>2, <3>1, <3>4, CloseGroupExtends
    <3> QED
      BY <1>2, <3>5, <3>6, ExtendsTransitive
  <2> QED
    BY <2>1, <2>2
<1> QED
  BY <1>1, <1>2, <1>3, PartsKept, OthersKept DEF Inv

-----------------------------------------------------------------------------
(* Symbols.                                                                *)

\* SYMBOL LIBRARY LIST.
LEMMA SymbolLibraryListInv == Inv /\ SymbolLibraryList => Inv'
<1> SUFFICES ASSUME Inv, SymbolLibraryList PROVE Inv'
  OBVIOUS
<1>1. PICK c \in Alphabet : SymbolLibraryList!(c)
  BY DEF SymbolLibraryList
<1>2. ControlOK' /\ Extends(doc', doc) /\ text' \in Texts
  BY <1>1, BeforeHandler DEF FlushesText
<1>3. c.names \in Seq(Symbols) /\ NoId \in Identifiers
  BY <1>1, Operands, OwnIds
<1>4. SymbolsOK'
  BY <1>1, <1>3 DEF Inv, SymbolsOK, SymbolStates
<1> QED
  BY <1>1, <1>2, <1>4, PartsKept, OthersKept DEF Inv

\* The id of the group of a placement.
LEMMA PlacementIdType == SymbolsOK => PlacementId \in Identifiers
<1>1. SymbolsOK => symbols.placed + 1 \in Nat
  BY DEF SymbolsOK, SymbolStates
<1> QED
  BY <1>1 DEF PlacementId, Identifiers, Words

\* The group of a placement, opened.
PlacementGroup(d) == WriteId(Open(d, "g"), PlacementId)

LEMMA PlacementGroupType ==
  ASSUME NEW d \in Documents, SymbolsOK
  PROVE  /\ PlacementGroup(d) \in Documents
         /\ PlacementGroup(d).marks = d.marks /\ PlacementGroup(d).defs = d.defs
         /\ PlacementGroup(d).tags = Append(d.tags, "g")
         /\ PlacementGroup(d).defsOpen = d.defsOpen
         /\ PlacementGroup(d).malformed = d.malformed
         /\ PlacementGroup(d).ids = d.ids \cup {PlacementId}
         /\ PlacementGroup(d).reused = (d.reused \/ PlacementId \in d.ids)
         /\ "g" \in Tags
<1> DEFINE f == Open(d, "g")
<1>1. "g" \in Tags
  BY DEF Tags
<1>2. f \in Documents /\ f.marks = d.marks /\ f.defs = d.defs
  BY <1>1, OpenType
<1>3. /\ f.tags = Append(d.tags, "g") /\ f.defsOpen = d.defsOpen /\ f.malformed = d.malformed
      /\ f.ids = d.ids /\ f.reused = d.reused
  BY DEF Open, Documents
<1> HIDE DEF f
<1>4. /\ WriteId(f, PlacementId) \in Documents
      /\ WriteId(f, PlacementId).marks = f.marks /\ WriteId(f, PlacementId).defs = f.defs
  BY <1>2, PlacementIdType, WriteIdType
<1>5. /\ WriteId(f, PlacementId).tags = f.tags /\ WriteId(f, PlacementId).defsOpen = f.defsOpen
      /\ WriteId(f, PlacementId).malformed = f.malformed
      /\ WriteId(f, PlacementId).ids = f.ids \cup {PlacementId}
      /\ WriteId(f, PlacementId).reused = (f.reused \/ PlacementId \in f.ids)
  BY <1>2 DEF WriteId, Documents
<1>6. PlacementGroup(d) = WriteId(f, PlacementId)
  BY DEF PlacementGroup, f
<1> QED
  BY <1>1, <1>2, <1>3, <1>4, <1>5, <1>6

\* The group and the reference that place a symbol.
LEMMA DrawSymbolExtends ==
  ASSUME NEW d \in Documents, NEW id \in Identifiers, Here \in Nat, SymbolsOK
  PROVE  Extends(Close(DrawSymbol(d, id), "g"), d)
<1> DEFINE e == PlacementGroup(d)
           f == Draw(e, <<Mark(Here, <<Here>>, NoId, NoId, id, 0)>>)
<1>1. "g" \in Tags
  BY DEF Tags
<1>2. e \in Documents /\ Extends(e, d)
  BY PlacementGroupType, SameMarks
<1> HIDE DEF e
<1>3. <<Here>> \in Seq(Nat) /\ NoId \in Identifiers /\ 0 \in Nat /\ Resolves(e, NoId)
  BY OwnIds DEF Resolves
<1>4. Extends(f, e)
  BY <1>2, <1>3, DrawOneExtends
<1>5. DrawSymbol(d, id) = f
  BY DEF DrawSymbol, PlacementGroup, e
<1> HIDE DEF f
<1>6. f \in Documents
  BY <1>4 DEF Extends
<1>7. Extends(Close(f, "g"), f)
  BY <1>1, <1>6, CloseType, SameMarks
<1> QED
  BY <1>2, <1>4, <1>5, <1>7, ExtendsTransitive

\* An index that is resolved names a symbol.
LEMMA NameType ==
  ASSUME SymbolsOK, NEW index \in Int, Resolved(index)
  PROVE  Name(index) \in Symbols
<1>1. Libraries \in Seq(Symbols)
  BY DEF SymbolsOK, SymbolStates, Libraries
<1>2. Len(Libraries) \in Nat \ {0} /\ index \in 0 .. Len(Libraries)
  BY <1>1 DEF Resolved
<1>3. CASE index < Len(Libraries)
  BY <1>1, <1>2, <1>3 DEF Name
<1>4. CASE ~(index < Len(Libraries))
  BY <1>1, <1>2, <1>4 DEF Name
<1> QED
  BY <1>3, <1>4

\* One symbol more is placed.
LEMMA PlacedType ==
  ASSUME SymbolsOK, symbols' = [symbols EXCEPT !.placed = @ + 1]
  PROVE  /\ SymbolsOK'
         /\ symbols'.ids = symbols.ids /\ symbols'.libraries = symbols.libraries
         /\ symbols'.emitted = symbols.emitted /\ symbols'.placed = symbols.placed + 1
<1>1. symbols \in SymbolStates /\ IsFiniteSet(symbols.emitted)
  BY DEF SymbolsOK
<1>2. /\ symbols' \in SymbolStates
      /\ symbols'.ids = symbols.ids /\ symbols'.libraries = symbols.libraries
      /\ symbols'.emitted = symbols.emitted /\ symbols'.placed = symbols.placed + 1
  BY <1>1 DEF SymbolStates
<1> QED
  BY <1>1, <1>2 DEF SymbolsOK

\* POLYSYMBOL.
LEMMA PolySymbolInv == Inv /\ PolySymbol => Inv'
<1> SUFFICES ASSUME Inv, PolySymbol PROVE Inv'
  OBVIOUS
<1>1. PICK c \in Alphabet : PolySymbol!(c)
  BY DEF PolySymbol
<1> DEFINE d == PrimitiveDoc
           s == Name(c.index)
           new == SymbolId(s)
<1>2. /\ ControlOK' /\ text' \in Texts /\ Here \in Nat
      /\ d \in Documents /\ Extends(d, doc)
  BY <1>1, BeforeHandler
<1>3. c.index \in Int /\ SymbolsOK /\ NoId \in Identifiers
  BY <1>1, Operands, OwnIds DEF Inv
<1> HIDE DEF d
<1>4. Extends(doc', d) /\ SymbolsOK'
  <2>1. CASE ~Resolved(c.index)
    <3>1. doc' = Close(DrawSymbol(d, NoId), "g") /\ symbols' = [symbols EXCEPT !.placed = @ + 1]
      BY <1>1, <2>1 DEF d
    <3> QED
      BY <1>2, <1>3, <3>1, DrawSymbolExtends, PlacedType
  <2>2. CASE Resolved(c.index) /\ symbols.ids[s] # NoId
    <3>1. /\ doc' = Close(DrawSymbol(d, symbols.ids[s]), "g")
          /\ symbols' = [symbols EXCEPT !.placed = @ + 1]
      BY <1>1, <2>2 DEF d
    <3>2. symbols.ids[s] \in Identifiers
      BY <1>3, <2>2, NameType DEF SymbolsOK, SymbolStates
    <3> QED
      BY <1>2, <1>3, <3>1, <3>2, DrawSymbolExtends, PlacedType
  <2>3. CASE Resolved(c.index) /\ symbols.ids[s] = NoId
    <3> DEFINE e == Define(d, new, [symbol |-> s])
    <3>1. /\ doc' = Close(DrawSymbol(e, new), "g")
          /\ symbols' = [symbols EXCEPT !.ids = [symbols.ids EXCEPT ![s] = new],
                                        !.emitted = symbols.emitted \cup {new},
                                        !.placed = symbols.placed + 1]
      BY <1>1, <2>3 DEF d
    <3>2. s \in Symbols
      BY <1>3, <2>3, NameType
    <3>3. IsFiniteSet(symbols.emitted)
      BY <1>3 DEF SymbolsOK
    <3>4. new \in Identifiers
      BY <3>2, <3>3, SymbolIdIsNew
    <3>5. [symbol |-> s] \in Contents
      BY <3>2 DEF Contents
    <3> HIDE DEF s, new
    <3>6. e \in Documents /\ Extends(e, d)
      BY <1>2, <3>4, <3>5, DefineExtends DEF Extends
    <3> HIDE DEF e
    <3>7. Extends(doc', e)
      BY <1>2, <1>3, <3>1, <3>4, <3>6, DrawSymbolExtends
    <3>8. /\ [symbols.ids EXCEPT ![s] = new] \in [Symbols -> Identifiers]
          /\ symbols.emitted \cup {new} \in SUBSET Identifiers
      BY <1>3, <3>2, <3>4 DEF SymbolsOK, SymbolStates
    <3>9. IsFiniteSet(symbols.emitted \cup {new})
      BY <3>3, FS_AddElement
    <3>10. symbols' \in SymbolStates /\ symbols'.emitted = symbols.emitted \cup {new}
      <4> DEFINE ids == [symbols.ids EXCEPT ![s] = new]
                 emitted == symbols.emitted \cup {new}
      <4>1. ids \in [Symbols -> Identifiers] /\ emitted \in SUBSET Identifiers
        BY <3>8
      <4>2. symbols' = [symbols EXCEPT !.ids = ids, !.emitted = emitted, !.placed = symbols.placed + 1]
        BY <3>1
      <4> HIDE DEF ids, emitted
      <4>3. symbols \in SymbolStates /\ symbols.placed + 1 \in Nat
        BY <1>3 DEF SymbolsOK, SymbolStates
      <4>4. symbols' \in SymbolStates /\ symbols'.emitted = emitted
        BY <4>1, <4>2, <4>3 DEF SymbolStates
      <4> QED
        BY <4>4 DEF emitted
    <3> QED
      BY <3>6, <3>7, <3>9, <3>10, ExtendsTransitive DEF SymbolsOK
  <2> QED
    BY <2>1, <2>2, <2>3
<1>5. Extends(doc', doc)
  BY <1>2, <1>4, ExtendsTransitive
<1> QED
  BY <1>1, <1>2, <1>4, <1>5, PartsKept, OthersKept DEF Inv

-----------------------------------------------------------------------------
(* Pictures and conversions.                                               *)

\* What resetPictureState sets refers to nothing.
LEMMA FreshType ==
  ASSUME NEW d, NEW clipsMade \in Nat, NEW patternsMade \in Nat
  PROVE  /\ FreshClip(clipsMade) \in Clips /\ FreshRegion \in RegionStates
         /\ FreshFill(patternsMade) \in Fills /\ FreshText \in Texts
         /\ Resolves(d, FreshClip(clipsMade).ref)
         /\ \A r \in Rects : Resolves(d, FreshClip(clipsMade).cached[r])
         /\ \A r \in Regions : Resolves(d, FreshRegion.cached[r])
         /\ \A p \in Patterns : Resolves(d, FreshFill(patternsMade).cached[p])
<1>1. NoId \in Identifiers /\ <<>> \in Paths
  BY OwnIds, PathsType
<1>2. FreshClip(clipsMade) \in Clips
  BY <1>1 DEF FreshClip, Clips
<1>3. FreshRegion \in RegionStates
  BY <1>1 DEF FreshRegion, RegionStates
<1>4. FreshFill(patternsMade) \in Fills
  BY <1>1, IndexAssumption DEF FreshFill, Fills
<1>5. FreshText \in Texts
  <2>1. <<>> \in Seq([at : Nat, colour : Nat])
    OBVIOUS
  <2> QED
    BY <2>1 DEF FreshText, Texts
<1>6. /\ FreshClip(clipsMade).ref = NoId
      /\ FreshClip(clipsMade).cached = [r \in Rects |-> NoId]
      /\ FreshRegion.cached = [r \in Regions |-> NoId]
      /\ FreshFill(patternsMade).cached = [p \in Patterns |-> NoId]
  BY DEF FreshClip, FreshRegion, FreshFill
<1>7. Resolves(d, NoId)
  BY DEF Resolves
<1> QED
  BY <1>2, <1>3, <1>4, <1>5, <1>6, <1>7

LEMMA ResetSound ==
  ASSUME NEW clipsMade \in Nat, NEW patternsMade \in Nat,
         ResetPictureState(clipsMade, patternsMade)
  PROVE  ClipOK' /\ RegionOK' /\ FillOK' /\ text' \in Texts
BY FreshType DEF ResetPictureState, ClipOK, RegionOK, FillOK

\* An empty document has no reference to resolve.
LEMMA FreshDocOK ==
  ASSUME NEW open \in BOOLEAN
  PROVE  FreshDoc(open) \in Documents /\ MarksResolve(FreshDoc(open))
<1>1. FreshDoc(open) \in Documents /\ FreshDoc(open).marks = <<>>
  BY FreshDocType
<1>2. DOMAIN FreshDoc(open).marks = {}
  BY <1>1
<1> QED
  BY <1>1, <1>2 DEF MarksResolve

\* The states a converter starts in.
LEMMA InitInv == Init => Inv
<1> SUFFICES ASSUME Init PROVE Inv
  OBVIOUS
<1>1. ControlOK
  <2>1. /\ phase = "idle" /\ runs = 0 /\ file = <<>> /\ complete = FALSE /\ cursor = 0
    BY DEF Init
  <2>2. file \in Seq(Alphabet) /\ cursor \in 0 .. Len(file)
    BY <2>1
  <2>3. phase \in {"idle", "converting", "done", "failed"} /\ runs \in Nat
    BY <2>1
  <2>4. complete \in BOOLEAN
    BY <2>1
  <2> QED
    BY <2>2, <2>3, <2>4, Zenon DEF ControlOK
<1>2. DocOK
  BY FreshDocOK DEF Init, DocOK
<1>3. picture \in PictureStates
  <2>1. DeclaresBackground \in BOOLEAN
    BY DEF DeclaresBackground
  <2>2. \E e \in {FALSE, DeclaresBackground} : picture = FreshPicture(-1, e)
    BY DEF Init
  <2>3. \A e \in BOOLEAN : FreshPicture(-1, e) \in PictureStates
    BY DEF FreshPicture, PictureStates
  <2> QED
    BY <2>1, <2>2, <2>3, Zenon
<1>4. ClipOK /\ RegionOK /\ FillOK /\ text \in Texts
  BY FreshType DEF Init, ClipOK, RegionOK, FillOK
<1>5. figure \in Figures
  <2>1. <<>> \in Seq([at : Nat, joined : BOOLEAN])
    OBVIOUS
  <2> QED
    BY <2>1 DEF Init, NoFigure, Figures
<1>6. ApsOK
  <2>1. <<>> \in Seq(Nodes)
    OBVIOUS
  <2>2. aps = [stack |-> <<>>, attributes |-> {}, ids |-> {}]
    BY DEF Init, FreshAps
  <2>3. aps \in Structures
    BY <2>1, <2>2 DEF Structures, Nodes
  <2> QED
    BY <2>2, <2>3, FS_EmptySet DEF ApsOK
<1>7. SymbolsOK
  <2>1. <<>> \in Seq(Symbols) /\ NoId \in Identifiers
    BY OwnIds
  <2>2. symbols = [libraries |-> <<>>, ids |-> [s \in Symbols |-> NoId],
                   emitted |-> {}, placed |-> 0]
    BY DEF Init, NoSymbols
  <2>3. symbols \in SymbolStates
    BY <2>1, <2>2 DEF SymbolStates
  <2> QED
    BY <2>2, <2>3, FS_EmptySet DEF SymbolsOK
<1> QED
  BY <1>1, <1>2, <1>3, <1>4, <1>5, <1>6, <1>7 DEF Inv

\* A document that starts again forgets the ids of its structures.
LEMMA ForgottenIds ==
  ASSUME ApsOK, aps' = [aps EXCEPT !.ids = {}]
  PROVE  ApsOK'
BY FS_EmptySet DEF ApsOK, Structures

LEMMA ConvertInv == Inv /\ Convert => Inv'
<1> SUFFICES ASSUME Inv, Convert PROVE Inv'
  OBVIOUS
<1>1. ControlOK'
  <2>1. /\ phase' = "converting" /\ runs' = runs + 1 /\ cursor' = 0
        /\ UNCHANGED <<file, complete>>
    BY DEF Convert
  <2>2. runs \in Nat /\ file \in Seq(Alphabet) /\ complete \in BOOLEAN
    BY DEF Inv, ControlOK
  <2>3. Len(file) \in Nat
    BY <2>2
  <2> QED
    BY <2>1, <2>2, <2>3 DEF ControlOK
<1>2. DocOK'
  BY FreshDocOK DEF Inv, DocOK, Documents, Convert
<1>3. (picture \in PictureStates)'
  BY DEF Inv, Convert, FreshPicture, PictureStates
<1>4. ClipOK' /\ RegionOK' /\ FillOK' /\ text' \in Texts
  <2>1. fill.made \in Nat
    BY DEF Inv, FillOK, Fills
  <2> QED
    BY <2>1, ResetSound DEF Convert
<1>5. ApsOK' /\ (figure \in Figures)' /\ SymbolsOK'
  BY ForgottenIds, OthersKept DEF Inv, Convert
<1> QED
  BY <1>1, <1>2, <1>3, <1>4, <1>5 DEF Inv

LEMMA EndOfFileInv == Inv /\ EndOfFile => Inv'
<1> SUFFICES ASSUME Inv, EndOfFile PROVE Inv'
  OBVIOUS
<1> DEFINE d == Flush(doc)
           e == CloseOpenDefs(d)
<1>1. ControlOK' /\ Here \in Nat
  <2>1. phase' = "done" /\ complete' = TRUE /\ UNCHANGED <<runs, file, cursor>>
    BY DEF EndOfFile
  <2>2. ControlOK
    BY DEF Inv
  <2>3. Here \in Nat
    BY <2>2 DEF ControlOK, Here
  <2> QED
    BY <2>1, <2>2, <2>3 DEF ControlOK
<1>2. e \in Documents /\ Extends(e, doc) /\ NoPending \in Texts
  BY <1>1, FlushExtends DEF Inv, DocOK, Extends
<1> HIDE DEF e
<1>3. Extends(Close(e, "svg"), e)
  <2>1. "svg" \in Tags
    BY DEF Tags
  <2> QED
    BY <1>2, <2>1, CloseType, SameMarks
<1>4. Extends(doc', doc) /\ text' \in Texts
  <2>1. doc' = Close(e, "svg") /\ text' = NoPending
    BY DEF EndOfFile, e
  <2> QED
    BY <1>2, <1>3, <2>1, ExtendsTransitive
<1> QED
  BY <1>1, <1>4, PartsKept, OthersKept DEF Inv, EndOfFile

\* BEGIN PICTURE, in the document of the conversion or in a new one.
LEMMA BeginPictureInv == Inv /\ BeginPicture => Inv'
<1> SUFFICES ASSUME Inv, BeginPicture PROVE Inv'
  OBVIOUS
<1>1. PICK c \in Alphabet : BeginPicture!(c)
  BY DEF BeginPicture
<1>2. ControlOK' /\ Extends(Flush(doc), doc)
  BY <1>1, BeforeHandler
<1>3. (picture \in PictureStates)' /\ (figure \in Figures)'
  <2>1. picture' = FreshPicture(picture.index + 1, picture.explicit) /\ figure' = figure
    BY <1>1
  <2>2. picture' \in PictureStates
    BY <2>1 DEF Inv, FreshPicture, PictureStates
  <2> QED
    BY <2>1, <2>2, OthersKept
<1>4. clip.made \in Nat /\ fill.made \in Nat
  BY DEF Inv, ClipOK, Clips, FillOK, Fills
<1>5. CASE picture.index + 1 > 0
  <2>1. /\ doc' = FreshDoc(FALSE) /\ ResetPictureState(0, 0)
        /\ aps' = [aps EXCEPT !.ids = {}]
        /\ symbols' = [symbols EXCEPT !.ids = [s \in Symbols |-> NoId],
                                      !.emitted = {}, !.placed = 0]
    BY <1>1, <1>5
  <2>2. DocOK'
    BY <2>1, FreshDocOK DEF DocOK
  <2>3. ClipOK' /\ RegionOK' /\ FillOK' /\ text' \in Texts
    BY <2>1, ResetSound
  <2>4. ApsOK'
    BY <2>1, ForgottenIds DEF Inv
  <2>5. symbols' \in SymbolStates /\ symbols'.emitted = {}
    BY <2>1, OwnIds DEF Inv, SymbolsOK, SymbolStates
  <2>6. SymbolsOK'
    BY <2>5, FS_EmptySet DEF SymbolsOK
  <2> QED
    BY <1>2, <1>3, <2>2, <2>3, <2>4, <2>6 DEF Inv
<1>6. CASE ~(picture.index + 1 > 0)
  <2>1. /\ doc' = Flush(doc) /\ ResetPictureState(clip.made, fill.made)
        /\ UNCHANGED <<aps, symbols>>
    BY <1>1, <1>6
  <2>2. DocOK' /\ ApsOK' /\ SymbolsOK'
    BY <1>2, <2>1, PartsKept, OthersKept
  <2>3. ClipOK' /\ RegionOK' /\ FillOK' /\ text' \in Texts
    BY <1>4, <2>1, ResetSound
  <2> QED
    BY <1>2, <1>3, <2>2, <2>3 DEF Inv
<1> QED
  BY <1>5, <1>6

\* BEGIN PICTURE BODY, which may paint the canvas.
LEMMA BeginPictureBodyInv == Inv /\ BeginPictureBody => Inv'
<1> SUFFICES ASSUME Inv, BeginPictureBody PROVE Inv'
  OBVIOUS
<1>1. PICK c \in Alphabet : BeginPictureBody!(c)
  BY DEF BeginPictureBody
<1> DEFINE d == Flush(doc)
           ms == <<Mark(Here, <<Here>>, NoId, NoId, NoId, picture.zero)>>
<1>2. /\ ControlOK' /\ text' \in Texts /\ Here \in Nat
      /\ d \in Documents /\ Extends(d, doc)
  BY <1>1, BeforeHandler
<1>3. doc' = d \/ doc' = Draw(d, ms)
  BY <1>1
<1> HIDE DEF d
<1>4. Extends(Draw(d, ms), d)
  <2>1. /\ <<Here>> \in Seq(Nat) /\ NoId \in Identifiers /\ Resolves(d, NoId)
        /\ picture.zero \in Nat
    BY <1>2, OwnIds DEF Resolves, Inv, PictureStates
  <2> QED
    BY <1>2, <2>1, DrawOneExtends
<1>5. Extends(doc', doc)
  BY <1>2, <1>3, <1>4, ExtendsTransitive
<1> QED
  BY <1>1, <1>2, <1>5, PartsKept, OthersKept DEF Inv

\* END PICTURE turns off the clip and forgets the regions.
LEMMA EndPictureInv == Inv /\ EndPicture => Inv'
<1> SUFFICES ASSUME Inv, EndPicture PROVE Inv'
  OBVIOUS
<1>1. PICK c \in Alphabet : EndPicture!(c)
  BY DEF EndPicture
<1>2. ControlOK' /\ text' \in Texts /\ Extends(doc', doc) /\ NoId \in Identifiers
  BY <1>1, BeforeHandler, OwnIds DEF FlushesText
<1>3. ClipOK'
  <2>1. clip' = [clip EXCEPT !.enabled = FALSE, !.ref = NoId] /\ clip \in Clips
    BY <1>1 DEF Inv, ClipOK
  <2>2. \A r \in Rects : Resolves(doc', clip.cached[r])
    BY <1>2, PartsKept DEF Inv, ClipOK
  <2> QED
    BY <1>2, <2>1, <2>2 DEF ClipOK, Clips, Resolves
<1>4. RegionOK'
  <2>1. /\ region' = [FreshRegion EXCEPT !.indicator = region.indicator,
                                         !.active = region.active]
        /\ region \in RegionStates
    BY <1>1 DEF Inv, RegionOK
  <2>2. FreshRegion \in RegionStates /\ \A r \in Regions : Resolves(doc', FreshRegion.cached[r])
    BY FreshType
  <2>3. region' \in RegionStates /\ region'.cached = FreshRegion.cached
    BY <2>1, <2>2 DEF RegionStates
  <2> QED
    BY <2>2, <2>3 DEF RegionOK
<1> QED
  BY <1>1, <1>2, <1>3, <1>4, PartsKept, OthersKept DEF Inv

\* The colours of a picture.
LEMMA BackgroundColourInv == Inv /\ BackgroundColour => Inv'
<1> SUFFICES ASSUME Inv, BackgroundColour PROVE Inv'
  OBVIOUS
<1>1. PICK c \in Alphabet : BackgroundColour!(c)
  BY DEF BackgroundColour
<1>2. ControlOK' /\ text' \in Texts /\ Extends(doc', doc)
  BY <1>1, BeforeHandler DEF FlushesText
<1>3. c.colour \in Nat
  BY <1>1, Operands
<1>4. picture' \in PictureStates
  BY <1>1, <1>3 DEF Inv, PictureStates
<1> QED
  BY <1>1, <1>2, <1>4, PartsKept, OthersKept DEF Inv

LEMMA ColourTableInv == Inv /\ ColourTable => Inv'
<1> SUFFICES ASSUME Inv, ColourTable PROVE Inv'
  OBVIOUS
<1>1. PICK c \in Alphabet : ColourTable!(c)
  BY DEF ColourTable
<1>2. ControlOK' /\ Extends(doc, doc) /\ doc' = doc
  BY <1>1, BeforeHandler
<1>3. c.colour \in Nat
  BY <1>1, Operands
<1>4. picture' \in PictureStates
  BY <1>1, <1>3 DEF Inv, PictureStates
<1> QED
  BY <1>1, <1>2, <1>4, PartsKept, OthersKept DEF Inv

\* A segment element, ignored or refused.
LEMMA SegmentElementInv == Inv /\ SegmentElement => Inv'
<1> SUFFICES ASSUME Inv, SegmentElement PROVE Inv'
  OBVIOUS
<1>1. PICK c \in Alphabet : SegmentElement!(c)
  BY DEF SegmentElement
<1>2. ControlOK' /\ Extends(doc, doc) /\ doc' = doc
  BY <1>1, BeforeHandler
<1> QED
  BY <1>1, <1>2, PartsKept, OthersKept DEF Inv

-----------------------------------------------------------------------------
(* The theorems.                                                           *)

\* Every step keeps the invariant.
LEMMA NextInv == Inv /\ [Next]_vars => Inv'
<1> SUFFICES ASSUME Inv, [Next]_vars PROVE Inv'
  OBVIOUS
<1>1. CASE Conversion
  BY <1>1, ConvertInv, EndOfFileInv DEF Conversion
<1>2. CASE Pictures
  BY <1>2, BeginPictureInv, BeginPictureBodyInv, EndPictureInv,
     BackgroundColourInv, ColourTableInv, SegmentElementInv DEF Pictures
<1>3. CASE Clipping
  BY <1>3, ClipRectangleInv, ClipIndicatorInv, BeginProtectionRegionInv,
     EndProtectionRegionInv, ProtectionRegionIndicatorInv DEF Clipping
<1>4. CASE Drawing
  BY <1>4, PrimitiveIntoFigureInv, PrimitiveIntoRegionInv, DrawStrokedInv,
     DrawFilledInv, FailFilledInv, BeginFigureInv, ConnectingEdgeInv,
     EndFigureInv, EndFigureIntoRegionInv, DrawFigureInv DEF Drawing
<1>5. CASE Filling
  BY <1>5, InteriorStyleInv, PatternIndexInv, PatternTableInv, PatternSizeInv,
     FillReferencePointInv DEF Filling
<1>6. CASE Texting
  BY <1>6, TextColourInv, TextInv, RestrictedTextInv, AppendTextInv DEF Texting
<1>7. CASE Structuring
  BY <1>7, BeginApplicationStructureInv, ApplicationStructureAttributeInv,
     BeginApplicationStructureBodyInv, EndApplicationStructureInv DEF Structuring
<1>8. CASE Symbolising
  BY <1>8, SymbolLibraryListInv, PolySymbolInv DEF Symbolising
<1>9. CASE UNCHANGED vars
  BY <1>9 DEF vars, Inv, ControlOK, DocOK, ClipOK, RegionOK, FillOK, ApsOK, SymbolsOK
<1> QED
  BY <1>1, <1>2, <1>3, <1>4, <1>5, <1>6, <1>7, <1>8, <1>9 DEF Next

LEMMA Invariant == Spec => []Inv
<1>1. Init => Inv
  BY InitInv
<1>2. Inv /\ [Next]_vars => Inv'
  BY NextInv
<1> QED
  BY <1>1, <1>2, PTL DEF Spec

\* The state of the converter always has the shape its handlers rely on.
THEOREM TypeCorrect == Spec => []TypeOK
<1>1. Inv => TypeOK
  BY InvIsBoth
<1> QED
  BY <1>1, Invariant, PTL

\* Every clip-path and every pattern fill the converter writes, and every id
\* it keeps to write one, refers to a definition of the same document.
THEOREM ReferencesResolve == Spec => []ClipAndFillResolve
<1>1. Inv => ClipAndFillResolve
  BY InvIsBoth
<1> QED
  BY <1>1, Invariant, PTL
=============================================================================
