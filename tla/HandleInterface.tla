-------------------------- MODULE HandleInterface ---------------------------
(***************************************************************************)
(* The older C interface: handles of loaded metafiles, converters made     *)
(* from them that may outlive them, and an error code for each thread. The *)
(* two interfaces share nothing but the files they write.                  *)
(***************************************************************************)
EXTENDS ContextInterface

CONSTANTS Object, Handle, Converter,
  Wishes   \* the options converters are created with

VARIABLES
  heap,        \* the metafiles in memory, and the file each was read from
  handles,     \* the metafile of each handle
  converters,  \* what each converter holds
  code         \* each thread's last error code

vars == <<live, ctx, fontFiles, disk, error, answer, left, heap, handles, converters, code>>

None == "none"
ASSUME NamesAssumption == None \notin Object \cup DOMAIN Metafiles

NoConverter == [owner |-> None, file |-> None, wish |-> None, output |-> <<>>]

\* Mutant: a converter only points at the file of its handle.
OwnedByHandles(hs, cs) == {hs[h] : h \in Handle} \ {None}

\* The metafiles that are shared by somebody; the others are freed.
Owned(hs, cs) == ({hs[h] : h \in Handle} \cup {cs[k].owner : k \in Converter}) \ {None}
Released(hs, cs) == [o \in Object |-> IF o \in Owned(hs, cs) THEN heap[o] ELSE None]

OpenHandles == {h \in Handle : handles[h] # None}
OpenConverters == {k \in Converter : converters[k].owner # None}

----------------------------------------------------------------------------
Uses ==
  /\ left.handles > 0
  /\ left' = [left EXCEPT !.handles = @ - 1]
  /\ UNCHANGED <<live, ctx, fontFiles, error, answer>>
Sees(t, outcome) == code' = [code EXCEPT ![t] = outcome]
Looks(t, outcome) == Sees(t, outcome) /\ UNCHANGED <<disk, heap, handles, converters>>

\* A null handle, or a null or empty argument of a call that says so.
RefuseHandle(t) == Uses /\ Looks(t, "NULL_HANDLE")
RefuseParameter(t) == Uses /\ Looks(t, "INVALID_PARAMETER")

Loads(t, p) ==
  \E o \in Object, h \in Handle :
    /\ heap[o] = None /\ handles[h] = None
    /\ heap' = [heap EXCEPT ![o] = p]
    /\ handles' = [handles EXCEPT ![h] = o]
    /\ Sees(t, "SUCCESS")
    /\ UNCHANGED <<disk, converters>>
Reads(t, p) == IF Metafiles[p].readable THEN Loads(t, p) ELSE Looks(t, "PARSE_ERROR")
LoadFile(t) ==
  /\ Uses
  /\ \/ Looks(t, "FILE_NOT_FOUND")
     \/ \E p \in DOMAIN Metafiles : Reads(t, p)
\* From memory, only readCommands() runs: METAFILE DEFAULTS are not spliced in
\* and no gzip is undone. A file's entry in Metafiles says what it holds once
\* loaded; one with defaults, or compressed, needs an entry for each way.
LoadFromMemory(t) ==
  /\ Uses
  /\ \E p \in DOMAIN Metafiles : Reads(t, p)
FreeFile(t) ==
  /\ Uses
  /\ \E h \in OpenHandles :
       /\ handles' = [handles EXCEPT ![h] = None]
       /\ heap' = Released(handles', converters)
  /\ UNCHANGED <<disk, converters, code>>

\* Questions about a loaded file: a command by its index, and what the first
\* command of a kind says. Precisions are answered without touching the error.
GetCommand(t) ==
  /\ Uses
  /\ \E h \in OpenHandles, index \in -1 .. 1 :
       IF index \in 0 .. Metafiles[heap[handles[h]]].commands - 1
       THEN UNCHANGED <<disk, heap, handles, converters, code>>
       ELSE Looks(t, "OUT_OF_BOUNDS")
GetProperty(t) ==
  /\ Uses
  /\ \E h \in OpenHandles, kind \in {"version", "description", "vdc extent", "background", "indexed colours"} :
       Looks(t, IF kind \in {"description", "indexed colours"} \cup Metafiles[heap[handles[h]]].has
                THEN "SUCCESS" ELSE "INVALID_FORMAT")

\* The background of a converter: a colour, none, or something else.
Backgrounds == {"none", "transparent", "", "white", "black", "#rgb", "#rrggbb"}
CreateConverter(t) ==
  /\ Uses
  /\ \E h \in OpenHandles, w \in Wishes :
       IF w.background \notin Backgrounds THEN Looks(t, "INVALID_PARAMETER")
       ELSE \E k \in Converter \ OpenConverters :
              /\ converters' = [converters EXCEPT ![k] =
                   [owner |-> handles[h], file |-> handles[h], wish |-> w, output |-> <<>>]]
              /\ Sees(t, "SUCCESS")
              /\ UNCHANGED <<disk, heap, handles>>

\* The output is kept from the first conversion that succeeds.
Drawing(k) ==
  LET p == heap[converters[k].file]
  IN [kind |-> "svg", input |-> p, picture |-> IF Metafiles[p].pictures = 0 THEN -1 ELSE 0,
      made |-> converters[k].wish, compressed |-> FALSE]
Fresh(k) ==
  IF converters[k].output # <<>> THEN converters[k].output
  ELSE IF Metafiles[heap[converters[k].file]].throws THEN <<>> ELSE <<Drawing(k)>>
Draws(t, k) ==
  /\ converters' = [converters EXCEPT ![k].output = Fresh(k)]
  /\ IF Fresh(k) = <<>> THEN Sees(t, "CONVERSION_FAILED") ELSE UNCHANGED code
ConvertToSvg(t) ==
  /\ Uses
  /\ \E k \in OpenConverters : Draws(t, k)
  /\ UNCHANGED <<disk, heap, handles>>
SaveSvgToFile(t) ==
  /\ Uses
  /\ \E k \in OpenConverters, p \in Outputs :
       /\ Draws(t, k)
       /\ IF Fresh(k) # <<>> /\ p \in Writable THEN Writes(p, Fresh(k)[1]) ELSE UNCHANGED disk
  /\ UNCHANGED <<heap, handles>>
FreeConverter(t) ==
  /\ Uses
  /\ \E k \in OpenConverters :
       /\ converters' = [converters EXCEPT ![k] = NoConverter]
       /\ heap' = Released(handles, converters')
  /\ UNCHANGED <<disk, handles, code>>

ClearLastError(t) == Uses /\ Looks(t, "SUCCESS")
\* There is no native renderer in this build.
RenderToBuffer(t) == Uses /\ OpenHandles # {} /\ Looks(t, "CONVERSION_FAILED")

HandleCall(t) ==
  \/ RefuseHandle(t) \/ RefuseParameter(t) \/ LoadFile(t) \/ LoadFromMemory(t) \/ FreeFile(t)
  \/ GetCommand(t) \/ GetProperty(t) \/ CreateConverter(t) \/ ConvertToSvg(t) \/ SaveSvgToFile(t)
  \/ FreeConverter(t) \/ ClearLastError(t) \/ RenderToBuffer(t)

----------------------------------------------------------------------------
Init ==
  /\ live = {} /\ ctx = [c \in Context |-> NewContext]
  /\ fontFiles \in [Settings.fontMaps -> DOMAIN FontContents \cup {"missing", "malformed"}]
  /\ disk = [p \in Places |-> NoFile]
  /\ error = [t \in Thread |-> ""] /\ answer = NoAnswer
  /\ left \in Budgets
  /\ heap = [o \in Object |-> None] /\ handles = [h \in Handle |-> None]
  /\ converters = [k \in Converter |-> NoConverter]
  /\ code = [t \in Thread |-> "SUCCESS"]

OfContexts == UNCHANGED <<heap, handles, converters, code>>
Next ==
  \/ \E t \in Thread : (ContextCall(t) /\ OfContexts) \/ HandleCall(t)
  \/ EditFontMap /\ OfContexts

Spec == Init /\ [][Next]_vars

----------------------------------------------------------------------------
\* Nobody points at a metafile that was freed and no metafile is left behind,
\* whichever of a handle and its converters is freed first.
HandlesOwn ==
  /\ \A h \in OpenHandles : heap[handles[h]] # None
  /\ \A k \in OpenConverters : heap[converters[k].file] # None
  /\ \A o \in Object : heap[o] # None => o \in Owned(handles, converters)

\* A conversion's return code, error text, report, its texts and the files on
\* disk tell the same story, whatever the context was used for before
\* (opencgm_convert_cgm_to_svg, opencgm_convert_picture_to_svg).
AnswersAgree == [][Converted => ReportsAgree /\ FilesAgree]_vars

\* "Caller overrides must win": a file written by a successful conversion was
\* made with the format, profile, view, threshold, target, hotspots, companion
\* and font map the caller has set, in whatever order (configure_svg_converter).
OverridesWin == [][Converted /\ Succeeded => Overridden]_vars
=============================================================================
