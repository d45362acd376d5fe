---------------------------- MODULE MCInterfaces ----------------------------
(***************************************************************************)
(* An instance of the C interfaces: files that cannot be read, that throw, *)
(* that have no or several pictures, unknown elements or a sheet that does *)
(* not fit, font maps that come and go, and outputs that cannot be opened. *)
(***************************************************************************)
EXTENDS HandleInterface

Box(x1, y1, x2, y2) == [min_x |-> x1, min_y |-> y1, max_x |-> x2, max_y |-> y2]
Sheet == [scale_factor |-> 1, flip_y_applied |-> TRUE, auto_fit_applied |-> FALSE,
          view_context_present |-> FALSE, view_context_adopted |-> FALSE, view_context |-> Box(0, 0, 0, 0),
          picture |-> Box(0, 0, 20000, 10000), has_geometry |-> TRUE, geometry |-> Box(10, 10, 500, 500),
          viewbox |-> [x |-> 0, y |-> 0, width |-> 20000, height |-> 10000], coverage |-> <<50, 50>>]
Fitted == [Sheet EXCEPT !.auto_fit_applied = TRUE, !.viewbox = [x |-> 0, y |-> 9500, width |-> 510, height |-> 500]]
Viewed == [Sheet EXCEPT !.view_context_present = TRUE, !.view_context_adopted = TRUE,
                        !.view_context = Box(100, 100, 300, 300),
                        !.viewbox = [x |-> 100, y |-> 9700, width |-> 200, height |-> 200]]
Empty == [Sheet EXCEPT !.has_geometry = FALSE]

Good == [readable |-> TRUE, throws |-> FALSE, pictures |-> 1, begun |-> 1, segments21 |-> 0,
         unknown |-> 0, degraded |-> FALSE, commands |-> 1, has |-> {"version"}, metrics |-> [a \in BOOLEAN |-> Sheet]]
MCMetafiles ==
  ("good" :> Good)
  @@ ("broken" :> [Good EXCEPT !.readable = FALSE])
  @@ ("throws" :> [Good EXCEPT !.throws = TRUE, !.pictures = 0, !.begun = 0])
  @@ ("book" :> [Good EXCEPT !.pictures = 2, !.begun = 3, !.unknown = 1, !.segments21 = 1, !.commands = 2,
                             !.metrics = [a \in BOOLEAN |-> IF a THEN Viewed ELSE Sheet]])
  @@ ("odd" :> [Good EXCEPT !.degraded = TRUE, !.has = {"vdc extent", "background"},
                            !.metrics = [a \in BOOLEAN |-> IF a THEN Empty ELSE Fitted]])

MCFontContents ==
  [rich |-> [stack |-> <<"Arial">>, threshold |-> <<5>>,
             overrides |-> [s1000d |-> [stack |-> <<"Courier">>, threshold |-> <<8>>],
                            webcgm |-> [stack |-> <<>>, threshold |-> <<>>]]]]
MCXcfFiles == [companion |-> TRUE, torn |-> FALSE]
Page == [exists |-> TRUE, tooLarge |-> FALSE, svg |-> TRUE, viewBox |-> TRUE, emptyPaths |-> 0, width |-> 100,
         height |-> 100, zeroScale |-> FALSE, nan |-> FALSE, infinity |-> FALSE, groupsOpened |-> 2,
         groupsClosed |-> 2, xmlns |-> TRUE]
MCSvgFiles == [fine |-> Page, packed |-> [Page EXCEPT !.svg = FALSE],
               poor |-> [Page EXCEPT !.viewBox = FALSE, !.emptyPaths = 2, !.width = -1, !.groupsClosed = 1]]
MCOutputs == {"a.svg", "b.svg", "locked.svg"}
MCWritable == {"a.svg", "b.svg", "a.xcf"}
MCXcfOf(p) == CASE p = "a.svg" -> "a.xcf" [] p = "b.svg" -> "b.xcf" [] OTHER -> "locked.xcf"
MCSettings ==
  [options |-> {<<"profile", "compat">>, <<"profile", "strict">>, <<"adopt_view_on_load", 0>>,
                <<"text_path_threshold", -3>>,
                <<"trace_unknown", 1>>, <<"fail_on_warn", 1>>, <<"geometry_validate", 1>>,
                <<"compress_output", 1>>, <<"generate_xcf", 2>>, <<"multi_picture_mode", 2>>},
   targets |-> {<<"hotspot_encoding", "DataAttributes">>},
   outputProfiles |-> {"StandardSVG", "Custom", "unknown"},
   hotspotProfiles |-> {"Strict"}, pictures |-> {0, 1}, scopes |-> {1, 9}, formats |-> {"rws", "layered", "none"},
   fontMaps |-> {"fonts"}, requests |-> {"auto", "webcgm21", "unheard of"}]
MCWishes == {[background |-> "#rgb", textAsPath |-> TRUE], [background |-> "", textAsPath |-> FALSE],
             [background |-> "blueish", textAsPath |-> FALSE]}
MCBudgets == {[contexts |-> 3, handles |-> 0], [contexts |-> 0, handles |-> 5]}
Symmetry == Permutations(Handle) \cup Permutations(Object) \cup Permutations(Converter)
=============================================================================
