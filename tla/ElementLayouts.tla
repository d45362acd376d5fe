--------------------------- MODULE ElementLayouts ---------------------------
(***************************************************************************)
(* The parameters of the elements: delimiter, metafile descriptor and      *)
(* picture descriptor elements, then the graphical primitive, control,     *)
(* attribute, escape, external and segment elements.                       *)
(* (delimiter_commands.cpp, metafile_descriptor_commands.cpp,              *)
(* picture_descriptor_commands.cpp, application_structure_commands.cpp,    *)
(* graphical_primitive_commands.cpp, graphical_primitive_commands_         *)
(* extended.cpp, graphical_primitive_commands_tiles.cpp,                   *)
(* control_commands.cpp, attribute_commands.cpp,                           *)
(* line_edge_styling_commands.cpp, remaining_attribute_commands.cpp,       *)
(* escape_commands.cpp, external_commands.cpp,                             *)
(* segment_control_commands.cpp)                                           *)
(*                                                                         *)
(* Strings that carry a structured data record are left out: the names of  *)
(* application structures are then decoded as text.                        *)
(***************************************************************************)
EXTENDS BinaryLayout

Empty(class, id) == Layout(class, id, <<>>)

NoOp == Empty(0, 0)
BeginMetafile == Layout(0, 1, <<Once(<<Str>>)>>)
EndMetafile == Empty(0, 2)
BeginPicture == Layout(0, 3, <<Once(<<Str>>)>>)
BeginPictureBody == Empty(0, 4)
EndPicture == Empty(0, 5)
BeginSegment == Layout(0, 6, <<Once(<<Integer>>)>>)
EndSegment == Empty(0, 7)
BeginFigure == Empty(0, 8)
EndFigure == Empty(0, 9)
BeginProtectionRegion == Layout(0, 13, <<Once(<<Integer>>)>>)
EndProtectionRegion == Empty(0, 14)
BeginCompoundLine == Empty(0, 15)
EndCompoundLine == Empty(0, 16)
BeginCompoundTextPath == Empty(0, 17)
EndCompoundTextPath == Empty(0, 18)
BeginTileArray ==
  Layout(0, 19, <<Once(<<Point, Enum, Enum, Integer, Integer, Integer, Integer,
                         Real, Real, Integer, Integer, Integer, Integer>>)>>)
EndTileArray == Empty(0, 20)
BeginApplicationStructure == Layout(0, 21, <<Once(<<Str, Str, Bool>>)>>)
BeginApplicationStructureBody == Empty(0, 22)
EndApplicationStructure == Empty(0, 23)
-----------------------------------------------------------------------------
MetafileVersion == Layout(1, 1, <<Once(<< <<"version">> >>)>>)
MetafileDescription == Layout(1, 2, <<Once(<<Str>>)>>)
VDCTypeCommand == Layout(1, 3, <<Once(<<Bool>>)>>)
IntegerPrecision == Layout(1, 4, <<Once(<<Integer>>)>>)
RealPrecision == Layout(1, 5, <<Once(<< <<"realPrecision">> >>)>>)
IndexPrecision == Layout(1, 6, <<Once(<<Integer>>)>>)
ColourPrecision == Layout(1, 7, <<Once(<<Integer>>)>>)
ColourIndexPrecision == Layout(1, 8, <<Once(<<Integer>>)>>)
MaximumColourIndex == Divergent(1, 9, <<Once(<<ColourIndex>>)>>, <<Once(<<Index>>)>>)
ColourValueExtent == Layout(1, 10, <<Once(<<DirectColour, DirectColour>>)>>)
MetafileElementList == Layout(1, 11, <<Once(<< <<"elements">> >>)>>)
MetafileDefaultsReplacement == Layout(1, 12, <<Once(<<Bytes>>)>>)
FontList == Layout(1, 13, <<ToEnd(<<Str>>)>>)
CharacterSetList == Layout(1, 14, <<ToEnd(<<Enum, Str>>)>>)
CharacterCodingAnnouncer == Layout(1, 15, <<Once(<<Enum>>)>>)
NamePrecision == Layout(1, 16, <<Once(<<Integer>>)>>)
MaximumVDCExtent == Layout(1, 17, <<Once(<<Point, Point>>)>>)
SegmentPriorityExtent == Layout(1, 18, <<Once(<<Integer, Integer>>)>>)
ColourModel == Layout(1, 19, <<Once(<<OneOf("index", 1, 5, 1)>>)>>)
ColourCalibration == Layout(1, 20, <<Once(<<Bytes>>)>>)
FontProperties == Layout(1, 21, <<ToEnd(<<Index, Integer, Str>>)>>)
GlyphMapping == Layout(1, 22, <<Once(<<Index, Bytes>>)>>)
SymbolLibraryList == Layout(1, 23, <<ToEnd(<<Str>>)>>)
PictureDirectory ==
  Layout(1, 24, <<Once(<<OneOf("enum", 0, 2, 0)>>), ToEnd(<<FixedStr, Integer, Integer>>)>>)
-----------------------------------------------------------------------------
ScalingMode == Layout(2, 1, <<Once(<<Bool>>), IfSet(1, <<Real>>)>>)
ColourSelectionMode == Layout(2, 2, <<Once(<<Bool>>)>>)
LineWidthSpecificationMode == Layout(2, 3, <<Once(<<Bool>>)>>)
MarkerSizeSpecificationMode == Layout(2, 4, <<Once(<<Bool>>)>>)
EdgeWidthSpecificationMode == Layout(2, 5, <<Once(<<Bool>>)>>)
VDCExtent == Layout(2, 6, <<Once(<<Point, Point>>)>>)
BackgroundColour == Layout(2, 7, <<Once(<<DirectColour>>)>>)
DeviceViewport == Layout(2, 8, <<Once(<<Point, Point>>)>>)
DeviceViewportSpecificationMode == Layout(2, 9, <<Once(<<Enum, Real>>)>>)
DeviceViewportMapping == Layout(2, 10, <<Once(<<Enum, Enum, Enum>>)>>)
LineRepresentation == Layout(2, 11, <<Once(<<Index, Index, Vdc, Colour>>)>>)
MarkerRepresentation == Layout(2, 12, <<Once(<<Index, Index, Vdc, Colour>>)>>)
TextRepresentation == Layout(2, 13, <<Once(<<Index, Index, Enum, Real, Real, Colour>>)>>)
FillRepresentation == Layout(2, 14, <<Once(<<Index, Enum, Colour, Index, Index>>)>>)
EdgeRepresentation == Layout(2, 15, <<Once(<<Index, Index, Vdc, Colour>>)>>)
InteriorStyleSpecificationMode == Layout(2, 16, <<Once(<<Bool>>)>>)
LineAndEdgeTypeDefinition == Layout(2, 17, <<Once(<<Index>>), ToEnd(<<Integer>>)>>)
HatchStyleDefinition == Layout(2, 18, <<Once(<<Index, Enum>>), IfZero(2, <<Point, Point>>)>>)
GeometricPatternDefinition == Layout(2, 19, <<Once(<<Index, Integer, Point, Point>>)>>)
ApplicationStructureDirectory ==
  Layout(2, 20, <<Once(<<Enum>>), ToEnd(<<FixedStr, Integer>>)>>)
ApplicationStructureAttribute == Layout(9, 1, <<Once(<<Str, RawStr>>)>>)
-----------------------------------------------------------------------------
DelimiterCommands ==
  {NoOp, BeginMetafile, EndMetafile, BeginPicture, BeginPictureBody, EndPicture,
   BeginSegment, EndSegment, BeginFigure, EndFigure, BeginProtectionRegion,
   EndProtectionRegion, BeginCompoundLine, EndCompoundLine, BeginCompoundTextPath,
   EndCompoundTextPath, BeginTileArray, EndTileArray, BeginApplicationStructure,
   BeginApplicationStructureBody, EndApplicationStructure}

MetafileCommands ==
  {MetafileVersion, MetafileDescription, VDCTypeCommand, IntegerPrecision, RealPrecision,
   IndexPrecision, ColourPrecision, ColourIndexPrecision, MaximumColourIndex,
   ColourValueExtent, MetafileElementList, MetafileDefaultsReplacement, FontList,
   CharacterSetList, CharacterCodingAnnouncer, NamePrecision, MaximumVDCExtent,
   SegmentPriorityExtent, ColourModel, ColourCalibration, FontProperties, GlyphMapping,
   SymbolLibraryList, PictureDirectory}

PictureCommands ==
  {ScalingMode, ColourSelectionMode, LineWidthSpecificationMode,
   MarkerSizeSpecificationMode, EdgeWidthSpecificationMode, VDCExtent, BackgroundColour,
   DeviceViewport, DeviceViewportSpecificationMode, DeviceViewportMapping,
   LineRepresentation, MarkerRepresentation, TextRepresentation, FillRepresentation,
   EdgeRepresentation, InteriorStyleSpecificationMode, LineAndEdgeTypeDefinition,
   HatchStyleDefinition, GeometricPatternDefinition, ApplicationStructureDirectory}

-----------------------------------------------------------------------------
Points == ToEnd(<<Point>>)

Polyline == Layout(4, 1, <<Points>>)
DisjointPolyline == Layout(4, 2, <<Points>>)
Polymarker == Layout(4, 3, <<Points>>)
Text == Layout(4, 4, <<Once(<<Point, Bool, Str>>)>>)
RestrictedText == Layout(4, 5, <<Once(<<Vdc, Vdc, Point, Bool, Str>>)>>)
AppendText == Layout(4, 6, <<Once(<<Bool, Str>>)>>)
Polygon == Layout(4, 7, <<Points>>)
PolygonSet == Layout(4, 8, <<ToEnd(<<Point, Enum>>)>>)
CellArray ==
  Layout(4, 9, <<Once(<<Point, Point, Point, Integer, Integer, <<"cellPrecision">>, <<"cells">> >>)>>)
GeneralizedDrawingPrimitive ==
  Layout(4, 10, <<Once(<<Integer, Integer>>), Sum(<<2>>, <<Point>>), Once(<<RawStr>>)>>)
Rectangle == Layout(4, 11, <<Once(<<Point, Point>>)>>)
Circle == Layout(4, 12, <<Once(<<Point, Vdc>>)>>)
CircularArc3Point == Layout(4, 13, <<Once(<<Point, Point, Point>>)>>)
CircularArc3PointClose == Layout(4, 14, <<Once(<<Point, Point, Point, Enum>>)>>)
CircularArcCentre == Layout(4, 15, <<Once(<<Point, Point, Point, Vdc>>)>>)
CircularArcCentreClose == Layout(4, 16, <<Once(<<Point, Point, Point, Vdc, Enum>>)>>)
Ellipse == Layout(4, 17, <<Once(<<Point, Point, Point>>)>>)
EllipticalArc == Layout(4, 18, <<Once(<<Point, Point, Point, Point, Point>>)>>)
EllipticalArcClose == Layout(4, 19, <<Once(<<Point, Point, Point, Point, Point, Enum>>)>>)
CircularArcCentreReversed == Layout(4, 20, <<Once(<<Point, Point, Point, Vdc>>)>>)
ConnectingEdge == Layout(4, 21, <<>>)
HyperbolicArc == Layout(4, 22, <<Once(<<Point, Point, Point, Point, Point>>)>>)
ParabolicArc == Layout(4, 23, <<Once(<<Point, Point, Point>>)>>)
NonUniformBSpline ==
  Layout(4, 24, <<Once(<<Integer, Integer>>), Sum(<<2>>, <<Point>>),
                  Sum(<<1, 2>>, <<Real>>), Once(<<Real, Real>>)>>)
NonUniformRationalBSpline ==
  Layout(4, 25, <<Once(<<Integer, Integer>>), Sum(<<2>>, <<Point>>),
                  Sum(<<1, 2>>, <<Real>>), Once(<<Real, Real>>), Sum(<<2>>, <<Real>>)>>)
PolyBezier == Layout(4, 26, <<Once(<<Enum>>), Points>>)
PolySymbol == Layout(4, 27, <<Once(<<Index>>), Points>>)

\* The image of a tile is written for the compression types 6, 7 and 9 only.
Image == <<"image">>
BitonalTile == Layout(4, 28, <<Once(<<Index, Integer, Colour, Colour, RawStr, Image>>)>>)
Tile == Layout(4, 29, <<Once(<<Index, Integer, Integer, RawStr, Image>>)>>)

PrimitiveCommands ==
  {Polyline, DisjointPolyline, Polymarker, Text, RestrictedText, AppendText, Polygon,
   PolygonSet, CellArray, GeneralizedDrawingPrimitive, Rectangle, Circle,
   CircularArc3Point, CircularArc3PointClose, CircularArcCentre, CircularArcCentreClose,
   Ellipse, EllipticalArc, EllipticalArcClose, CircularArcCentreReversed, ConnectingEdge,
   HyperbolicArc, ParabolicArc, NonUniformBSpline, NonUniformRationalBSpline, PolyBezier,
   PolySymbol, BitonalTile, Tile}
-----------------------------------------------------------------------------
\* What drawing goes by

VdcIntegerPrecision == Layout(3, 1, <<Once(<<Integer>>)>>)
VdcRealPrecision == Layout(3, 2, <<Once(<< <<"vdcPrecision">> >>)>>)
AuxiliaryColour == Layout(3, 3, <<Once(<<Colour>>)>>)
Transparency == Layout(3, 4, <<Once(<<Enum>>)>>)
ClipRectangle == Layout(3, 5, <<Once(<<Point, Point>>)>>)
ClipIndicator == Layout(3, 6, <<Once(<<Enum>>)>>)
LineClippingMode == Layout(3, 7, <<Once(<<Enum>>)>>)
MarkerClippingMode == Layout(3, 8, <<Once(<<Enum>>)>>)
EdgeClippingMode == Layout(3, 9, <<Once(<<Enum>>)>>)
NewRegion == Layout(3, 10, <<>>)
SavePrimitiveContext == Layout(3, 11, <<Once(<<Name>>)>>)
RestorePrimitiveContext == Layout(3, 12, <<Once(<<Name>>)>>)
ProtectionRegionIndicator == Layout(3, 17, <<Once(<<Index, Enum>>)>>)
GeneralizedTextPathMode == Layout(3, 18, <<Once(<<Enum>>)>>)
MitreLimit == Layout(3, 19, <<Once(<<Real>>)>>)
TransparentCellColour == Layout(3, 20, <<Once(<<Colour>>)>>)
-----------------------------------------------------------------------------
\* A command keeps the identifier its constructor gives it, whatever the
\* factory was asked for.
Under(id, layout) == [layout EXCEPT !.code[2] = id]

LineBundleIndex == Layout(5, 1, <<Once(<<Index>>)>>)
LineType == Layout(5, 2, <<Once(<<Index>>)>>)
LineWidth == Layout(5, 3, <<Once(<<Size("lineWidth")>>)>>)
LineColour == Layout(5, 4, <<Once(<<Colour>>)>>)
MarkerBundleIndex == Layout(5, 5, <<Once(<<Index>>)>>)
MarkerType == Under(6, Layout(5, 5, <<Once(<<Index>>)>>))
MarkerSize == Under(7, Layout(5, 6, <<Once(<<Size("markerSize")>>)>>))
MarkerColour == Under(8, Layout(5, 7, <<Once(<<Colour>>)>>))
TextBundleIndex == Layout(5, 9, <<Once(<<Index>>)>>)
TextFontIndex == Layout(5, 10, <<Once(<<Index>>)>>)
TextPrecision == Layout(5, 11, <<Once(<<OneOf("enum", 0, 2, 0)>>)>>)
CharacterExpansionFactor == Layout(5, 12, <<Once(<<Real>>)>>)
CharacterSpacing == Layout(5, 13, <<Once(<<Real>>)>>)
TextColour == Layout(5, 14, <<Once(<<Colour>>)>>)
CharacterHeight == Layout(5, 15, <<Once(<<Vdc>>)>>)
CharacterOrientation == Layout(5, 16, <<Once(<<Point, Point>>)>>)
TextPath == Layout(5, 17, <<Once(<<OneOf("enum", 0, 3, 0)>>)>>)
TextAlignment == Layout(5, 18, <<Once(<<Enum, Enum, Real, Real>>)>>)
CharacterSetIndex == Layout(5, 19, <<Once(<<Index>>)>>)
AlternateCharacterSetIndex == Layout(5, 20, <<Once(<<Index>>)>>)
FillBundleIndex == Layout(5, 21, <<Once(<<Index>>)>>)
InteriorStyle == Layout(5, 22, <<Once(<<Enum>>)>>)
FillColour == Layout(5, 23, <<Once(<<Colour>>)>>)
HatchIndex == Layout(5, 24, <<Once(<<Index>>)>>)
PatternIndex == Layout(5, 25, <<Once(<<Index>>)>>)
EdgeBundleIndex == Layout(5, 26, <<Once(<<Index>>)>>)
EdgeType == Layout(5, 27, <<Once(<<Index>>)>>)
EdgeWidth == Layout(5, 28, <<Once(<<Size("edgeWidth")>>)>>)
EdgeColour == Layout(5, 29, <<Once(<<Colour>>)>>)
EdgeVisibility == Layout(5, 30, <<Once(<<Bool>>)>>)
FillReferencePoint == Layout(5, 31, <<Once(<<Point>>)>>)
PatternTable ==
  Layout(5, 32, <<Once(<<Index, Integer, Integer, Integer>>), Product(<<2, 3>>, <<LocalColour(4)>>)>>)
PatternSize ==
  LET size == Size("interiorStyle")
  IN  Layout(5, 33, <<Once(<<size, size, size, size>>)>>)
ColourTable == Divergent(5, 34, <<Once(<<ColourIndex>>), ToEnd(<<DirectColour>>)>>,
                                <<Once(<<Index>>), ToEnd(<<DirectColour>>)>>)
AspectSourceFlags == Layout(5, 35, <<ToEnd(<<OneOf("enum", 0, 17, 0), Bool>>)>>)
PickIdentifier == Layout(5, 36, <<Once(<<Name>>)>>)
LineCap == Layout(5, 37, <<Once(<<OneOf("index", 1, 5, 1), OneOf("index", 1, 3, 1)>>)>>)
LineJoin == Layout(5, 38, <<Once(<<OneOf("index", 1, 4, 1)>>)>>)
LineTypeContinuation == Layout(5, 39, <<Once(<<Index>>)>>)
LineTypeInitialOffset == Layout(5, 40, <<Once(<<Real>>)>>)
TextScoreType == Layout(5, 41, <<ToEnd(<<OneOf("enum", 1, 6, 1), Index>>)>>)
RestrictedTextType == Layout(5, 42, <<Once(<<OneOf("index", 1, 6, 1)>>)>>)
InterpolatedInterior == Layout(5, 43, <<Once(<<Index, <<"interpolation">> >>)>>)
EdgeCap == Layout(5, 44, <<Once(<<OneOf("index", 1, 5, 1), OneOf("index", 1, 3, 1)>>)>>)
EdgeJoin == Layout(5, 45, <<Once(<<OneOf("index", 1, 4, 1)>>)>>)
EdgeTypeContinuation == Layout(5, 46, <<Once(<<Index>>)>>)
EdgeTypeInitialOffset == Layout(5, 47, <<Once(<<Real>>)>>)
-----------------------------------------------------------------------------
EscapeCommand == Layout(6, 0, <<Once(<<Integer, RawStr>>)>>)
MessageCommand == Layout(7, 1, <<Once(<<Enum, Str>>)>>)
ApplicationData == Layout(7, 2, <<Once(<<Integer, RawStr>>)>>)

CopySegment == Layout(8, 1, <<Once(<<Name, Real, Real, Real, Real, Vdc, Vdc, Bool>>)>>)
InheritanceFilter == Layout(8, 2, <<Once(<< <<"filter">> >>)>>)
ClipInheritanceCommand == Layout(8, 3, <<Once(<<Enum>>)>>)
SegmentTransformation == Layout(8, 4, <<Once(<<Name, Real, Real, Real, Real, Vdc, Vdc>>)>>)
SegmentHighlighting == Layout(8, 5, <<Once(<<Name, Enum>>)>>)
SegmentDisplayPriority == Layout(8, 6, <<Once(<<Name, Integer>>)>>)
SegmentPickPriority == Layout(8, 7, <<Once(<<Name, Integer>>)>>)
-----------------------------------------------------------------------------
ControlCommands ==
  {VdcIntegerPrecision, VdcRealPrecision, AuxiliaryColour, Transparency, ClipRectangle,
   ClipIndicator, LineClippingMode, MarkerClippingMode, EdgeClippingMode, NewRegion,
   SavePrimitiveContext, RestorePrimitiveContext, ProtectionRegionIndicator,
   GeneralizedTextPathMode, MitreLimit, TransparentCellColour}

StyleCommands ==
  {LineBundleIndex, LineType, LineWidth, LineColour, MarkerBundleIndex, MarkerType,
   MarkerSize, MarkerColour, TextBundleIndex, TextFontIndex, TextPrecision,
   CharacterExpansionFactor, CharacterSpacing, TextColour, CharacterHeight,
   CharacterOrientation, TextPath, TextAlignment, CharacterSetIndex,
   AlternateCharacterSetIndex, FillBundleIndex, InteriorStyle, FillColour, HatchIndex,
   PatternIndex, EdgeBundleIndex, EdgeType, EdgeWidth, EdgeColour, EdgeVisibility,
   FillReferencePoint, PatternTable, PatternSize, ColourTable, AspectSourceFlags,
   PickIdentifier, LineCap, LineJoin, LineTypeContinuation, LineTypeInitialOffset,
   TextScoreType, RestrictedTextType, InterpolatedInterior, EdgeCap, EdgeJoin,
   EdgeTypeContinuation, EdgeTypeInitialOffset}

SegmentCommands ==
  {CopySegment, InheritanceFilter, ClipInheritanceCommand, SegmentTransformation,
   SegmentHighlighting, SegmentDisplayPriority, SegmentPickPriority}
=============================================================================
