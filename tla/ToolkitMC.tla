------------------------------- MODULE ToolkitMC -------------------------------
(***************************************************************************)
(* The parts of the toolkit (src/st) that can be looked at one by one,     *)
(* checked side by side: in every behaviour one of them, chosen in the     *)
(* initial state, runs and the others rest.                                *)
(***************************************************************************)
EXTENDS Widgets, FocusNavigation, ScrollView, ThemeNode, StylePainting, Stylesheets,
        Layouts, Controls, TLC

CONSTANTS panel, inside1, other, group, rowBox, key1, key2, key3, holder, held1, en1

VARIABLE part

-----------------------------------------------------------------------------
\* The focus goes over a group with a row of two actors, an actor below it and a bin.
MCKids ==
  group :> <<rowBox, key3, holder>> @@ rowBox :> <<key1, key2>> @@ holder :> <<held1>>
  @@ key1 :> <<>> @@ key2 :> <<>> @@ key3 :> <<>> @@ held1 :> <<>>
At(x1, x2, y1, y2) == [x1 |-> x1, x2 |-> x2, y1 |-> y1, y2 |-> y2]
MCBox ==
  group :> At(0, 8, 0, 6) @@ rowBox :> At(0, 8, 0, 2) @@ key1 :> At(0, 4, 0, 2) @@ key2 :> At(4, 8, 0, 2)
  @@ key3 :> At(0, 6, 2, 4) @@ holder :> At(4, 8, 4, 6) @@ held1 :> At(4, 6, 4, 6)

\* Content that fits and content that needs both bars.
MCViewSizes == {[w |-> 4, h |-> 4], [w |-> 4, h |-> 5]}
MCContents == {[min |-> 2, area |-> 8], [min |-> 5, area |-> 16]}
MCPolicies == {[h |-> "automatic", v |-> "automatic"], [h |-> "never", v |-> "automatic"]}

\* What style sheets say of a parent and of a widget
Of(prop, on, prt, ts) == [prop |-> prop, on |-> on, part |-> prt, terms |-> ts]
Say(prop, ts) == Of(prop, {}, "", ts)
MCPx == [t \in {"1px", "2px", "3px"} |-> CASE t = "1px" -> 1 [] t = "2px" -> 2 [] OTHER -> 3]
MCColors == {"red", "blue"}
MCWidths == {0, 4, 9}
MCParentSheets ==
  {<<>>,
   <<Say("color", <<"red">>), Say("warning-color", <<"blue">>), Of("background", {}, "", <<"image", "blue">>)>>,
   <<Say("text-shadow", <<"1px", "1px", "inset">>), Say("font-weight", <<"bold">>)>>}
MCWidgetSheets ==
  {<<>>,
   <<Say("color", <<"blue">>), Say("color", <<"inherit">>)>>,
   <<Say("color", <<"inherit">>), Say("warning-color", <<"red">>), Say("color", <<"1px">>)>>,
   <<Say("color", <<"blue">>), Say("warning-color", <<"red">>), Say("warning-color", <<"inherit">>)>>,
   <<Of("border", Sides, "", <<"1px", "red">>), Of("padding", Sides, "", <<"1px", "2px", "3px">>),
     Of("border", {4}, "width", <<"3px">>)>>,
   <<Of("border", Sides, "", <<"none">>), Of("padding", {2}, "", <<"3px">>),
     Of("border", Sides, "radius", <<"1px", "red">>), Of("border", Sides, "color", <<"blue">>)>>,
   <<Of("size", {}, "width", <<"3px">>), Of("size", {}, "min-width", <<"2px">>),
     Of("padding", Sides, "", <<"1px", "1px">>)>>,
   <<Of("size", {}, "max-width", <<"2px">>), Of("outline", {}, "", <<"1px", "red">>)>>,
   <<Of("background", {}, "", <<"image">>), Of("background", {}, "size", <<"cover">>),
     Of("background", {}, "color", <<"inherit">>)>>,
   <<Of("background", {}, "", <<"image">>), Of("background", {}, "color", <<"inherit">>)>>,
   <<Of("background", {}, "image", <<"image">>), Of("background", {}, "position", <<"1px", "2px">>),
     Of("background", {}, "gradient-direction", <<"vertical">>),
     Of("background", {}, "gradient-start", <<"red">>), Of("background", {}, "gradient-end", <<"blue">>)>>,
   <<Say("box-shadow", <<"1px", "2px", "red">>), Say("box-shadow", <<"1px", "inherit">>)>>,
   <<Say("-st-background-image-shadow", <<"1px", "1px", "inset">>), Say("border-image", <<"image">>)>>,
   <<Say("font-size", <<"50%">>), Say("font-weight", <<"bold">>), Say("font-weight", <<"bolder">>),
     Say("text-decoration", <<"underline">>)>>}

\* How styles look
Look(i, bo, ra, so, im, gr) ==
  [id |-> i, border |-> bo, radius |-> ra, solid |-> so, image |-> im, gradient |-> gr]
None4 == <<0, 0, 0, 0>>
MCLooks ==
  {Look(1, None4, None4, TRUE, FALSE, FALSE), Look(2, None4, None4, TRUE, TRUE, FALSE),
   Look(3, <<1, 1, 1, 1>>, <<2, 2, 2, 2>>, TRUE, FALSE, FALSE),
   Look(4, <<1, 0, 2, 1>>, <<3, 1, 0, 5>>, TRUE, FALSE, FALSE),
   Look(5, <<2, 1, 1, 1>>, <<1, 2, 3, 0>>, TRUE, FALSE, FALSE),
   Look(6, <<1, 1, 0, 3>>, <<1, 4, 4, 3>>, FALSE, FALSE, FALSE)}
MCStyles == {[look |-> l, duration |-> d] : l \in MCLooks, d \in {0, 1}}
MCPaintSizes == {[w |-> 6, h |-> 6], [w |-> 5, h |-> 8]}

\* Nodes with images, gradients, borders and shadows of all kinds
Shade(x, y, b, s, i) == [dx |-> x, dy |-> y, blur |-> b, spread |-> s, inset |-> i]
Sized(k, w, h) == [kind |-> k, w |-> w, h |-> h]
Img(w, h, o) == [w |-> w, h |-> h, opaque |-> o, loads |-> TRUE]
PlainLook == [border |-> None4, radius |-> None4, alpha |-> 0, edge |-> 255, endAlpha |-> 0, gradient |-> "none",
          image |-> {}, sizing |-> Sized("auto", -1, -1), position |-> <<>>, imageShadow |-> {}, boxShadow |-> {},
          outline |-> 0, slices |-> <<>>]
MCWardrobe ==
  {[PlainLook EXCEPT !.alpha = 255, !.border = <<1, 2, 1, 2>>, !.radius = <<2, 1, 2, 3>>, !.boxShadow = {Shade(1, 0, 2, 1, FALSE)}],
   [PlainLook EXCEPT !.image = {Img(3, 2, TRUE)}, !.sizing = Sized("contain", -1, -1), !.imageShadow = {Shade(0, 1, 1, 1, FALSE)}],
   [PlainLook EXCEPT !.image = {Img(3, 2, FALSE)}, !.sizing = Sized("cover", -1, -1), !.alpha = 128, !.imageShadow = {Shade(0, 1, 1, 1, FALSE)}],
   [PlainLook EXCEPT !.image = {Img(2, 2, TRUE)}, !.sizing = Sized("cover", -1, -1), !.border = <<1, 1, 1, 1>>, !.imageShadow = {Shade(1, 1, 2, 0, FALSE)}],
   [PlainLook EXCEPT !.image = {Img(3, 3, TRUE)}, !.sizing = Sized("fixed", 4, -1), !.position = <<1, 0>>, !.border = <<0, 3, 0, 1>>, !.radius = <<0, 2, 4, 1>>],
   [PlainLook EXCEPT !.gradient = "vertical", !.alpha = 255, !.endAlpha = 128, !.border = <<2, 1, 1, 1>>, !.radius = <<3, 3, 3, 3>>, !.outline = 2],
   [PlainLook EXCEPT !.gradient = "radial", !.alpha = 255, !.endAlpha = 255, !.border = <<1, 1, 1, 1>>, !.boxShadow = {Shade(1, 1, 2, 1, TRUE)}],
   [PlainLook EXCEPT !.slices = <<1, 2, 2, 1>>, !.outline = 1, !.boxShadow = {Shade(-2, 1, 0, 0, FALSE)}],
   [PlainLook EXCEPT !.image = {[Img(3, 3, TRUE) EXCEPT !.loads = FALSE]}, !.border = <<1, 1, 1, 1>>, !.edge = 128, !.imageShadow = {Shade(0, 0, 1, 0, FALSE)}],
   [PlainLook EXCEPT !.alpha = 128, !.edge = 64, !.border = <<3, 0, 0, 1>>, !.radius = <<2, 2, 0, 0>>]}
MCCanvases == {[w |-> 6, h |-> 6], [w |-> 9, h |-> 5], [w |-> 0, h |-> 4]}

\* The style sheets of a theme, of three extensions and one that is imported
Sel(ts) == [tokens |-> ts, joint |-> "descendant"]
Kid(ts) == [tokens |-> ts, joint |-> "child"]
Rule(ss, ds) == [imports |-> "", selectors |-> ss, decls |-> ds]
Imports(f) == [imports |-> f, selectors |-> <<>>, decls |-> <<>>]
Be(prop, val) == [prop |-> prop, value |-> val, important |-> FALSE]
Must(prop, val) == [prop |-> prop, value |-> val, important |-> TRUE]
MCSheetWeight ==
  [t \in {"stage", "label", "box", "menu", "hover", "main"} |->
     CASE t \in {"stage", "label"} -> 1 [] t = "main" -> 100 [] OTHER -> 10]
MCSheets ==
  [f \in {"app", "dark", "x", "y", "z", "part"} |->
    CASE f = "app" ->
           <<Rule(<< <<Sel({"label"})>> >>, <<Be("color", 1), Be("size", 1)>>),
             Rule(<< <<Sel({"box"}), Kid({"label"})>> >>, <<Be("color", 2)>>),
             Rule(<< <<Sel({"box"}), Sel({"menu"}), Kid({"label"})>>, <<Sel({"main"})>> >>, <<Be("size", 3)>>)>>
      [] f = "dark" ->
           <<Rule(<< <<Sel({"label", "hover"})>>, <<Sel({"stage"}), Sel({"box"}), Sel({"label"})>> >>, <<Must("color", 4)>>),
             Rule(<< <<Sel({"main"})>> >>, <<Be("color", 5), Be("color", 6)>>)>>
      [] f = "x" ->
           <<Rule(<< <<Sel({"box"}), Sel({"box"}), Sel({"label"})>> >>, <<Be("size", 7)>>),
             Rule(<< <<Sel({"label"})>> >>, <<Must("edge", 8)>>)>>
      [] f = "y" -> <<Rule(<< <<Sel({"label"})>> >>, <<Be("size", 9), Be("edge", 1)>>)>>
      [] f = "z" ->
           <<Imports("part"),
             Rule(<< <<Sel({"stage"}), Kid({"box"}), Sel({"hover"})>> >>, <<Be("edge", 2), Be("size", 10)>>)>>
      [] OTHER -> <<Rule(<< <<Sel({"menu"})>> >>, <<Be("other", 3)>>)>>]
MCWidgetPaths ==
  {<<{"stage"}, {"box", "menu"}, {"label"}>>, <<{"stage"}, {"box"}, {"menu"}, {"label", "main"}>>,
   <<{"stage"}, {"box"}, {"box"}, {"label", "hover"}>>,
   <<{"stage"}, {"box"}, {"menu"}, {"box"}, {"label", "hover", "main"}>>}

\* Children of a box and cells of a table
BoxKid(mi, na, ex, sh) == [min |-> mi, nat |-> na, expand |-> ex, shown |-> sh]
MCBoxKids ==
  {BoxKid(6, 24, FALSE, TRUE), BoxKid(12, 54, TRUE, TRUE), BoxKid(18, 22, TRUE, TRUE), BoxKid(12, 12, FALSE, FALSE)}
Size(mi, pr, sp, ex) == [min |-> mi, pref |-> pr, span |-> sp, expand |-> ex]
MCCellSizes == {Size(1, 5, 1, TRUE), Size(3, 4, 1, TRUE), Size(2, 7, 2, TRUE), Size(2, 2, 1, FALSE)}

-----------------------------------------------------------------------------
actorsVars == <<widgetVars, focusVars, scrollVars>>
stylesVars == <<themeVars, paintingVars, backgroundVars, sheetVars>>
controlsVars == <<layoutVars, entryVars, buttonVars, iconVars>>
toolkitVars == <<part, actorsVars, stylesVars, controlsVars>>

\* A component that rests has one of its initial states only.
ToolkitInit ==
  /\ part \in {"widgets", "focus", "scroll", "node", "painting", "canvas", "sheets", "layouts", "entries", "button", "icon"}
  /\ WidgetsInit /\ FocusInit /\ LayoutsInit /\ EntriesInit /\ ButtonInit /\ IconInit
  /\ ScrollInit /\ (part # "scroll" => layout = [size |-> [w |-> 4, h |-> 4], content |-> [min |-> 2, area |-> 8],
                                                 policy |-> [h |-> "never", v |-> "automatic"], fresh |-> FALSE])
  /\ ThemeNodeInit /\ (part # "node" => sheet = << <<>>, <<>>, <<>> >>)
  /\ PaintingInit /\ (part # "painting" => painting = [look |-> Look(1, None4, None4, TRUE, FALSE, FALSE), duration |-> 0]
                                           /\ size.w = 5)
  /\ BackgroundInit /\ (part # "canvas" => worn.slices # <<>> /\ canvas.w = 6)
  /\ SheetsInit /\ (part # "sheets" => application = "app")

WidgetsPart == part = "widgets" /\ WidgetsNext /\ UNCHANGED <<part, focusVars, scrollVars, stylesVars, controlsVars>>
FocusPart == part = "focus" /\ FocusNext /\ UNCHANGED <<part, widgetVars, scrollVars, stylesVars, controlsVars>>
ScrollPart == part = "scroll" /\ ScrollNext /\ UNCHANGED <<part, widgetVars, focusVars, stylesVars, controlsVars>>

NodePart == part = "node" /\ ThemeNodeNext /\ UNCHANGED <<part, paintingVars, backgroundVars, sheetVars, actorsVars, controlsVars>>
PaintingPart == part = "painting" /\ PaintingNext /\ UNCHANGED <<part, themeVars, backgroundVars, sheetVars, actorsVars, controlsVars>>
CanvasPart == part = "canvas" /\ BackgroundNext /\ UNCHANGED <<part, themeVars, paintingVars, sheetVars, actorsVars, controlsVars>>
SheetsPart == part = "sheets" /\ SheetsNext /\ UNCHANGED <<part, themeVars, paintingVars, backgroundVars, actorsVars, controlsVars>>

LayoutsPart == part = "layouts" /\ LayoutsNext /\ UNCHANGED <<part, entryVars, buttonVars, iconVars, actorsVars, stylesVars>>
EntriesPart == part = "entries" /\ EntriesNext /\ UNCHANGED <<part, layoutVars, buttonVars, iconVars, actorsVars, stylesVars>>
ButtonPart == part = "button" /\ ButtonNext /\ UNCHANGED <<part, layoutVars, entryVars, iconVars, actorsVars, stylesVars>>
IconPart == part = "icon" /\ IconNext /\ UNCHANGED <<part, layoutVars, entryVars, buttonVars, actorsVars, stylesVars>>

ToolkitNext ==
  \/ WidgetsPart \/ FocusPart \/ ScrollPart
  \/ NodePart \/ PaintingPart \/ CanvasPart \/ SheetsPart
  \/ LayoutsPart \/ EntriesPart \/ ButtonPart \/ IconPart

ToolkitSpec == ToolkitInit /\ [][ToolkitNext]_toolkitVars

\* A widget looks as the tree, its place in it and the pointer say.
WidgetsLookRight == part = "widgets" => WidgetsTypeOK /\ StyleIsFresh /\ EndsAreMarked /\ HoverFollowsPointer

\* The keys move the focus as the actors are laid out.
FocusReachesAll == part = "focus" => FocusTypeOK /\ TabVisitsInOrder /\ ArrowsPointThere

\* A node reads its sheets: what it inherits, what it overrides and what room is left.
NodeReadsSheet ==
  part = "node" => ThemeNodeTypeOK /\ IconsMatchText /\ TextFollowsParent /\ ContentGetsItsWidth /\ EqualNodesPaintAlike

\* What is painted is the style: all of the box once, in the style of now, in
\* the place and the order that the style says.
PaintIsTheStyle ==
  /\ part = "painting" => PaintingTypeOK /\ PiecesTileTheBox /\ PaintFollowsStyle
  /\ part = "canvas" =>
       /\ BackgroundTypeOK /\ PathsFollowTheBox /\ InteriorIsClean /\ CornersFit
       /\ ShadowsAreCast /\ BlurKeepsAll /\ PaintBoxHoldsPaint /\ PiecesMeet

\* A rule applies where its selector says, and the rule that wins is the one of the cascade.
RulesApply == part = "sheets" => SheetsTypeOK /\ SelectorsMatch /\ CascadeIsKept

\* A box and a table share their room among their children.
RoomIsShared == part = "layouts" => LayoutsTypeOK /\ BoxIsShared /\ TableHoldsItsCells

=============================================================================
