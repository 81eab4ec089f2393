------------------------------ MODULE ThemeNode ------------------------------
(***************************************************************************)
(* StThemeNode: what the declarations that match a widget make of its      *)
(* style.  A declaration is [prop, on, part, terms]: border-left-width is  *)
(* prop "border", on {4}, part "width"; a shorthand is on every side.      *)
(* Sides are 1 .. 4 for top, right, bottom, left, and corners likewise     *)
(* from the top left.  Node 1 is the parent, node 2 the widget, and 3 the  *)
(* node the widget had before its style last changed.                      *)
(***************************************************************************)
EXTENDS Naturals, FiniteSetsExt, SequencesExt

CONSTANTS
  ParentSheets, WidgetSheets,   \* bound: the declarations a node may match, in order
  Px,                           \* [term -> Nat]: the terms that are lengths, in pixels
  Colors,                       \* the terms that are colors
  Widths                        \* bound: widths that are asked for

Family == {"color", "warning-color", "border", "padding", "outline", "size", "background", "font-size", "font-weight",
           "text-decoration", "box-shadow", "text-shadow", "-st-background-image-shadow", "border-image", "length"}
SheetType == Seq([prop : Family, on : SUBSET (1 .. 4), part : STRING, terms : Seq(STRING)])

ASSUME ThemeNodeAssumption ==
  /\ \A s \in ParentSheets \cup WidgetSheets : s \in SheetType
  /\ \A t \in DOMAIN Px : Px[t] \in Nat
  /\ Widths \subseteq Nat /\ "inherit" \notin Colors

VARIABLES
  sheet,          \* [1 .. 3 -> SheetType]: ensure_properties()
  geometry,       \* the nodes with geometry_computed
  answer          \* the last answer of st_theme_node_adjust_for_width()

themeVars == <<sheet, geometry, answer>>

NotFound == <<>>      \* a value that is found is a sequence of terms
Inherits == <<"inherit">>
Sides == 1 .. 4
Parents == <<{}, {1}, {1}>>

-----------------------------------------------------------------------------
\* Looking up one property: the last declaration that is understood

IsColor(t) == t \in Colors \cup {"inherit"}             \* get_color_from_term()
IsLength(t) == t \in DOMAIN Px                          \* get_length_from_term()

\* parse_shadow_property(): offsets, blur and spread in their order among the
\* terms; inherit counts only before any of them.
Shadow(terms) ==
  LET lengths == SelectSeq(terms, IsLength)
      inherits == {i \in DOMAIN terms : terms[i] = "inherit"}
      paints == {i \in DOMAIN terms : terms[i] \in Colors}
  IN CASE inherits # {} ->
            IF \E j \in 1 .. Min(inherits) : IsLength(terms[j]) THEN NotFound ELSE Inherits
       [] inherits = {} /\ Len(lengths) < 2 -> NotFound
       [] OTHER -> <<IF "inset" \in ToSet(terms) THEN "inset" ELSE "outset",
                      IF paints = {} THEN "black" ELSE terms[Max(paints)]>> \o lengths

\* What a declaration says of the property of its family
Value(d) ==
  CASE d.prop \in {"color", "warning-color"} -> IF IsColor(d.terms[1]) THEN d.terms ELSE NotFound
    [] d.prop = "length" -> IF IsLength(d.terms[1]) THEN d.terms ELSE NotFound
    [] d.prop \in {"box-shadow", "text-shadow", "-st-background-image-shadow"} -> Shadow(d.terms)
    [] d.prop = "text-decoration" -> IF ToSet(d.terms) \subseteq {"none", "underline", "inherit"} THEN d.terms ELSE NotFound
    [] d.prop = "border-image" -> IF d.terms[1] \in {"none", "image"} THEN d.terms ELSE NotFound
    [] OTHER -> NotFound

Understood(n, prop) == {i \in DOMAIN sheet[n] : sheet[n][i].prop = prop /\ Value(sheet[n][i]) # NotFound}

\* st_theme_node_lookup_color(), _lookup_length(), _lookup_shadow(): inherits
\* when the value says so, and, if asked to, when the node has none.
Lookup(n, prop, inherits) ==
  LET own(k) == IF Understood(k, prop) = {} THEN NotFound ELSE Value(sheet[k][Max(Understood(k, prop))])
      above == IF Parents[n] = {} \/ own(1) = Inherits THEN NotFound ELSE own(1)
  IN IF own(n) = Inherits \/ (own(n) = NotFound /\ inherits) THEN above ELSE own(n)

\* st_theme_node_get_foreground_color()
Foreground(n) == LET c == Lookup(n, "color", TRUE) IN IF c = NotFound THEN "black" ELSE c[1]

BoxShadow(n) == Lookup(n, "box-shadow", FALSE)

\* Insets are dropped where they make no sense.
Outset(s) == IF s # NotFound /\ Head(s) = "inset" THEN NotFound ELSE s
ImageShadow(n) == Outset(Lookup(n, "-st-background-image-shadow", FALSE))
TextShadow(n) ==
  LET own == Lookup(n, "text-shadow", FALSE)
  IN Outset(IF own = NotFound /\ Parents[n] # {} THEN Outset(Lookup(1, "text-shadow", FALSE)) ELSE own)

BorderImage(n) == LET own == Lookup(n, "border-image", FALSE) IN IF own = <<"none">> THEN NotFound ELSE own
TextDecoration(n) == ToSet(Lookup(n, "text-decoration", FALSE))

-----------------------------------------------------------------------------
\* Icon colors

IconProps == {"color", "warning-color"}

\* Mutant: inherit does not settle the question, an earlier declaration does.
IconColorsGoOn(n) ==
  LET base(k) == [foreground |-> "black", warning |-> "orange"]
      take(st, d) ==
        IF d.prop \in st.need /\ d.terms[1] \in Colors
        THEN [need |-> st.need \ {d.prop},
              is |-> IF d.prop = "color" THEN [st.is EXCEPT !.foreground = d.terms[1]]
                     ELSE [st.is EXCEPT !.warning = d.terms[1]]]
        ELSE st
      over(k, from) == FoldLeft(take, [need |-> IconProps, is |-> from], Reverse(sheet[k])).is
  IN IF Parents[n] = {} THEN over(n, base(n)) ELSE over(n, over(1, base(1)))

\* st_theme_node_get_icon_colors(): from the colors of the parent, through the
\* declarations from the last to the first, while a color is needed.
IconColors(n) ==
  LET base(k) == [foreground |-> "black", warning |-> "orange"]
      take(st, d) ==
        IF d.prop \in st.need /\ IsColor(d.terms[1])
        THEN [need |-> st.need \ {d.prop},
              is |-> CASE d.terms[1] = "inherit" -> st.is
                       [] d.prop = "color" -> [st.is EXCEPT !.foreground = d.terms[1]]
                       [] OTHER -> [st.is EXCEPT !.warning = d.terms[1]]]
        ELSE st
      over(k, from) == FoldLeft(take, [need |-> IconProps, is |-> from], Reverse(sheet[k])).is
  IN IF Parents[n] = {} THEN over(n, base(n)) ELSE over(n, over(1, base(1)))

-----------------------------------------------------------------------------
\* Geometry: the declarations in their order, over the defaults

\* Which of k values a side, or a corner, takes
Share == << <<1, 1, 1, 1>>, <<1, 2, 1, 2>>, <<1, 2, 3, 2>>, <<1, 2, 3, 4>> >>

\* do_padding_property(), do_border_radius(): terms that are no lengths leave
\* their sides alone; a property of one side has one value.
Spread(old, d) ==
  LET k == Len(d.terms)
      term(s) == d.terms[IF d.on = Sides THEN Share[k][s] ELSE 1]
  IN IF k = 0 \/ k > 4 \/ (d.on # Sides /\ k > 1) THEN old
     ELSE [s \in Sides |-> IF s \in d.on /\ IsLength(term(s)) THEN Px[term(s)] ELSE old[s]]

\* What a border or outline says, in any order: do_border_property(), do_outline_property()
WidthTerms(d) == {i \in DOMAIN d.terms : d.part \in {"", "width"} /\ (IsLength(d.terms[i]) \/ (d.part = "" /\ d.terms[i] = "none"))}
ColorTerms(d) == {i \in DOMAIN d.terms : d.part \in {"", "color"} /\ IsColor(d.terms[i])}
WidthSaid(d, old) ==
  IF WidthTerms(d) = {} THEN old
  ELSE LET t == d.terms[Max(WidthTerms(d))] IN IF IsLength(t) THEN Px[t] ELSE 0
ColorSaid(d, old) ==
  IF ColorTerms(d) = {} THEN old
  ELSE LET t == d.terms[Max(ColorTerms(d))] IN IF t = "inherit" THEN old ELSE t

Unset == 1000     \* -1 in the code
NoGeometry ==
  [border |-> [s \in Sides |-> 0], paint |-> [s \in Sides |-> "transparent"],
   radius |-> [s \in Sides |-> 0], padding |-> [s \in Sides |-> 0],
   outline |-> 0, outlinePaint |-> "transparent",
   width |-> Unset, least |-> Unset, most |-> Unset]

Declare(g, d) ==
  CASE d.prop = "border" /\ d.part = "radius" -> [g EXCEPT !.radius = Spread(@, d)]
    [] d.prop = "border" /\ d.part # "radius" ->
         [g EXCEPT !.border = [s \in Sides |-> IF s \in d.on THEN WidthSaid(d, @[s]) ELSE @[s]],
                   !.paint = [s \in Sides |-> IF s \in d.on THEN ColorSaid(d, @[s]) ELSE @[s]]]
    [] d.prop = "outline" -> [g EXCEPT !.outline = WidthSaid(d, @), !.outlinePaint = ColorSaid(d, @)]
    [] d.prop = "padding" -> [g EXCEPT !.padding = Spread(@, d)]
    [] d.prop = "size" /\ IsLength(d.terms[1]) ->
         CASE d.part = "width" -> [g EXCEPT !.width = Px[d.terms[1]]]
           [] d.part = "min-width" -> [g EXCEPT !.least = Px[d.terms[1]]]
           [] OTHER -> [g EXCEPT !.most = Px[d.terms[1]]]
    [] OTHER -> g

\* A width that is set bounds itself: the end of _st_theme_node_ensure_geometry()
Bounded(g) ==
  LET w == IF g.least # Unset /\ g.width < g.least THEN g.least ELSE g.width
  IN IF g.width = Unset THEN g
     ELSE [g EXCEPT !.least = IF @ = Unset THEN g.width ELSE @,
                    !.most = IF @ = Unset THEN w ELSE @,
                    !.width = IF g.most # Unset /\ w > g.most THEN g.most ELSE w]

Geometry(n) == Bounded(FoldLeft(Declare, NoGeometry, sheet[n]))

\* get_width_inc()
Inc(g) == g.border[4] + g.padding[4] + g.border[2] + g.padding[2]

\* st_theme_node_adjust_preferred_width()
Preferred(g, w) ==
  [min |-> (IF g.least # Unset THEN g.least ELSE w.min) + Inc(g),
   natural |-> Min({IF g.width # Unset THEN g.width ELSE w.natural, g.most}) + Inc(g)]

\* st_theme_node_get_content_box(): its width
ContentWidth(g, w) == IF w < Inc(g) THEN 0 ELSE w - Inc(g)

\* st_theme_node_adjust_for_width(): reads what was computed, and computes nothing.
ForWidth(n, w) == LET g == IF n \in geometry THEN Geometry(n) ELSE NoGeometry IN Max({Inc(g), w}) - Inc(g)

-----------------------------------------------------------------------------
\* The font, as far as its size, a hundredth of the size of the stage's, and weight

FontStep(parent, f, d) ==
  CASE d.prop = "font-size" /\ d.terms[1] = "50%" -> [f EXCEPT !.size = parent.size \div 2]
    [] d.prop = "font-size" /\ IsLength(d.terms[1]) -> [f EXCEPT !.size = 100 * Px[d.terms[1]]]
    [] d.prop = "font-weight" /\ d.terms[1] = "bold" -> [f EXCEPT !.weight = 700]
    [] d.prop = "font-weight" /\ d.terms[1] = "bolder" -> [f EXCEPT !.weight = Min({parent.weight + 200, 900})]
    [] OTHER -> f

\* st_theme_node_get_font(): relative to the parent's, which is what it starts from
Font(n) ==
  LET of(k, from) == FoldLeft(LAMBDA f, d : FontStep(from, f, d), from, sheet[k])
      top == of(1, [size |-> 100, weight |-> 400])
  IN IF Parents[n] = {} THEN top ELSE of(n, top)

-----------------------------------------------------------------------------
\* The background

NoBackground ==
  [color |-> "transparent", image |-> "none", position |-> "unset", extent |-> "auto", gradient |-> "none", end |-> "transparent"]

BackgroundStep(above, b, d) ==
  LET t == d.terms[1] IN
  CASE d.prop # "background" -> b
    [] d.prop = "background" /\ d.part = "" ->
         LET reset == [b EXCEPT !.color = "transparent", !.image = "none", !.position = "unset", !.extent = "auto"]
         IN FoldLeft(LAMBDA c, u : CASE u \in Colors -> [c EXCEPT !.color = u]
                                     [] u = "inherit" -> [c EXCEPT !.color = above.color, !.image = above.image]
                                     [] u = "image" -> [c EXCEPT !.image = u]
                                     [] OTHER -> c, reset, d.terms)
    [] d.part \in {"color", "gradient-start"} ->
         CASE t \in Colors -> [b EXCEPT !.color = t]
           [] t = "inherit" /\ d.part = "color" -> [b EXCEPT !.color = above.color]
           [] OTHER -> b
    [] d.part = "image" ->
         CASE t \in {"image", "none"} -> [b EXCEPT !.image = t] [] t = "inherit" -> [b EXCEPT !.image = above.image] [] OTHER -> b
    [] d.part = "position" ->
         [b EXCEPT !.position = IF Len(d.terms) = 2 /\ IsLength(t) /\ IsLength(d.terms[2]) THEN "set" ELSE "unset"]
    [] d.part = "size" -> [b EXCEPT !.extent = CASE t \in {"contain", "cover"} -> t [] IsLength(t) -> "fixed" [] OTHER -> "auto"]
    [] d.part = "gradient-direction" -> [b EXCEPT !.gradient = IF t \in {"vertical", "none"} THEN t ELSE @]
    [] d.part = "gradient-end" -> [b EXCEPT !.end = IF t \in Colors THEN t ELSE @]
    [] OTHER -> b

\* _st_theme_node_ensure_background()
Background(n) ==
  LET of(k, above) == FoldLeft(LAMBDA b, d : BackgroundStep(above, b, d), NoBackground, sheet[k])
  IN IF Parents[n] = {} THEN of(n, NoBackground) ELSE of(n, of(1, NoBackground))

-----------------------------------------------------------------------------
\* Comparing what nodes paint

\* Everything that st_theme_node_paint() draws from
Drawn(n) ==
  LET g == Geometry(n)
      b == Background(n)
  IN [background |-> [b EXCEPT !.end = IF b.gradient = "none" THEN "transparent" ELSE @],
      border |-> g.border, radius |-> g.radius,
      paint |-> [s \in Sides |-> IF g.border[s] = 0 THEN "transparent" ELSE g.paint[s]],
      outline |-> g.outline, outlinePaint |-> IF g.outline = 0 THEN "transparent" ELSE g.outlinePaint,
      image |-> BorderImage(n), box |-> BoxShadow(n), shadow |-> ImageShadow(n)]

\* st_theme_node_paint_equal(): does not look at position and size.
PaintEqual(m, n) ==
  LET b(k) == Background(k)
      g(k) == Geometry(k)
  IN /\ b(m).color = b(n).color /\ b(m).gradient = b(n).gradient /\ b(m).image = b(n).image
     /\ b(m).gradient # "none" => b(m).end = b(n).end
     /\ \A s \in Sides : /\ g(m).border[s] = g(n).border[s] /\ g(m).radius[s] = g(n).radius[s]
                         /\ g(m).border[s] > 0 => g(m).paint[s] = g(n).paint[s]
     /\ g(m).outline = g(n).outline /\ (g(m).outline > 0 => g(m).outlinePaint = g(n).outlinePaint)
     /\ BorderImage(m) = BorderImage(n) /\ BoxShadow(m) = BoxShadow(n) /\ ImageShadow(m) = ImageShadow(n)

\* st_theme_node_geometry_equal()
GeometryEqual(m, n) ==
  LET seen(g) == <<g.border, g.padding, g.width, g.least, g.most>> IN seen(Geometry(m)) = seen(Geometry(n))

-----------------------------------------------------------------------------
ThemeNodeInit ==
  /\ \E p \in ParentSheets, w \in WidgetSheets : sheet = <<p, w, w>>
  /\ geometry = {}
  /\ answer = [node |-> 2, for |-> 0, is |-> 0, known |-> FALSE]

\* Any of the getters that need the geometry
GeometryAsked ==
  /\ \E n \in {1, 2} : n \notin geometry /\ geometry' = geometry \cup {n}
  /\ UNCHANGED <<sheet, answer>>

ForWidthAsked ==
  /\ \E w \in Widths : answer' = [node |-> 2, for |-> w, is |-> ForWidth(2, w), known |-> 2 \in geometry]
  /\ UNCHANGED <<sheet, geometry>>

\* The classes of the widget change and it gets a new node, see
\* st_widget_recompute_style(), which compares the geometry of the two.
NodeReplaced ==
  /\ \E w \in WidgetSheets : sheet' = <<sheet[1], w, sheet[2]>>
  /\ geometry' = geometry \cup {2, 3}
  /\ answer' = [answer EXCEPT !.for = 0, !.is = 0, !.known = FALSE]

ThemeNodeNext == GeometryAsked \/ ForWidthAsked \/ NodeReplaced

-----------------------------------------------------------------------------
\* Types
ThemeNodeTypeOK ==
  /\ sheet \in [1 .. 3 -> ParentSheets \cup WidgetSheets]
  /\ geometry \subseteq 1 .. 3
  /\ answer \in [node : {2}, for : Nat, is : Nat, known : BOOLEAN]

\* "Foreground here will always be the same as
\* st_theme_node_get_foreground_color()", st-theme-node.c:3043: the loop over
\* all the icon colors settles each as the lookup of that color alone does.
IconsMatchText ==
  \A n \in 1 .. 3 : /\ IconColors(n).foreground = Foreground(n)
                    /\ LET w == Lookup(n, "warning-color", TRUE)
                       IN IconColors(n).warning = IF w = NotFound THEN "orange" ELSE w[1]

\* What text inherits and what it does not: a node that says nothing of its
\* font or of the shadow of its text has those of its parent, a relative weight
\* is relative to the parent whatever the node said before, and decorations
\* are its own.
TextFollowsParent ==
  LET says(p) == {i \in DOMAIN sheet[2] : sheet[2][i].prop = p} IN
    /\ says("font-size") = {} => Font(2).size = Font(1).size
    /\ (\E i \in says("font-weight") : sheet[2][i].terms[1] = "bolder" /\ i = Max(says("font-weight")))
         => Font(2).weight = Min({Font(1).weight + 200, 900})
    /\ says("text-shadow") = {} => TextShadow(2) = TextShadow(1)
    /\ says("text-decoration") = {} => TextDecoration(2) = {}

\* The content gets the width that was asked for it: a node that is given the
\* width it prefers leaves its content that width, whatever surrounds it, and
\* for a node whose geometry is known the width the content is measured for is
\* the width it is given.
ContentGetsItsWidth ==
  \A n \in {1, 2} :
    LET g == Geometry(n) IN
      /\ \A w \in Widths :
           LET p == Preferred(g, [min |-> w, natural |-> w + 1]) IN
             /\ g.least = Unset => ContentWidth(g, p.min) = w
             /\ g.least # Unset => ContentWidth(g, p.min) = g.least
             /\ g.width = Unset /\ g.most >= w + 1 => ContentWidth(g, p.natural) = w + 1
      /\ answer.known /\ answer.node = n => answer.is = ContentWidth(g, answer.for)
      /\ GeometryEqual(n, 3) => \A w \in Widths : ContentWidth(g, w) = ContentWidth(Geometry(3), w)

\* "%TRUE if the two theme nodes paint identically", st-theme-node.c:3473, but for
\* where a background image lies and how large it is: what is not compared, such as
\* the color of a border without width, is not seen.
EqualNodesPaintAlike ==
  LET seen(n) == [Drawn(n) EXCEPT !.background.position = "unset", !.background.extent = "auto"]
  IN PaintEqual(2, 3) => seen(2) = seen(3)
===============================================================================
