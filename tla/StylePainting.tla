---------------------------- MODULE StylePainting ----------------------------
(***************************************************************************)
(* How a widget is painted: the resources a theme node renders for the     *)
(* size it is painted at, the pieces that its borders, corners and         *)
(* background are put together from, and the transition from one style to  *)
(* the next.  A style is what its theme node says; two styles may look     *)
(* the same.  The pixels of the allocation are <<x, y>>.  The second part  *)
(* is what a theme node draws.                                             *)
(***************************************************************************)
EXTENDS Integers, FiniteSets, FiniteSetsExt, SequencesExt

CONSTANTS
  Styles,         \* [look, duration, border, radius, solid, image, gradient]
  PaintSizes      \* bound: sizes [w, h] the widget is given

LookType == [border : [1 .. 4 -> Nat], radius : [1 .. 4 -> Nat], solid : BOOLEAN, image : BOOLEAN, gradient : BOOLEAN, id : Nat]

ASSUME PaintingAssumption ==
  /\ \A s \in Styles : s.look \in LookType /\ s.duration \in Nat
  /\ \A z \in PaintSizes : z.w \in Nat \ {0} /\ z.h \in Nat \ {0}

VARIABLES
  painting,       \* the style of the widget
  size,           \* its allocation
  rendered,       \* what the theme node drew from: {} or {[look, size]}
  transition,     \* transition_animation: {} or {[old, new, forward, elapsed, setup, shown]}
  painted         \* what is on the screen: {} or {<<looks, size>>}; empty while a redraw is queued

paintingVars == <<painting, size, rendered, transition, painted>>

\* st_theme_node_paint_equal()
SamePaint(s, t) == s.look = t.look

-----------------------------------------------------------------------------
\* The resources

\* st_theme_node_reduce_border_radius(): corners 1 .. 4 from the top left; one
\* scale for all, the smallest that a side asks for.
Radius(l, z) ==
  LET r == l.radius
      sums == {<<z.w, r[1] + r[2]>>, <<z.h, r[2] + r[3]>>, <<z.w, r[4] + r[3]>>, <<z.h, r[4] + r[1]>>}
      asked == {<<1, 1>>} \cup {q \in sums : q[2] > q[1]}
      least == CHOOSE q \in asked : \A o \in asked : q[1] * o[2] <= o[1] * q[2]
  IN [c \in 1 .. 4 |-> (r[c] * least[1]) \div least[2]]

HasBorder(l) == \E s \in 1 .. 4 : l.border[s] > 0
HasRadius(l) == \E s \in 1 .. 4 : l.radius[s] > 0
LargeCorners(l, z) == \E c \in 1 .. 4 : 2 * Radius(l, z)[c] > z.h \/ 2 * Radius(l, z)[c] > z.w

\* st_theme_node_render_resources(): what needs cairo, and a background image
\* that does not.
Prerenders(l, z) == l.gradient \/ (l.image /\ (HasBorder(l) \/ HasRadius(l))) \/ LargeCorners(l, z)

-----------------------------------------------------------------------------
\* The pieces of st_theme_node_paint_borders(); sides 1 .. 4 from the top

Wider(a, b) == IF a > b THEN a ELSE b

\* The rectangles of the border, the corners and the background, in the order
\* they are drawn.
Pieces(l, z) ==
  LET b == l.border
      r == Radius(l, z)
      most == Max({r[c] : c \in 1 .. 4})
      wide == <<Wider(Wider(b[1], b[4]), r[1]), Wider(Wider(b[1], b[2]), r[2]),
                Wider(Wider(b[3], b[2]), r[3]), Wider(Wider(b[3], b[4]), r[4])>>
      at(c, otherwise) == IF r[c] > 0 THEN wide[c] ELSE otherwise
      border ==
        IF ~HasBorder(l) THEN {}
        ELSE {<<"n", at(1, 0), 0, z.w - at(2, 0), b[1]>>,
              <<"e", z.w - b[2], at(2, b[1]), z.w, z.h - at(3, b[3])>>,
              <<"s", at(4, 0), z.h - b[3], z.w - at(3, 0), z.h>>,
              <<"w", 0, at(1, b[1]), b[4], z.h - at(4, b[3])>>}
      corners ==
        {<<"c", IF c \in {1, 4} THEN 0 ELSE z.w - wide[c], IF c \in {1, 2} THEN 0 ELSE z.h - wide[c],
                IF c \in {1, 4} THEN wide[c] ELSE z.w, IF c \in {1, 2} THEN wide[c] ELSE z.h>> :
           c \in {k \in 1 .. 4 : r[k] > 0 /\ (l.solid \/ HasBorder(l))}}
      \* what pads the corner c to the largest radius: x side v, y side u
      pad(c) ==
        LET v == IF c \in {1, 4} THEN b[4] ELSE b[2]
            u == IF c \in {1, 2} THEN b[1] ELSE b[3]
            X(x) == IF c \in {1, 4} THEN x ELSE z.w - x
            Y(y) == IF c \in {1, 2} THEN y ELSE z.h - y
        IN {<<"p", X(v), Y(Wider(r[c], u)), X(most), Y(most)>>}
           \cup (IF r[c] = 0 THEN {} ELSE {<<"q", X(Wider(r[c], v)), Y(u), X(most), Y(Wider(r[c], u))>>})
      background ==
        {<<"m", b[4], Wider(b[1], most), z.w - b[2], z.h - Wider(b[3], most)>>}
        \cup (IF most > b[1] THEN {<<"t", Wider(most, b[4]), b[1], z.w - Wider(most, b[2]), most>>} ELSE {})
        \cup (IF most > b[3] THEN {<<"b", Wider(most, b[4]), z.h - most, z.w - Wider(most, b[2]), z.h - b[3]>>} ELSE {})
  IN border \cup corners
     \cup (IF l.solid THEN background \cup UNION {pad(c) : c \in {k \in 1 .. 4 : r[k] # most}} ELSE {})

\* A rectangle covers what is between its corners, whichever comes first.
Between(x, a, b) == (a <= x /\ x < b) \/ (b <= x /\ x < a)
Covers(p, x, y) == Between(x, p[2], p[4]) /\ Between(y, p[3], p[5])

-----------------------------------------------------------------------------
PaintingInit ==
  /\ painting \in Styles /\ size \in PaintSizes
  /\ rendered = {} /\ transition = {} /\ painted = {}

PaintResized ==
  /\ \E z \in PaintSizes \ {size} : size' = z
  /\ painted' = {}
  /\ UNCHANGED <<painting, rendered, transition>>

\* st_theme_node_transition_update(): turns round for a reversal; otherwise one
\* that has begun ends, and one that has not gets a new goal.
Updated(t, new) ==
  LET back == IF t.forward THEN t.old ELSE t.new IN
  IF new = back
  THEN IF t.elapsed > 0 THEN {[t EXCEPT !.forward = ~@]} ELSE {}
  ELSE IF t.elapsed > 0 THEN {}
       ELSE {[t EXCEPT !.new = new, !.setup = @ /\ SamePaint(t.new, new)]}

\* Mutant: the resources of the node before are taken over whatever they show.
RestyleKeepsResources ==
  /\ \E s \in Styles \ {painting} :
       /\ painting' = s
       /\ transition' = IF s.duration = 0 THEN {} ELSE UNION {Updated(t, s) : t \in transition}
       /\ UNCHANGED rendered
  /\ painted' = {}
  /\ UNCHANGED size

\* st_widget_recompute_style(), and the redraw of st_widget_real_style_changed()
Restyle ==
  /\ \E s \in Styles \ {painting} :
       /\ painting' = s
       /\ rendered' = IF SamePaint(painting, s) THEN rendered ELSE {}
       /\ transition' =
            CASE s.duration = 0 -> {}
              [] s.duration > 0 /\ transition # {} -> UNION {Updated(t, s) : t \in transition}
              [] s.duration > 0 /\ transition = {} /\ ~SamePaint(painting, s) ->
                   {[old |-> painting, new |-> s, forward |-> TRUE, elapsed |-> 0, setup |-> FALSE, shown |-> {}]}
              [] OTHER -> {}
  /\ painted' = {}
  /\ UNCHANGED size

\* st_widget_paint_background(): the node renders its resources again when the
\* size is another one; a transition paints its two nodes once into textures.
Paint ==
  /\ painted = {}
  /\ IF transition = {}
     THEN /\ rendered' = IF \E r \in rendered : r.size = size THEN rendered ELSE {[look |-> painting.look, size |-> size]}
          /\ painted' = {<<{r.look : r \in rendered'}, size>>}
          /\ UNCHANGED transition
     ELSE /\ transition' =
               {LET looks == {t.old.look, t.new.look}
                    ready == t.setup /\ \E s \in t.shown : s[2] = size
                IN [t EXCEPT !.setup = TRUE, !.shown = IF ready THEN @ ELSE {<<looks, size>>}] : t \in transition}
          /\ painted' = UNION {t.shown : t \in transition'}
          /\ UNCHANGED rendered
  /\ UNCHANGED <<painting, size>>

\* A frame of the timeline: new-frame queues a redraw, the last completes.
\* Elapsed is 0, 1 for any time between, and 2 for all of it.
TransitionFrame ==
  /\ \E t \in transition, left \in {0, 1} :
       LET done == (t.forward /\ left = 1 /\ t.elapsed = 1) \/ (~t.forward /\ left = 1)
       IN transition' = IF done THEN {} ELSE {[t EXCEPT !.elapsed = 1]}
  /\ painted' = {}
  /\ UNCHANGED <<painting, size, rendered>>

PaintingNext == PaintResized \/ Restyle \/ Paint \/ TransitionFrame

-----------------------------------------------------------------------------
\* Types
PaintingTypeOK ==
  /\ painting \in Styles /\ size \in PaintSizes
  /\ \A r \in rendered : r.size \in PaintSizes /\ r.look \in LookType
  /\ \A t \in transition : t.old \in Styles /\ t.new \in Styles /\ t.forward \in BOOLEAN /\ t.elapsed \in 0 .. 2
  /\ Cardinality(rendered) <= 1 /\ Cardinality(transition) <= 1 /\ Cardinality(painted) <= 1

\* What is painted with cogl is put together without a gap and without an
\* overlap, that a translucent color would show: every pixel belongs to one
\* piece, for all borders that leave room for a content.  A larger corner is
\* left to cairo ("which results in overlapping corner areas if the radius
\* exceeds the actor's halfsize", st-theme-node-drawing.c).
PiecesTileTheBox ==
  LET l == painting.look
      roomy == l.border[1] + l.border[3] < size.h /\ l.border[2] + l.border[4] < size.w
  IN ~Prerenders(l, size) /\ roomy =>
       \A pieces \in {Pieces(l, size)} :
         \A x \in 0 .. size.w - 1, y \in 0 .. size.h - 1 :
           LET over == {p \in pieces : Covers(p, x, y)}
           IN IF l.solid THEN Cardinality(over) = 1 ELSE Cardinality(over) <= 1

\* What is on the screen is the style of the widget at its size, and a
\* transition that is under way goes to that style, between two looks that its
\* textures show, whatever changes came while it ran.
PaintFollowsStyle ==
  /\ \A p \in painted : p[2] = size /\ painting.look \in p[1]
  /\ \A r \in rendered : r.look = painting.look
  /\ \A t \in transition :
       /\ painting = IF t.forward THEN t.new ELSE t.old
       /\ t.setup => \A s \in t.shown : s[1] = {t.old.look, t.new.look}
-----------------------------------------------------------------------------
(***************************************************************************)
(* What a theme node draws: where its background image goes, the paths and *)
(* the layers of the picture that cairo renders for it, its corners, its   *)
(* border image, its shadows and the buffers two nodes are blended in      *)
(* (st-theme-node-drawing.c, st-theme-node-transition.c, st-private.c).    *)
(* Boxes are [x1, y1, x2, y2], paths the sequences of their points; colors *)
(* are their alpha, 0 .. 255.                                              *)
(***************************************************************************)
CONSTANTS
  Wardrobe,       \* the looks that nodes have
  CanvasSizes,    \* bound: sizes [w, h] that a widget is given, empty ones too
  Blurs           \* bound: blur radii that text and images cast shadows with

ShadowType == [dx : Int, dy : Int, blur : Nat, spread : Int, inset : BOOLEAN]
ImageType == [w : Nat \ {0}, h : Nat \ {0}, opaque : BOOLEAN, loads : BOOLEAN]

ASSUME WardrobeAssumption ==
  /\ \A l \in Wardrobe :
       /\ l.image \subseteq ImageType /\ l.imageShadow \subseteq ShadowType /\ l.boxShadow \subseteq ShadowType
       /\ l.gradient \in {"none", "vertical", "horizontal", "radial"}
       /\ l.sizing.kind \in {"auto", "contain", "cover", "fixed"}
  /\ \A z \in CanvasSizes : z.w \in Nat /\ z.h \in Nat
  /\ Blurs \subseteq Nat

VARIABLES
  worn,           \* the node of the widget
  canvas,         \* the size of its allocation
  leaving,        \* the nodes that a transition comes from: {} or one
  drawn           \* what was painted last: {} or {a picture}

backgroundVars == <<worn, canvas, leaving, drawn>>

Rect(x1, y1, x2, y2) == [x1 |-> x1, y1 |-> y1, x2 |-> x2, y2 |-> y2]
Lower(a, b) == IF a < b THEN a ELSE b
Inside(i, o) == o.x1 <= i.x1 /\ o.y1 <= i.y1 /\ i.x2 <= o.x2 /\ i.y2 <= o.y2
Joined(a, o) == Rect(Lower(a.x1, o.x1), Lower(a.y1, o.y1), Wider(a.x2, o.x2), Wider(a.y2, o.y2))
Whole(z) == Rect(0, 0, z.w, z.h)
Grown(a, d) == Rect(a.x1 - d, a.y1 - d, a.x2 + d, a.y2 + d)

-----------------------------------------------------------------------------
\* The boxes that a node paints in

\* st_shadow_get_box()
ShadowBox(s, a) ==
  IF s.inset THEN a
  ELSE LET g == Grown(a, s.blur + s.spread) IN Rect(g.x1 + s.dx, g.y1 + s.dy, g.x2 + s.dx, g.y2 + s.dy)

\* st_theme_node_get_background_paint_box()
BackgroundPaintBox(l, a) ==
  IF l.imageShadow = {} THEN a ELSE Joined(a, ShadowBox(CHOOSE s \in l.imageShadow : TRUE, a))

\* st_theme_node_get_paint_box()
PaintBox(l, a) ==
  LET ring == Grown(BackgroundPaintBox(l, a), l.outline)
  IN IF l.boxShadow = {} THEN ring ELSE Joined(ring, ShadowBox(CHOOSE s \in l.boxShadow : TRUE, a))

\* st_theme_node_has_visible_outline()
HasVisibleOutline(l) == l.alpha > 0 \/ l.endAlpha > 0 \/ HasRadius(l) \/ HasBorder(l)

-----------------------------------------------------------------------------
\* The background image, in units of 1 / Unit of a pixel

Unit(i) == 2 * i.w * i.h

\* get_background_scale(): the size of the scaled image
ScaledImage(l, i, z) ==
  LET u == Unit(i)
      byWidth == [w |-> z.w * u, h |-> z.w * i.h * 2 * i.h]
      byHeight == [w |-> z.h * i.w * 2 * i.w, h |-> z.h * u]
      f == l.sizing
  IN CASE l.sizing.kind = "auto" -> [w |-> i.w * u, h |-> i.h * u]
       [] l.sizing.kind = "contain" -> IF z.w * i.h < z.h * i.w THEN byWidth ELSE byHeight
       [] l.sizing.kind = "cover" -> IF z.w * i.h < z.h * i.w THEN byHeight ELSE byWidth
       [] OTHER -> IF f.w > -1
                   THEN [w |-> f.w * u, h |-> IF f.h > -1 THEN f.h * u ELSE f.w * i.h * 2 * i.h]
                   ELSE [w |-> f.h * i.w * 2 * i.w, h |-> f.h * u]

\* get_background_coordinates(): where it starts
ImageStart(l, i, z, scaled) ==
  IF l.position # <<>>
  THEN [x |-> l.position[1] * Unit(i), y |-> l.position[2] * Unit(i)]
  ELSE [x |-> (z.w * Unit(i) - scaled.w) \div 2, y |-> (z.h * Unit(i) - scaled.h) \div 2]

\* get_background_position()
ImageBox(l, i, z) ==
  LET scaled == ScaledImage(l, i, z)
      start == ImageStart(l, i, z, scaled)
  IN Rect(start.x, start.y, start.x + scaled.w, start.y + scaled.h)

\* create_cairo_pattern_of_background_image(): an opaque image "fills up the
\* entire allocated area" when it does not start before it and reaches its end.
NeedsFill(l, i, z) ==
  LET q == ImageBox(l, i, z)
  IN ~(i.opaque /\ q.x1 >= 0 /\ q.x2 - 2 * q.x1 >= z.w * Unit(i) /\ q.y1 >= 0 /\ q.y2 - 2 * q.y1 >= z.h * Unit(i))

-----------------------------------------------------------------------------
\* Corners

\* over() and its NORM(): the alpha of one color on another
Norm(x) == LET t == x + 127 IN (t + t \div 256) \div 256
Over(s, d) == s + Norm((255 - s) * d)

\* st_theme_node_get_corner_border_widths(): the side above or below, the side beside
CornerSides(c) ==
  CASE c = 1 -> <<1, 4>> [] c = 2 -> <<1, 2>> [] c = 3 -> <<3, 2>> [] OTHER -> <<3, 4>>

\* st_theme_node_lookup_corner(): what tells one corner from another in the
\* texture cache; {} when there is nothing of it to see.
CornerSpec(l, c, z) ==
  {s \in {[radius |-> Radius(l, z)[c], color |-> l.alpha, edge |-> Over(l.edge, l.alpha),
           widths |-> <<l.border[CornerSides(c)[1]], l.border[CornerSides(c)[2]]>>]} :
     s.radius > 0 /\ (s.color > 0 \/ s.edge > 0)}

\* create_corner_material(): four quarters in a square; the color only shows
\* when the radius is as wide as the border.
CornerTexture(s) ==
  LET border == Wider(s.widths[1], s.widths[2])
  IN [side |-> 2 * Wider(border, s.radius),
      layers |-> IF border > s.radius THEN <<"edge">>
                 ELSE (IF border # 0 THEN <<"edge">> ELSE <<>>) \o <<"color">>]

-----------------------------------------------------------------------------
\* The picture that cairo renders: st_theme_node_prerender_background()

IsInset(l) == \E s \in l.boxShadow : s.inset

\* st_theme_node_render_resources(): whether there is one
IsPrerendered(l, z) ==
  \/ l.gradient # "none"
  \/ IsInset(l) /\ (HasBorder(l) \/ l.alpha > 0)
  \/ l.image # {} /\ (HasBorder(l) \/ HasRadius(l))
  \/ HasRadius(l) /\ LargeCorners(l, z)

\* The box of the actor in a picture that starts with its paint box
ActorInPicture(l, z) ==
  LET p == BackgroundPaintBox(l, Whole(z)) IN Rect(-p.x1, -p.y1, z.w - p.x1, z.h - p.y1)
PictureSize(l, z) ==
  LET p == BackgroundPaintBox(l, Whole(z)) IN [w |-> p.x2 - p.x1, h |-> p.y2 - p.y1]

\* The path of the outline; from the top left corner clockwise, both ends of
\* the arc of each corner.
OutlinePath(l, z) ==
  LET a == ActorInPicture(l, z)
      r == Radius(l, z)
  IN << <<a.x1, a.y1 + r[1]>>, <<a.x1 + r[1], a.y1>>,
        <<a.x2 - r[2], a.x1>>, <<a.x2, a.x1 + r[2]>>,
        <<a.x2, a.y2 - r[3]>>, <<a.x2 - r[3], a.y2>>,
        <<a.x1 + r[4], a.y2>>, <<a.x1, a.y2 - r[4]>> >>

\* elliptical_arc() or a corner, whichever the border leaves
InnerCorner(round, from, to, corner) == IF round THEN <<from, to>> ELSE <<corner, corner>>

\* The path inside the borders
InteriorPath(l, z) ==
  LET a == ActorInPicture(l, z)
      r == Radius(l, z)
      top == a.y1 + l.border[1]
      right == a.x2 - l.border[2]
      bottom == a.y2 - l.border[3]
      left == a.x1 + l.border[4]
      round(c) == r[c] > Wider(l.border[CornerSides(c)[1]], l.border[CornerSides(c)[2]])
  IN InnerCorner(round(1), <<left, a.y1 + r[1]>>, <<a.x1 + r[1], top>>, <<left, top>>)
     \o << <<a.x2 - Wider(r[2], l.border[2]), top>> >>
     \o InnerCorner(round(2), <<a.x2 - r[2], top>>, <<right, a.y1 + r[2]>>, <<right, top>>)
     \o << <<right, a.y2 - Wider(r[3], l.border[3])>> >>
     \o InnerCorner(round(3), <<right, a.y2 - r[3]>>, <<a.x2 - r[3], bottom>>, <<right, bottom>>)
     \o << <<Wider(r[4], l.border[4]), bottom>> >>
     \o InnerCorner(round(4), <<a.x1 + r[4], bottom>>, <<left, a.y2 - r[4]>>, <<left, bottom>>)

\* What the background is drawn with
Pattern(l, z) ==
  IF l.gradient # "none" THEN {[kind |-> "gradient", opaque |-> l.alpha = 255 /\ l.endAlpha = 255, fill |-> FALSE]}
  ELSE {[kind |-> "image", opaque |-> i.opaque, fill |-> NeedsFill(l, i, z)] : i \in {k \in l.image : k.loads}}

Solid(l, z) == \A q \in Pattern(l, z) : q.fill
BordersFilled(l) == l.slices = <<>> /\ HasBorder(l)

\* A layer of the picture: what is drawn, how, and the path that it is clipped to
Layer(what, how, clip) == [what |-> what, how |-> how, clip |-> clip]
When(cond, layer) == IF cond THEN <<layer>> ELSE <<>>

\* The order of the layers: the border fills all of the outline, what follows
\* is clipped to the interior of the borders.
Layers(l, z) ==
  LET clip == IF BordersFilled(l) THEN "interior" ELSE "outline"
      translucent == \E q \in Pattern(l, z) : q.kind = "gradient" /\ ~q.opaque
  IN When(BordersFilled(l), Layer("border", "over", "outline"))
     \o When(BordersFilled(l) /\ translucent /\ ~Solid(l, z), Layer("nothing", "clear", clip))
     \o When(Solid(l, z), Layer("color", "source", clip))
     \o When(l.imageShadow # {} /\ \E q \in Pattern(l, z) : q.kind = "image",
             Layer("image shadow", "over", IF HasVisibleOutline(l) THEN clip ELSE "none"))
     \o When(Pattern(l, z) # {}, Layer("pattern", "over", clip))
     \o When(IsInset(l), Layer("inset shadow", "over", clip))

-----------------------------------------------------------------------------
\* Shadows

\* blur_pixels(): n values of the kernel, and half of them on each side
KernelSize(blur) == IF blur = 0 THEN 1 ELSE (5 * blur) \div 2
KernelHalf(blur) == KernelSize(blur) \div 2

\* The pixels of a line of len that a pixel of the blurred line is made of.
Reads(out, len, blur) ==
  LET half == KernelHalf(blur)
      at == out - half
  IN {at + i - half : i \in Wider(half - at, 0) .. Lower(len + half - at, KernelSize(blur)) - 1}

\* _st_create_shadow_material(): the size of the texture of a shadow
ShadowTexture(s, z) == [w |-> z.w + 2 * KernelHalf(s.blur), h |-> z.h + 2 * KernelHalf(s.blur)]

\* _st_create_shadow_cairo_pattern(): where the column x of the shadow of a
\* picture that is len wide comes to lie, in 1 / len of a pixel
ShadowColumn(s, offset, len, x) ==
  LET half == KernelHalf(s.blur)
  IN IF s.inset THEN len * (x - half)
     ELSE len * (offset - s.spread) + (len + 2 * s.spread) * (x - half)

\* path_extents()
Extents(path) ==
  Rect(Min({path[i][1] : i \in DOMAIN path}), Min({path[i][2] : i \in DOMAIN path}),
       Max({path[i][1] : i \in DOMAIN path}), Max({path[i][2] : i \in DOMAIN path}))

\* paint_inset_box_shadow_to_cairo_context(): the shape that light falls through,
\* or {} when the shadow occupies the entire area.
InsetShape(s, path) ==
  LET e == Extents(path)
      q == Rect(e.x1 + s.dx + s.spread, e.y1 + s.dy + s.spread, e.x2 + s.dx - s.spread, e.y2 + s.dy - s.spread)
  IN IF q.x1 >= q.x2 \/ q.y1 >= q.x2 THEN {} ELSE {q}

\* paint_shadow_pattern_to_cairo_context(): what is filled around the shape
Exterior(s, path) ==
  {[around |-> Extents(path), hole |-> Grown(q, KernelHalf(s.blur))] : q \in InsetShape(s, path)}

\* paint_background_image_shadow_to_cairo_context(): what the shadow is cast by
ImageShadowSource(l, z) ==
  IF HasVisibleOutline(l) THEN [of |-> "clipped picture", size |-> PictureSize(l, z)] ELSE [of |-> "image", size |-> z]

-----------------------------------------------------------------------------
\* All of a node: st_theme_node_paint()

Draw(what, a) == [what |-> what, box |-> a]

\* st_theme_node_paint_sliced_border_image(); slices are top, right, bottom, left
SlicedImage(l, z) ==
  LET s == l.slices
      ex == IF z.w - s[2] < 0 THEN s[2] ELSE z.w - s[2]
      ey == IF z.h - s[3] < 0 THEN s[3] ELSE z.h - s[3]
      xs == <<0, s[4], ex, z.w>>
      ys == <<0, s[1], ey, z.h>>
  IN {Rect(xs[i], ys[j], xs[i + 1], ys[j + 1]) : i \in 1 .. 3, j \in 1 .. 3}

\* st_theme_node_paint_outline()
OutlineRing(l, z) ==
  LET o == l.outline IN
  IF o = 0 THEN {}
  ELSE {Rect(-o, -o, z.w + o, 0), Rect(z.w, 0, z.w + o, z.h), Rect(-o, z.h, z.w + o, z.h + o), Rect(-o, 0, 0, z.h)}

\* Whether there is something to cast a shadow of the box
CastsBoxShadow(l, z) ==
  \E s \in l.boxShadow : ~s.inset /\ (l.slices # <<>> \/ IsPrerendered(l, z) \/ l.alpha > 0 \/ HasBorder(l))

\* The image that cogl paints over the rest, in whole pixels that hold it
OnTop(l) == {i \in l.image : i.loads /\ ~HasBorder(l) /\ ~HasRadius(l)}
Pixels(i, q) == Rect(q.x1 \div Unit(i), q.y1 \div Unit(i), -((-q.x2) \div Unit(i)), -((-q.y2) \div Unit(i)))
ImageDraws(l, z) ==
  UNION {LET at == Pixels(i, ImageBox(l, i, z))
             shown == {Draw("image", at)} \cup {Draw("image shadow", ShadowBox(s, at)) : s \in l.imageShadow}
         IN IF HasVisibleOutline(l)
            THEN {Draw(d.what, Rect(Wider(d.box.x1, 0), Wider(d.box.y1, 0), Lower(d.box.x2, z.w), Lower(d.box.y2, z.h))) :
                    d \in shown}
            ELSE shown : i \in OnTop(l)}

Picture(l, z) == {Draw("picture", BackgroundPaintBox(l, Whole(z)))}

Painting(l, z) ==
  IF z.w = 0 \/ z.h = 0 THEN {}
  ELSE (IF CastsBoxShadow(l, z) THEN {Draw("shadow", ShadowBox(s, Whole(z))) : s \in l.boxShadow} ELSE {})
       \cup (IF IsPrerendered(l, z) THEN Picture(l, z) ELSE {})
       \cup (IF l.slices # <<>> THEN {Draw("slice", q) : q \in SlicedImage(l, z)}
             ELSE IF IsPrerendered(l, z) THEN {}
             ELSE {Draw("border", Whole(z))})
       \cup {Draw("outline", q) : q \in OutlineRing(l, z)}
       \cup ImageDraws(l, z)

\* st_theme_node_transition_get_paint_box(), calculate_offscreen_box()
OffscreenBox(l, m, z) == Joined(PaintBox(l, Whole(z)), PaintBox(m, Whole(z)))

\* setup_framebuffers(): one buffer for each of the nodes, of the size of that box
Buffers(l, m, z) ==
  LET o == OffscreenBox(l, m, z) IN
  IF o.x2 - o.x1 = 0 \/ o.y2 - o.y1 = 0 THEN {}
  ELSE {[box |-> o, old |-> Painting(l, z), new |-> Painting(m, z)]}

-----------------------------------------------------------------------------
BackgroundInit == worn \in Wardrobe /\ canvas \in CanvasSizes /\ leaving = {} /\ drawn = {}

\* The widget is given another size, or another style, with a transition or without.
CanvasSized == /\ \E z \in CanvasSizes \ {canvas} : canvas' = z
               /\ drawn' = {} /\ UNCHANGED <<worn, leaving>>
Redressed ==
  /\ \E l \in Wardrobe \ {worn} : worn' = l
  /\ leaving' \in {{}, {worn}} /\ drawn' = {} /\ UNCHANGED canvas
TransitionOver == leaving # {} /\ leaving' = {} /\ drawn' = {} /\ UNCHANGED <<worn, canvas>>

\* st_theme_node_transition_paint(), or st_theme_node_paint()
PaintNode ==
  /\ drawn = {}
  /\ drawn' = IF leaving = {}
              THEN {[box |-> PaintBox(worn, Whole(canvas)), old |-> {}, new |-> Painting(worn, canvas)]}
              ELSE UNION {Buffers(l, worn, canvas) : l \in leaving}
  /\ drawn' # {}
  /\ UNCHANGED <<worn, canvas, leaving>>

BackgroundNext == CanvasSized \/ Redressed \/ TransitionOver \/ PaintNode

-----------------------------------------------------------------------------
\* Types
BackgroundTypeOK ==
  /\ worn \in Wardrobe /\ canvas \in CanvasSizes /\ leaving \subseteq Wardrobe
  /\ Cardinality(leaving) <= 1 /\ Cardinality(drawn) <= 1

HasPixels == canvas.w > 0 /\ canvas.h > 0
Roomy(l, z) ==
  /\ l.border[4] + Wider(Radius(l, z)[2], l.border[2]) <= z.w /\ l.border[2] + Wider(Radius(l, z)[4], l.border[4]) <= z.w
  /\ l.border[1] + Wider(Radius(l, z)[3], l.border[3]) <= z.h /\ l.border[3] + Wider(Radius(l, z)[1], l.border[1]) <= z.h

\* The path turns right at each of its points, once all the way round.
Turns(path, i) ==
  LET n == Len(path)
      p == path[i]
      q == path[(i % n) + 1]
      o == path[((i + 1) % n) + 1]
  IN (q[1] - p[1]) * (o[2] - q[2]) - (q[2] - p[2]) * (o[1] - q[1])
Convex(path) == \A i \in DOMAIN path : Turns(path, i) >= 0

\* The picture holds the whole box of the actor, its outline runs along the
\* edges of that box and the interior of the borders lies within it, whatever
\* room the shadow of the image takes; the code takes a x for a y, and leaves
\* out the start of the box once, which shows when the shadow takes more room
\* on one side than on the other.
PathsFollowTheBox ==
  HasPixels /\ IsPrerendered(worn, canvas) =>
    \A a \in {ActorInPicture(worn, canvas)}, o \in {OutlinePath(worn, canvas)}, n \in {InteriorPath(worn, canvas)} :
      /\ Inside(a, Whole(PictureSize(worn, canvas)))
      /\ a.x1 = a.y1 => Extents(o) = a /\ Convex(o)
      /\ a.x1 = 0 /\ Roomy(worn, canvas) =>
           /\ Convex(n)
           /\ \A i \in DOMAIN n : /\ n[i][1] \in a.x1 + worn.border[4] .. a.x2 - worn.border[2]
                                  /\ n[i][2] \in a.y1 + worn.border[1] .. a.y2 - worn.border[3]

\* The color of the border that filled the outline never shows in the interior:
\* something covers it or clears it first.  An image at a positive position is
\* taken to cover the box when it does not.
InteriorIsClean ==
  HasPixels /\ IsPrerendered(worn, canvas) =>
    \A ls \in {Layers(worn, canvas)} :
      (\E n \in DOMAIN ls : ls[n].what = "border") =>
        \E n \in DOMAIN ls :
          /\ ls[n].clip = "interior"
          /\ \/ ls[n].how \in {"clear", "source"}
             \/ /\ ls[n].what = "pattern"
                /\ \A q \in Pattern(worn, canvas) :
                     /\ q.opaque
                     /\ q.kind = "image" /\ worn.position = <<>> =>
                          \A i \in worn.image :
                            Inside(Rect(0, 0, canvas.w * Unit(i), canvas.h * Unit(i)), ImageBox(worn, i, canvas))

\* A shadow is clipped to a path wherever the exterior of its shape is filled,
\* the shape is not empty where it is as high as it is wide, and the shadow
\* lies around what casts it, moved and spread as the style says.
ShadowsAreCast ==
  HasPixels =>
    /\ IsPrerendered(worn, canvas) =>
         /\ \A n \in DOMAIN Layers(worn, canvas) : Layers(worn, canvas)[n].clip # "none"
         /\ ImageShadowSource(worn, canvas).size = PictureSize(worn, canvas)
    /\ \A s \in {k \in worn.boxShadow : k.inset}, p \in {OutlinePath(worn, canvas)} :
         Extents(p).x2 + s.dx = Extents(p).y2 + s.dy =>
           \A e \in Exterior(s, p) : e.hole.x1 < e.hole.x2 /\ e.hole.y1 < e.hole.y2
    /\ \A s \in {k \in worn.boxShadow \cup worn.imageShadow : ~k.inset} :
         \A half \in {KernelHalf(s.blur)} :
           /\ ShadowColumn(s, s.dx, canvas.w, half) = canvas.w * (s.dx - s.spread)
           /\ ShadowColumn(s, s.dx, canvas.w, half + canvas.w) = canvas.w * (canvas.w + s.dx + s.spread)
           /\ ShadowTexture(s, canvas).w = canvas.w + 2 * half

\* Blurring reads no pixel that is not there and loses none: each pixel of the
\* line goes into as many pixels of the blurred line as the kernel has values.
BlurKeepsAll ==
  HasPixels =>
    \A blur \in Blurs :
      \A made \in {[o \in 0 .. canvas.w + 2 * KernelHalf(blur) - 1 |-> Reads(o, canvas.w, blur)]} :
        /\ \A o \in DOMAIN made : made[o] \subseteq 0 .. canvas.w - 1
        /\ \A x \in 0 .. canvas.w - 1 : Cardinality({o \in DOMAIN made : x \in made[o]}) = KernelSize(blur)

\* A corner's texture is made of four quarters that are as large as the piece
\* that the corner is painted in.
CornersFit ==
  HasPixels /\ ~IsPrerendered(worn, canvas) =>
    \A c \in 1 .. 4 : \A s \in CornerSpec(worn, c, canvas) :
      \E p \in Pieces([border |-> worn.border, radius |-> worn.radius, solid |-> worn.alpha > 0], canvas) :
        /\ p[1] = "c" /\ 2 * (p[4] - p[2]) = CornerTexture(s).side /\ 2 * (p[5] - p[3]) = CornerTexture(s).side
        /\ (p[2] = 0 <=> c \in {1, 4} \/ p[4] - p[2] = canvas.w) /\ (p[3] = 0 <=> c \in {1, 2} \/ p[5] - p[3] = canvas.h)

Pixel(q, x, y) == q.x1 <= x /\ x < q.x2 /\ q.y1 <= y /\ y < q.y2

\* Rectangles that cover each pixel of a box, but for those of a hole, once.
Tile(rects, a, hole) ==
  \A x \in a.x1 .. a.x2 - 1, y \in a.y1 .. a.y2 - 1 :
    Cardinality({q \in rects : Pixel(q, x, y)}) = (IF Pixel(hole, x, y) THEN 0 ELSE 1)

\* What the buffers are made for holds all that the nodes paint in it, so that
\* nothing of a transition is cut off, except the image of a node without an
\* outline where it is larger than the box of the actor.
PaintBoxHoldsPaint ==
  \A d \in drawn : \A p \in d.old \cup d.new :
    \/ Inside(p.box, d.box)
    \/ p.what \in {"image", "image shadow"} /\ \E i \in d.old \cup d.new : i.what = "image" /\ ~Inside(i.box, Whole(canvas))

\* What is put together of rectangles has no gap and no overlap, the picture is
\* painted at the size it was rendered in, and an image that contains or covers
\* does so.
PiecesMeet ==
  \A d \in drawn :
    /\ \A p \in d.new : p.what = "picture" =>
         p.box.x2 - p.box.x1 = PictureSize(worn, canvas).w /\ p.box.y2 - p.box.y1 = PictureSize(worn, canvas).h
    /\ \A p \in d.new : p.what = "image" /\ worn.position = <<>> =>
         /\ worn.sizing.kind = "contain" => Inside(p.box, Whole(canvas))
         /\ worn.sizing.kind = "cover" => Inside(Whole(canvas), p.box)
    /\ \A of \in {"slice", "outline"} : \A rects \in {{p.box : p \in {k \in d.new : k.what = of}}} :
         rects # {} =>
           IF of = "outline" THEN Tile(rects, Grown(Whole(canvas), worn.outline), Whole(canvas))
           ELSE worn.slices[2] + worn.slices[4] <= canvas.w /\ worn.slices[1] + worn.slices[3] <= canvas.h =>
                  Tile(rects, Whole(canvas), Rect(0, 0, 0, 0))
=============================================================================
