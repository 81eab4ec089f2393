-------------------------------- MODULE Widgets --------------------------------
(***************************************************************************)
(* StWidget in the scene: the theme node that a widget computes from its   *)
(* classes and the node of its parent and keeps until its style changes,   *)
(* the pseudo classes that follow the order of the children and the        *)
(* pointer.  A theme node is the classes of the widget and of what it was  *)
(* in when the node was computed.                                          *)
(***************************************************************************)
EXTENDS Naturals, FiniteSets, SequencesExt

CONSTANTS
  Widgets,
  Stage,          \* the scene; not a widget
  Nowhere,        \* no container, no pointer, no grab
  Root,           \* one that is in the scene from the start
  Roaming,        \* bound: the widgets that are moved, and shown and hidden
  Painted,        \* bound: the widgets that are given a class of their own
  Tracking,       \* widgets for which track-hover is set
  Grabbing,       \* bound: the widgets that grab the pointer
  MaxMoves        \* bound on changes of the tree

ASSUME WidgetsAssumption ==
  /\ Stage \notin Widgets /\ Nowhere \notin Widgets \cup {Stage}
  /\ Root \in Widgets /\ Roaming \subseteq Widgets /\ Painted \subseteq Widgets /\ Tracking \subseteq Widgets /\ Grabbing \subseteq Widgets
  /\ MaxMoves \in Nat

VARIABLES
  parent,
  kids,           \* the children of each container, in their order
  shown,          \* ClutterActor:visible
  style,          \* what widgets know of their style, see StyleType
  hover,          \* StWidget:hover
  under,          \* the actor in which the pointer is, as Clutter last told
  grab,           \* the actor that has a pointer grab
  missed,         \* history: widgets whose side of the pointer changed untold
  moves

widgetVars == <<parent, kids, shown, style, hover, under, grab, missed, moves>>

PseudoClasses == {"first-child", "last-child", "hover", "own"}
NoNode == <<>>

StyleType ==
  [classes : [Widgets -> SUBSET PseudoClasses],
   dirty : [Widgets -> BOOLEAN],                      \* is_style_dirty
   node : [Widgets -> Seq(SUBSET PseudoClasses)],     \* theme_node
   first : [Widgets -> Widgets \cup {Nowhere}],       \* prev_first_child
   last : [Widgets -> Widgets \cup {Nowhere}]]        \* prev_last_child

-----------------------------------------------------------------------------
\* The tree, as the operators below read it: the parents and what is mapped

\* A widget and what it is in, from the inside outwards
Line(p, w) ==
  LET up[a \in Widgets] == <<a>> \o (IF p[a] \in Widgets THEN up[p[a]] ELSE <<>>) IN up[w]

Tree(p, s) ==
  [parent |-> p,
   mapped |-> {w \in Widgets : LET line == Line(p, w) IN p[Last(line)] = Stage /\ ToSet(line) \subseteq s}]

In(t, w, a) == a \in Widgets /\ w \in ToSet(Line(t.parent, a))      \* clutter_actor_contains()
Below(t, w) == {a \in Widgets : In(t, w, a)}

-----------------------------------------------------------------------------
\* Styles

\* st_widget_get_theme_node(): computes what is missing, upwards.
Node(t, st, w) ==
  LET line == Line(t.parent, w)
      known == {i \in DOMAIN line : st.node[line[i]] # NoNode}
      first == IF known = {} THEN Len(line) + 1 ELSE CHOOSE i \in known : \A j \in known : i <= j
  IN [i \in 1 .. first - 1 |-> st.classes[line[i]]] \o (IF known = {} THEN <<>> ELSE st.node[line[first]])

WithNodes(t, st, ws) ==
  [st EXCEPT !.node = [a \in Widgets |-> IF \E w \in ws : In(t, a, w) THEN Node(t, st, a) ELSE @[a]]]

\* What st_widget_style_changed() and st_widget_recompute_style() do to widgets:
\* their nodes are computed again, now or when they are mapped.
Recomputed(t, st, ws) ==
  LET now == ws \cap t.mapped
      cleared == [st EXCEPT !.node = [w \in Widgets |-> IF w \in ws THEN NoNode ELSE @[w]],
                            !.dirty = [w \in Widgets |-> IF w \in ws THEN w \notin now ELSE @[w]]]
  IN WithNodes(t, cleared, now)

\* notify_children_of_style_change() goes on below the widgets that recompute
\* their style and so emit style-changed.
Told(t, w) == {a \in Below(t, w) \ {w} : t.parent[a] \in t.mapped}

\* st_widget_style_changed()
StyleChanged(t, st, w) == Recomputed(t, st, {w} \cup (IF w \in t.mapped THEN Told(t, w) ELSE {}))

\* st_widget_add_style_pseudo_class() and st_widget_remove_style_pseudo_class()
AddClass(t, st, w, c) ==
  IF c \in st.classes[w] THEN st ELSE StyleChanged(t, [st EXCEPT !.classes[w] = @ \cup {c}], w)
RemoveClass(t, st, w, c) ==
  IF c \notin st.classes[w] THEN st ELSE StyleChanged(t, [st EXCEPT !.classes[w] = @ \ {c}], w)

\* st_widget_ensure_style()
EnsureStyle(t, st, w) ==
  IF st.dirty[w] THEN Recomputed(t, [WithNodes(t, st, {w}) EXCEPT !.dirty[w] = FALSE], Told(t, w)) ELSE st

\* st_widget_map(), of the children first, for all that is mapped with w
MapAll(t, st, w) ==
  LET inner == SetToSortSeq(Below(t, w) \cap t.mapped, LAMBDA a, b : Len(Line(t.parent, a)) > Len(Line(t.parent, b)))
  IN FoldLeft(LAMBDA acc, a : EnsureStyle(t, acc, a), st, inner)

\* Mutant: only the new child is told.
FirstChildNotifyKeepsOld(k, t, st, c) ==
  IF k[c] = <<>> THEN st
  ELSE [AddClass(t, st, Head(k[c]), "first-child") EXCEPT !.first[c] = Head(k[c])]

\* st_widget_first_child_notify()
FirstChildNotify(k, t, st, c) ==
  LET old == st.first[c]
      gone == IF old = Nowhere THEN st
              ELSE [RemoveClass(t, st, old, "first-child") EXCEPT !.first[c] = Nowhere]
  IN IF k[c] = <<>> THEN gone
     ELSE [AddClass(t, gone, Head(k[c]), "first-child") EXCEPT !.first[c] = Head(k[c])]

\* st_widget_last_child_notify()
LastChildNotify(k, t, st, c) ==
  LET old == st.last[c]
      gone == IF old = Nowhere THEN st
              ELSE [RemoveClass(t, st, old, "last-child") EXCEPT !.last[c] = Nowhere]
  IN IF k[c] = <<>> THEN gone
     ELSE [AddClass(t, gone, Last(k[c]), "last-child") EXCEPT !.last[c] = Last(k[c])]

\* Clutter notifies a container only of an end that has changed.
EndsNotify(k, t, st, c) ==
  LET FirstOf(kk) == IF kk[c] = <<>> THEN Nowhere ELSE Head(kk[c])
      LastOf(kk) == IF kk[c] = <<>> THEN Nowhere ELSE Last(kk[c])
      one == IF FirstOf(kids) = FirstOf(k) THEN st ELSE FirstChildNotify(k, t, st, c)
  IN IF c \notin Widgets THEN st
     ELSE IF LastOf(kids) = LastOf(k) THEN one ELSE LastChildNotify(k, t, one, c)

-----------------------------------------------------------------------------
WidgetsInit ==
  /\ parent = [w \in Widgets |-> IF w = Root THEN Stage ELSE Nowhere]
  /\ kids = [c \in Widgets \cup {Stage} |-> IF c = Stage THEN <<Root>> ELSE <<>>]
  /\ shown = Widgets
  /\ style = [classes |-> [w \in Widgets |-> {}], dirty |-> [w \in Widgets |-> FALSE],
              node |-> [w \in Widgets |-> IF w = Root THEN <<{}>> ELSE NoNode], first |-> [w \in Widgets |-> Nowhere],
              last |-> [w \in Widgets |-> Nowhere]]
  /\ hover = {} /\ under = Nowhere /\ grab = Nowhere /\ missed = {} /\ moves = 0

\* A change of the tree: what is unmapped loses its hover, what is mapped has its
\* style ensured.
TreeChanges(p, k, s, w, container) ==
  LET old == Tree(parent, shown)
      t == Tree(p, s)
      out == (old.mapped \ t.mapped) \cap hover \cap Tracking
      unmapped == FoldSet(LAMBDA a, st : RemoveClass(t, st, a, "hover"), style, out)
      set == IF p[w] \notin {Nowhere, parent[w]} THEN StyleChanged([t EXCEPT !.mapped = old.mapped], unmapped, w) ELSE unmapped
      mapped == IF w \notin old.mapped THEN MapAll(t, set, w) ELSE set
  IN /\ parent' = p /\ kids' = k /\ shown' = s
     /\ hover' = hover \ out
     /\ style' = EndsNotify(k, t, mapped, container)
     /\ missed' = missed \cup {a \in Tracking : In(old, a, under) \/ In(t, a, under)}
     /\ moves < MaxMoves /\ moves' = moves + 1
     /\ UNCHANGED <<under, grab>>

\* clutter_actor_add_child(), with st_widget_parent_set()
AddChild(w, container) ==
  LET t == Tree(parent, shown) IN
    /\ t.parent[w] = Nowhere /\ ~In(t, w, container)
    /\ \E k \in {<<w>> \o kids[container], Append(kids[container], w)} :
         TreeChanges([parent EXCEPT ![w] = container], [kids EXCEPT ![container] = k], shown, w, container)

RemoveChild(w) ==
  LET c == parent[w] IN
    /\ c # Nowhere
    /\ TreeChanges([parent EXCEPT ![w] = Nowhere], [kids EXCEPT ![c] = Remove(@, w)], shown, w, c)

RaiseTop(w) ==
  LET c == parent[w] IN
    /\ c # Nowhere /\ Last(kids[c]) # w
    /\ TreeChanges(parent, [kids EXCEPT ![c] = Append(Remove(@, w), w)], shown, w, c)

ShowOrHide(w) ==
  TreeChanges(parent, kids, IF w \in shown THEN shown \ {w} ELSE shown \cup {w}, w, Stage)

-----------------------------------------------------------------------------
ClassAdded(w) ==
  /\ "own" \notin style.classes[w]
  /\ style' = AddClass(Tree(parent, shown), style, w, "own")
  /\ UNCHANGED <<parent, kids, shown, hover, under, grab, missed, moves>>

ClassRemoved(w) ==
  /\ "own" \in style.classes[w]
  /\ style' = RemoveClass(Tree(parent, shown), style, w, "own")
  /\ UNCHANGED <<parent, kids, shown, hover, under, grab, missed, moves>>

\* st_widget_get_theme_node(), which anyone may call for a widget in the scene
NodeAsked(w) ==
  LET t == Tree(parent, shown) IN
    /\ t.parent[Last(Line(t.parent, w))] = Stage /\ style.node[w] = NoNode
    /\ style' = WithNodes(t, style, {w})
  /\ UNCHANGED <<parent, kids, shown, hover, under, grab, missed, moves>>

\* on_theme_context_changed()
ThemeChanged ==
  /\ style' = LET t == Tree(parent, shown)
              IN FoldLeft(LAMBDA st, w : StyleChanged(t, st, w), style, kids[Stage])
  /\ UNCHANGED <<parent, kids, shown, hover, under, grab, missed, moves>>

-----------------------------------------------------------------------------
\* Hovering

\* st_widget_set_hover(), FALSE for the ones and then TRUE for the others
HoverSet(t, off, on) ==
  LET lost == hover \cap off
      got == on \ (hover \ lost)
      out == FoldSet(LAMBDA w, st : RemoveClass(t, st, w, "hover"), style, lost)
  IN /\ hover' = (hover \ lost) \cup got
     /\ style' = FoldSet(LAMBDA w, st : AddClass(t, st, w, "hover"), out, got)

\* Clutter tells of a crossing the widgets around both actors, or the one that has
\* a grab.
Hears(t, w, from, to) ==
  IF grab = Nowhere THEN In(t, w, from) \/ In(t, w, to) ELSE grab = w

\* st_widget_leave()
Leave(t, w, from, to) == Hears(t, w, from, to) /\ ~In(t, w, to)

\* st_widget_enter()
Enter(t, w, from, to) == Hears(t, w, from, to) /\ In(t, w, to)

\* Clutter finds the pointer over another actor.
PointerCrosses(to) ==
  LET t == Tree(parent, shown)
      off == {w \in Tracking : Leave(t, w, under, to)}
      on == {w \in Tracking : Enter(t, w, under, to)}
      sides == {w \in Tracking : In(t, w, under) # In(t, w, to)}
  IN /\ to # under /\ to \in t.mapped \cup {Stage}
     /\ HoverSet(t, off, on)
     /\ missed' = {w \in missed \cup sides : ~Hears(t, w, under, to)}
     /\ under' = to
     /\ UNCHANGED <<parent, kids, shown, grab, moves>>

PointerGrabbed(w) ==
  /\ grab = Nowhere /\ w \in Tree(parent, shown).mapped
  /\ grab' = w
  /\ UNCHANGED <<parent, kids, shown, style, hover, under, missed, moves>>

PointerUngrabbed ==
  /\ grab # Nowhere
  /\ grab' = Nowhere
  /\ UNCHANGED <<parent, kids, shown, style, hover, under, missed, moves>>

\* st_widget_sync_hover()
SyncHover(w) ==
  LET t == Tree(parent, shown) IN
    /\ IF In(t, w, under) THEN HoverSet(t, {}, {w}) ELSE HoverSet(t, {w}, {})
    /\ missed' = missed \ {w}
    /\ UNCHANGED <<parent, kids, shown, under, grab, moves>>

WidgetsNext ==
  \/ \E w \in Roaming : (\E c \in Widgets \cup {Stage} : AddChild(w, c)) \/ RemoveChild(w) \/ RaiseTop(w) \/ ShowOrHide(w)
  \/ \E w \in Painted : ClassAdded(w) \/ ClassRemoved(w)
  \/ (\E w \in Widgets : NodeAsked(w)) \/ \E w \in Grabbing : PointerGrabbed(w)
  \/ \E w \in Tracking : SyncHover(w)
  \/ ThemeChanged \/ PointerUngrabbed
  \/ \E a \in Widgets \cup {Stage} : PointerCrosses(a)

WidgetsSpec == WidgetsInit /\ [][WidgetsNext]_widgetVars

-----------------------------------------------------------------------------
WidgetsTypeOK ==
  /\ parent \in [Widgets -> Widgets \cup {Stage, Nowhere}]
  /\ DOMAIN kids = Widgets \cup {Stage} /\ shown \subseteq Widgets /\ style \in StyleType
  /\ hover \subseteq Widgets /\ under \in Widgets \cup {Stage, Nowhere} /\ grab \in Widgets \cup {Nowhere}
  /\ missed \subseteq Widgets /\ moves \in 0 .. MaxMoves

\* A widget on the screen has the style that its classes and those of all that it
\* is in call for, whatever changed while it or its parents were hidden or away;
\* and one without a node will be told before it is painted.
StyleIsFresh ==
  LET t == Tree(parent, shown) IN
    \A w \in Widgets :
      /\ w \in t.mapped => style.node[w] = [i \in DOMAIN Line(t.parent, w) |-> style.classes[Line(t.parent, w)[i]]]
      /\ style.node[w] = NoNode /\ t.parent[w] # Nowhere => style.dirty[w]

\* The pseudo classes of the ends are those of the ends, through removals and moves.
EndsAreMarked ==
  \A w \in Widgets :
    LET c == parent[w]
        siblings == IF c \in Widgets THEN kids[c] ELSE <<>>
    IN /\ "first-child" \in style.classes[w] <=> (siblings # <<>> /\ Head(siblings) = w)
       /\ "last-child" \in style.classes[w] <=> (siblings # <<>> /\ Last(siblings) = w)

\* A widget that tracks the pointer is hovered, and styled so, when the pointer is
\* in it or in a child, unless its side changed by a grab of another actor or by a
\* change of the tree and nobody has synchronised it.
HoverFollowsPointer ==
  LET t == Tree(parent, shown) IN
    /\ \A w \in Tracking \ missed : w \in hover <=> In(t, w, under)
    /\ \A w \in Widgets : w \in hover <=> "hover" \in style.classes[w]
=============================================================================
