---------------------------- MODULE FocusNavigation ----------------------------
(***************************************************************************)
(* Moving the keyboard focus: st_widget_navigate_focus() with the versions *)
(* of it of StWidget and StBin, and StFocusManager, which gives the keys   *)
(* to the group in which the focus is.  The order of the stops of the Tab  *)
(* key is defined a second time, without the recursion.                    *)
(***************************************************************************)
EXTENDS Integers, SequencesExt

CONSTANTS
  Actors,
  Kids,            \* the children of each, in their order
  Bins,            \* those that are StBins
  Box,             \* where each is: [x1, x2, y1, y2]
  Roots,           \* those that are groups now and then
  Hideable, Switchable,   \* bounds: the actors that are shown and hidden, that change can-focus
  Nobody

ASSUME FocusAssumption ==
  /\ Kids \in [Actors -> Seq(Actors)] /\ \A b \in Bins : Len(Kids[b]) <= 1
  /\ Bins \subseteq Actors /\ Roots \subseteq Actors /\ Nobody \notin Actors
  /\ Hideable \subseteq Actors /\ Switchable \subseteq Actors

VARIABLES
  visible,
  canFocus,        \* StWidget:can-focus
  groups,          \* of the focus manager
  keyFocus         \* of the stage

focusVars == <<visible, canFocus, groups, keyFocus>>

-----------------------------------------------------------------------------
ParentOf(a) == IF \E p \in Actors : a \in ToSet(Kids[p]) THEN CHOOSE p \in Actors : a \in ToSet(Kids[p])
               ELSE Nobody

\* clutter_actor_contains()
Within(w, a) ==
  LET in[x \in Actors \cup {Nobody}] == x = w \/ (x # Nobody /\ in[ParentOf(x)])
  IN in[a]

OnScreen(a) == \A w \in Actors : Within(w, a) => w \in visible

-----------------------------------------------------------------------------
Tabs == {"forward", "backward"}
Arrows == {"up", "down", "left", "right"}

Edge(w, dir) ==
  CASE dir = "up"    -> [Box[w] EXCEPT !.y1 = Box[w].y2]
    [] dir = "down"  -> [Box[w] EXCEPT !.y2 = Box[w].y1]
    [] dir = "left"  -> [Box[w] EXCEPT !.x1 = Box[w].x2]
    [] dir = "right" -> [Box[w] EXCEPT !.x2 = Box[w].x1]

\* filter_by_position(): a child that is that way of a box
Lies(c, box, dir) ==
  CASE dir = "up"    -> Box[c].y2 <= box.y1
    [] dir = "down"  -> Box[c].y1 >= box.y2
    [] dir = "left"  -> Box[c].x2 <= box.x1
    [] dir = "right" -> Box[c].x1 >= box.x2

\* sort_by_position(): the nearest first, then the one closest to the middle
Nearer(a, b, box, dir) ==
  LET X(r) == (r.x1 + r.x2) \div 2
      Y(r) == (r.y1 + r.y2) \div 2
      Distance(z) == IF z >= 0 THEN z ELSE -z
      cmp == CASE dir = "up"    -> Y(Box[b]) - Y(Box[a])
               [] dir = "down"  -> Y(Box[a]) - Y(Box[b])
               [] dir = "left"  -> X(Box[b]) - X(Box[a])
               [] dir = "right" -> X(Box[a]) - X(Box[b])
      aside == IF dir \in {"up", "down"}
               THEN Distance(X(Box[a]) - X(box)) - Distance(X(Box[b]) - X(box))
               ELSE Distance(Y(Box[a]) - Y(box)) - Distance(Y(Box[b]) - Y(box))
  IN cmp < 0 \/ (cmp = 0 /\ aside < 0)

\* The children of a widget that lie that way, in the order in which g_list_sort()
\* leaves what the filter has reversed; all of them if the focus comes from nowhere,
\* that is, from the opposite edge.
ByPosition(w, from, dir) ==
  LET box == IF from = Nobody THEN Edge(w, dir) ELSE Box[from]
      s == IF from = Nobody THEN Kids[w] ELSE Reverse(SelectSeq(Kids[w], LAMBDA c : Lies(c, box, dir)))
      First(i, j) == Nearer(s[i], s[j], box, dir) \/ (i < j /\ ~Nearer(s[j], s[i], box, dir))
      order == SortSeq([i \in DOMAIN s |-> i], First)
  IN [i \in DOMAIN s |-> s[order[i]]]

\* Mutant: hidden children stay in the chain.
FocusChainAll(w) == Kids[w]

\* st_widget_real_get_focus_chain()
FocusChain(w) == SelectSeq(Kids[w], LAMBDA c : c \in visible)

\* The children that are tried, in the order in which they are: for Tab those after
\* the one with the focus, for an arrow those that lie that way.
Candidates(w, child, from, dir) ==
  LET chain == FocusChain(w)
      At(c) == IF c = Nobody THEN 0 ELSE CHOOSE i \in DOMAIN Kids[w] : Kids[w][i] = c
  IN CASE dir = "forward"  -> SelectSeq(chain, LAMBDA c : child \in visible \cup {Nobody} /\ At(c) > At(child))
       [] dir = "backward" -> Reverse(SelectSeq(chain, LAMBDA c : child = Nobody \/ (child \in visible /\ At(c) < At(child))))
       [] OTHER            -> SelectSeq(ByPosition(w, from, dir), LAMBDA c : c \in visible)

\* st_widget_real_navigate_focus() and st_bin_navigate_focus(): the actor that is
\* given the focus, if any, for each widget that is asked.
Navigate(from, dir) ==
  LET to[w \in Actors] ==
        IF from = w /\ w \notin Bins THEN Nobody
        ELSE IF w \in canFocus THEN IF Within(w, from) THEN Nobody ELSE w
        ELSE IF w \in Bins THEN IF Kids[w] = <<>> THEN Nobody ELSE to[Head(Kids[w])]
        ELSE LET holds == {c \in ToSet(Kids[w]) : Within(c, from)}
                 child == IF holds = {} THEN Nobody ELSE CHOOSE c \in holds : TRUE
             IN FoldLeft(LAMBDA found, c : IF found # Nobody THEN found ELSE to[c],
                         IF child = Nobody THEN Nobody ELSE to[child], Candidates(w, child, from, dir))
  IN to

\* st_widget_navigate_focus()
NavigateFocus(w, from, dir, wrap) ==
  LET first == Navigate(from, dir)[w] IN
    IF first = Nobody /\ wrap /\ Within(w, from) THEN Navigate(Nobody, dir)[w] ELSE first

-----------------------------------------------------------------------------
FocusInit ==
  /\ visible = Actors /\ canFocus = Actors \ {a \in Actors : Kids[a] # <<>>}
  /\ groups = {} /\ keyFocus = Nobody

\* The group in which the focus is, st_focus_manager_get_group()
GroupOf(a) ==
  LET around == {g \in groups : Within(g, a)}
  IN IF around = {} THEN Nobody ELSE CHOOSE g \in around : \A h \in around : Within(h, g)

\* st_focus_manager_stage_event()
KeyPressed(dir) ==
  /\ GroupOf(keyFocus) # Nobody
  /\ \E to \in {NavigateFocus(GroupOf(keyFocus), keyFocus, dir, dir \in Tabs)} :
       keyFocus' = IF to = Nobody THEN keyFocus ELSE to
  /\ UNCHANGED <<visible, canFocus, groups>>

\* navigate_focus() with no actor, as a menu or a dialog calls it when it opens
FocusEntered(w) ==
  /\ OnScreen(w)
  /\ \E to \in {NavigateFocus(w, Nobody, "forward", FALSE)} : keyFocus' = IF to = Nobody THEN keyFocus ELSE to
  /\ UNCHANGED <<visible, canFocus, groups>>

GroupAdded(w) == w \notin groups /\ groups' = groups \cup {w} /\ UNCHANGED <<visible, canFocus, keyFocus>>
GroupRemoved(w) == w \in groups /\ groups' = groups \ {w} /\ UNCHANGED <<visible, canFocus, keyFocus>>

\* Clutter takes the focus from an actor that is unmapped.
VisibilityChanged(a) ==
  /\ visible' = IF a \in visible THEN visible \ {a} ELSE visible \cup {a}
  /\ keyFocus' = IF Within(a, keyFocus) /\ a \in visible THEN Nobody ELSE keyFocus
  /\ UNCHANGED <<canFocus, groups>>

CanFocusSet(a) ==
  /\ canFocus' = IF a \in canFocus THEN canFocus \ {a} ELSE canFocus \cup {a}
  /\ UNCHANGED <<visible, groups, keyFocus>>

FocusNext ==
  \/ \E dir \in Tabs \cup Arrows : KeyPressed(dir)
  \/ \E w \in Roots : FocusEntered(w) \/ GroupAdded(w) \/ GroupRemoved(w)
  \/ \E a \in Hideable : VisibilityChanged(a)
  \/ \E a \in Switchable : CanFocusSet(a)

FocusSpec == FocusInit /\ [][FocusNext]_focusVars

-----------------------------------------------------------------------------
FocusTypeOK ==
  /\ visible \subseteq Actors /\ canFocus \subseteq Actors /\ groups \subseteq Roots
  /\ keyFocus \in Actors \cup {Nobody}

\* The stops of a widget: what can have the focus and is neither hidden in it (but
\* a bin does not look whether its child is) nor inside of another stop.
Stops(w) ==
  {a \in canFocus : Within(w, a) /\ \A b \in Actors : Within(w, b) /\ Within(b, a) =>
                      /\ b # a => b \notin canFocus
                      /\ b # w => b \in visible \cup UNION {ToSet(Kids[n]) : n \in Bins}}

\* Whether a comes after b: of the two children in which they part
Follows(a, b) ==
  \E p \in Actors : \E i, j \in DOMAIN Kids[p] : i < j /\ Within(Kids[p][i], b) /\ Within(Kids[p][j], a)
Later(a, b, dir) == IF dir = "forward" THEN Follows(a, b) ELSE Follows(b, a)

\* Tab visits the stops in the order of the children, each once, and begins again
\* where they end; backwards it visits them in the opposite order.
TabVisitsInOrder ==
  \A w \in groups : \A stops \in {Stops(w)} : \A dir \in Tabs :
    \A from \in {a \in Actors : OnScreen(a) /\ Within(w, a)} \cup {Nobody} :
      \A to \in {NavigateFocus(w, from, dir, TRUE)} :
        \A later \in {{s \in stops : from = Nobody \/ Later(s, from, dir)}} :
          \A inside \in {{s \in stops : from \in Bins \ canFocus /\ Within(from, s)}} :
            IF stops = {} THEN to = Nobody
            ELSE \E ahead \in {inside, later, stops} :
                   /\ ahead = IF inside # {} THEN inside ELSE IF later # {} THEN later ELSE stops
                   /\ to \in ahead /\ \A s \in ahead \ {to} : Later(s, to, dir)

\* An arrow moves the focus that way or not at all.
ArrowsPointThere ==
  \A w \in groups : \A from \in {a \in Actors : OnScreen(a) /\ Within(w, a)} : \A dir \in Arrows :
    \A to \in {NavigateFocus(w, from, dir, FALSE)} :
      to # Nobody /\ ~Within(from, to) => Lies(to, Box[from], dir)
=============================================================================
