------------------------------ MODULE ScrollView ------------------------------
(***************************************************************************)
(* StScrollView with its vertical StScrollBar and StAdjustment: which      *)
(* scrollbars a layout shows, the range that the layout of the child gives *)
(* the adjustment, and the ways to move in it: the wheel, the handle, and  *)
(* the trough, that pages while the button is held.  Lengths are integers  *)
(* at a small scale: the step, a sixth of a page, is 1.                    *)
(***************************************************************************)
EXTENDS Integers, FiniteSets, FiniteSetsExt

CONSTANTS
  ViewSizes,      \* bound: the sizes [w, h] that the view is given
  Contents,       \* bound: what it shows: [min |-> minimum width, area |-> ...]
  Policies,       \* bound: the policies [h, v] that callers set
  Bar             \* the width of a scrollbar

ASSUME ScrollAssumption ==
  /\ \A s \in ViewSizes : s.w \in Nat /\ s.h \in Nat /\ s.w > Bar /\ s.h > Bar
  /\ \A c \in Contents : c.min \in Nat /\ c.area \in Nat
  /\ \A p \in Policies : p.h \in {"never", "automatic", "always"} /\ p.v \in {"never", "automatic", "always"}
  /\ Bar \in Nat \ {0}

VARIABLES
  layout,         \* the size, content and policies that are to be laid out
  bars,           \* hscrollbar_visible, vscrollbar_visible
  adj,            \* the vertical StAdjustment; its lower is 0
  paging,         \* see PagingType
  capture,        \* a drag of the handle hears the events of the stage
  scrollMapped,
  held,           \* the button is down in the trough and the pointer is in it
  untold          \* history: the bar was unmapped under the held button

scrollVars == <<layout, bars, adj, paging, capture, scrollMapped, held, untold>>

Timers == 1 .. 3
PagingType ==
  [no : 0 .. 2,                           \* paging_event_no; 2 for any later one
   direction : {"none", "up", "down"},
   id : {0} \cup Timers,                  \* paging_source_id
   running : SUBSET Timers,
   at : Nat,                              \* move_y, in the trough
   goal : SUBSET Int]                     \* where paging_animation is taking the value

-----------------------------------------------------------------------------
\* Layout

Visible(policy, overflows) == IF policy = "automatic" THEN overflows ELSE policy = "always"

\* The minimum height of the content for a width
HeightFor(c, w) == (c.area + Max({w, 1}) - 1) \div Max({w, 1})

Beside(size, shown) == size - (IF shown THEN Bar ELSE 0)

\* Mutant: a horizontal scrollbar takes no room from the vertical direction.
BarsNoRoom(s, c, p) ==
  LET tall(w, h) == HeightFor(c, w) > Beside(s.h, h)
      v == Visible(p.v, tall(s.w, FALSE))
  IN [h |-> Visible(p.h, c.min > Beside(s.w, v)), v |-> v]

\* st_scroll_view_allocate(): which bars the content needs.  When only the
\* horizontal one is automatic the code compares the width with the height.
Bars(s, c, p) ==
  LET tall(w, h) == HeightFor(c, w) > Beside(s.h, h)
      wide(v) == c.min > Beside(s.w, v)
      h1 == Visible(p.h, wide(tall(s.w, FALSE)))
      v == Visible(p.v, tall(s.w, h1))
  IN CASE p.v = "automatic" -> [v |-> v, h |-> IF v /\ p.h = "automatic" THEN wide(TRUE) ELSE h1]
       [] OTHER -> [v |-> v, h |-> Visible(p.h, c.min > s.h - (IF v THEN 0 ELSE Bar))]

Clamp(x, lo, hi) == IF x > hi THEN hi ELSE IF x < lo THEN lo ELSE x

\* st_adjustment_set_value()
SetValue(a, x) == [a EXCEPT !.value = Clamp(x, 0, Max({0, a.upper - a.page}))]

\* st_adjustment_clamp_page() over the whole range
ClampPage(a) ==
  LET lo == Clamp(0, 0, a.upper - a.page)
      hi == Clamp(a.upper, a.page, a.upper)
      v == IF a.value + a.page > hi THEN hi - a.page ELSE a.value
  IN [a EXCEPT !.value = IF v < lo THEN lo ELSE v]

SetUpper(a, x) == IF x = a.upper THEN a ELSE ClampPage([a EXCEPT !.upper = x])
SetPage(a, x) == IF x = a.page THEN a ELSE ClampPage([a EXCEPT !.page = x])

\* st_box_layout_allocate(): the child tells the adjustment its new range.
Fits(a, minimum, room) ==
  LET b == SetPage(SetUpper(a, Max({minimum, room})), room) IN SetValue(b, b.value)

Room == [w |-> Beside(layout.size.w, bars.v), h |-> Beside(layout.size.h, bars.h)]
Needed == HeightFor(layout.content, Max({Room.w, layout.content.min}))

-----------------------------------------------------------------------------
ScrollInit ==
  \E s \in ViewSizes, c \in Contents, p \in Policies :
    /\ layout = [size |-> s, content |-> c, policy |-> p, fresh |-> FALSE]
    /\ bars = [h |-> FALSE, v |-> FALSE]
    /\ adj = [upper |-> 0, page |-> 0, value |-> 0]
    /\ paging = [no |-> 0, direction |-> "none", id |-> 0, running |-> {}, at |-> 0, goal |-> {}]
    /\ capture = FALSE /\ scrollMapped = TRUE /\ held = FALSE /\ untold = FALSE

ScrollFrame == UNCHANGED <<paging, capture, scrollMapped, held, untold>>

\* A size, a content or a policy changes: st_scroll_view_set_policy() and the
\* scene queue a layout; StScrollView:vscrollbar-visible is of the last one.
Relayout ==
  \E s \in ViewSizes, c \in Contents, p \in Policies :
    /\ layout.fresh
    /\ layout' = [size |-> s, content |-> c, policy |-> p, fresh |-> FALSE]
    /\ UNCHANGED <<bars, adj>> /\ ScrollFrame

\* The scene allocates the view, and the view its child.
ViewAllocated ==
  /\ ~layout.fresh /\ scrollMapped
  /\ layout' = [layout EXCEPT !.fresh = TRUE]
  /\ bars' = Bars(layout.size, layout.content, layout.policy)
  /\ adj' = Fits(adj, Needed', Room'.h)
  /\ ScrollFrame

-----------------------------------------------------------------------------
\* The wheel and the handle

\* st_scroll_view_scroll_event(), st_scroll_bar_scroll_event()
Scrolled ==
  /\ scrollMapped
  /\ \E d \in {-1, 1} : adj' = SetValue(adj, adj.value + d)
  /\ UNCHANGED <<layout, bars>> /\ ScrollFrame

\* scroll_bar_allocate_children()
HandleSize == Max({1, IF adj.page >= adj.upper THEN adj.page ELSE (adj.page * adj.page) \div adj.upper})
HandleAt ==
  IF adj.upper <= adj.page THEN 0 ELSE (adj.value * (adj.page - HandleSize)) \div (adj.upper - adj.page)

HandlePressed ==
  /\ scrollMapped /\ bars.v /\ layout.fresh /\ ~held /\ ~capture
  /\ capture' = TRUE
  /\ UNCHANGED <<layout, bars, adj, paging, scrollMapped, held, untold>>

\* handle_capture_event_cb(): motion, by move_slider(), and the release.
HandleMoved ==
  /\ capture /\ adj.page > HandleSize
  /\ \E pos \in 0 .. adj.page - HandleSize :
       adj' = SetValue(adj, (pos * (adj.upper - adj.page)) \div (adj.page - HandleSize))
  /\ UNCHANGED <<layout, bars>> /\ ScrollFrame

HandleReleased ==
  /\ capture /\ capture' = FALSE
  /\ UNCHANGED <<layout, bars, adj, paging, scrollMapped, held, untold>>

-----------------------------------------------------------------------------
\* The trough

NewTimer(p) == Min(Timers \ (p.running \cup {p.id}))
Heads(p) == IF p.at > HandleAt THEN "down" ELSE "up"

\* trough_paging_cb(), called by the press (s = 0) or as the timer s: the first
\* two calls start the timer of the next one; it stops when it has passed the
\* pointer, and leaves the id of its timer in place.
Paged(p, s) ==
  LET new == NewTimer(p)
      later == IF p.no < 2 THEN [p EXCEPT !.no = @ + 1, !.running = (@ \cup {new}) \ {s}, !.id = new] ELSE p
      far == p.direction \notin {"none", Heads(p)}
  IN IF far THEN [later EXCEPT !.running = @ \ {s}]
     ELSE [later EXCEPT !.direction = Heads(p),
                        !.goal = {adj.value + (IF Heads(p) = "down" THEN adj.page - 1 ELSE 1 - adj.page)}]

TroughPressed ==
  /\ scrollMapped /\ bars.v /\ layout.fresh /\ ~held /\ ~capture
  /\ Cardinality(paging.running) < 2
  /\ \E at \in {x \in 0 .. adj.page : x < HandleAt \/ x >= HandleAt + HandleSize} :
       paging' = Paged([paging EXCEPT !.at = at, !.direction = "none", !.no = 0], 0)
  /\ held' = TRUE
  /\ UNCHANGED <<layout, bars, adj, capture, scrollMapped, untold>>

TimerFires ==
  /\ \E s \in paging.running :
       paging' = Paged(paging, s)
  /\ UNCHANGED <<layout, bars, adj, capture, scrollMapped, held, untold>>

\* A frame of the animation, the last one included
Animated ==
  /\ \E goal \in paging.goal : \E v \in Min({adj.value, goal}) .. Max({adj.value, goal}) :
       /\ adj' = SetValue(adj, v)
       /\ paging' = [paging EXCEPT !.goal = @ \ {v}]
  /\ UNCHANGED <<layout, bars, capture, scrollMapped, held, untold>>

\* trough_button_release_event_cb(), trough_leave_event_cb()
TroughLeft ==
  /\ held
  /\ held' = FALSE
  /\ paging' = IF paging.id = 0 THEN paging ELSE [paging EXCEPT !.running = @ \ {paging.id}, !.id = 0]
  /\ untold' = (untold /\ paging'.running # {})
  /\ UNCHANGED <<layout, bars, adj, capture, scrollMapped>>

-----------------------------------------------------------------------------

\* st_scroll_bar_unmap(): ends a drag.  Nothing tells the trough of the release
\* that it will not see.
BarUnmapped ==
  /\ scrollMapped /\ scrollMapped' = FALSE
  /\ capture' = FALSE
  /\ held' = FALSE /\ untold' = (untold \/ paging.running # {})
  /\ UNCHANGED <<layout, bars, adj, paging>>

BarMapped ==
  /\ ~scrollMapped /\ scrollMapped' = TRUE
  /\ UNCHANGED <<layout, bars, adj, paging, capture, held, untold>>

ScrollNext ==
  \/ Relayout \/ ViewAllocated
  \/ Scrolled \/ HandlePressed \/ HandleMoved \/ HandleReleased
  \/ TroughPressed \/ TimerFires \/ Animated \/ TroughLeft
  \/ BarUnmapped \/ BarMapped

-----------------------------------------------------------------------------
\* Types
ScrollTypeOK ==
  /\ layout.size \in ViewSizes /\ layout.content \in Contents /\ layout.policy \in Policies /\ layout.fresh \in BOOLEAN
  /\ bars \in [h : BOOLEAN, v : BOOLEAN]
  /\ adj \in [upper : Nat, page : Nat, value : Nat]
  /\ paging \in PagingType
  /\ capture \in BOOLEAN /\ scrollMapped \in BOOLEAN /\ held \in BOOLEAN /\ untold \in BOOLEAN

\* After a layout nothing of the content is out of reach: what overflows in a
\* direction with an automatic policy has a scrollbar, the range of the
\* adjustment is that of the content in the room the bars leave, and the view
\* never looks past its end.  (The vertical policy is automatic.)
OverflowHasBar ==
  layout.fresh =>
    /\ layout.policy.v = "automatic" =>
         /\ Needed > Room.h => bars.v
         /\ layout.policy.h = "automatic" /\ layout.content.min > Room.w => bars.h
    /\ adj.upper = Max({Needed, Room.h}) /\ adj.page = Room.h
    /\ adj.value + adj.page <= adj.upper

\* Paging is over when the button is released or the pointer leaves the trough,
\* whatever timers the paging went through, except for a bar that was unmapped
\* under the button, and a bar that is not mapped takes no events of the stage.
InputIsReleased ==
  /\ paging.running # {} => held \/ untold
  /\ capture => scrollMapped

\* A view that scrolls shows all of its content and gives the input back.
ViewShowsContent == ScrollTypeOK /\ OverflowHasBar /\ InputIsReleased

ScrollSpec == ScrollInit /\ [][ScrollNext]_scrollVars
===============================================================================

