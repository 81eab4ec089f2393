-------------------------------- MODULE Layouts --------------------------------
(***************************************************************************)
(* The containers that share out their space: StBoxLayout along its axis,  *)
(* and StTable over its columns and over its rows.  A box works in         *)
(* fractions of pixels and rounds the edges of its children to pixels, a   *)
(* table truncates to integers as it goes.                                 *)
(***************************************************************************)
EXTENDS Integers, Sequences, FiniteSets, TLC, SequencesExt

CONSTANTS
  PixelUnits,     \* units in a pixel of a box: a common multiple of the divisors that occur
  BoxKids,        \* what a child of a box may be: [min, nat, expand, shown]
  BoxLengths,     \* the lengths that a box may have
  BoxSpacings,    \* its spacing
  TableKids,      \* the children of the table
  CellSizes,      \* what one of them may ask for: [min, pref, span, expand]
  TrackCount,     \* bound: the rows and columns that are named
  TableLengths,   \* the length of the table
  TrackSpacing    \* the spacing between its rows, or columns

VARIABLES
  boxes,          \* {} or {a box with its children, its length, its direction, and the spans of its children}
  cells,          \* child of the table -> {} or {what it asks for, and its track}
  nTracks,        \* priv->n_rows, priv->n_cols
  tracks          \* {} or {[length, rows, cols, mins, prefs]}: the last allocation

layoutVars == <<boxes, cells, nTracks, tracks>>

Larger(a, b) == IF a < b THEN b ELSE a
Smaller(a, b) == IF a < b THEN a ELSE b
Distance(a, b) == Larger(a - b, b - a)
Total(s) == FoldLeft(LAMBDA acc, n : acc + n, 0, s)

-----------------------------------------------------------------------------
\* StBoxLayout

LaidOut(kids) == {i \in DOMAIN kids : kids[i].shown}

\* get_content_preferred_width(), get_content_preferred_height(), along the axis
PreferredSize(kids, spacing, of) ==
  Total([i \in DOMAIN kids |-> IF kids[i].shown THEN kids[i][of] ELSE 0]) + spacing * Larger(0, Cardinality(LaidOut(kids)) - 1)

\* What is above the line of the next one, for each of those that give, the most first
Above(order) ==
  [n \in DOMAIN order |-> Total([k \in 1 .. n |-> order[k] - IF n < Len(order) THEN order[n + 1] ELSE 0])]

\* compute_shrinks(): the line goes down from one to the next until enough is above
\* it, and back up to what is needed.
WaterMark(order, above, total) ==
  CHOOSE mark \in {[line |-> Larger(0, (IF n < Len(order) THEN order[n + 1] ELSE 0) + (above[n] - total) \div n),
                    least |-> order[n]] :
                      n \in {k \in DOMAIN order : /\ k = Len(order) \/ above[k] >= total
                                                  /\ \A j \in 1 .. k - 1 : above[j] < total}} : TRUE

\* What a child can give, or -1
Gives(kid) == IF kid.shown THEN Larger(0, kid.nat - kid.min) ELSE -1

\* compute_shrinks()
Shrinks(kids, total) ==
  LET order == SortSeq(SelectSeq([i \in DOMAIN kids |-> Gives(kids[i])], LAMBDA g : g >= 0), LAMBDA a, b : a > b)
      ShrunkTo(mark) == [i \in DOMAIN kids |-> IF Gives(kids[i]) >= mark.least THEN Gives(kids[i]) - mark.line ELSE 0]
  IN ShrunkTo(WaterMark(order, Above(order), total))

ToPixel(x) == ((x + (PixelUnits \div 2)) \div PixelUnits) * PixelUnits

\* st_box_layout_allocate(): the sizes of the children, from what they would like to
\* have and what there is.  Packed from the start it counts from one too many: each child
\* is shrunk by what was found for the one after it, the last by what lies beyond the array.
SizesFor(s, natural, avail, takers, shrinks) ==
  [i \in DOMAIN s.kids |->
     IF natural < avail /\ i \in takers THEN s.kids[i].nat + ((avail - natural) \div Cardinality(takers))
     ELSE s.kids[i].nat - IF ~s.packStart \/ natural <= avail THEN shrinks[i]
                          ELSE IF i = Len(s.kids) THEN s.beyond ELSE shrinks[i + 1]]

BoxSizes(s, natural, avail) ==
  SizesFor(s, natural, avail, {i \in LaidOut(s.kids) : s.kids[i].expand},
           IF natural > avail THEN Shrinks(s.kids, natural - avail) ELSE [i \in DOMAIN s.kids |-> 0])

\* st_box_layout_allocate(): one after the other from the end that the children are packed at
PlacedFrom(s, start, size) ==
  LET order == SelectSeq([i \in DOMAIN s.kids |-> IF s.packStart THEN Len(s.kids) + 1 - i ELSE i], LAMBDA i : s.kids[i].shown)
      Span(a, b) == [x1 |-> ToPixel(Smaller(a, b)), x2 |-> ToPixel(Larger(a, b))]
      Place(acc, i) ==
        IF s.flip THEN [at |-> acc.at - size[i] - s.spacing, spans |-> acc.spans @@ (i :> Span(acc.at, acc.at - size[i]))]
        ELSE [at |-> acc.at + size[i] + s.spacing, spans |-> acc.spans @@ (i :> Span(acc.at, acc.at + size[i]))]
  IN FoldLeft(Place, [at |-> start, spans |-> <<>>], order).spans

BoxAllocation(s) ==
  LET avail == Larger(s.length, PreferredSize(s.kids, s.spacing, "min"))
  IN PlacedFrom(s, IF s.flip THEN avail ELSE 0, BoxSizes(s, PreferredSize(s.kids, s.spacing, "nat"), avail))

\* A box is given its children and its size, and lays them out.
BoxAllocated ==
  /\ \E kids \in [1 .. 3 -> BoxKids], length \in BoxLengths, spacing \in BoxSpacings, packStart, flip \in BOOLEAN :
       \E beyond \in IF packStart THEN {0, PixelUnits} ELSE {0} :
         LET setup == [kids |-> kids, length |-> length, spacing |-> spacing, packStart |-> packStart, flip |-> flip, beyond |-> beyond]
         IN boxes' = {[setup |-> setup, spans |-> BoxAllocation(setup)]}
  /\ UNCHANGED <<cells, nTracks, tracks>>

-----------------------------------------------------------------------------
\* StTable

Members == {k \in TableKids : cells[k] # {}}
TrackOf(k) == (CHOOSE c \in cells[k] : TRUE).track
Asked(t, of) ==
  {c[of] : c \in {d \in UNION {cells[k] : k \in TableKids} : d.track = t /\ d.span = 1}}
Most(S) == CHOOSE n \in S \cup {0} : \A x \in S \cup {0} : x <= n
Expands(t) == \E k \in Members : \E c \in cells[k] : c.track = t /\ c.expand

\* What the build makes of 0 / 0.0 when it is converted to an int.
FromNaN == -2147483647 - 1

\* st_table_calculate_col_widths(): only columns that expand shrink; one that reaches
\* its minimum stops counting, and those before it are shrunk once more.  When what is
\* left of them adds up to nothing their share is not a number.
RECURSIVE ShrinkColumns(_, _, _, _, _, _)
ShrinkColumns(i, widths, mins, extra, left, pool) ==
  IF i > Len(widths) THEN widths
  ELSE IF i \notin left THEN ShrinkColumns(i + 1, widths, mins, extra, left, pool)
  ELSE LET new == [widths EXCEPT ![i] = IF pool = 0 THEN FromNaN ELSE Larger(mins[i], (widths[i] * (pool + extra)) \div pool)]
       IN IF new[i] = mins[i] THEN ShrinkColumns(1, new, mins, extra, left \ {i}, pool - new[i])
          ELSE ShrinkColumns(i + 1, new, mins, extra, left, pool)

ColWidths(length, mins, prefs) ==
  LET growing == {i \in DOMAIN prefs : Expands(i - 1)}
      extra == length - (TrackSpacing * (Len(prefs) - 1) + Total(prefs))
      pool == Total([i \in DOMAIN prefs |-> IF i \in growing THEN prefs[i] ELSE 0])
  IN IF extra < 0 THEN ShrinkColumns(1, prefs, mins, extra, growing, pool)
     ELSE [i \in DOMAIN prefs |-> prefs[i] + IF i \in growing THEN extra \div Cardinality(growing) ELSE 0]

\* Mutant: the room that a row leaves short is not taken off the others.
RowHeightsOnce(length, mins, prefs) ==
  LET extra == length - TrackSpacing * (Len(prefs) - 1) - Total(prefs)
  IN [i \in DOMAIN prefs |-> Larger(mins[i], (prefs[i] * (Total(prefs) + extra)) \div Larger(1, Total(prefs)))]

\* st_table_calculate_row_heights(): every row shrinks by its share; one that
\* would get less than its minimum gets that, and the others start again.
RECURSIVE ShrinkRows(_, _, _, _)
ShrinkRows(room, mins, prefs, skip) ==
  LET pool == Total([i \in DOMAIN prefs |-> IF i \in skip THEN 0 ELSE prefs[i]])
      Share(i) == IF pool = 0 THEN -1 ELSE (prefs[i] * room) \div pool
      short == {i \in DOMAIN prefs \ skip : Share(i) < mins[i]}
      first == CHOOSE i \in short : \A j \in short : i <= j
  IN IF short = {} THEN [i \in DOMAIN prefs |-> IF i \in skip THEN mins[i] ELSE Share(i)]
     ELSE ShrinkRows(room - mins[first], mins, prefs, skip \cup {first})

RowHeights(length, mins, prefs) ==
  LET room == length - TrackSpacing * (Len(prefs) - 1)
      growing == {i \in DOMAIN prefs : Expands(i - 1)}
  IN IF room < Total(prefs) THEN ShrinkRows(room, mins, prefs, {})
     ELSE [i \in DOMAIN prefs |-> prefs[i] + IF i \in growing THEN (room - Total(prefs)) \div Cardinality(growing) ELSE 0]

\* st_table_allocate(): nothing while the table has no row or column.
TableAllocated ==
  /\ nTracks > 0
  /\ \E length \in TableLengths :
       LET mins == [i \in 1 .. nTracks |-> Most(Asked(i - 1, "min"))]
           prefs == [i \in 1 .. nTracks |-> Most(Asked(i - 1, "pref"))]
       IN tracks' = {[length |-> length, mins |-> mins, prefs |-> prefs,
                      rows |-> RowHeights(length, mins, prefs), cols |-> ColWidths(length, mins, prefs)]}
  /\ UNCHANGED <<boxes, cells, nTracks>>

\* _st_table_update_row_col(), for a child whose row or column is set
TrackSet(k, t) == nTracks' = Larger(nTracks, t + 1)

TableChildSet(k) ==
  /\ \E c \in CellSizes, t \in 0 .. TrackCount - 1 :
       /\ cells' = [cells EXCEPT ![k] = {[min |-> c.min, pref |-> c.pref, span |-> c.span, expand |-> c.expand, track |-> t]}]
       /\ TrackSet(k, t)
  /\ tracks' = {}
  /\ UNCHANGED boxes

\* st_table_actor_removed()
TableActorRemoved(k) ==
  /\ cells[k] # {}
  /\ cells' = [cells EXCEPT ![k] = {}]
  /\ nTracks' = Most({TrackOf(j) + 1 : j \in Members \ {k}})
  /\ tracks' = {}
  /\ UNCHANGED boxes

LayoutsInit ==
  /\ boxes = {}
  /\ cells = [k \in TableKids |-> {}] /\ nTracks = 0 /\ tracks = {}

LayoutsNext ==
  \/ boxes = {} /\ cells = [k \in TableKids |-> {}] /\ BoxAllocated
  \/ boxes = {} /\ (TableAllocated \/ \E k \in TableKids : TableChildSet(k) \/ TableActorRemoved(k))

-----------------------------------------------------------------------------
\* Types
LayoutsTypeOK ==
  /\ \A b \in boxes : DOMAIN b.spans = LaidOut(b.setup.kids)
  /\ nTracks \in 0 .. TrackCount
  /\ \A t \in tracks : t.rows \in Seq(Int) /\ t.cols \in Seq(Int)

\* A reference for st_box_layout_allocate(): the children follow each other at the
\* spacing and fill the box, and when there is too little for all of them each gets
\* its minimum and an equal chance beyond it, up to what it would like.
SharedFairly(s, spans) ==
  LET Width(i) == spans[i].x2 - spans[i].x1
      laid == LaidOut(s.kids)
      min == PreferredSize(s.kids, s.spacing, "min")
      nat == PreferredSize(s.kids, s.spacing, "nat")
      grows == \E i \in laid : s.kids[i].expand
      Before(i, j) == (s.packStart # s.flip) # (i < j)
      room == Larger(s.length, min)
  IN /\ \A i, j \in laid : Before(i, j) /\ ~(\E k \in laid : Before(i, k) /\ Before(k, j)) =>
           Distance(spans[j].x1, spans[i].x2 + s.spacing) <= PixelUnits
     /\ (nat > room \/ (nat < room /\ grows)) => \A i \in laid : spans[i].x1 >= 0 /\ spans[i].x2 <= ToPixel(room)
     /\ nat <= room => \A i \in laid : Width(i) >= s.kids[i].nat - PixelUnits
     /\ nat > room => \E chance \in 0 .. nat : \A i \in laid :
           Distance(Width(i), s.kids[i].min + Smaller(chance, s.kids[i].nat - s.kids[i].min)) <= PixelUnits

\* The children of a box that packs from its end share it fairly.
BoxIsShared == \A b \in boxes : b.setup.packStart \/ SharedFairly(b.setup, b.spans)

\* Every child of a table is in a track that it counts, through moves and removals;
\* no track gets less than its minimum (but for columns that expand and have nothing
\* in them), and the rows fit wherever their minima do.
TableHoldsItsCells ==
  /\ \A k \in Members : TrackOf(k) < nTracks
  /\ \A t \in tracks : \A i \in 1 .. nTracks : 
       /\ t.rows[i] >= t.mins[i]
       /\ (\A j \in 1 .. nTracks : Expands(j - 1) => t.prefs[j] > 0) => t.cols[i] >= t.mins[i]
  /\ \A t \in tracks :
       LET room == t.length - TrackSpacing * (nTracks - 1) IN
         /\ Total(t.mins) <= room => Total(t.rows) <= room
         /\ Total(t.prefs) <= room => Total(t.cols) <= room
=================================================================================
