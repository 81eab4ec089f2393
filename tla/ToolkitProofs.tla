---------------------------- MODULE ToolkitProofs ----------------------------
(***************************************************************************)
(* What is proved of the toolkit: the controls, for all entries, hints,    *)
(* buttons and icons, and the scroll view, for all sizes and contents; and *)
(* of the sound mixer, whose sinks the sliders show, for all sinks, names  *)
(* and numbers of upheavals.                                               *)
(***************************************************************************)
EXTENDS Controls, ScrollView, MixerControl, SeqLemmas, FiniteSetTheorems, TLAPS

-----------------------------------------------------------------------------
(***************************************************************************)
(* Text entries                                                            *)
(***************************************************************************)

Pieces == {"typed", "committed", "pasted"} \cup Hints

TextTypes ==
  /\ entryFocus \in Entries_ \cup {NoEntry}
  /\ entryText \in [Entries_ -> Seq(Pieces)] /\ content \in [Entries_ -> Seq(Pieces)]
  /\ \A e \in Entries_ : Len(entryText[e]) <= MaxPieces + 1
  /\ hint \in [Entries_ -> Hints \cup {NoHint}] /\ selected \in [Entries_ -> BOOLEAN]
  /\ hintVisible \in [Entries_ -> BOOLEAN] /\ indeterminate \in [Entries_ -> BOOLEAN]
  /\ disturbed \in [Entries_ -> BOOLEAN]

\* What EntryTellsItsText says of one entry
Tells(e) ==
  ~disturbed[e] =>
    /\ GetText(e) = content[e]
    /\ hintVisible[e] <=> hint[e] # NoHint /\ content[e] = <<>> /\ entryFocus # e
    /\ indeterminate[e] <=> hintVisible[e]

TextInv == TextTypes /\ \A e \in Entries_ : Tells(e)

\* A text with one more piece
LEMMA OneMore ==
  ASSUME NEW S, NEW s \in Seq(S), NEW p \in S
  PROVE  /\ s \o <<p>> \in Seq(S) /\ Len(s \o <<p>>) = Len(s) + 1 /\ s \o <<p>> # <<>>
         /\ Append(s, p) \in Seq(S) /\ Len(Append(s, p)) = Len(s) + 1 /\ Append(s, p) # <<>>
  <1>1. <<p>> \in Seq(S) /\ Len(<<p>>) = 1
    OBVIOUS
  <1>2. s \o <<p>> \in Seq(S) /\ Len(s \o <<p>>) = Len(s) + 1
    BY <1>1
  <1>3. Append(s, p) \in Seq(S) /\ Len(Append(s, p)) = Len(s) + 1
    OBVIOUS
  <1>4. Len(s) \in Nat /\ Len(<<>>) = 0
    OBVIOUS
  <1> QED BY <1>2, <1>3, <1>4

\* Text that is typed, committed or pasted comes to what is there, or in its place.
LEMMA InsertKeeps ==
  ASSUME TextInv, NEW e \in Entries_, NEW p \in {"typed", "committed", "pasted"}, Insert(e, <<p>>)
  PROVE  TextInv'
  <1> DEFINE kept == IF selected[e] THEN <<>> ELSE entryText[e]
             told == IF selected[e] THEN <<>> ELSE content[e]
  <1>1. p \in Pieces /\ TextTypes /\ MaxPieces \in Nat
    BY ControlsAssumption DEF Pieces, TextInv
  <1>2. entryText[e] \in Seq(Pieces) /\ content[e] \in Seq(Pieces) /\ <<>> \in Seq(Pieces)
    <2>1. <<>> \in Seq(Pieces)
      OBVIOUS
    <2> QED BY <1>1, <2>1 DEF TextTypes
  <1>3. kept \in Seq(Pieces) /\ told \in Seq(Pieces)
    BY <1>2
  <1>4. /\ kept \o <<p>> \in Seq(Pieces) /\ Len(kept \o <<p>>) = Len(kept) + 1
        /\ told \o <<p>> \in Seq(Pieces) /\ told \o <<p>> # <<>>
    <2> HIDE DEF kept, told
    <2> QED BY <1>1, <1>3, OneMore
  <1>5. Len(kept) <= MaxPieces /\ Len(kept) \in Nat
    <2>1. Len(entryText[e]) < MaxPieces
      BY DEF Insert
    <2>2. Len(<<>>) = 0 /\ Len(entryText[e]) \in Nat
      BY <1>2
    <2> QED BY <1>1, <2>1, <2>2
  <1>6. /\ entryText' = [entryText EXCEPT ![e] = kept \o <<p>>]
        /\ content' = [content EXCEPT ![e] = told \o <<p>>]
        /\ selected' = [selected EXCEPT ![e] = FALSE]
        /\ disturbed' = [disturbed EXCEPT ![e] = @ \/ hintVisible[e]]
        /\ UNCHANGED <<entryFocus, hint, hintVisible, indeterminate>>
    BY DEF Insert
  <1>7. Tells(e) => (~disturbed[e] /\ ~hintVisible[e] => told = kept)
    BY DEF Tells, GetText
  <1> HIDE DEF kept, told
  <1>8. TextTypes'
    <2>1. entryText' \in [Entries_ -> Seq(Pieces)] /\ content' \in [Entries_ -> Seq(Pieces)]
      BY <1>1, <1>4, <1>6 DEF TextTypes
    <2>2. \A f \in Entries_ : Len(entryText'[f]) <= MaxPieces + 1
      BY <1>1, <1>4, <1>5, <1>6 DEF TextTypes
    <2>3. disturbed' \in [Entries_ -> BOOLEAN] /\ selected' \in [Entries_ -> BOOLEAN]
      BY <1>1, <1>6 DEF TextTypes
    <2> QED BY <1>1, <1>6, <2>1, <2>2, <2>3 DEF TextTypes
  <1>9. ASSUME NEW f \in Entries_ PROVE Tells(f)'
    <2>1. Tells(f) /\ Tells(e)
      BY DEF TextInv
    <2>2. CASE f = e
      <3>1. /\ entryText'[e] = kept \o <<p>> /\ content'[e] = told \o <<p>>
            /\ disturbed'[e] <=> disturbed[e] \/ hintVisible[e]
        BY <1>1, <1>6 DEF TextTypes
      <3> QED BY <1>4, <1>6, <1>7, <2>1, <2>2, <3>1 DEF Tells, GetText
    <2>3. CASE f # e
      <3>1. entryText'[f] = entryText[f] /\ content'[f] = content[f] /\ disturbed'[f] = disturbed[f]
        BY <1>1, <1>6, <2>3 DEF TextTypes
      <3> QED BY <1>6, <2>1, <3>1 DEF Tells, GetText
    <2> QED BY <2>2, <2>3
  <1> QED BY <1>8, <1>9 DEF TextInv

\* st_entry_set_text(): the entry is again as it should be, whatever came in before.
LEMMA SetTextKeeps ==
  ASSUME TextInv, NEW e \in Entries_, NEW text \in {<<>>, <<"typed">>}, SetText(e, text)
  PROVE  TextInv'
  <1> DEFINE asHint == hint[e] # NoHint /\ text = <<>> /\ entryFocus # e
             display == IF asHint THEN <<hint[e]>> ELSE text
  <1>1. TextTypes /\ MaxPieces \in Nat
    BY ControlsAssumption DEF TextInv
  <1>2. text \in Seq(Pieces) /\ Len(text) <= 1
    <2>1. <<>> \in Seq(Pieces) /\ Len(<<>>) = 0
      OBVIOUS
    <2>2. <<"typed">> \in Seq(Pieces) /\ Len(<<"typed">>) = 1
      <3>1. "typed" \in Pieces
        BY DEF Pieces
      <3> QED BY <3>1
    <2>3. CASE text = <<>>
      BY <2>1, <2>3
    <2>4. CASE text = <<"typed">>
      BY <2>2, <2>4
    <2> QED BY <2>3, <2>4
  <1>3. display \in Seq(Pieces) /\ Len(display) <= MaxPieces + 1
    <2>1. CASE asHint
      <3>1. hint[e] \in Pieces
        BY <1>1, <2>1 DEF TextTypes, Pieces
      <3> QED BY <1>1, <2>1, <3>1
    <2>2. CASE ~asHint
      BY <1>1, <1>2, <2>2
    <2> QED BY <2>1, <2>2
  <1>4. /\ entryText' = [entryText EXCEPT ![e] = display]
        /\ hintVisible' = [hintVisible EXCEPT ![e] = asHint]
        /\ indeterminate' = [indeterminate EXCEPT ![e] = asHint]
        /\ selected' = [selected EXCEPT ![e] = FALSE]
        /\ content' = [content EXCEPT ![e] = text]
        /\ disturbed' = [disturbed EXCEPT ![e] = FALSE]
        /\ UNCHANGED <<entryFocus, hint>>
    BY DEF SetText
  <1>5. /\ (asHint => text = <<>>) /\ (~asHint => display = text) /\ asHint \in BOOLEAN
        /\ asHint <=> hint[e] # NoHint /\ text = <<>> /\ entryFocus # e
    OBVIOUS
  <1> HIDE DEF asHint, display
  <1>6. TextTypes'
    BY <1>1, <1>2, <1>3, <1>4, <1>5 DEF TextTypes
  <1>7. ASSUME NEW f \in Entries_ PROVE Tells(f)'
    <2>1. CASE f = e
      <3>1. /\ entryText'[e] = display /\ content'[e] = text
            /\ hintVisible'[e] <=> asHint
            /\ indeterminate'[e] <=> asHint
        BY <1>1, <1>4 DEF TextTypes
      <3> QED BY <1>4, <1>5, <2>1, <3>1 DEF Tells, GetText
    <2>2. CASE f # e
      <3>1. /\ entryText'[f] = entryText[f] /\ content'[f] = content[f] /\ disturbed'[f] = disturbed[f]
            /\ hintVisible'[f] = hintVisible[f] /\ indeterminate'[f] = indeterminate[f]
        BY <1>1, <1>4, <2>2 DEF TextTypes
      <3> QED BY <1>4, <3>1 DEF Tells, GetText, TextInv
    <2> QED BY <2>1, <2>2
  <1> QED BY <1>6, <1>7 DEF TextInv

\* st_entry_set_hint_text(): a hint that was in use may be left as it was.
LEMMA SetHintKeeps ==
  ASSUME TextInv, NEW e \in Entries_, NEW text \in Hints \cup {NoHint}, SetHintText(e, text)
  PROVE  TextInv'
  <1> DEFINE shows == entryText[e] = <<>> /\ entryFocus # e
             display == IF ~shows THEN entryText[e] ELSE IF text = NoHint THEN <<>> ELSE <<text>>
  <1>1. TextTypes /\ MaxPieces \in Nat
    BY ControlsAssumption DEF TextInv
  <1>2. /\ hint' = [hint EXCEPT ![e] = text]
        /\ hintVisible' = [hintVisible EXCEPT ![e] = @ \/ shows]
        /\ indeterminate' = [indeterminate EXCEPT ![e] = @ \/ shows]
        /\ entryText' = [entryText EXCEPT ![e] = display]
        /\ disturbed' = [disturbed EXCEPT ![e] = @ \/ hintVisible[e] \/ (shows /\ text = NoHint)]
        /\ UNCHANGED <<entryFocus, selected, content>>
    BY DEF SetHintText
  <1>3. display \in Seq(Pieces) /\ Len(display) <= MaxPieces + 1
    <2>1. CASE ~shows
      BY <1>1, <2>1 DEF TextTypes
    <2>2. CASE shows /\ text = NoHint
      BY <1>1, <2>2
    <2>3. CASE shows /\ text # NoHint
      <3>1. text \in Pieces
        BY <2>3 DEF Pieces
      <3> QED BY <1>1, <2>3, <3>1
    <2> QED BY <2>1, <2>2, <2>3
  <1>4. ~shows => display = entryText[e]
    OBVIOUS
  <1>5. shows <=> entryText[e] = <<>> /\ entryFocus # e
    OBVIOUS
  <1> HIDE DEF shows, display
  <1>6. TextTypes'
    BY <1>1, <1>2, <1>3 DEF TextTypes
  <1>7. ASSUME NEW f \in Entries_ PROVE Tells(f)'
    <2>0. Tells(f)
      BY DEF TextInv
    <2>1. CASE f = e
      <3>1. /\ entryText'[e] = display /\ content'[e] = content[e] /\ hint'[e] = text
            /\ hintVisible'[e] <=> hintVisible[e] \/ shows
            /\ indeterminate'[e] <=> indeterminate[e] \/ shows
            /\ disturbed'[e] <=> disturbed[e] \/ hintVisible[e] \/ (shows /\ text = NoHint)
        BY <1>1, <1>2 DEF TextTypes
      <3>2. CASE disturbed'[e]
        BY <2>1, <3>2 DEF Tells
      <3>3. CASE ~disturbed'[e]
        <4>1. ~disturbed[e] /\ ~hintVisible[e] /\ (shows => text # NoHint)
          BY <3>1, <3>3
        <4>2. content[e] = entryText[e] /\ ~indeterminate[e]
          BY <2>0, <2>1, <4>1 DEF Tells, GetText
        <4> QED BY <1>2, <1>4, <1>5, <2>1, <3>1, <4>1, <4>2 DEF Tells, GetText
      <3> QED BY <3>2, <3>3
    <2>2. CASE f # e
      <3>1. /\ entryText'[f] = entryText[f] /\ hint'[f] = hint[f] /\ disturbed'[f] = disturbed[f]
            /\ hintVisible'[f] = hintVisible[f] /\ indeterminate'[f] = indeterminate[f]
        BY <1>1, <1>2, <2>2 DEF TextTypes
      <3> QED BY <1>2, <2>0, <3>1 DEF Tells, GetText
    <2> QED BY <2>1, <2>2
  <1> QED BY <1>6, <1>7 DEF TextInv

\* Cut
LEMMA CutKeeps ==
  ASSUME TextInv, NEW e \in Entries_, entryFocus = e,
         entryText' = [entryText EXCEPT ![e] = <<>>], content' = [content EXCEPT ![e] = <<>>],
         selected' = [selected EXCEPT ![e] = FALSE],
         UNCHANGED <<entryFocus, hint, hintVisible, indeterminate, disturbed>>
  PROVE  TextInv'
  <1>1. TextTypes /\ MaxPieces \in Nat
    BY ControlsAssumption DEF TextInv
  <1>2. <<>> \in Seq(Pieces) /\ Len(<<>>) = 0
    OBVIOUS
  <1>3. TextTypes'
    BY <1>1, <1>2 DEF TextTypes
  <1>4. ASSUME NEW f \in Entries_ PROVE Tells(f)'
    <2>1. Tells(f)
      BY DEF TextInv
    <2>2. CASE f = e
      <3>1. entryText'[e] = <<>> /\ content'[e] = <<>>
        BY <1>1 DEF TextTypes
      <3> QED BY <2>1, <2>2, <3>1 DEF Tells, GetText
    <2>3. CASE f # e
      <3>1. entryText'[f] = entryText[f] /\ content'[f] = content[f]
        BY <1>1, <2>3 DEF TextTypes
      <3> QED BY <2>1, <3>1 DEF Tells, GetText
    <2> QED BY <2>2, <2>3
  <1> QED BY <1>3, <1>4 DEF TextInv

-----------------------------------------------------------------------------
\* A move of the focus: the entry that loses it, what its input method commits late, and
\* the entry that gets it

\* clutter_text_focus_out_cb()
LEMMA FocusOutGives ==
  ASSUME TextInv, NEW from \in Entries_, entryFocus = from, NEW left, left = FocusOutText(from)
  PROVE  /\ left.text \in [Entries_ -> Seq(Pieces)] /\ left.visible \in [Entries_ -> BOOLEAN]
         /\ \A f \in Entries_ : Len(left.text[f]) <= MaxPieces + 1
         /\ \A f \in Entries_ \ {from} : left.text[f] = entryText[f] /\ (left.visible[f] <=> hintVisible[f])
         /\ ~disturbed[from] =>
              /\ left.visible[from] <=> hint[from] # NoHint /\ content[from] = <<>>
              /\ ~left.visible[from] => left.text[from] = content[from]
              /\ left.visible[from] <=> left.text[from] # entryText[from]
  <1>1. TextTypes /\ MaxPieces \in Nat /\ Tells(from)
    BY ControlsAssumption DEF TextInv
  <1>2. CASE hint[from] # NoHint /\ entryText[from] = <<>>
    <2>1. /\ left.text = [entryText EXCEPT ![from] = <<hint[from]>>]
          /\ left.visible = [hintVisible EXCEPT ![from] = TRUE]
      BY <1>2 DEF FocusOutText
    <2>2. <<hint[from]>> \in Seq(Pieces) /\ Len(<<hint[from]>>) = 1 /\ <<hint[from]>> # <<>>
      <3>1. hint[from] \in Pieces
        BY <1>1, <1>2 DEF TextTypes, Pieces
      <3> QED BY <3>1
    <2>3. left.text[from] = <<hint[from]>> /\ left.visible[from] = TRUE
      BY <1>1, <2>1 DEF TextTypes
    <2>4. ~disturbed[from] => content[from] = <<>>
      BY <1>1, <1>2 DEF Tells, GetText
    <2>5. /\ left.text \in [Entries_ -> Seq(Pieces)] /\ left.visible \in [Entries_ -> BOOLEAN]
          /\ \A f \in Entries_ : Len(left.text[f]) <= MaxPieces + 1
          /\ \A f \in Entries_ \ {from} : left.text[f] = entryText[f] /\ (left.visible[f] <=> hintVisible[f])
      BY <1>1, <2>1, <2>2 DEF TextTypes
    <2> QED BY <1>2, <2>2, <2>3, <2>4, <2>5
  <1>3. CASE ~(hint[from] # NoHint /\ entryText[from] = <<>>)
    <2>1. left.text = entryText /\ left.visible = hintVisible
      BY <1>3 DEF FocusOutText
    <2>2. ~disturbed[from] => ~hintVisible[from] /\ content[from] = entryText[from]
      BY <1>1 DEF Tells, GetText
    <2> QED BY <1>1, <1>3, <2>1, <2>2 DEF TextTypes
  <1> QED BY <1>2, <1>3

\* What a move of the focus does to the texts
LEMMA FocusKeepsText ==
  ASSUME TextInv, NEW from \in Entries_ \cup {NoEntry}, NEW to \in Entries_ \cup {NoEntry},
         NEW commits \in BOOLEAN, FocusMoves(from, to, commits)
  PROVE  TextInv'
  <1> DEFINE left == IF from = NoEntry THEN [text |-> entryText, visible |-> hintVisible] ELSE FocusOutText(from)
             late == IF commits THEN [left.text EXCEPT ![from] = Append(@, "committed")] ELSE left.text
             entered == IF to = NoEntry THEN [text |-> late, visible |-> left.visible]
                        ELSE FocusInText(to, late, left.visible)
  <1>1. /\ TextTypes /\ MaxPieces \in Nat /\ NoEntry \notin Entries_ /\ "committed" \in Pieces
        /\ \A f \in Entries_ : Tells(f)
    BY ControlsAssumption DEF TextInv, Pieces
  <1>2. /\ from = entryFocus /\ to # from /\ entryFocus' = to
        /\ commits => from # NoEntry /\ Len(left.text[from]) < MaxPieces
        /\ entryText' = entered.text /\ hintVisible' = entered.visible
        /\ indeterminate' = [e \in Entries_ |->
             IF e = to THEN FALSE ELSE indeterminate[e] \/ (e = from /\ left.text[e] # entryText[e])]
        /\ content' = IF commits THEN [content EXCEPT ![from] = Append(@, "committed")] ELSE content
        /\ disturbed' = [e \in Entries_ |-> disturbed[e] \/ (commits /\ e = from /\ left.visible[e])]
        /\ selected' = selected /\ hint' = hint
    BY DEF FocusMoves
  <1>3. /\ left.text \in [Entries_ -> Seq(Pieces)] /\ left.visible \in [Entries_ -> BOOLEAN]
        /\ \A f \in Entries_ : Len(left.text[f]) <= MaxPieces + 1
        /\ \A f \in Entries_ \ {from} : left.text[f] = entryText[f] /\ (left.visible[f] <=> hintVisible[f])
        /\ from \in Entries_ /\ ~disturbed[from] =>
              /\ left.visible[from] <=> hint[from] # NoHint /\ content[from] = <<>>
              /\ ~left.visible[from] => left.text[from] = content[from]
              /\ left.visible[from] <=> left.text[from] # entryText[from]
    <2>1. CASE from = NoEntry
      <3>1. left.text = entryText /\ left.visible = hintVisible
        BY <2>1
      <3> HIDE DEF left
      <3> QED BY <1>1, <2>1, <3>1 DEF TextTypes
    <2>2. CASE from # NoEntry
      <3>1. left = FocusOutText(from) /\ from \in Entries_
        BY <2>2
      <3> HIDE DEF left
      <3> QED BY <1>2, <3>1, FocusOutGives
    <2> QED BY <2>1, <2>2
  <1>4. commits => Len(left.text[from]) < MaxPieces /\ from \in Entries_
    BY <1>2
  <1> HIDE DEF left
  <1>5. /\ late \in [Entries_ -> Seq(Pieces)]
        /\ \A f \in Entries_ : Len(late[f]) <= MaxPieces + 1
        /\ \A f \in Entries_ \ {from} : late[f] = left.text[f]
        /\ from \in Entries_ => late[from] = IF commits THEN Append(left.text[from], "committed") ELSE left.text[from]
    <2>1. CASE commits
      <3> DEFINE new == Append(left.text[from], "committed")
      <3>1. late = [left.text EXCEPT ![from] = new] /\ from \in Entries_
        BY <1>4, <2>1
      <3>2. new \in Seq(Pieces) /\ Len(new) = Len(left.text[from]) + 1
        BY <1>1, <1>3, <1>4, <2>1, OneMore
      <3>3. Len(left.text[from]) \in Nat
        BY <1>3, <3>1
      <3> HIDE DEF new, late
      <3>4. late \in [Entries_ -> Seq(Pieces)]
        BY <1>3, <3>1, <3>2
      <3>5. late[from] = new /\ \A f \in Entries_ \ {from} : late[f] = left.text[f]
        BY <1>3, <3>1
      <3>6. \A f \in Entries_ : Len(late[f]) <= MaxPieces + 1
        BY <1>1, <1>3, <1>4, <2>1, <3>2, <3>3, <3>5
      <3> QED BY <2>1, <3>4, <3>5, <3>6 DEF new
    <2>2. CASE ~commits
      BY <1>3, <2>2
    <2> QED BY <2>1, <2>2
  <1> HIDE DEF late
  <1>6. /\ entered.text \in [Entries_ -> Seq(Pieces)] /\ entered.visible \in [Entries_ -> BOOLEAN]
        /\ \A f \in Entries_ : Len(entered.text[f]) <= MaxPieces + 1
        /\ \A f \in Entries_ \ {to} : entered.text[f] = late[f] /\ (entered.visible[f] <=> left.visible[f])
        /\ to \in Entries_ =>
             /\ hint[to] # NoHint /\ left.visible[to] => entered.text[to] = <<>> /\ ~entered.visible[to]
             /\ ~(hint[to] # NoHint /\ left.visible[to]) =>
                  entered.text[to] = late[to] /\ (entered.visible[to] <=> left.visible[to])
    <2>1. CASE to = NoEntry
      <3>1. entered.text = late /\ entered.visible = left.visible
        BY <2>1
      <3> HIDE DEF entered
      <3> QED BY <1>1, <1>3, <1>5, <2>1, <3>1
    <2>2. CASE to # NoEntry
      <3>1. entered = FocusInText(to, late, left.visible) /\ to \in Entries_
        BY <2>2
      <3>2. CASE hint[to] # NoHint /\ left.visible[to]
        <4>1. entered.text = [late EXCEPT ![to] = <<>>] /\ entered.visible = [left.visible EXCEPT ![to] = FALSE]
          BY <3>1, <3>2 DEF FocusInText
        <4>2. <<>> \in Seq(Pieces) /\ Len(<<>>) = 0
          OBVIOUS
        <4> HIDE DEF entered
        <4> QED BY <1>1, <1>3, <1>5, <3>1, <3>2, <4>1, <4>2
      <3>3. CASE ~(hint[to] # NoHint /\ left.visible[to])
        <4>1. entered.text = late /\ entered.visible = left.visible
          BY <3>1, <3>3 DEF FocusInText
        <4> HIDE DEF entered
        <4> QED BY <1>3, <1>5, <3>1, <3>3, <4>1
      <3> QED BY <3>2, <3>3
    <2> QED BY <2>1, <2>2
  <1> HIDE DEF entered
  <1>7. TextTypes'
    <2>1. content' \in [Entries_ -> Seq(Pieces)]
      <3>1. CASE commits
        <4>1. Append(content[from], "committed") \in Seq(Pieces)
          BY <1>1, <1>4, <3>1 DEF TextTypes
        <4>2. content' = [content EXCEPT ![from] = Append(content[from], "committed")]
          BY <1>2, <3>1
        <4>3. content \in [Entries_ -> Seq(Pieces)]
          BY <1>1 DEF TextTypes
        <4> QED BY <1>4, <4>1, <4>2, <4>3, Zenon
      <3>2. CASE ~commits
        BY <1>1, <1>2, <3>2 DEF TextTypes
      <3> QED BY <3>1, <3>2
    <2>2. indeterminate' \in [Entries_ -> BOOLEAN] /\ disturbed' \in [Entries_ -> BOOLEAN]
      BY <1>1, <1>2, <1>3 DEF TextTypes
    <2> QED BY <1>1, <1>2, <1>6, <2>1, <2>2 DEF TextTypes
  <1>8. ASSUME NEW f \in Entries_ PROVE Tells(f)'
    <2>1. Tells(f)
      BY <1>1
    <2>2. CASE disturbed'[f]
      BY <2>2 DEF Tells
    <2>3. CASE ~disturbed'[f]
      <3>1. ~disturbed[f] /\ ~(commits /\ f = from /\ left.visible[f])
        BY <1>2, <2>3
      <3>2. CASE f = from
        <4>1. /\ entryText'[f] = late[f] /\ hintVisible'[f] = left.visible[f]
              /\ left.visible[f] <=> hint[f] # NoHint /\ content[f] = <<>>
              /\ ~left.visible[f] => left.text[f] = content[f]
              /\ left.visible[f] <=> left.text[f] # entryText[f]
          BY <1>2, <1>3, <1>6, <3>1, <3>2
        <4>2. indeterminate'[f] <=> indeterminate[f] \/ left.text[f] # entryText[f]
          BY <1>2, <3>2
        <4>3. ~indeterminate[f]
          BY <1>2, <2>1, <3>1, <3>2 DEF Tells
        <4>4. CASE commits
          <5>1. content'[f] = Append(content[f], "committed") /\ content'[f] # <<>>
            BY <1>1, <1>2, <3>2, <4>4, OneMore DEF TextTypes
          <5>2. late[f] = content'[f]
            BY <1>5, <3>1, <3>2, <4>1, <4>4, <5>1
          <5> QED BY <1>2, <3>1, <3>2, <4>1, <4>2, <4>3, <4>4, <5>1, <5>2 DEF Tells, GetText
        <4>5. CASE ~commits
          <5>1. content'[f] = content[f] /\ late[f] = left.text[f]
            BY <1>2, <1>5, <3>2, <4>5
          <5> QED BY <1>2, <3>2, <4>1, <4>2, <4>3, <5>1 DEF Tells, GetText
        <4> QED BY <4>4, <4>5
      <3>3. CASE f # from
        <4>1. content'[f] = content[f]
          BY <1>1, <1>2, <3>3 DEF TextTypes
        <4>2. late[f] = entryText[f] /\ (left.visible[f] <=> hintVisible[f])
          BY <1>3, <1>5, <3>3
        <4>3. CASE f = to
          <5>1. ~indeterminate'[f]
            BY <1>2, <4>3
          <5>2. ~hintVisible'[f] /\ entryText'[f] = content[f]
            BY <1>2, <1>6, <2>1, <3>1, <4>2, <4>3 DEF Tells, GetText
          <5> QED BY <1>2, <4>1, <4>3, <5>1, <5>2 DEF Tells, GetText
        <4>4. CASE f # to
          <5>1. indeterminate'[f] <=> indeterminate[f]
            BY <1>2, <3>3, <4>4
          <5>2. (hintVisible'[f] <=> hintVisible[f]) /\ entryText'[f] = entryText[f]
            BY <1>2, <1>6, <4>2, <4>4
          <5> QED BY <1>2, <2>1, <3>1, <3>3, <4>1, <4>4, <5>1, <5>2 DEF Tells, GetText
        <4> QED BY <4>3, <4>4
      <3> QED BY <3>2, <3>3
    <2> QED BY <2>2, <2>3
  <1> QED BY <1>7, <1>8 DEF TextInv

-----------------------------------------------------------------------------
\* The warning about caps lock and the input method

WarnTypes ==
  /\ capsLock \in BOOLEAN /\ password \in [Entries_ -> BOOLEAN]
  /\ secondaryIcon \in [Entries_ -> {"none", "own", "warning"}] /\ warningShown \in [Entries_ -> BOOLEAN]
  /\ needReset \in [Entries_ -> BOOLEAN] /\ preedit \in [Entries_ -> BOOLEAN]

\* A warning that is displayed is known to be one, so that it can be taken away.
Warns(e) ==
  /\ secondaryIcon[e] = "warning" => warningShown[e] /\ entryFocus = e /\ password[e] /\ capsLock
  /\ preedit[e] => needReset[e] /\ entryFocus = e

WarnInv == WarnTypes /\ \A e \in Entries_ : Warns(e)

\* What is displayed after feedback for a state of caps lock
LEMMA FeedbackGives ==
  ASSUME NEW e, NEW caps \in BOOLEAN, NEW icon \in {"none", "own", "warning"}, NEW told \in BOOLEAN,
         icon = "warning" => told, NEW f, f = Feedback(e, caps, icon, told)
  PROVE  /\ f.icon \in {"none", "own", "warning"} /\ f.shown \in BOOLEAN
         /\ f.icon = "warning" => f.shown /\ caps
  <1>1. CASE caps /\ icon = "none"
    BY <1>1 DEF Feedback
  <1>2. CASE ~caps /\ told
    BY <1>2 DEF Feedback
  <1>3. CASE ~(caps /\ icon = "none") /\ ~(~caps /\ told)
    <2>1. f = [icon |-> icon, shown |-> told]
      BY <1>3 DEF Feedback
    <2>2. f.icon = icon /\ f.shown = told
      BY <2>1
    <2> QED BY <1>3, <2>2
  <1> QED BY <1>1, <1>2, <1>3

\* The same for the entry that is displayed
LEMMA FeedbackSets ==
  ASSUME WarnTypes, NEW e \in Entries_, NEW caps \in BOOLEAN, secondaryIcon[e] = "warning" => warningShown[e],
         FeedbackFor(e, caps)
  PROVE  /\ secondaryIcon' \in [Entries_ -> {"none", "own", "warning"}] /\ warningShown' \in [Entries_ -> BOOLEAN]
         /\ secondaryIcon'[e] = "warning" => warningShown'[e] /\ caps
         /\ \A g \in Entries_ \ {e} : secondaryIcon'[g] = secondaryIcon[g] /\ (warningShown'[g] <=> warningShown[g])
  <1> DEFINE f == Feedback(e, caps, secondaryIcon[e], warningShown[e])
  <1>1. /\ secondaryIcon' = [secondaryIcon EXCEPT ![e] = f.icon]
        /\ warningShown' = [warningShown EXCEPT ![e] = f.shown]
    BY DEF FeedbackFor
  <1>2. secondaryIcon[e] \in {"none", "own", "warning"} /\ warningShown[e] \in BOOLEAN
    BY DEF WarnTypes
  <1>3. /\ f.icon \in {"none", "own", "warning"} /\ f.shown \in BOOLEAN
        /\ f.icon = "warning" => f.shown /\ caps
    BY <1>2, FeedbackGives
  <1> HIDE DEF f
  <1> QED BY <1>1, <1>3 DEF WarnTypes

\* A press of caps lock is heard by the focused entry.
LEMMA CapsKeeps == WarnInv /\ entryFocus \in Entries_ \cup {NoEntry} /\ CapsLockPressed => WarnInv'
  <1> SUFFICES ASSUME WarnInv, entryFocus \in Entries_ \cup {NoEntry}, CapsLockPressed PROVE WarnInv'
    OBVIOUS
  <1>1. /\ capsLock' = ~capsLock
        /\ UNCHANGED <<password, entryFocus, needReset, preedit>>
    BY DEF CapsLockPressed, textVars, imVars
  <1>2. WarnTypes /\ \A e \in Entries_ : Warns(e)
    BY DEF WarnInv
  <1>3. CASE entryFocus # NoEntry /\ password[entryFocus]
    <2>1. entryFocus \in Entries_ /\ FeedbackFor(entryFocus, ~capsLock)
      BY <1>3 DEF CapsLockPressed
    <2> DEFINE e == entryFocus
    <2>2. /\ secondaryIcon' \in [Entries_ -> {"none", "own", "warning"}] /\ warningShown' \in [Entries_ -> BOOLEAN]
          /\ secondaryIcon'[e] = "warning" => warningShown'[e] /\ ~capsLock
          /\ \A g \in Entries_ \ {e} : secondaryIcon'[g] = secondaryIcon[g] /\ (warningShown'[g] <=> warningShown[g])
      <3>1. PICK c \in Entries_ : c = entryFocus
        BY <2>1
      <3>2. PICK caps \in BOOLEAN : caps = ~capsLock
        BY <1>2 DEF WarnTypes
      <3>3. FeedbackFor(c, caps) /\ (secondaryIcon[c] = "warning" => warningShown[c])
        <4>1. FeedbackFor(c, caps)
          BY <2>1, <3>1, <3>2 DEF FeedbackFor
        <4>2. secondaryIcon[c] = "warning" => warningShown[c]
          BY <1>2 DEF Warns
        <4> QED BY <4>1, <4>2
      <3>4. /\ secondaryIcon' \in [Entries_ -> {"none", "own", "warning"}] /\ warningShown' \in [Entries_ -> BOOLEAN]
            /\ secondaryIcon'[c] = "warning" => warningShown'[c] /\ caps
            /\ \A g \in Entries_ \ {c} : secondaryIcon'[g] = secondaryIcon[g] /\ (warningShown'[g] <=> warningShown[g])
        BY <1>2, <3>3, FeedbackSets
      <3> QED BY <3>1, <3>2, <3>4
    <2>3. WarnTypes'
      BY <1>1, <1>2, <2>2 DEF WarnTypes
    <2>4. ASSUME NEW g \in Entries_ PROVE Warns(g)'
      <3>1. CASE g = entryFocus
        BY <1>1, <1>2, <1>3, <2>2, <3>1 DEF Warns
      <3>2. CASE g # entryFocus
        BY <1>1, <1>2, <2>2, <3>2 DEF Warns
      <3> QED BY <3>1, <3>2
    <2> QED BY <2>3, <2>4 DEF WarnInv
  <1>4. CASE ~(entryFocus # NoEntry /\ password[entryFocus])
    <2>1. UNCHANGED <<secondaryIcon, warningShown>>
      BY <1>4 DEF CapsLockPressed
    <2>2. WarnTypes'
      BY <1>1, <1>2, <2>1 DEF WarnTypes
    <2>3. ASSUME NEW g \in Entries_ PROVE Warns(g)'
      <3>1. secondaryIcon[g] # "warning"
        BY <1>2, <1>4, ControlsAssumption DEF Warns
      <3> QED BY <1>1, <1>2, <2>1, <3>1 DEF Warns
    <2> QED BY <2>2, <2>3 DEF WarnInv
  <1> QED BY <1>3, <1>4

\* The mark of a password goes with its warning.
LEMMA PasswordKeeps ==
  ASSUME WarnInv, NEW e \in Entries_, SetPasswordChar(e)
  PROVE  WarnInv'
  <1>1. /\ password' = [password EXCEPT ![e] = ~@]
        /\ UNCHANGED <<capsLock, entryFocus, needReset, preedit>>
    BY DEF SetPasswordChar, textVars, imVars
  <1>2. WarnTypes /\ \A f \in Entries_ : Warns(f)
    BY DEF WarnInv
  <1>3. password' \in [Entries_ -> BOOLEAN] /\ \A f \in Entries_ \ {e} : password'[f] <=> password[f]
    BY <1>1, <1>2 DEF WarnTypes
  <1>4. CASE password[e]
    <2>1. FeedbackFor(e, FALSE)
      BY <1>4 DEF SetPasswordChar
    <2>2. /\ secondaryIcon' \in [Entries_ -> {"none", "own", "warning"}] /\ warningShown' \in [Entries_ -> BOOLEAN]
          /\ secondaryIcon'[e] # "warning"
          /\ \A g \in Entries_ \ {e} : secondaryIcon'[g] = secondaryIcon[g] /\ (warningShown'[g] <=> warningShown[g])
      <3>1. secondaryIcon[e] = "warning" => warningShown[e]
        BY <1>2 DEF Warns
      <3> QED BY <1>2, <2>1, <3>1, FeedbackSets
    <2>3. WarnTypes'
      BY <1>1, <1>2, <1>3, <2>2 DEF WarnTypes
    <2>4. \A g \in Entries_ : Warns(g)'
      BY <1>1, <1>2, <1>3, <2>2 DEF Warns
    <2> QED BY <2>3, <2>4 DEF WarnInv
  <1>5. CASE ~password[e]
    <2>1. UNCHANGED <<secondaryIcon, warningShown>>
      BY <1>5 DEF SetPasswordChar
    <2>2. WarnTypes'
      BY <1>1, <1>2, <1>3, <2>1 DEF WarnTypes
    <2>3. \A g \in Entries_ : Warns(g)'
      BY <1>1, <1>2, <1>3, <1>5, <2>1 DEF Warns
    <2> QED BY <2>2, <2>3 DEF WarnInv
  <1> QED BY <1>4, <1>5

\* reset_im_context()
LEMMA ResetKeeps ==
  ASSUME WarnInv, NEW e \in Entries_, ResetContext(e), UNCHANGED <<entryFocus, warningVars>>
  PROVE  WarnInv'
  <1>1. /\ preedit' = [preedit EXCEPT ![e] = @ /\ ~needReset[e]]
        /\ needReset' = [needReset EXCEPT ![e] = FALSE]
        /\ UNCHANGED <<entryFocus, capsLock, password, secondaryIcon, warningShown>>
    BY DEF ResetContext, warningVars
  <1>2. WarnTypes /\ \A f \in Entries_ : Warns(f)
    BY DEF WarnInv
  <1>3. WarnTypes'
    BY <1>1, <1>2 DEF WarnTypes
  <1>4. ASSUME NEW f \in Entries_ PROVE Warns(f)'
    <2>1. Warns(f)
      BY <1>2
    <2>2. preedit'[f] => needReset'[f] /\ preedit[f]
      <3>1. CASE f = e
        <4>1. preedit'[f] <=> preedit[f] /\ ~needReset[f]
          BY <1>1, <1>2, <3>1 DEF WarnTypes
        <4> QED BY <2>1, <4>1 DEF Warns
      <3>2. CASE f # e
        <4>1. (preedit'[f] <=> preedit[f]) /\ (needReset'[f] <=> needReset[f])
          BY <1>1, <1>2, <3>2 DEF WarnTypes
        <4> QED BY <2>1, <4>1 DEF Warns
      <3> QED BY <3>1, <3>2
    <2> QED BY <1>1, <2>1, <2>2 DEF Warns
  <1> QED BY <1>3, <1>4 DEF WarnInv

\* The input method goes on with what it began, or commits it.
LEMMA ComposeKeeps ==
  ASSUME WarnInv, NEW e \in Entries_, NEW commits \in BOOLEAN, Compose(e, commits), entryFocus' = entryFocus
  PROVE  WarnInv'
  <1>1. /\ entryFocus = e
        /\ needReset' = [needReset EXCEPT ![e] = TRUE]
        /\ preedit' = [preedit EXCEPT ![e] = ~commits]
        /\ UNCHANGED <<entryFocus, capsLock, password, secondaryIcon, warningShown>>
    BY DEF Compose, warningVars
  <1>2. WarnTypes /\ \A f \in Entries_ : Warns(f)
    BY DEF WarnInv
  <1>3. WarnTypes'
    BY <1>1, <1>2 DEF WarnTypes
  <1>4. ASSUME NEW f \in Entries_ PROVE Warns(f)'
    <2>1. CASE f = e
      <3>1. needReset'[f]
        BY <1>1, <1>2, <2>1 DEF WarnTypes
      <3> QED BY <1>1, <1>2, <2>1, <3>1 DEF Warns
    <2>2. CASE f # e
      <3>1. (preedit'[f] <=> preedit[f]) /\ (needReset'[f] <=> needReset[f])
        BY <1>1, <1>2, <2>2 DEF WarnTypes
      <3> QED BY <1>1, <1>2, <3>1 DEF Warns
    <2> QED BY <2>1, <2>2
  <1> QED BY <1>3, <1>4 DEF WarnInv

\* The warning goes with the focus, and what an input method began ends there.
LEMMA FocusKeepsWarning ==
  ASSUME WarnInv, NEW from \in Entries_ \cup {NoEntry}, NEW to \in Entries_ \cup {NoEntry},
         NEW commits \in BOOLEAN, FocusMoves(from, to, commits)
  PROVE  WarnInv'
  <1> DEFINE changed == {from, to} \ {NoEntry}
  <1>1. /\ from = entryFocus /\ to # from /\ entryFocus' = to
        /\ needReset' = [e \in Entries_ |-> needReset[e] \/ e \in changed]
        /\ preedit' = IF from = NoEntry THEN preedit ELSE [preedit EXCEPT ![from] = FALSE]
        /\ capsLock' = capsLock /\ password' = password
    <2>1. from = entryFocus /\ to # from /\ entryFocus' = to /\ capsLock' = capsLock /\ password' = password
      BY DEF FocusMoves
    <2>2. needReset' = [e \in Entries_ |-> needReset[e] \/ e \in changed]
      BY Zenon DEF FocusMoves
    <2>3. preedit' = IF from = NoEntry THEN preedit ELSE [preedit EXCEPT ![from] = FALSE]
      BY Zenon DEF FocusMoves
    <2> QED BY <2>1, <2>2, <2>3
  <1> DEFINE outs == IF from = NoEntry THEN [icon |-> "none", shown |-> FALSE]
                     ELSE Feedback(from, FALSE, secondaryIcon[from], warningShown[from])
             intos == IF to = NoEntry \/ ~password[to] THEN [icon |-> "none", shown |-> FALSE]
                      ELSE Feedback(to, capsLock, secondaryIcon[to], warningShown[to])
  <1>0. \E out \in {outs}, into \in {intos} :
          LET touched(e) == e = from \/ (e = to /\ password[e])
              new(e) == IF e = from THEN out ELSE into IN
          /\ secondaryIcon' = [e \in Entries_ |-> IF touched(e) THEN new(e).icon ELSE secondaryIcon[e]]
          /\ warningShown' = [e \in Entries_ |-> IF touched(e) THEN new(e).shown ELSE warningShown[e]]
    BY Zenon DEF FocusMoves
  <1>2. PICK out, into :
          /\ out = outs /\ into = intos
          /\ secondaryIcon' = [e \in Entries_ |->
                IF e = from \/ (e = to /\ password[e]) THEN (IF e = from THEN out ELSE into).icon ELSE secondaryIcon[e]]
          /\ warningShown' = [e \in Entries_ |->
                IF e = from \/ (e = to /\ password[e]) THEN (IF e = from THEN out ELSE into).shown ELSE warningShown[e]]
    <2> HIDE DEF outs, intos
    <2> QED BY <1>0, Zenon
  <1>3. WarnTypes /\ (\A f \in Entries_ : Warns(f)) /\ NoEntry \notin Entries_
    BY ControlsAssumption DEF WarnInv
  <1>4. from \in Entries_ => /\ out.icon \in {"none", "own", "warning"} /\ out.shown \in BOOLEAN
                             /\ out.icon # "warning"
    <2> SUFFICES ASSUME from \in Entries_
                 PROVE  /\ out.icon \in {"none", "own", "warning"} /\ out.shown \in BOOLEAN /\ out.icon # "warning"
      OBVIOUS
    <2>1. /\ out = Feedback(from, FALSE, secondaryIcon[from], warningShown[from])
          /\ secondaryIcon[from] \in {"none", "own", "warning"} /\ warningShown[from] \in BOOLEAN
          /\ secondaryIcon[from] = "warning" => warningShown[from]
      BY <1>2, <1>3 DEF WarnTypes, Warns
    <2>2. PICK icon \in {"none", "own", "warning"}, told \in BOOLEAN :
            icon = secondaryIcon[from] /\ told = warningShown[from]
      BY <2>1
    <2>3. out = Feedback(from, FALSE, icon, told) /\ (icon = "warning" => told)
      BY <2>1, <2>2
    <2>4. /\ out.icon \in {"none", "own", "warning"} /\ out.shown \in BOOLEAN
          /\ out.icon = "warning" => out.shown /\ FALSE
      BY <2>3, FeedbackGives, ZenonT(60)
    <2> QED BY <2>4
  <1>5. to \in Entries_ /\ password[to] =>
          /\ into.icon \in {"none", "own", "warning"} /\ into.shown \in BOOLEAN
          /\ into.icon = "warning" => into.shown /\ capsLock
    <2> SUFFICES ASSUME to \in Entries_, password[to]
                 PROVE  /\ into.icon \in {"none", "own", "warning"} /\ into.shown \in BOOLEAN
                        /\ into.icon = "warning" => into.shown /\ capsLock
      OBVIOUS
    <2>1. /\ into = Feedback(to, capsLock, secondaryIcon[to], warningShown[to]) /\ capsLock \in BOOLEAN
          /\ secondaryIcon[to] \in {"none", "own", "warning"} /\ warningShown[to] \in BOOLEAN
          /\ secondaryIcon[to] = "warning" => warningShown[to]
      BY <1>2, <1>3 DEF WarnTypes, Warns
    <2> QED BY <2>1, FeedbackGives
  <1>6. ASSUME NEW f \in Entries_
        PROVE  /\ secondaryIcon'[f] \in {"none", "own", "warning"} /\ warningShown'[f] \in BOOLEAN
               /\ secondaryIcon'[f] = "warning" => warningShown'[f] /\ to = f /\ password[f] /\ capsLock
    <2>1. CASE f = from
      <3>1. secondaryIcon'[f] = out.icon /\ warningShown'[f] = out.shown
        BY <1>2, <2>1
      <3> QED BY <1>4, <2>1, <3>1
    <2>2. CASE f # from /\ f = to /\ password[f]
      <3>1. secondaryIcon'[f] = into.icon /\ warningShown'[f] = into.shown
        BY <1>2, <2>2
      <3> QED BY <1>5, <2>2, <3>1
    <2>3. CASE f # from /\ ~(f = to /\ password[f])
      <3>1. secondaryIcon'[f] = secondaryIcon[f] /\ warningShown'[f] = warningShown[f]
        BY <1>2, <2>3
      <3>2. secondaryIcon[f] # "warning"
        BY <1>1, <1>3, <2>3 DEF Warns
      <3> QED BY <1>3, <3>1, <3>2 DEF WarnTypes
    <2> QED BY <2>1, <2>2, <2>3
  <1>7. WarnTypes'
    <2>1. needReset' \in [Entries_ -> BOOLEAN] /\ preedit' \in [Entries_ -> BOOLEAN]
      BY <1>1, <1>3 DEF WarnTypes
    <2>2. secondaryIcon' \in [Entries_ -> {"none", "own", "warning"}] /\ warningShown' \in [Entries_ -> BOOLEAN]
      BY <1>2, <1>6
    <2> QED BY <1>1, <1>3, <2>1, <2>2 DEF WarnTypes
  <1>8. ASSUME NEW f \in Entries_ PROVE ~preedit'[f]
    <2>1. CASE f = from
      BY <1>1, <1>3, <2>1 DEF WarnTypes
    <2>2. CASE f # from
      BY <1>1, <1>3, <2>2 DEF WarnTypes, Warns
    <2> QED BY <2>1, <2>2
  <1> QED BY <1>1, <1>6, <1>7, <1>8 DEF WarnInv, Warns

-----------------------------------------------------------------------------
\* The clipboard

Conversions == {<<>>, <<"pasted">>}

ClipInv ==
  /\ clipboard \in Conversions
  /\ filters \in Seq(Entries_) /\ answers \in Seq(Conversions)
  /\ Len(filters) <= MaxConversions /\ Len(answers) <= Len(filters)

\* No more is answered than was asked for.
LEMMA PasteKeeps ==
  ASSUME ClipInv, NEW e \in Entries_, NEW replies \in BOOLEAN, Paste(e, replies)
  PROVE  ClipInv'
  <1>1. /\ Len(filters) < MaxConversions /\ filters' = Append(filters, e) /\ clipboard' = clipboard
        /\ Len(filters) \in Nat /\ Len(answers) \in Nat /\ MaxConversions \in Nat
    BY ControlsAssumption DEF Paste, ClipInv
  <1>2. filters' \in Seq(Entries_) /\ Len(filters') = Len(filters) + 1
    BY <1>1 DEF ClipInv
  <1>3. answers' \in Seq(Conversions) /\ Len(answers') <= Len(answers) + 1
    <2>1. CASE replies
      <3>1. PICK c \in Conversions : answers' = Append(answers, c)
        BY <2>1 DEF Paste, ClipInv, Conversions
      <3> QED BY <3>1 DEF ClipInv
    <2>2. CASE ~replies
      BY <1>1, <2>2 DEF Paste, ClipInv
    <2> QED BY <2>1, <2>2
  <1>4. Len(answers') \in Nat
    BY <1>3
  <1> QED BY <1>1, <1>2, <1>3, <1>4 DEF ClipInv

-----------------------------------------------------------------------------
(***************************************************************************)
(* Buttons and icons                                                       *)
(***************************************************************************)

ButtonTypes ==
  /\ down \subseteq Buttons /\ grabbed \subseteq ButtonMask /\ pressed \subseteq ButtonMask
  /\ keyDown \in BOOLEAN /\ inside \in BOOLEAN /\ hasFocus \in BOOLEAN /\ pointerGrab \in BOOLEAN
  /\ active \in BOOLEAN /\ checked \in BOOLEAN /\ checkedStyle \in BOOLEAN
  /\ started \subseteq Buttons \cup {0} /\ clicked \in [by : Buttons \cup {0}, ok : {TRUE}]

\* What is pressed is pressed by a button of the mouse that holds the grab, or by the key of
\* the focused button; and what holds or presses was pressed on it and has not come up.
PressIsHeld ==
  /\ grabbed \subseteq down /\ grabbed \subseteq started
  /\ keyDown => 0 \in started
  /\ \A b \in pressed : b \in grabbed \/ (b = 1 /\ keyDown /\ hasFocus)
  /\ pointerGrab <=> grabbed # {}
  /\ active <=> pressed # {}
  /\ checkedStyle <=> checked

ButtonInv == ButtonTypes /\ PressIsHeld

\* What st_button_press() does to the parts of the invariant it can disturb.
LEMMA PressKeeps ==
  ASSUME ButtonTypes, PressIsHeld, NEW mask \in SUBSET ButtonMask, mask # {}, Press(mask)
  PROVE  /\ pressed' = pressed \cup mask /\ pressed' \subseteq ButtonMask
         /\ active' \in BOOLEAN /\ (active' <=> pressed' # {})
         /\ checked' = checked /\ checkedStyle' = checkedStyle /\ clicked' = clicked
  <1>1. pressed' = pressed \cup mask /\ pressed' \subseteq ButtonMask
    BY DEF Press, ButtonTypes
  <1>2. active' \in BOOLEAN /\ (active' <=> pressed' # {})
    <2>1. active' = (active \/ pressed = {})
      BY DEF Press
    <2>2. pressed' # {}
      BY <1>1
    <2> QED BY <2>1, <2>2 DEF PressIsHeld
  <1> QED BY <1>1, <1>2 DEF Press

\* st_button_release(): it is a click only with a press that is not over.
LEMMA ReleaseKeeps ==
  ASSUME ButtonTypes, PressIsHeld, NEW mask \in SUBSET ButtonMask, mask # {}, NEW click \in Buttons \cup {0},
         NEW ok, click # 0 => ok = TRUE, Release(mask, click, ok)
  PROVE  /\ pressed' = pressed \ mask
         /\ active' \in BOOLEAN /\ (active' <=> pressed' # {})
         /\ checked' \in BOOLEAN /\ checkedStyle' \in BOOLEAN /\ (checkedStyle' <=> checked')
         /\ clicked' \in [by : Buttons \cup {0}, ok : {TRUE}]
  <1>1. pressed' = pressed \ mask
    BY DEF Release
  <1>2. active' \in BOOLEAN /\ (active' <=> pressed' # {})
    <2>1. active' = (active /\ pressed \ mask # {})
      BY DEF Release
    <2> QED BY <1>1, <2>1 DEF PressIsHeld
  <1>3. checked' \in BOOLEAN /\ checkedStyle' \in BOOLEAN /\ (checkedStyle' <=> checked')
    <2>1. CASE pressed \ mask = {} /\ click # 0 /\ Toggles
      BY <2>1 DEF Release, SetChecked, ButtonTypes
    <2>2. CASE ~(pressed \ mask = {} /\ click # 0 /\ Toggles)
      BY <2>2 DEF Release, ButtonTypes, PressIsHeld
    <2> QED BY <2>1, <2>2
  <1>4. clicked' \in [by : Buttons \cup {0}, ok : {TRUE}]
    <2>1. CASE pressed \ mask = {} /\ click # 0
      BY <2>1 DEF Release
    <2>2. CASE ~(pressed \ mask = {} /\ click # 0)
      BY <2>2 DEF Release, ButtonTypes
    <2> QED BY <2>1, <2>2
  <1> QED BY <1>1, <1>2, <1>3, <1>4

\* Every event of the mouse, the keyboard and the focus keeps the invariant.
LEMMA ButtonStep == ButtonInv /\ [ButtonNext]_buttonVars => ButtonInv'
  <1> SUFFICES ASSUME ButtonInv, [ButtonNext]_buttonVars PROVE ButtonInv'
    OBVIOUS
  <1>0. ButtonTypes /\ PressIsHeld /\ 1 \in ButtonMask /\ ButtonMask \subseteq Buttons /\ 0 \notin Buttons
    BY ControlsAssumption DEF ButtonInv
  <1>1. ASSUME NEW b \in Buttons, ButtonPress(b) PROVE ButtonInv'
    <2>1. /\ down' = down \cup {b}
          /\ keyDown' = keyDown /\ inside' = inside /\ hasFocus' = hasFocus
      BY <1>1 DEF ButtonPress
    <2>2. CASE (inside \/ pointerGrab) /\ b \in ButtonMask
      <3>1. Press({b}) /\ grabbed' = grabbed \cup {b} /\ pointerGrab' = TRUE /\ started' = started \cup {b}
        BY <1>1, <2>2 DEF ButtonPress
      <3>2. /\ pressed' = pressed \cup {b} /\ pressed' \subseteq ButtonMask
            /\ active' \in BOOLEAN /\ (active' <=> pressed' # {})
            /\ checked' = checked /\ checkedStyle' = checkedStyle /\ clicked' = clicked
        BY <1>0, <2>2, <3>1, PressKeeps
      <3>3. ButtonTypes'
        BY <1>0, <2>1, <2>2, <3>1, <3>2 DEF ButtonTypes
      <3>4. PressIsHeld'
        BY <1>0, <2>1, <3>1, <3>2 DEF PressIsHeld
      <3> QED BY <3>3, <3>4 DEF ButtonInv
    <2>3. CASE ~((inside \/ pointerGrab) /\ b \in ButtonMask)
      <3>1. UNCHANGED <<pressed, active, checked, checkedStyle, clicked, grabbed, pointerGrab, started>>
        BY <1>1, <2>3 DEF ButtonPress
      <3> QED BY <1>0, <2>1, <3>1 DEF ButtonInv, ButtonTypes, PressIsHeld
    <2> QED BY <2>2, <2>3
  <1>2. ASSUME NEW b \in Buttons, ButtonRelease(b) PROVE ButtonInv'
    <2>1. /\ down' = down \ {b} /\ started' = started \ {b}
          /\ keyDown' = keyDown /\ inside' = inside /\ hasFocus' = hasFocus
      BY <1>2 DEF ButtonRelease
    <2>2. CASE (inside \/ pointerGrab) /\ b \in ButtonMask
      <3> DEFINE click == IF grabbed # {} /\ inside THEN b ELSE 0
      <3>1. /\ Release({b}, click, started # {}) /\ grabbed' = grabbed \ {b}
            /\ pointerGrab' = (pointerGrab /\ grabbed' # {})
        BY <1>2, <2>2 DEF ButtonRelease
      <3>2. click \in Buttons \cup {0} /\ (click # 0 => (started # {}) = TRUE)
        BY <1>0 DEF PressIsHeld
      <3> HIDE DEF click
      <3>3. /\ pressed' = pressed \ {b}
            /\ active' \in BOOLEAN /\ (active' <=> pressed' # {})
            /\ checked' \in BOOLEAN /\ checkedStyle' \in BOOLEAN /\ (checkedStyle' <=> checked')
            /\ clicked' \in [by : Buttons \cup {0}, ok : {TRUE}]
        <4>1. {b} \in SUBSET ButtonMask /\ {b} # {}
          BY <2>2
        <4> QED BY <1>0, <3>1, <3>2, <4>1, ReleaseKeeps
      <3>4. pointerGrab' \in BOOLEAN /\ (pointerGrab' <=> grabbed' # {})
        BY <1>0, <3>1 DEF PressIsHeld
      <3>5. ButtonTypes'
        BY <1>0, <2>1, <3>1, <3>3, <3>4 DEF ButtonTypes
      <3>6. PressIsHeld'
        BY <1>0, <2>1, <3>1, <3>3, <3>4 DEF PressIsHeld
      <3> QED BY <3>5, <3>6 DEF ButtonInv
    <2>3. CASE ~((inside \/ pointerGrab) /\ b \in ButtonMask)
      <3>1. UNCHANGED <<pressed, active, checked, checkedStyle, clicked, grabbed, pointerGrab>>
        BY <1>2, <2>3 DEF ButtonRelease
      <3>2. b \notin grabbed
        BY <1>0, <2>3 DEF ButtonTypes, PressIsHeld
      <3> QED BY <1>0, <2>1, <3>1, <3>2 DEF ButtonInv, ButtonTypes, PressIsHeld
    <2> QED BY <2>2, <2>3
  <1>3. CASE KeyPress
    <2>1. /\ hasFocus /\ keyDown' = TRUE /\ Press({1}) /\ started' = started \cup {0}
          /\ UNCHANGED <<down, inside, hasFocus, grabbed, pointerGrab>>
      BY <1>3 DEF KeyPress
    <2>2. /\ pressed' = pressed \cup {1} /\ pressed' \subseteq ButtonMask
          /\ active' \in BOOLEAN /\ (active' <=> pressed' # {})
          /\ checked' = checked /\ checkedStyle' = checkedStyle /\ clicked' = clicked
      BY <1>0, <2>1, PressKeeps
    <2>3. ButtonTypes'
      BY <1>0, <2>1, <2>2 DEF ButtonTypes
    <2>4. PressIsHeld'
      BY <1>0, <2>1, <2>2 DEF PressIsHeld
    <2> QED BY <2>3, <2>4 DEF ButtonInv
  <1>4. CASE KeyRelease
    <2>1. /\ keyDown /\ keyDown' = FALSE /\ started' = started \ {0}
          /\ UNCHANGED <<down, inside, hasFocus, grabbed, pointerGrab>>
      BY <1>4 DEF KeyRelease
    <2>2. CASE hasFocus
      <3> DEFINE click == IF 1 \in pressed THEN 1 ELSE 0
      <3>1. Release({1}, click, {0, 1} \cap started # {})
        BY <1>4, <2>2 DEF KeyRelease
      <3>2. click \in Buttons \cup {0} /\ (click # 0 => ({0, 1} \cap started # {}) = TRUE)
        BY <1>0, <2>1 DEF PressIsHeld
      <3> HIDE DEF click
      <3>3. /\ pressed' = pressed \ {1}
            /\ active' \in BOOLEAN /\ (active' <=> pressed' # {})
            /\ checked' \in BOOLEAN /\ checkedStyle' \in BOOLEAN /\ (checkedStyle' <=> checked')
            /\ clicked' \in [by : Buttons \cup {0}, ok : {TRUE}]
        <4>1. {1} \in SUBSET ButtonMask /\ {1} # {}
          BY <1>0
        <4> QED BY <1>0, <3>1, <3>2, <4>1, ReleaseKeeps
      <3>4. ButtonTypes'
        BY <1>0, <2>1, <3>3 DEF ButtonTypes
      <3>5. PressIsHeld'
        BY <1>0, <2>1, <3>3 DEF PressIsHeld, ButtonTypes
      <3> QED BY <3>4, <3>5 DEF ButtonInv
    <2>3. CASE ~hasFocus
      <3>1. UNCHANGED <<pressed, active, checked, checkedStyle, clicked>>
        BY <1>4, <2>3 DEF KeyRelease
      <3> QED BY <1>0, <2>1, <2>3, <3>1 DEF ButtonInv, ButtonTypes, PressIsHeld
    <2> QED BY <2>2, <2>3
  <1>5. CASE KeyFocus
    <2>1. /\ hasFocus' = ~hasFocus
          /\ UNCHANGED <<down, keyDown, inside, grabbed, pointerGrab, started>>
      BY <1>5 DEF KeyFocus
    <2>2. CASE hasFocus /\ 1 \in pressed /\ 1 \notin grabbed
      <3>1. Release({1}, 0, TRUE)
        BY <1>5, <2>2 DEF KeyFocus
      <3>3. /\ pressed' = pressed \ {1}
            /\ active' \in BOOLEAN /\ (active' <=> pressed' # {})
            /\ checked' \in BOOLEAN /\ checkedStyle' \in BOOLEAN /\ (checkedStyle' <=> checked')
            /\ clicked' \in [by : Buttons \cup {0}, ok : {TRUE}]
        <4>1. {1} \in SUBSET ButtonMask /\ {1} # {}
          BY <1>0
        <4> QED BY <1>0, <3>1, <4>1, ReleaseKeeps
      <3>4. ButtonTypes'
        BY <1>0, <2>1, <3>3 DEF ButtonTypes
      <3>5. PressIsHeld'
        BY <1>0, <2>1, <3>3 DEF PressIsHeld
      <3> QED BY <3>4, <3>5 DEF ButtonInv
    <2>3. CASE ~(hasFocus /\ 1 \in pressed /\ 1 \notin grabbed)
      <3>1. UNCHANGED <<pressed, active, checked, checkedStyle, clicked>>
        BY <1>5, <2>3 DEF KeyFocus
      <3> QED BY <1>0, <2>1, <2>3, <3>1 DEF ButtonInv, ButtonTypes, PressIsHeld
    <2> QED BY <2>2, <2>3
  <1>6. CASE EnterOrLeave
    <2>1. /\ inside' = ~inside
          /\ UNCHANGED <<down, keyDown, hasFocus, grabbed, pointerGrab, started>>
      BY <1>6 DEF EnterOrLeave
    <2>2. CASE grabbed = {}
      <3>1. UNCHANGED <<pressed, active, checked, checkedStyle, clicked>>
        BY <1>6, <2>2 DEF EnterOrLeave
      <3> QED BY <1>0, <2>1, <3>1 DEF ButtonInv, ButtonTypes, PressIsHeld
    <2>3. CASE grabbed # {} /\ inside'
      <3>1. Press(grabbed)
        BY <1>6, <2>3 DEF EnterOrLeave
      <3>2. /\ pressed' = pressed \cup grabbed /\ pressed' \subseteq ButtonMask
            /\ active' \in BOOLEAN /\ (active' <=> pressed' # {})
            /\ checked' = checked /\ checkedStyle' = checkedStyle /\ clicked' = clicked
        <4>1. grabbed \in SUBSET ButtonMask /\ grabbed # {}
          BY <1>0, <2>3 DEF ButtonTypes
        <4> QED BY <1>0, <3>1, <4>1, PressKeeps
      <3> QED BY <1>0, <2>1, <3>2 DEF ButtonInv, ButtonTypes, PressIsHeld
    <2>4. CASE grabbed # {} /\ ~inside'
      <3>1. Release(grabbed, 0, TRUE)
        BY <1>6, <2>4 DEF EnterOrLeave
      <3>2. /\ pressed' = pressed \ grabbed
            /\ active' \in BOOLEAN /\ (active' <=> pressed' # {})
            /\ checked' \in BOOLEAN /\ checkedStyle' \in BOOLEAN /\ (checkedStyle' <=> checked')
            /\ clicked' \in [by : Buttons \cup {0}, ok : {TRUE}]
        <4>1. grabbed \in SUBSET ButtonMask /\ grabbed # {}
          BY <1>0, <2>4 DEF ButtonTypes
        <4> QED BY <1>0, <3>1, <4>1, ReleaseKeeps
      <3> QED BY <1>0, <2>1, <3>2 DEF ButtonInv, ButtonTypes, PressIsHeld
    <2> QED BY <2>2, <2>3, <2>4
  <1>7. CASE FakeRelease
    <2>1. /\ grabbed' = {} /\ pointerGrab' = (pointerGrab /\ grabbed = {})
          /\ UNCHANGED <<down, keyDown, inside, hasFocus, started>>
      BY <1>7 DEF FakeRelease
    <2>2. pointerGrab' \in BOOLEAN /\ (pointerGrab' <=> grabbed' # {})
      BY <1>0, <2>1 DEF PressIsHeld
    <2>3. CASE pressed = {}
      <3>1. UNCHANGED <<pressed, active, checked, checkedStyle, clicked>>
        BY <1>7, <2>3 DEF FakeRelease
      <3> QED BY <1>0, <2>1, <2>2, <2>3, <3>1 DEF ButtonInv, ButtonTypes, PressIsHeld
    <2>4. CASE pressed # {}
      <3>1. Release(pressed, 0, TRUE)
        BY <1>7, <2>4 DEF FakeRelease
      <3>2. /\ pressed' = pressed \ pressed
            /\ active' \in BOOLEAN /\ (active' <=> pressed' # {})
            /\ checked' \in BOOLEAN /\ checkedStyle' \in BOOLEAN /\ (checkedStyle' <=> checked')
            /\ clicked' \in [by : Buttons \cup {0}, ok : {TRUE}]
        <4>1. pressed \in SUBSET ButtonMask /\ pressed # {}
          BY <1>0, <2>4 DEF ButtonTypes
        <4> QED BY <1>0, <3>1, <4>1, ReleaseKeeps
      <3> QED BY <1>0, <2>1, <2>2, <3>2 DEF ButtonInv, ButtonTypes, PressIsHeld
    <2> QED BY <2>3, <2>4
  <1>8. CASE UNCHANGED buttonVars
    BY <1>0, <1>8 DEF buttonVars, ButtonInv, ButtonTypes, PressIsHeld
  <1> QED BY <1>1, <1>2, <1>3, <1>4, <1>5, <1>6, <1>7, <1>8 DEF ButtonNext

\* An icon with a style: what it displays last is what was set last.
IconInv ==
  /\ iconNode \in Nodes \cup {NoIconNode} /\ iconSize \in IconSizes \cup {DefaultSize}
  /\ iconName \in IconNames \cup {NoTexture} /\ propSize \in IconSizes \cup {-1}
  /\ shadowSpec \in BOOLEAN /\ shadowMaterial \in BOOLEAN
  /\ IconIsCurrent

\* The size of an icon is one of its property, of its style, or the default.
LEMMA SizeTypes ==
  ASSUME NEW prop \in IconSizes \cup {-1}, NEW node \in Nodes \cup {NoIconNode}
  PROVE  UpdatedSize(prop, node) \in IconSizes \cup {DefaultSize}
  BY DEF UpdatedSize, Nodes, NoIconNode

\* st_icon_update() for the name and the size that the icon has from now on
LEMMA UpdateKeeps ==
  ASSUME NEW name \in IconNames \cup {NoTexture}, NEW size \in IconSizes \cup {DefaultSize},
         NEW node \in Nodes \cup {NoIconNode}, NEW found \in Found,
         UpdateIcon(name, size, node, found), shadowMaterial \in BOOLEAN
  PROVE  /\ shadowMaterial' \in BOOLEAN
         /\ node # NoIconNode =>
              LET last == IF pendingTexture' # NoTexture THEN pendingTexture' ELSE iconTexture' IN
              last # NoTexture => last = [name |-> name, size |-> size]
  <1> DEFINE texture == [name |-> name, size |-> size]
  <1>1. texture # NoTexture
    BY ControlsAssumption
  <1>2. node.shadow \in BOOLEAN
    <2>1. CASE node \in Nodes
      BY <2>1 DEF Nodes
    <2>2. CASE node = NoIconNode
      <3>1. node.shadow = FALSE
        BY <2>2 DEF NoIconNode
      <3> QED BY <3>1
    <2> QED BY <2>1, <2>2
  <1>3. CASE node = NoIconNode
    BY <1>3 DEF UpdateIcon
  <1>4. CASE node # NoIconNode /\ found = "missing"
    BY <1>4 DEF UpdateIcon
  <1>5. CASE node # NoIconNode /\ found # "missing" /\ (found = "loaded" \/ iconTexture = NoTexture)
    <2>1. iconTexture' = texture /\ pendingTexture' = NoTexture /\ shadowMaterial' = node.shadow
      BY <1>5 DEF UpdateIcon
    <2> QED BY <1>2, <2>1
  <1>6. CASE node # NoIconNode /\ found # "missing" /\ ~(found = "loaded" \/ iconTexture = NoTexture)
    <2>1. pendingTexture' = texture /\ UNCHANGED <<iconTexture, shadowMaterial>>
      BY <1>6 DEF UpdateIcon
    <2> QED BY <1>1, <2>1
  <1> QED BY <1>3, <1>4, <1>5, <1>6

\* Every step of an icon keeps the invariant.
LEMMA IconStep == IconInv /\ [IconNext]_iconVars => IconInv'
  <1> SUFFICES ASSUME IconInv, [IconNext]_iconVars PROVE IconInv'
    OBVIOUS
  <1>0. /\ iconNode \in Nodes \cup {NoIconNode} /\ iconSize \in IconSizes \cup {DefaultSize}
        /\ iconName \in IconNames \cup {NoTexture} /\ propSize \in IconSizes \cup {-1}
        /\ shadowSpec \in BOOLEAN /\ shadowMaterial \in BOOLEAN
        /\ IconIsCurrent
    BY DEF IconInv
  <1>1. CASE IconLoaded
    BY <1>0, <1>1 DEF IconLoaded, IconInv, IconIsCurrent
  <1>2. CASE NodeDropped
    BY <1>0, <1>2 DEF NodeDropped, IconInv, IconIsCurrent
  <1>3. ASSUME NEW found \in Found, NEW n \in IconNames \cup {NoTexture}, SetIcon(n, found) PROVE IconInv'
    <2>1. /\ iconName' = n /\ UpdateIcon(n, iconSize, iconNode, found)
          /\ UNCHANGED <<iconNode, propSize, iconSize, shadowSpec>>
      BY <1>3 DEF SetIcon
    <2>2. /\ shadowMaterial' \in BOOLEAN
          /\ iconNode # NoIconNode =>
               LET last == IF pendingTexture' # NoTexture THEN pendingTexture' ELSE iconTexture' IN
               last # NoTexture => last = [name |-> n, size |-> iconSize]
      BY <1>0, <1>3, <2>1, UpdateKeeps
    <2> QED BY <1>0, <2>1, <2>2 DEF IconInv, IconIsCurrent
  <1>4. ASSUME NEW found \in Found, NEW s \in IconSizes \cup {-1}, SetIconSize(s, found) PROVE IconInv'
    <2>1. /\ propSize' = s /\ iconSize' = UpdatedSize(s, iconNode)
          /\ UNCHANGED <<iconNode, iconName, shadowSpec>>
      BY <1>4 DEF SetIconSize
    <2>2. iconSize' \in IconSizes \cup {DefaultSize}
      BY <1>0, <1>4, <2>1, SizeTypes
    <2>3. CASE iconSize' # iconSize
      <3> DEFINE size == UpdatedSize(s, iconNode)
      <3>1. UpdateIcon(iconName, size, iconNode, found) /\ size \in IconSizes \cup {DefaultSize}
        BY <1>4, <2>1, <2>2, <2>3 DEF SetIconSize
      <3>2. /\ shadowMaterial' \in BOOLEAN
            /\ iconNode # NoIconNode =>
                 LET last == IF pendingTexture' # NoTexture THEN pendingTexture' ELSE iconTexture' IN
                 last # NoTexture => last = [name |-> iconName, size |-> size]
        <4> HIDE DEF size
        <4> QED BY <1>0, <1>4, <3>1, UpdateKeeps
      <3> QED BY <1>0, <2>1, <2>2, <3>2 DEF IconInv, IconIsCurrent
    <2>4. CASE iconSize' = iconSize
      BY <1>0, <1>4, <2>1, <2>4 DEF SetIconSize, IconInv, IconIsCurrent
    <2> QED BY <2>3, <2>4
  <1>5. ASSUME NEW found \in Found, NEW n \in Nodes, IconStyleChanged(n, found) PROVE IconInv'
    <2> DEFINE size == UpdatedSize(propSize, n)
    <2>1. /\ iconNode' = n /\ shadowSpec' = n.shadow /\ iconSize' = size
          /\ UpdateIcon(iconName, size, n, found)
          /\ UNCHANGED <<iconName, propSize>>
      BY <1>5 DEF IconStyleChanged
    <2>2. size \in IconSizes \cup {DefaultSize}
      BY <1>0, <1>5, SizeTypes
    <2>3. n.shadow \in BOOLEAN
      BY <1>5 DEF Nodes
    <2>4. /\ shadowMaterial' \in BOOLEAN
          /\ n # NoIconNode =>
               LET last == IF pendingTexture' # NoTexture THEN pendingTexture' ELSE iconTexture' IN
               last # NoTexture => last = [name |-> iconName, size |-> size]
      <3> HIDE DEF size
      <3> QED BY <1>0, <1>5, <2>1, <2>2, UpdateKeeps
    <2> HIDE DEF size
    <2> QED BY <1>0, <1>5, <2>1, <2>2, <2>3, <2>4 DEF IconInv, IconIsCurrent
  <1>6. CASE UNCHANGED iconVars
    BY <1>0, <1>6 DEF iconVars, IconInv, IconIsCurrent
  <1> QED BY <1>1, <1>2, <1>3, <1>4, <1>5, <1>6 DEF IconNext

-----------------------------------------------------------------------------
\* All of the entries

EntriesInv == TextInv /\ WarnInv /\ ClipInv

\* What does not touch the texts, the warnings or the clipboard keeps what is said of them.
LEMMA TextStays == TextInv /\ UNCHANGED textVars => TextInv'
  BY DEF TextInv, TextTypes, Tells, GetText, textVars

LEMMA WarnStays == WarnInv /\ UNCHANGED <<entryFocus, warningVars, imVars>> => WarnInv'
  BY DEF WarnInv, WarnTypes, Warns, warningVars, imVars

LEMMA ClipStays == ClipInv /\ UNCHANGED clipVars => ClipInv'
  BY DEF ClipInv, clipVars

\* Another icon in the place of the warning
LEMMA OtherIconKeeps ==
  ASSUME WarnInv, NEW e \in Entries_, NEW icon \in {"none", "own"}, SetSecondaryIcon(e, icon),
         UNCHANGED <<entryFocus, imVars>>
  PROVE  WarnInv'
  <1>1. /\ secondaryIcon' = [secondaryIcon EXCEPT ![e] = icon]
        /\ UNCHANGED <<entryFocus, capsLock, password, warningShown, needReset, preedit>>
    BY DEF SetSecondaryIcon, imVars
  <1>2. WarnTypes /\ \A f \in Entries_ : Warns(f)
    BY DEF WarnInv
  <1>3. WarnTypes'
    BY <1>1, <1>2 DEF WarnTypes
  <1>4. ASSUME NEW f \in Entries_ PROVE Warns(f)'
    <2>1. secondaryIcon'[f] = "warning" => secondaryIcon[f] = "warning"
      BY <1>1, <1>2 DEF WarnTypes
    <2> QED BY <1>1, <1>2, <2>1 DEF Warns
  <1> QED BY <1>3, <1>4 DEF WarnInv

\* A press in the entry selects what it displays, or no longer does.
LEMMA SelectKeeps ==
  ASSUME TextInv, NEW e \in Entries_, PressText(e)
  PROVE  TextInv'
  <1>1. /\ selected' = [selected EXCEPT ![e] = ~@ /\ entryText[e] # <<>>]
        /\ UNCHANGED <<entryFocus, entryText, hint, hintVisible, indeterminate, content, disturbed>>
    BY DEF PressText
  <1>2. TextTypes /\ \A f \in Entries_ : Tells(f)
    BY DEF TextInv
  <1>3. selected' \in [Entries_ -> BOOLEAN]
    BY <1>1, <1>2 DEF TextTypes
  <1> QED BY <1>1, <1>2, <1>3 DEF TextInv, TextTypes, Tells, GetText

\* An answer that is not empty is what somebody copied, and comes to one of the entries.
LEMMA AnswerGives ==
  ASSUME ClipInv, answers # <<>>, filters # <<>>
  PROVE  /\ Head(filters) \in Entries_ /\ Head(answers) \in Conversions
         /\ Tail(filters) \in Seq(Entries_) /\ Tail(answers) \in Seq(Conversions)
         /\ Len(Tail(answers)) <= Len(Tail(filters)) /\ Len(Tail(filters)) <= MaxConversions
  <1>1. /\ filters \in Seq(Entries_) /\ answers \in Seq(Conversions)
        /\ Len(filters) <= MaxConversions /\ Len(answers) <= Len(filters) /\ MaxConversions \in Nat
    BY ControlsAssumption DEF ClipInv
  <1>2. /\ Head(filters) \in Entries_ /\ Tail(filters) \in Seq(Entries_)
        /\ Len(Tail(filters)) = Len(filters) - 1 /\ Len(filters) \in Nat
    BY <1>1
  <1>3. /\ Head(answers) \in Conversions /\ Tail(answers) \in Seq(Conversions)
        /\ Len(Tail(answers)) = Len(answers) - 1 /\ Len(answers) \in Nat
    <2>1. PICK q \in Seq(Conversions) : q = answers
      BY <1>1
    <2>2. q # <<>>
      BY <2>1
    <2>3. Head(q) \in Conversions /\ Tail(q) \in Seq(Conversions) /\ Len(Tail(q)) = Len(q) - 1 /\ Len(q) \in Nat
      BY <2>2
    <2> QED BY <2>1, <2>3
  <1> QED BY <1>1, <1>2, <1>3

\* The answer to a conversion
LEMMA NotifyKeeps == EntriesInv /\ SelectionNotify => EntriesInv'
  <1> SUFFICES ASSUME EntriesInv, SelectionNotify PROVE EntriesInv'
    OBVIOUS
  <1>1. /\ answers # <<>> /\ filters # <<>> /\ filters' = Tail(filters) /\ answers' = Tail(answers)
        /\ UNCHANGED <<clipboard, clipboardOwner, warningVars, imVars>>
    BY DEF SelectionNotify
  <1>2. TextInv /\ WarnInv /\ ClipInv
    BY DEF EntriesInv
  <1>3. /\ Head(filters) \in Entries_ /\ Head(answers) \in Conversions
        /\ Tail(filters) \in Seq(Entries_) /\ Tail(answers) \in Seq(Conversions)
        /\ Len(Tail(answers)) <= Len(Tail(filters)) /\ Len(Tail(filters)) <= MaxConversions
    BY <1>1, <1>2, AnswerGives
  <1>4. ClipInv'
    BY <1>1, <1>2, <1>3 DEF ClipInv
  <1>5. TextInv' /\ entryFocus' = entryFocus
    <2>1. CASE Head(answers) = <<>>
      <3>1. UNCHANGED textVars
        BY <2>1 DEF SelectionNotify
      <3> QED BY <1>2, <3>1, TextStays DEF textVars
    <2>2. CASE Head(answers) # <<>>
      <3>1. Insert(Head(filters), Head(answers)) /\ Head(answers) = <<"pasted">>
        BY <1>3, <2>2 DEF SelectionNotify, Conversions
      <3>2. PICK e \in Entries_ : e = Head(filters)
        BY <1>3
      <3>3. Insert(e, <<"pasted">>)
        BY <3>1, <3>2
      <3>4. TextInv'
        BY <1>2, <3>3, InsertKeeps
      <3>5. entryFocus' = entryFocus
        BY <3>3 DEF Insert
      <3> QED BY <3>4, <3>5
    <2> QED BY <2>1, <2>2
  <1>6. WarnInv'
    BY <1>1, <1>2, <1>5, WarnStays
  <1> QED BY <1>4, <1>5, <1>6 DEF EntriesInv

\* Copy and cut put into the clipboard what is pasted later.
LEMMA CopyKeeps ==
  ASSUME EntriesInv, NEW e \in Entries_, NEW cut \in BOOLEAN, Copy(e, cut)
  PROVE  EntriesInv'
  <1>1. /\ entryFocus = e /\ clipboard' = <<"pasted">>
        /\ UNCHANGED <<filters, answers, warningVars, imVars>>
    BY DEF Copy, SetClipboard
  <1>2. TextInv /\ WarnInv /\ ClipInv
    BY DEF EntriesInv
  <1>3. ClipInv'
    BY <1>1, <1>2 DEF ClipInv, Conversions
  <1>4. TextInv' /\ entryFocus' = entryFocus
    <2>1. CASE cut
      <3>1. /\ entryText' = [entryText EXCEPT ![e] = <<>>] /\ content' = [content EXCEPT ![e] = <<>>]
            /\ selected' = [selected EXCEPT ![e] = FALSE]
            /\ UNCHANGED <<entryFocus, hint, hintVisible, indeterminate, disturbed>>
        BY <2>1 DEF Copy
      <3>2. TextInv'
        BY <1>1, <1>2, <3>1, CutKeeps
      <3> QED BY <3>1, <3>2
    <2>2. CASE ~cut
      <3>1. UNCHANGED textVars
        BY <2>2 DEF Copy
      <3> QED BY <1>2, <3>1, TextStays DEF textVars
    <2> QED BY <2>1, <2>2
  <1>5. WarnInv'
    BY <1>1, <1>2, <1>4, WarnStays
  <1> QED BY <1>3, <1>4, <1>5 DEF EntriesInv

\* Every step of the entries keeps the invariant.
LEMMA EntriesStep == EntriesInv /\ [EntriesNext]_entryVars => EntriesInv'
  <1> SUFFICES ASSUME EntriesInv, [EntriesNext]_entryVars PROVE EntriesInv'
    OBVIOUS
  <1>0. /\ TextInv /\ WarnInv /\ ClipInv /\ entryFocus \in Entries_ \cup {NoEntry}
        /\ HintEntries \subseteq Entries_ /\ PasswordEntries \subseteq Entries_
    BY ControlsAssumption DEF EntriesInv, TextInv, TextTypes
  <1>1. ASSUME NEW e \in Entries_, NEW text \in {<<>>, <<"typed">>}, SetText(e, text) PROVE EntriesInv'
    <2>1. UNCHANGED <<entryFocus, warningVars, imVars>> /\ UNCHANGED clipVars
      BY <1>1 DEF SetText
    <2>2. TextInv'
      BY <1>0, <1>1, SetTextKeeps
    <2> QED BY <1>0, <2>1, <2>2, WarnStays, ClipStays DEF EntriesInv
  <1>2. ASSUME NEW e \in Entries_, NEW b \in BOOLEAN, Compose(e, b) PROVE EntriesInv'
    <2>1. TextInv' /\ entryFocus' = entryFocus
      <3>1. CASE b
        <4>1. Insert(e, <<"committed">>)
          BY <1>2, <3>1 DEF Compose
        <4>2. TextInv'
          BY <1>0, <4>1, InsertKeeps
        <4> QED BY <4>1, <4>2 DEF Insert
      <3>2. CASE ~b
        <4>1. UNCHANGED textVars
          BY <1>2, <3>2 DEF Compose
        <4> QED BY <1>0, <4>1, TextStays DEF textVars
      <3> QED BY <3>1, <3>2
    <2>2. WarnInv'
      BY <1>0, <1>2, <2>1, ComposeKeeps
    <2>3. UNCHANGED clipVars
      BY <1>2 DEF Compose
    <2> QED BY <1>0, <2>1, <2>2, <2>3, ClipStays DEF EntriesInv
  <1>3. ASSUME NEW e \in Entries_, NEW b \in BOOLEAN, Copy(e, b) PROVE EntriesInv'
    BY <1>3, CopyKeeps
  <1>4. ASSUME NEW e \in Entries_, NEW b \in BOOLEAN, Paste(e, b) PROVE EntriesInv'
    <2>1. UNCHANGED textVars /\ UNCHANGED <<entryFocus, warningVars, imVars>>
      BY <1>4 DEF Paste, textVars
    <2>2. ClipInv'
      BY <1>0, <1>4, PasteKeeps
    <2> QED BY <1>0, <2>1, <2>2, TextStays, WarnStays DEF EntriesInv
  <1>5. ASSUME NEW e \in Entries_, Typed(e) PROVE EntriesInv'
    <2>1. Insert(e, <<"typed">>) /\ ResetContext(e) /\ UNCHANGED warningVars /\ UNCHANGED clipVars
      BY <1>5 DEF Typed
    <2>2. TextInv'
      BY <1>0, <2>1, InsertKeeps
    <2>3. entryFocus' = entryFocus
      BY <2>1 DEF Insert
    <2>4. WarnInv'
      BY <1>0, <2>1, <2>3, ResetKeeps
    <2> QED BY <1>0, <2>1, <2>2, <2>4, ClipStays DEF EntriesInv
  <1>6. ASSUME NEW e \in Entries_, PressText(e) PROVE EntriesInv'
    <2>1. ResetContext(e) /\ UNCHANGED warningVars /\ UNCHANGED clipVars /\ entryFocus' = entryFocus
      BY <1>6 DEF PressText
    <2>2. TextInv'
      BY <1>0, <1>6, SelectKeeps
    <2>3. WarnInv'
      BY <1>0, <2>1, ResetKeeps
    <2> QED BY <1>0, <2>1, <2>2, <2>3, ClipStays DEF EntriesInv
  <1>7. ASSUME NEW e \in HintEntries, NEW h \in Hints \cup {NoHint}, SetHintText(e, h) PROVE EntriesInv'
    <2>1. UNCHANGED <<entryFocus, warningVars, imVars>> /\ UNCHANGED clipVars /\ e \in Entries_
      BY <1>0, <1>7 DEF SetHintText
    <2>2. TextInv'
      BY <1>0, <1>7, <2>1, SetHintKeeps
    <2> QED BY <1>0, <2>1, <2>2, WarnStays, ClipStays DEF EntriesInv
  <1>8. ASSUME NEW e \in PasswordEntries, SetPasswordChar(e) PROVE EntriesInv'
    <2>1. UNCHANGED textVars /\ UNCHANGED clipVars /\ e \in Entries_
      BY <1>0, <1>8 DEF SetPasswordChar
    <2>2. WarnInv'
      BY <1>0, <1>8, <2>1, PasswordKeeps
    <2> QED BY <1>0, <2>1, <2>2, TextStays, ClipStays DEF EntriesInv
  <1>9. ASSUME NEW e \in PasswordEntries, NEW icon \in {"none", "own"}, SetSecondaryIcon(e, icon) PROVE EntriesInv'
    <2>1. UNCHANGED textVars /\ UNCHANGED clipVars /\ UNCHANGED <<entryFocus, imVars>> /\ e \in Entries_
      BY <1>0, <1>9 DEF SetSecondaryIcon, textVars
    <2>2. WarnInv'
      BY <1>0, <1>9, <2>1, OtherIconKeeps
    <2> QED BY <1>0, <2>1, <2>2, TextStays, ClipStays DEF EntriesInv
  <1>10. CASE CapsLockPressed
    <2>1. UNCHANGED textVars /\ UNCHANGED clipVars
      BY <1>10 DEF CapsLockPressed
    <2>2. WarnInv'
      BY <1>0, <1>10, CapsKeeps
    <2> QED BY <1>0, <2>1, <2>2, TextStays, ClipStays DEF EntriesInv
  <1>11. ASSUME NEW from \in Entries_ \cup {NoEntry}, NEW to \in Entries_ \cup {NoEntry}, NEW commits \in BOOLEAN,
                FocusMoves(from, to, commits)
         PROVE  EntriesInv'
    <2>1. UNCHANGED clipVars
      BY <1>11 DEF FocusMoves
    <2>2. TextInv'
      BY <1>0, <1>11, FocusKeepsText
    <2>3. WarnInv'
      BY <1>0, <1>11, FocusKeepsWarning
    <2> QED BY <1>0, <2>1, <2>2, <2>3, ClipStays DEF EntriesInv
  <1>12. ASSUME NEW who \in {"other", "nobody"}, OtherOwns(who) PROVE EntriesInv'
    <2>1. /\ UNCHANGED textVars /\ UNCHANGED <<entryFocus, warningVars, imVars>>
          /\ UNCHANGED <<clipboard, filters, answers>>
      BY <1>12 DEF OtherOwns, textVars
    <2>2. ClipInv'
      BY <1>0, <2>1 DEF ClipInv
    <2> QED BY <1>0, <2>1, <2>2, TextStays, WarnStays DEF EntriesInv
  <1>13. CASE SelectionNotify
    BY <1>13, NotifyKeeps
  <1>14. CASE UNCHANGED entryVars
    <2>1. UNCHANGED textVars /\ UNCHANGED <<entryFocus, warningVars, imVars>> /\ UNCHANGED clipVars
      BY <1>14 DEF entryVars, textVars
    <2> QED BY <1>0, <2>1, TextStays, WarnStays, ClipStays DEF EntriesInv
  <1> QED BY <1>1, <1>2, <1>3, <1>4, <1>5, <1>6, <1>7, <1>8, <1>9, <1>10, <1>11, <1>12, <1>13, <1>14
          DEF EntriesNext

-----------------------------------------------------------------------------
\* All of the controls

ControlsInv == EntriesInv /\ ButtonInv /\ IconInv

\* The controls begin as they should be.
LEMMA ControlsBegin == ControlsInit => ControlsInv
  <1> SUFFICES ASSUME ControlsInit PROVE ControlsInv
    OBVIOUS
  <1>1. <<>> \in Seq(Pieces) /\ Len(<<>>) = 0 /\ MaxPieces \in Nat /\ MaxConversions \in Nat
    BY ControlsAssumption
  <1>2. TextInv
    <2>1. TextTypes
      BY <1>1 DEF ControlsInit, EntriesInit, Every, TextTypes
    <2>2. \A e \in Entries_ : Tells(e)
      BY DEF ControlsInit, EntriesInit, Every, Tells, GetText
    <2> QED BY <2>1, <2>2 DEF TextInv
  <1>3. WarnInv
    BY DEF ControlsInit, EntriesInit, Every, WarnInv, WarnTypes, Warns
  <1>4. ClipInv
    <2>1. <<>> \in Seq(Entries_) /\ <<>> \in Seq(Conversions) /\ <<>> \in Conversions
      BY DEF Conversions
    <2> QED BY <1>1, <2>1 DEF ControlsInit, EntriesInit, ClipInv
  <1>5. ButtonInv
    BY DEF ControlsInit, ButtonInit, ButtonInv, ButtonTypes, PressIsHeld
  <1>6. IconInv
    BY DEF ControlsInit, IconInit, IconInv, IconIsCurrent
  <1> QED BY <1>2, <1>3, <1>4, <1>5, <1>6 DEF ControlsInv, EntriesInv

\* A step of one of the controls leaves the others alone.
LEMMA ControlsStep == ControlsInv /\ [ControlsNext]_<<entryVars, buttonVars, iconVars>> => ControlsInv'
  <1> SUFFICES ASSUME ControlsInv, [ControlsNext]_<<entryVars, buttonVars, iconVars>> PROVE ControlsInv'
    OBVIOUS
  <1>1. [EntriesNext]_entryVars /\ [ButtonNext]_buttonVars /\ [IconNext]_iconVars
    BY DEF ControlsNext
  <1> QED BY <1>1, EntriesStep, ButtonStep, IconStep DEF ControlsInv

\* What the invariant says of entries, buttons and icons is what the property says.
LEMMA ControlsShow == ControlsInv => ControlsAreCurrent
  <1> SUFFICES ASSUME ControlsInv PROVE ControlsAreCurrent
    OBVIOUS
  <1>1. TextTypes /\ (\A e \in Entries_ : Tells(e)) /\ WarnTypes /\ (\A e \in Entries_ : Warns(e)) /\ ClipInv
    BY DEF ControlsInv, EntriesInv, TextInv, WarnInv
  <1>2. EntriesTypeOK
    BY <1>1 DEF TextTypes, WarnTypes, ClipInv, EntriesTypeOK
  <1>3. EntryTellsItsText
    <2>1. ASSUME NEW e \in Entries_, ~disturbed[e]
          PROVE  /\ GetText(e) = content[e]
                 /\ hintVisible[e] = (hint[e] # NoHint /\ content[e] = <<>> /\ entryFocus # e)
                 /\ indeterminate[e] = hintVisible[e]
      <3>1. hintVisible[e] \in BOOLEAN /\ indeterminate[e] \in BOOLEAN
        BY <1>1 DEF TextTypes
      <3> QED BY <1>1, <2>1, <3>1 DEF Tells
    <2> QED BY <2>1 DEF EntryTellsItsText
  <1>4. WarningIsTrue
    BY <1>1 DEF Warns, WarningIsTrue
  <1>5. ButtonTypes /\ PressIsHeld /\ IconInv
    BY DEF ControlsInv, ButtonInv
  <1>6. ControlsTypeOK
    BY <1>5 DEF ButtonTypes, PressIsHeld, IconInv, ControlsTypeOK
  <1>7. ButtonLetsGo
    BY <1>5 DEF ButtonTypes, PressIsHeld, ButtonLetsGo
  <1>8. IconIsCurrent
    BY <1>5 DEF IconInv
  <1> QED BY <1>2, <1>3, <1>4, <1>6, <1>7, <1>8 DEF ControlsAreCurrent

\* Entries, buttons and icons show what they were told last: an entry tells its text and
\* not its hint, a warning about caps lock is true, a button lets go of the pointer, and
\* an icon displays what was set last (St).
THEOREM ControlsShowWhatIsSet == ControlsSpec => []ControlsAreCurrent
  <1>1. ControlsInit => ControlsInv
    BY ControlsBegin
  <1>2. ControlsInv /\ [ControlsNext]_<<entryVars, buttonVars, iconVars>> => ControlsInv'
    BY ControlsStep
  <1>3. ControlsInv => ControlsAreCurrent
    BY ControlsShow
  <1> QED BY <1>1, <1>2, <1>3, PTL DEF ControlsSpec

-----------------------------------------------------------------------------
(***************************************************************************)
(* Scrolling                                                               *)
(***************************************************************************)

\* The greatest and the least of a set, for those that scrolling takes
LEMMA MaxOfTwo ==
  ASSUME NEW a \in Int, NEW b \in Int
  PROVE  /\ Max({a, b}) \in {a, b} /\ Max({a, b}) >= a /\ Max({a, b}) >= b
  <1>1. \E m \in {a, b} : \A y \in {a, b} : m >= y
    <2>1. CASE a >= b
      BY <2>1
    <2>2. CASE ~(a >= b)
      BY <2>2
    <2> QED BY <2>1, <2>2
  <1>2. Max({a, b}) \in {a, b} /\ \A y \in {a, b} : Max({a, b}) >= y
    BY <1>1 DEF Max
  <1> QED BY <1>2

LEMMA MinOfTwo ==
  ASSUME NEW a \in Int, NEW b \in Int
  PROVE  Min({a, b}) \in {a, b}
  <1>1. \E m \in {a, b} : \A y \in {a, b} : m <= y
    <2>1. CASE a <= b
      BY <2>1
    <2>2. CASE ~(a <= b)
      BY <2>2
    <2> QED BY <2>1, <2>2
  <1> QED BY <1>1 DEF Min

\* The quotient, and where it lies
LEMMA Quotient ==
  ASSUME NEW a \in Int, NEW b \in Nat, b > 0
  PROVE  /\ a \div b \in Int /\ b * (a \div b) <= a /\ a < b * (a \div b) + b
         /\ a >= 0 => a \div b \in Nat
  OBVIOUS

\* Content that flows needs no more height for being wider.
LEMMA HeightForShrinks ==
  ASSUME NEW c \in Contents, NEW w \in Nat, NEW x \in Nat, w >= 1, x >= w
  PROVE  /\ HeightFor(c, w) \in Nat /\ HeightFor(c, x) \in Nat
         /\ HeightFor(c, x) <= HeightFor(c, w)
  <1>1. c.area \in Nat
    BY ScrollAssumption
  <1>2. Max({w, 1}) = w /\ Max({x, 1}) = x
    <2>1. Max({w, 1}) \in {w, 1} /\ Max({w, 1}) >= w /\ Max({w, 1}) >= 1
      BY MaxOfTwo
    <2>2. Max({x, 1}) \in {x, 1} /\ Max({x, 1}) >= x /\ Max({x, 1}) >= 1
      BY MaxOfTwo
    <2> QED BY <2>1, <2>2
  <1> DEFINE area == c.area
             q == (area + w - 1) \div w
             r == (area + x - 1) \div x
  <1>3. /\ q \in Nat /\ r \in Nat
        /\ area + w - 1 < w * q + w /\ x * r <= area + x - 1
    BY <1>1, Quotient
  <1>4. HeightFor(c, w) = q /\ HeightFor(c, x) = r
    BY <1>2 DEF HeightFor
  <1> HIDE DEF area, q, r
  <1>5. r <= q
    <2> SUFFICES ASSUME r >= q + 1 PROVE FALSE
      BY <1>3
    <2>1. area <= w * q
      BY <1>1, <1>3 DEF area
    <2>2. w * q <= x * q
      BY <1>3
    <2>3. x * q + x <= x * r
      BY <1>3
    <2> QED BY <1>1, <1>3, <2>1, <2>2, <2>3 DEF area
  <1> QED BY <1>3, <1>4, <1>5

\* st_adjustment_set_value() keeps the page in the range, wherever it is told to go.
Adjusted(a) ==
  /\ a \in [upper : Nat, page : Nat, value : Nat]
  /\ a.value + a.page <= a.upper

LEMMA SetValueKeeps ==
  ASSUME NEW a, a \in [upper : Nat, page : Nat, value : Int], a.page <= a.upper, NEW x \in Int,
         NEW b, b = SetValue(a, x)
  PROVE  Adjusted(b) /\ b.upper = a.upper /\ b.page = a.page
  <1> DEFINE most == a.upper - a.page
  <1>1. most \in Nat
    OBVIOUS
  <1>2. Max({0, most}) = most
    <2>1. Max({0, most}) \in {0, most} /\ Max({0, most}) >= most /\ Max({0, most}) >= 0
      BY <1>1, MaxOfTwo
    <2> QED BY <1>1, <2>1
  <1>3. b = [a EXCEPT !.value = Clamp(x, 0, most)]
    BY <1>2 DEF SetValue
  <1>4. Clamp(x, 0, most) \in Nat /\ Clamp(x, 0, most) <= most
    BY <1>1 DEF Clamp
  <1> QED BY <1>3, <1>4 DEF Adjusted

\* The child tells the adjustment its range and its page, in this order.
LEMMA FitsGives ==
  ASSUME NEW a, Adjusted(a), NEW minimum \in Nat, NEW room \in Nat, NEW b, b = Fits(a, minimum, room)
  PROVE  Adjusted(b) /\ b.upper = Max({minimum, room}) /\ b.page = room
  <1> DEFINE most == Max({minimum, room})
             c == SetUpper(a, most)
             d == SetPage(c, room)
  <1>1. most \in Nat /\ most >= room
    BY MaxOfTwo
  <1> HIDE DEF most
  <1>2. a \in [upper : Nat, page : Nat, value : Int]
    BY DEF Adjusted
  <1>3. c \in [upper : Nat, page : Nat, value : Int] /\ c.upper = most
    <2>1. CASE most = a.upper
      BY <1>2, <2>1 DEF SetUpper
    <2>2. CASE most # a.upper
      <3> DEFINE w == [a EXCEPT !.upper = most]
      <3>1. w \in [upper : Nat, page : Nat, value : Int] /\ w.upper = most /\ c = ClampPage(w)
        BY <1>1, <1>2, <2>2 DEF SetUpper
      <3> HIDE DEF w, c
      <3> QED BY <3>1 DEF ClampPage, Clamp
    <2> QED BY <2>1, <2>2
  <1> HIDE DEF c
  <1>4. d \in [upper : Nat, page : Nat, value : Int] /\ d.upper = most /\ d.page = room
    <2>1. CASE room = c.page
      BY <1>3, <2>1 DEF SetPage
    <2>2. CASE room # c.page
      <3> DEFINE w == [c EXCEPT !.page = room]
      <3>1. /\ w \in [upper : Nat, page : Nat, value : Int] /\ w.upper = most /\ w.page = room
            /\ d = ClampPage(w)
        BY <1>3, <2>2 DEF SetPage
      <3> HIDE DEF w, d
      <3> QED BY <3>1 DEF ClampPage, Clamp
    <2> QED BY <2>1, <2>2
  <1> HIDE DEF d
  <1>5. b = SetValue(d, d.value)
    BY DEF Fits, c, d, most
  <1>6. Adjusted(b) /\ b.upper = d.upper /\ b.page = d.page
    BY <1>1, <1>4, <1>5, SetValueKeeps
  <1> QED BY <1>4, <1>6 DEF most

\* What a policy shows of what overflows, or not
LEMMA VisibleTypes ==
  ASSUME NEW policy, NEW overflows \in BOOLEAN
  PROVE  /\ Visible(policy, overflows) \in BOOLEAN
         /\ policy = "automatic" => (Visible(policy, overflows) <=> overflows)
  BY DEF Visible

\* Which scrollbars a layout shows: those of what overflows with an automatic policy.
LEMMA BarsShow ==
  ASSUME NEW s \in ViewSizes, NEW c \in Contents, NEW p \in Policies, NEW b, b = Bars(s, c, p),
         NEW room, room = [w |-> Beside(s.w, b.v), h |-> Beside(s.h, b.h)]
  PROVE  /\ b \in [h : BOOLEAN, v : BOOLEAN] /\ room.w \in Nat /\ room.h \in Nat
         /\ HeightFor(c, Max({room.w, c.min})) \in Nat
         /\ p.v = "automatic" =>
              /\ HeightFor(c, Max({room.w, c.min})) > room.h => b.v
              /\ p.h = "automatic" /\ c.min > room.w => b.h
  <1> DEFINE tall(w, h) == HeightFor(c, w) > Beside(s.h, h)
             wide(v) == c.min > Beside(s.w, v)
             first == Visible(p.h, wide(tall(s.w, FALSE)))
             vertical == Visible(p.v, tall(s.w, first))
  <1>1. /\ s.w \in Nat /\ s.h \in Nat /\ s.w > Bar /\ s.h > Bar /\ c.min \in Nat /\ Bar \in Nat \ {0}
        /\ s.w >= 1
    BY ScrollAssumption
  <1>2. PICK flat \in Nat, least \in Nat : flat = s.w /\ least = c.min /\ flat >= 1
    BY <1>1
  <1>3. HeightFor(c, flat) \in Nat
    BY <1>2, HeightForShrinks
  <1>4. \A x \in BOOLEAN : /\ Beside(s.h, x) \in Nat /\ Beside(s.w, x) \in Nat
                           /\ Beside(s.w, x) >= 1 /\ Beside(s.w, x) <= s.w
    BY <1>1 DEF Beside
  <1>5. PICK t0 \in BOOLEAN : t0 = (tall(s.w, FALSE)) /\ (t0 <=> tall(s.w, FALSE))
    <2>1. (tall(s.w, FALSE)) \in BOOLEAN
      BY <1>2, <1>3, <1>4
    <2> QED BY <2>1, Zenon
  <1>6. PICK w0 \in BOOLEAN : w0 = (wide(t0)) /\ (w0 <=> wide(t0))
    <2>1. (wide(t0)) \in BOOLEAN
      BY <1>1, <1>4
    <2> QED BY <2>1, Zenon
  <1>7. PICK h1 \in BOOLEAN : h1 = Visible(p.h, w0) /\ (p.h = "automatic" => (h1 <=> w0))
    BY VisibleTypes
  <1>8. PICK t1 \in BOOLEAN : t1 = (tall(s.w, h1)) /\ (t1 <=> tall(s.w, h1))
    <2>1. (tall(s.w, h1)) \in BOOLEAN
      BY <1>2, <1>3, <1>4
    <2> QED BY <2>1, Zenon
  <1>9. PICK v \in BOOLEAN : v = Visible(p.v, t1) /\ (p.v = "automatic" => (v <=> t1))
    BY VisibleTypes
  <1>10. PICK w1 \in BOOLEAN : w1 = (wide(TRUE)) /\ (w1 <=> wide(TRUE))
    <2>1. (wide(TRUE)) \in BOOLEAN
      BY <1>1, <1>4
    <2> QED BY <2>1, Zenon
  <1>11. PICK w2 \in BOOLEAN : w2 = (c.min > s.h - (IF v THEN 0 ELSE Bar)) /\ (w2 <=> c.min > s.h - (IF v THEN 0 ELSE Bar))
    <2>1. (c.min > s.h - (IF v THEN 0 ELSE Bar)) \in BOOLEAN
      BY <1>1
    <2> QED BY <2>1, Zenon
  <1>12. PICK h3 \in BOOLEAN : h3 = Visible(p.h, w2)
    BY VisibleTypes
  <1>13. first = h1
    BY <1>5, <1>6, <1>7, Zenon
  <1>14. vertical = v
    BY <1>8, <1>9, <1>13, Zenon
  <1>15. Bars(s, c, p) = IF p.v = "automatic"
                         THEN [v |-> vertical, h |-> IF vertical /\ p.h = "automatic" THEN wide(TRUE) ELSE first]
                         ELSE [v |-> vertical, h |-> Visible(p.h, c.min > s.h - (IF vertical THEN 0 ELSE Bar))]
    BY Zenon DEF Bars
  <1> HIDE DEF first, vertical
  <1>16. b = IF p.v = "automatic" THEN [v |-> v, h |-> IF v /\ p.h = "automatic" THEN w1 ELSE h1]
             ELSE [v |-> v, h |-> h3]
    BY <1>10, <1>11, <1>12, <1>13, <1>14, <1>15, Zenon
  <1>17. b \in [h : BOOLEAN, v : BOOLEAN] /\ (b.v <=> v)
    BY <1>16
  <1>18. p.v = "automatic" => (b.h <=> IF v /\ p.h = "automatic" THEN w1 ELSE h1)
    BY <1>16
  <1>19. /\ room.w \in Nat /\ room.h \in Nat /\ room.w >= 1
         /\ room.w = Beside(s.w, b.v) /\ room.h = Beside(s.h, b.h)
    BY <1>4, <1>17
  <1>20. PICK wr \in Nat, hr \in Nat : wr = room.w /\ hr = room.h /\ wr >= 1
    BY <1>19
  <1> DEFINE x == Max({wr, least})
  <1>21. x \in Nat /\ x >= wr /\ x >= 1
    <2>1. x \in {wr, least} /\ x >= wr
      BY MaxOfTwo
    <2> QED BY <1>20, <2>1
  <1>22. HeightFor(c, x) \in Nat
    <2> HIDE DEF x
    <2> QED BY <1>21, HeightForShrinks
  <1>23. HeightFor(c, Max({room.w, c.min})) = HeightFor(c, x)
    BY <1>2, <1>20
  <1> HIDE DEF x
  <1>24. ASSUME p.v = "automatic" PROVE (HeightFor(c, x) > hr => v) /\ (p.h = "automatic" /\ c.min > wr => b.h)
    <2>1. CASE v
      <3>1. p.h = "automatic" => (b.h <=> c.min > Beside(s.w, TRUE))
        BY <1>10, <1>18, <1>24, <2>1
      <3>2. wr = Beside(s.w, TRUE)
        BY <1>17, <1>19, <1>20, <2>1 DEF Beside
      <3> QED BY <2>1, <3>1, <3>2
    <2>2. CASE ~v
      <3>1. (b.h <=> h1) /\ ~t1
        BY <1>9, <1>18, <1>24, <2>2
      <3>2. wr = flat /\ hr = Beside(s.h, h1)
        BY <1>1, <1>2, <1>17, <1>19, <1>20, <2>2, <3>1 DEF Beside
      <3>3. HeightFor(c, x) <= HeightFor(c, flat)
        BY <1>2, <1>21, <3>2, HeightForShrinks
      <3>4. HeightFor(c, flat) <= hr
        BY <1>2, <1>3, <1>4, <1>8, <1>20, <3>1, <3>2
      <3>5. p.h = "automatic" /\ c.min > wr => h1
        BY <1>1, <1>2, <1>4, <1>6, <1>7, <3>2
      <3> QED BY <1>3, <1>20, <1>22, <3>1, <3>3, <3>4, <3>5
    <2> QED BY <2>1, <2>2
  <1> QED BY <1>17, <1>19, <1>20, <1>22, <1>23, <1>24

\* The layout: what it is of, and what it gives
LayoutInv ==
  /\ layout \in [size : ViewSizes, content : Contents, policy : Policies, fresh : BOOLEAN]
  /\ bars \in [h : BOOLEAN, v : BOOLEAN] /\ Adjusted(adj)
  /\ OverflowHasBar

\* The input: whatever timers the paging went through, at most one of them runs, and it is
\* the one that the release removes.  A bar that was unmapped under the button has lost that.
InputInv ==
  /\ paging \in PagingType
  /\ capture \in BOOLEAN /\ scrollMapped \in BOOLEAN /\ held \in BOOLEAN /\ untold \in BOOLEAN
  /\ capture => scrollMapped
  /\ ~untold => paging.running \subseteq {paging.id}
  /\ ~untold /\ ~held => paging.running = {}
  /\ \E t \in Timers : t \notin paging.running /\ t # paging.id

ScrollInv == LayoutInv /\ InputInv

\* st_scroll_view_allocate()
LEMMA AllocateKeeps == LayoutInv /\ ViewAllocated => LayoutInv'
  <1> SUFFICES ASSUME LayoutInv, ViewAllocated PROVE LayoutInv'
    OBVIOUS
  <1>1. PICK s \in ViewSizes, c \in Contents, p \in Policies : s = layout.size /\ c = layout.content /\ p = layout.policy
    BY DEF LayoutInv
  <1>2. /\ layout' = [layout EXCEPT !.fresh = TRUE] /\ bars' = Bars(s, c, p)
        /\ adj' = Fits(adj, Needed', Room'.h)
    BY <1>1 DEF ViewAllocated
  <1>3. /\ layout' \in [size : ViewSizes, content : Contents, policy : Policies, fresh : BOOLEAN]
        /\ layout'.size = s /\ layout'.content = c /\ layout'.policy = p
    BY <1>1, <1>2 DEF LayoutInv
  <1>4. PICK b : b = Bars(s, c, p)
    OBVIOUS
  <1>5. PICK room : room = [w |-> Beside(s.w, b.v), h |-> Beside(s.h, b.h)]
    OBVIOUS
  <1>6. /\ b \in [h : BOOLEAN, v : BOOLEAN] /\ room.w \in Nat /\ room.h \in Nat
        /\ HeightFor(c, Max({room.w, c.min})) \in Nat
        /\ p.v = "automatic" =>
             /\ HeightFor(c, Max({room.w, c.min})) > room.h => b.v
             /\ p.h = "automatic" /\ c.min > room.w => b.h
    BY <1>4, <1>5, BarsShow
  <1>7. bars' = b /\ Room' = room
    BY <1>2, <1>3, <1>4, <1>5 DEF Room
  <1>8. PICK needed \in Nat : needed = HeightFor(c, Max({room.w, c.min}))
    BY <1>6
  <1>9. Needed' = needed
    BY <1>3, <1>7, <1>8 DEF Needed
  <1>10. PICK a : a = adj
    OBVIOUS
  <1>17. PICK h \in Nat : h = room.h
    BY <1>6
  <1>11. adj' = Fits(a, needed, h) /\ Adjusted(a)
    BY <1>2, <1>7, <1>9, <1>10, <1>17 DEF LayoutInv
  <1>12. PICK d : d = Fits(a, needed, h)
    OBVIOUS
  <1>13. Adjusted(d) /\ d.upper = Max({needed, h}) /\ d.page = h
    BY <1>11, <1>12, FitsGives
  <1>14. Adjusted(adj')
    BY <1>11, <1>12, <1>13
  <1>15. OverflowHasBar'
    <2>1. adj'.upper = Max({Needed', Room'.h}) /\ adj'.page = Room'.h
      BY <1>7, <1>9, <1>11, <1>12, <1>13, <1>17
    <2>2. adj'.value + adj'.page <= adj'.upper
      BY <1>14 DEF Adjusted
    <2>3. layout'.policy.v = "automatic" =>
            /\ Needed' > Room'.h => bars'.v
            /\ layout'.policy.h = "automatic" /\ layout'.content.min > Room'.w => bars'.h
      BY <1>3, <1>6, <1>7, <1>8, <1>9
    <2> QED BY <2>1, <2>2, <2>3 DEF OverflowHasBar
  <1>16. Adjusted(adj)'
    BY <1>14 DEF Adjusted
  <1> QED BY <1>3, <1>6, <1>7, <1>15, <1>16 DEF LayoutInv

\* Whoever moves in the range leaves the range as it is.
LEMMA MoveKeeps ==
  ASSUME LayoutInv, NEW x \in Int, adj' = SetValue(adj, x), UNCHANGED <<layout, bars>>
  PROVE  LayoutInv'
  <1>1. PICK a : a = adj
    OBVIOUS
  <1>2. PICK b : b = SetValue(a, x)
    OBVIOUS
  <1>3. a \in [upper : Nat, page : Nat, value : Int] /\ a.page <= a.upper
    BY <1>1 DEF LayoutInv, Adjusted
  <1>4. Adjusted(b) /\ b.upper = a.upper /\ b.page = a.page
    BY <1>2, <1>3, SetValueKeeps
  <1>5. adj' = b
    BY <1>1, <1>2
  <1>6. Adjusted(adj)'
    BY <1>4, <1>5 DEF Adjusted
  <1>7. Room' = Room /\ Needed' = Needed
    BY DEF Room, Needed
  <1>8. OverflowHasBar'
    BY <1>1, <1>4, <1>5, <1>6, <1>7 DEF LayoutInv, OverflowHasBar, Adjusted
  <1> QED BY <1>6, <1>8 DEF LayoutInv

\* The handle leaves some of the bar unless everything fits.
LEMMA HandleTypes == Adjusted(adj) => HandleSize \in Nat
  <1> SUFFICES ASSUME Adjusted(adj) PROVE HandleSize \in Nat
    OBVIOUS
  <1>1. PICK page \in Nat, upper \in Nat : page = adj.page /\ upper = adj.upper
    BY DEF Adjusted
  <1> DEFINE size == IF page >= upper THEN page ELSE (page * page) \div upper
  <1>2. size \in Nat
    <2>1. CASE page >= upper
      BY <2>1
    <2>2. CASE ~(page >= upper)
      <3>1. page * page \in Nat /\ upper > 0
        BY <2>2
      <3>2. (page * page) \div upper \in Nat
        BY <3>1, Quotient
      <3> QED BY <2>2, <3>2
    <2> QED BY <2>1, <2>2
  <1>3. HandleSize = Max({1, size})
    BY <1>1 DEF HandleSize
  <1> HIDE DEF size
  <1>4. Max({1, size}) \in {1, size}
    BY <1>2, MaxOfTwo
  <1> QED BY <1>2, <1>3, <1>4

\* move_slider()
LEMMA HandleKeeps == LayoutInv /\ HandleMoved => LayoutInv'
  <1> SUFFICES ASSUME LayoutInv, HandleMoved PROVE LayoutInv'
    OBVIOUS
  <1>1. PICK pos \in 0 .. adj.page - HandleSize :
          adj' = SetValue(adj, (pos * (adj.upper - adj.page)) \div (adj.page - HandleSize))
    BY DEF HandleMoved
  <1>2. HandleSize \in Nat /\ adj.page > HandleSize /\ adj.page \in Nat /\ adj.upper \in Nat
    BY HandleTypes DEF HandleMoved, LayoutInv, Adjusted
  <1>3. PICK a \in Int, b \in Nat : a = pos * (adj.upper - adj.page) /\ b = adj.page - HandleSize /\ b > 0
    BY <1>2
  <1>4. PICK x \in Int : x = a \div b
    BY <1>3, Quotient
  <1>5. adj' = SetValue(adj, x)
    BY <1>1, <1>3, <1>4
  <1> QED BY <1>5, MoveKeeps DEF HandleMoved

\* A frame of the animation goes from the value toward the goal.
LEMMA AnimateKeeps == ScrollInv /\ Animated => ScrollInv'
  <1> SUFFICES ASSUME ScrollInv, Animated PROVE ScrollInv'
    OBVIOUS
  <1>0. PICK goal \in paging.goal : \E v \in Min({adj.value, goal}) .. Max({adj.value, goal}) :
          adj' = SetValue(adj, v) /\ paging' = [paging EXCEPT !.goal = @ \ {v}]
    BY DEF Animated
  <1>1. PICK v \in Min({adj.value, goal}) .. Max({adj.value, goal}) :
          adj' = SetValue(adj, v) /\ paging' = [paging EXCEPT !.goal = @ \ {v}]
    BY <1>0
  <1>2. paging \in PagingType /\ adj.value \in Int
    BY DEF ScrollInv, InputInv, LayoutInv, Adjusted
  <1>3. PICK value \in Int, to \in Int : value = adj.value /\ to = goal
    BY <1>2 DEF PagingType
  <1>4. Min({value, to}) \in Int /\ Max({value, to}) \in Int
    BY MinOfTwo, MaxOfTwo
  <1>5. v \in Int
    BY <1>3, <1>4
  <1>6. LayoutInv'
    BY <1>1, <1>5, MoveKeeps DEF ScrollInv, Animated
  <1>7. /\ paging' \in PagingType
        /\ paging'.running = paging.running /\ paging'.id = paging.id
    BY <1>1, <1>2 DEF PagingType
  <1>8. InputInv'
    BY <1>7 DEF ScrollInv, InputInv, Animated
  <1> QED BY <1>6, <1>8 DEF ScrollInv

-----------------------------------------------------------------------------
\* The timers of the trough

\* There is a timer to take when one of them is free.
LEMMA FreeTimer ==
  ASSUME NEW p, \E t \in Timers : t \notin p.running /\ t # p.id
  PROVE  NewTimer(p) \in Timers /\ NewTimer(p) \notin p.running /\ NewTimer(p) # p.id
  <1> DEFINE S == Timers \ (p.running \cup {p.id})
  <1>1. S \subseteq 1 .. 3 /\ S # {}
    BY DEF Timers
  <1>2. NewTimer(p) = Min(S)
    BY DEF NewTimer
  <1>3. S \subseteq Timers /\ \A t \in S : t \notin p.running /\ t # p.id
    OBVIOUS
  <1> HIDE DEF S
  <1>4. \E x \in S : \A y \in S : x <= y
    <2>1. CASE 1 \in S
      BY <1>1, <2>1
    <2>2. CASE 1 \notin S /\ 2 \in S
      BY <1>1, <2>2
    <2>3. CASE 1 \notin S /\ 2 \notin S
      <3>1. \A y \in S : y = 3
        BY <1>1, <2>3
      <3>2. PICK x \in S : TRUE
        BY <1>1
      <3> QED BY <3>1, <3>2
    <2> QED BY <2>1, <2>2, <2>3
  <1>5. Min(S) \in S
    BY <1>4 DEF Min
  <1> QED BY <1>2, <1>3, <1>5

\* trough_paging_cb(): what runs afterwards is the new timer, or what ran before without
\* the one that fired, and that one is free unless it runs on.
LEMMA PagedGives ==
  ASSUME Adjusted(adj), NEW p \in PagingType, \E t \in Timers : t \notin p.running /\ t # p.id,
         NEW s \in {0} \cup Timers, NEW q, q = Paged(p, s)
  PROVE  /\ q \in PagingType
         /\ \/ q.id = p.id /\ p.no >= 2 /\ q.running \subseteq p.running
            \/ /\ p.no < 2 /\ q.id \in Timers \ (p.running \cup {p.id})
               /\ q.running = (p.running \cup {q.id}) \ {s}
  <1> DEFINE new == NewTimer(p)
             later == IF p.no < 2 THEN [p EXCEPT !.no = @ + 1, !.running = (@ \cup {new}) \ {s}, !.id = new] ELSE p
             far == p.direction \notin {"none", Heads(p)}
             goal == {adj.value + (IF Heads(p) = "down" THEN adj.page - 1 ELSE 1 - adj.page)}
  <1>1. new \in Timers /\ new \notin p.running /\ new # p.id
    BY FreeTimer
  <1>2. goal \subseteq Int
    BY DEF Adjusted
  <1>3. Heads(p) \in {"up", "down"}
    BY DEF Heads
  <1>4. q = IF far THEN [later EXCEPT !.running = @ \ {s}] ELSE [later EXCEPT !.direction = Heads(p), !.goal = goal]
    BY DEF Paged
  <1> HIDE DEF new, goal, far
  <1>5. /\ later \in PagingType
        /\ p.no < 2 => later.id = new /\ later.running = (p.running \cup {new}) \ {s}
        /\ ~(p.no < 2) => later = p
    <2>1. CASE p.no < 2
      <3>1. p.no + 1 \in 0 .. 2 /\ (p.running \cup {new}) \ {s} \in SUBSET Timers
        BY <1>1, <2>1 DEF PagingType
      <3> QED BY <1>1, <2>1, <3>1 DEF PagingType
    <2>2. CASE ~(p.no < 2)
      BY <2>2
    <2> QED BY <2>1, <2>2
  <1> HIDE DEF later
  <1>6. /\ q \in PagingType /\ q.id = later.id
        /\ q.running = later.running \/ q.running = later.running \ {s}
    <2>1. CASE far
      <3>1. q = [later EXCEPT !.running = @ \ {s}]
        BY <1>4, <2>1
      <3> QED BY <1>5, <3>1 DEF PagingType
    <2>2. CASE ~far
      <3>1. q = [later EXCEPT !.direction = Heads(p), !.goal = goal]
        BY <1>4, <2>2
      <3> QED BY <1>2, <1>3, <1>5, <3>1 DEF PagingType
    <2> QED BY <2>1, <2>2
  <1>7. CASE p.no < 2
    BY <1>1, <1>5, <1>6, <1>7
  <1>8. CASE ~(p.no < 2)
    <2>1. p.no >= 2
      BY <1>8 DEF PagingType
    <2> QED BY <1>5, <1>6, <1>8, <2>1
  <1> QED BY <1>7, <1>8

\* Of three timers, two are free when fewer than two run.
LEMMA TimersLeft ==
  ASSUME NEW S \in SUBSET Timers, Cardinality(S) < 2, NEW id
  PROVE  \E t \in Timers : t \notin S /\ t # id
  <1> SUFFICES ASSUME \A t \in Timers : t \in S \/ t = id PROVE FALSE
    OBVIOUS
  <1>1. \E a, b \in S : a # b
    BY DEF Timers
  <1>2. PICK a \in S, b \in S : a # b
    BY <1>1
  <1>3. IsFiniteSet(S)
    <2>1. S \in SUBSET Nat /\ \A t \in S : t <= 3
      BY DEF Timers
    <2> QED BY <2>1, FS_BoundedSetOfNaturals
  <1>4. Cardinality({a, b}) = 2
    <2>1. IsFiniteSet({}) /\ Cardinality({}) = 0
      BY FS_EmptySet
    <2>2. IsFiniteSet({a}) /\ Cardinality({a}) = 1
      BY FS_Singleton
    <2>3. Cardinality({a} \cup {b}) = Cardinality({a}) + 1
      BY <1>2, <2>2, FS_AddElement
    <2>4. {a} \cup {b} = {a, b}
      OBVIOUS
    <2> QED BY <2>2, <2>3, <2>4
  <1>5. Cardinality({a, b}) <= Cardinality(S)
    <2>1. {a, b} \subseteq S
      BY <1>2
    <2> QED BY <1>3, <2>1, FS_Subset
  <1>6. Cardinality(S) \in Nat
    BY <1>3, FS_CardinalityType
  <1> QED BY <1>4, <1>5, <1>6

\* A press in the trough begins with the next timer.
LEMMA PressTroughKeeps == ScrollInv /\ TroughPressed => InputInv'
  <1> SUFFICES ASSUME ScrollInv, TroughPressed PROVE InputInv'
    OBVIOUS
  <1>1. InputInv /\ Adjusted(adj)
    BY DEF ScrollInv, LayoutInv
  <1>2. PICK at \in 0 .. adj.page : paging' = Paged([paging EXCEPT !.at = at, !.direction = "none", !.no = 0], 0)
    BY DEF TroughPressed
  <1>3. PICK p : p = [paging EXCEPT !.at = at, !.direction = "none", !.no = 0]
    OBVIOUS
  <1>4. /\ p \in PagingType /\ p.running = paging.running /\ p.id = paging.id /\ p.no = 0
        /\ p.running \in SUBSET Timers
    <2>1. at \in Nat
      BY <1>1 DEF Adjusted
    <2>2. paging \in PagingType
      BY <1>1 DEF InputInv
    <2>3. p = [no |-> 0, direction |-> "none", id |-> paging.id, running |-> paging.running, at |-> at,
               goal |-> paging.goal]
      BY <1>3, <2>2 DEF PagingType
    <2>4. /\ paging.id \in {0} \cup Timers /\ paging.running \in SUBSET Timers /\ paging.goal \in SUBSET Int
          /\ 0 \in 0 .. 2
      BY <2>2 DEF PagingType
    <2> QED BY <2>1, <2>3, <2>4 DEF PagingType
  <1>5. Cardinality(p.running) < 2 /\ ~held
    BY <1>4 DEF TroughPressed
  <1>6. \E t \in Timers : t \notin p.running /\ t # p.id
    BY <1>1, <1>4 DEF InputInv
  <1>7. PICK q : q = Paged(p, 0)
    OBVIOUS
  <1>8. /\ q \in PagingType /\ q.id \in Timers \ (p.running \cup {p.id})
        /\ q.running = (p.running \cup {q.id}) \ {0}
    <2>1. /\ q \in PagingType
          /\ \/ q.id = p.id /\ p.no >= 2 /\ q.running \subseteq p.running
             \/ /\ p.no < 2 /\ q.id \in Timers \ (p.running \cup {p.id})
                /\ q.running = (p.running \cup {q.id}) \ {0}
      BY <1>1, <1>4, <1>6, <1>7, PagedGives
    <2> QED BY <1>4, <2>1
  <1>9. PICK t \in Timers : t \notin p.running /\ t # q.id
    BY <1>4, <1>5, TimersLeft
  <1>10. paging' = q
    BY <1>2, <1>3, <1>7
  <1>11. ~untold => p.running = {}
    BY <1>1, <1>4, <1>5 DEF InputInv
  <1>12. held' = TRUE /\ UNCHANGED <<capture, scrollMapped, untold>>
    BY DEF TroughPressed
  <1>13. t \notin q.running
    BY <1>8, <1>9
  <1>14. ~untold => q.running \subseteq {q.id}
    BY <1>8, <1>11
  <1> QED BY <1>1, <1>8, <1>9, <1>10, <1>12, <1>13, <1>14 DEF InputInv

\* A timer that fires starts the next one, runs on, or ends.
LEMMA FireKeeps == ScrollInv /\ TimerFires => InputInv'
  <1> SUFFICES ASSUME ScrollInv, TimerFires PROVE InputInv'
    OBVIOUS
  <1>1. InputInv /\ Adjusted(adj)
    BY DEF ScrollInv, LayoutInv
  <1>2. PICK s \in paging.running : paging' = Paged(paging, s)
    BY DEF TimerFires
  <1>3. PICK p \in PagingType : p = paging
    BY <1>1 DEF InputInv
  <1>4. s \in Timers /\ p.running \in SUBSET Timers
    BY <1>2, <1>3 DEF PagingType
  <1>5. PICK t \in Timers : t \notin p.running /\ t # p.id
    BY <1>1, <1>3 DEF InputInv
  <1>6. PICK q : q = Paged(p, s)
    OBVIOUS
  <1>7. /\ q \in PagingType
        /\ \/ q.id = p.id /\ p.no >= 2 /\ q.running \subseteq p.running
           \/ /\ p.no < 2 /\ q.id \in Timers \ (p.running \cup {p.id})
              /\ q.running = (p.running \cup {q.id}) \ {s}
    BY <1>1, <1>4, <1>5, <1>6, PagedGives
  <1>8. paging' = q /\ s \in p.running
    BY <1>2, <1>3, <1>6
  <1>9. UNCHANGED <<capture, scrollMapped, held, untold>>
    BY DEF TimerFires
  <1>10. /\ ~untold => p.running \subseteq {p.id}
         /\ ~untold /\ ~held => p.running = {}
    BY <1>1, <1>3 DEF InputInv
  <1>11. ~untold => q.running \subseteq {q.id} /\ held
    BY <1>7, <1>8, <1>10
  <1>12. \E u \in Timers : u \notin q.running /\ u # q.id
    <2>1. CASE q.id = p.id /\ q.running \subseteq p.running
      BY <1>5, <2>1
    <2>2. CASE q.id \in Timers \ (p.running \cup {p.id}) /\ q.running = (p.running \cup {q.id}) \ {s}
      <3>1. s \notin q.running /\ s # q.id
        BY <1>8, <2>2
      <3> QED BY <1>4, <3>1
    <2> QED BY <1>7, <2>1, <2>2
  <1> QED BY <1>1, <1>7, <1>8, <1>9, <1>11, <1>12 DEF InputInv

\* The release, or the pointer that leaves, removes the timer that runs.
LEMMA LeaveKeeps == InputInv /\ TroughLeft => InputInv'
  <1> SUFFICES ASSUME InputInv, TroughLeft PROVE InputInv'
    OBVIOUS
  <1>1. /\ held' = FALSE
        /\ paging' = IF paging.id = 0 THEN paging ELSE [paging EXCEPT !.running = @ \ {paging.id}, !.id = 0]
        /\ untold' = (untold /\ paging'.running # {})
        /\ UNCHANGED <<capture, scrollMapped>>
    BY DEF TroughLeft
  <1>2. paging \in PagingType /\ paging.running \subseteq Timers /\ paging.id \in {0} \cup Timers
    BY DEF InputInv, PagingType
  <1>3. /\ paging' \in PagingType /\ paging'.id = 0
        /\ paging'.running = paging.running \ {paging.id}
    <2>1. CASE paging.id = 0
      <3>1. 0 \notin paging.running
        BY <1>2 DEF Timers
      <3> QED BY <1>1, <1>2, <2>1, <3>1
    <2>2. CASE paging.id # 0
      BY <1>1, <1>2, <2>2 DEF PagingType
    <2> QED BY <2>1, <2>2
  <1>4. ~untold => paging'.running = {}
    BY <1>3 DEF InputInv
  <1>5. untold' \in BOOLEAN /\ (~untold' => paging'.running = {})
    BY <1>1, <1>4 DEF InputInv
  <1>6. \E t \in Timers : t \notin paging'.running /\ t # paging'.id
    BY <1>3 DEF InputInv, Timers
  <1> QED BY <1>1, <1>3, <1>5, <1>6 DEF InputInv

\* Every step of the view keeps the invariant.
LEMMA ScrollStep == ScrollInv /\ [ScrollNext]_scrollVars => ScrollInv'
  <1> SUFFICES ASSUME ScrollInv, [ScrollNext]_scrollVars PROVE ScrollInv'
    OBVIOUS
  <1>0. LayoutInv /\ InputInv
    BY DEF ScrollInv
  <1>a. ASSUME UNCHANGED <<layout, bars, adj>> PROVE LayoutInv'
    BY <1>0, <1>a DEF LayoutInv, OverflowHasBar, Adjusted, Room, Needed
  <1>b. ASSUME ScrollFrame PROVE InputInv'
    BY <1>0, <1>b DEF InputInv, ScrollFrame
  <1>1. CASE Relayout
    <2>1. PICK s \in ViewSizes, c \in Contents, p \in Policies :
            /\ layout' = [size |-> s, content |-> c, policy |-> p, fresh |-> FALSE]
            /\ UNCHANGED <<bars, adj>> /\ ScrollFrame
      BY <1>1 DEF Relayout
    <2>2. /\ layout' \in [size : ViewSizes, content : Contents, policy : Policies, fresh : BOOLEAN]
          /\ ~layout'.fresh
      BY <2>1
    <2>3. LayoutInv'
      BY <1>0, <2>1, <2>2 DEF LayoutInv, OverflowHasBar, Adjusted
    <2> QED BY <1>b, <2>1, <2>3 DEF ScrollInv
  <1>2. CASE ViewAllocated
    BY <1>0, <1>2, <1>b, AllocateKeeps DEF ScrollInv, ViewAllocated
  <1>3. CASE Scrolled
    <2>1. PICK d \in {-1, 1} : adj' = SetValue(adj, adj.value + d)
      BY <1>3 DEF Scrolled
    <2>2. PICK x \in Int : x = adj.value + d
      BY <1>0 DEF LayoutInv, Adjusted
    <2>3. adj' = SetValue(adj, x) /\ UNCHANGED <<layout, bars>> /\ ScrollFrame
      BY <1>3, <2>1, <2>2 DEF Scrolled
    <2>4. LayoutInv'
      BY <1>0, <2>3, MoveKeeps
    <2> QED BY <1>b, <2>3, <2>4 DEF ScrollInv
  <1>4. CASE HandlePressed
    BY <1>0, <1>4, <1>a DEF HandlePressed, ScrollInv, InputInv
  <1>5. CASE HandleMoved
    BY <1>0, <1>5, <1>b, HandleKeeps DEF HandleMoved, ScrollInv
  <1>6. CASE HandleReleased
    BY <1>0, <1>6, <1>a DEF HandleReleased, ScrollInv, InputInv
  <1>7. CASE TroughPressed
    BY <1>7, <1>a, PressTroughKeeps DEF TroughPressed, ScrollInv
  <1>8. CASE TimerFires
    BY <1>8, <1>a, FireKeeps DEF TimerFires, ScrollInv
  <1>9. CASE Animated
    BY <1>9, AnimateKeeps
  <1>10. CASE TroughLeft
    BY <1>0, <1>10, <1>a, LeaveKeeps DEF TroughLeft, ScrollInv
  <1>11. CASE BarUnmapped
    BY <1>0, <1>11, <1>a DEF BarUnmapped, ScrollInv, InputInv
  <1>12. CASE BarMapped
    <2>1. LayoutInv'
      BY <1>12, <1>a DEF BarMapped
    <2>2. scrollMapped' = TRUE /\ UNCHANGED <<paging, capture, held, untold>>
      BY <1>12 DEF BarMapped
    <2>3. InputInv'
      BY <1>0, <2>2 DEF InputInv
    <2> QED BY <2>1, <2>3 DEF ScrollInv
  <1>13. CASE UNCHANGED scrollVars
    BY <1>0, <1>13, <1>a, <1>b DEF scrollVars, ScrollInv, ScrollFrame
  <1> QED BY <1>1, <1>2, <1>3, <1>4, <1>5, <1>6, <1>7, <1>8, <1>9, <1>10, <1>11, <1>12, <1>13 DEF ScrollNext

\* A view begins without a layout, and with nothing that runs.
LEMMA ScrollBegins == ScrollInit => ScrollInv
  <1> SUFFICES ASSUME ScrollInit PROVE ScrollInv
    OBVIOUS
  <1>1. PICK s \in ViewSizes, c \in Contents, p \in Policies :
          /\ layout = [size |-> s, content |-> c, policy |-> p, fresh |-> FALSE]
          /\ bars = [h |-> FALSE, v |-> FALSE]
          /\ adj = [upper |-> 0, page |-> 0, value |-> 0]
          /\ paging = [no |-> 0, direction |-> "none", id |-> 0, running |-> {}, at |-> 0, goal |-> {}]
          /\ capture = FALSE /\ scrollMapped = TRUE /\ held = FALSE /\ untold = FALSE
    BY DEF ScrollInit
  <1>2. LayoutInv
    BY <1>1 DEF LayoutInv, OverflowHasBar, Adjusted
  <1>3. paging \in PagingType /\ paging.running = {} /\ paging.id = 0
    BY <1>1 DEF PagingType
  <1>4. InputInv
    <2>1. 1 \in Timers /\ 1 \notin paging.running /\ 1 # paging.id
      BY <1>3 DEF Timers
    <2> QED BY <1>1, <1>3, <2>1 DEF InputInv
  <1> QED BY <1>2, <1>4 DEF ScrollInv

\* A view that scrolls shows all of its content, and gives the input back (StScrollView,
\* StScrollBar), for all sizes, contents, policies and widths of the bar.
THEOREM ViewsShowTheirContent == ScrollSpec => []ViewShowsContent
  <1>1. ScrollInit => ScrollInv
    BY ScrollBegins
  <1>2. ScrollInv /\ [ScrollNext]_scrollVars => ScrollInv'
    BY ScrollStep
  <1>3. ScrollInv => ViewShowsContent
    <2> SUFFICES ASSUME ScrollInv PROVE ViewShowsContent
      OBVIOUS
    <2>1. ScrollTypeOK
      BY DEF ScrollInv, LayoutInv, InputInv, Adjusted, ScrollTypeOK
    <2>2. OverflowHasBar /\ InputIsReleased
      BY DEF ScrollInv, LayoutInv, InputInv, InputIsReleased
    <2> QED BY <2>1, <2>2 DEF ViewShowsContent
  <1> QED BY <1>1, <1>2, <1>3, PTL DEF ScrollSpec

-----------------------------------------------------------------------------
(***************************************************************************)
(* The mixer and the sound server.  The control hears of a change late,    *)
(* and asks again: what it will know is followed through the messages on   *)
(* their way, as if the control were the place before the first.  Of a     *)
(* sink that is lost every message that gives it is followed by one that   *)
(* takes it away; of one that is there the control has asked, or what is   *)
(* told last of it is true; so it is with the default.  That the lists     *)
(* are complete when the count ends follows from the order in which they   *)
(* are asked for and answered.                                             *)
(***************************************************************************)

\* What the server tells of itself, and what it is asked for.
Events == {"removed", "changed", "pushed"}
ListKinds == {"server", "client", "sink", "source", "sinkInput", "sourceOutput", "card", "restore"}

\* What is on its way to the server and back.
Requests ==
  {r \in [kind : ListKinds \cup {"volume"}, of : SUBSET Sinks, list : BOOLEAN] :
     /\ r.kind = "server" \/ r.list => r.of = Sinks
     /\ r.list => r.kind # "volume"}

Messages ==
  {m \in [kind : ListKinds \cup Events, of : SUBSET Sinks, list : BOOLEAN, ok : BOOLEAN,
          muted : SUBSET Sinks, default : Names \cup {NoName}] :
     /\ m.kind = "removed" => \E s \in Sinks : m.of = {s}
     /\ m.kind = "server" \/ (m.list /\ m.kind # "restore") => m.ok
     /\ m.kind = "server" => m.default \in Names
     /\ m.list => m.kind \notin Events}

\* What the control has, and what the messages on their way will give it, sink by sink:
\* at place 0 it has the sink, at a later one a message tells of it.
Has(known, box, i, s) ==
  IF i = 0 THEN s \in known ELSE box[i].kind = "sink" /\ box[i].ok /\ s \in box[i].of
Takes(box, i, s) == box[i].kind = "removed" /\ s \in box[i].of
SpeaksOf(box, i, s) == box[i].kind \in {"sink", "removed"} /\ s \in box[i].of

\* A sink is taken away again wherever the control gets to know it.
TakenAway(known, box, s) ==
  \A i \in 0 .. Len(box) : Has(known, box, i, s) => \E k \in i + 1 .. Len(box) : Takes(box, k, s)

\* Before the control gets to know t, s is taken away.
TakenBefore(known, box, s, t) ==
  \A i, j \in 0 .. Len(box) :
    i <= j /\ Has(known, box, i, s) /\ Has(known, box, j, t) => \E k \in i + 1 .. j : Takes(box, k, s)

\* What the control has of a sink does: it is muted as at the server, unless what came of it
\* was left out.
AsAtServer(s, out, said, muted) == s \in out \/ (s \in said <=> s \in muted)

\* The last that the control gets to know of s is true.
LastIsTrue(known, box, s, out, said, muted) ==
  \E i \in 0 .. Len(box) :
    /\ Has(known, box, i, s)
    /\ IF i = 0 THEN AsAtServer(s, out, said, muted) ELSE s \in box[i].muted <=> s \in muted
    /\ \A k \in i + 1 .. Len(box) : ~SpeaksOf(box, k, s)

\* The same for the default, of which no message takes away.
NameIsTrue(name, box, default) ==
  \E i \in 0 .. Len(box) :
    /\ IF i = 0 THEN name = default ELSE box[i].kind = "server" /\ box[i].default = default
    /\ \A k \in i + 1 .. Len(box) : box[k].kind # "server"

\* The control has asked, or will ask, about a sink, and about the default.
WillAsk(s) ==
  \/ \E i \in 1 .. Len(asked) : asked[i].kind = "sink" /\ s \in asked[i].of
  \/ \E i \in 1 .. Len(inbox) : inbox[i].kind = "changed" /\ s \in inbox[i].of
WillAskDefault ==
  \/ \E i \in 1 .. Len(asked) : asked[i].kind = "server"
  \/ \E i \in 1 .. Len(inbox) : inbox[i].kind = "changed" /\ inbox[i].of = {}

\* The parts of the invariant, of which the texts above tell: sinks of one name do not meet,
\* what was lost, what is there and the default are told.
SinksApart ==
  \A s, t \in Sinks : s # t /\ SinkName[s] = SinkName[t] => TakenBefore(mixer.sinks, inbox, s, t)
LostIsTold ==
  mixer.context = "ready" => \A s \in Sinks \ soundServer.sinks : TakenAway(mixer.sinks, inbox, s)
PresentIsTold ==
  mixer.context = "ready" =>
    \A s \in soundServer.sinks :
      WillAsk(s) \/ LastIsTrue(mixer.sinks, inbox, s, ignored, mixer.muted, soundServer.muted)
DefaultIsTold ==
  mixer.context = "ready" => WillAskDefault \/ NameIsTrue(mixer.defaultName, inbox, soundServer.default)

\* The order in which gvc_mixer_control_ready() asks.
Rank ==
  [k \in ListKinds |->
     CASE k = "server" -> 1 [] k = "client" -> 2 [] k = "sink" -> 3 [] k = "source" -> 4
       [] k = "sinkInput" -> 5 [] k = "sourceOutput" -> 6 [] k = "card" -> 7 [] OTHER -> 8]

\* What is on its way before a list are events and earlier lists.
InTurn(a, b) == b.list => a.kind \in Events \/ (a.list /\ Rank[a.kind] < Rank[b.kind])
InOrder(q) == \A i, j \in 1 .. Len(q) : i < j => InTurn(q[i], q[j])
Ahead(box, q) == \A i \in 1 .. Len(box), j \in 1 .. Len(q) : InTurn(box[i], q[j])
ListsInOrder == InOrder(asked) /\ InOrder(inbox) /\ Ahead(inbox, asked)

\* As long as one of the six lists that are counted is missing the count of what is
\* outstanding has not come to an end.
Counted(q, state, outstanding) ==
  \A i \in 1 .. Len(q) :
    q[i].list /\ Rank[q[i].kind] <= 6 => state # "READY" /\ outstanding >= 7 - Rank[q[i].kind]
ListsAreCounted ==
  Counted(asked, mixer.state, mixer.outstanding) /\ Counted(inbox, mixer.state, mixer.outstanding)

\* The default sink of the control, without the choice in DefaultFollowsName.
DefaultNamed(m) ==
  IF m.defaultSink = NoSink THEN \A s \in m.sinks : SinkName[s] # m.defaultName
  ELSE m.defaultSink \in m.sinks /\ SinkName[m.defaultSink] = m.defaultName

\* What there is: nothing is on its way or known while the control is not connected.
MixerShape ==
  /\ MixerTypeOK /\ UniqueNames(soundServer.sinks)
  /\ mixer.context \in {"unconnected", "connecting"} => mixer.sinks = {}
  /\ mixer.context = "connecting" => mixer.state # "READY"
  /\ mixer.context # "ready" => asked = <<>> /\ inbox = <<>>
  /\ mixer.reconnect => mixer.context = "failed"
MixerQueues == asked \in Seq(Requests) /\ inbox \in Seq(Messages)

\* The inductive invariant.
MixerInv ==
  /\ MixerShape /\ MixerQueues
  /\ SinksApart /\ LostIsTold /\ PresentIsTold /\ DefaultIsTold
  /\ DefaultNamed(mixer) /\ ListsInOrder /\ ListsAreCounted

\* A message gives the control a sink, or is about it at all.
Adds(m, s) == m.kind = "sink" /\ m.ok /\ s \in m.of
IsAbout(m, s) == m.kind \in {"sink", "removed"} /\ s \in m.of

\* The messages after one has arrived.
LEMMA BoxAppend ==
  ASSUME NEW S, NEW box \in Seq(S), NEW m \in S, NEW b, b = Append(box, m)
  PROVE  /\ b \in Seq(S) /\ Len(b) = Len(box) + 1 /\ Len(box) \in Nat
         /\ \A i \in 1 .. Len(box) : b[i] = box[i]
         /\ b[Len(box) + 1] = m
  BY AppendProperties, LenProperties

\* The messages after the first has been taken.
LEMMA BoxTail ==
  ASSUME NEW S, NEW box \in Seq(S), box # <<>>, NEW b, b = Tail(box)
  PROVE  /\ b \in Seq(S) /\ Len(b) = Len(box) - 1 /\ Len(box) \in Nat \ {0}
         /\ \A i \in 1 .. Len(b) : b[i] = box[i + 1]
         /\ Head(box) = box[1] /\ Head(box) \in S
  BY HeadTailProperties, LenProperties, EmptySeq

\* A message that does not give the sink leaves it taken away.
LEMMA AppendAway ==
  ASSUME NEW S, NEW box \in Seq(S), NEW m \in S, NEW b, b = Append(box, m), NEW known, NEW s,
         ~Adds(m, s), TakenAway(known, box, s)
  PROVE  TakenAway(known, b, s)
  <1> DEFINE n == Len(box)
  <1>1. /\ Len(b) = n + 1 /\ n \in Nat /\ b[n + 1] = m
        /\ \A i \in 1 .. n : b[i] = box[i]
    BY BoxAppend
  <1> SUFFICES ASSUME NEW i \in 0 .. Len(b), Has(known, b, i, s)
               PROVE  \E k \in i + 1 .. Len(b) : Takes(b, k, s)
    BY DEF TakenAway
  <1>2. i \in 0 .. n /\ Has(known, box, i, s)
    BY <1>1 DEF Has, Adds
  <1>3. PICK k \in i + 1 .. n : Takes(box, k, s)
    BY <1>2 DEF TakenAway
  <1>4. k \in i + 1 .. Len(b) /\ Takes(b, k, s)
    BY <1>1, <1>2, <1>3 DEF Takes
  <1> QED BY <1>4

\* After the message that takes the sink it is taken away.
LEMMA AppendTakes ==
  ASSUME NEW S, NEW box \in Seq(S), NEW m \in S, NEW b, b = Append(box, m), NEW known, NEW s,
         m.kind = "removed", s \in m.of
  PROVE  TakenAway(known, b, s)
  <1> DEFINE n == Len(box)
  <1>1. Len(b) = n + 1 /\ n \in Nat /\ b[n + 1] = m
    BY BoxAppend
  <1> SUFFICES ASSUME NEW i \in 0 .. Len(b), Has(known, b, i, s)
               PROVE  \E k \in i + 1 .. Len(b) : Takes(b, k, s)
    BY DEF TakenAway
  <1>2. Takes(b, n + 1, s)
    BY <1>1 DEF Takes
  <1>3. i \in 0 .. n
    BY <1>1, <1>2 DEF Has, Takes
  <1> QED BY <1>1, <1>2, <1>3

\* A message that gives t comes after s has been taken away.
LEMMA AppendBefore ==
  ASSUME NEW S, NEW box \in Seq(S), NEW m \in S, NEW b, b = Append(box, m), NEW known, NEW s, NEW t,
         Adds(m, t) => TakenAway(known, box, s) /\ ~Adds(m, s),
         TakenBefore(known, box, s, t)
  PROVE  TakenBefore(known, b, s, t)
  <1> DEFINE n == Len(box)
  <1>1. /\ Len(b) = n + 1 /\ n \in Nat /\ b[n + 1] = m
        /\ \A i \in 1 .. n : b[i] = box[i]
    BY BoxAppend
  <1> SUFFICES ASSUME NEW i \in 0 .. Len(b), NEW j \in 0 .. Len(b), i <= j,
                      Has(known, b, i, s), Has(known, b, j, t)
               PROVE  \E k \in i + 1 .. j : Takes(b, k, s)
    BY DEF TakenBefore
  <1>2. CASE j \in 0 .. n
    <2>1. i \in 0 .. n /\ Has(known, box, i, s) /\ Has(known, box, j, t)
      BY <1>1, <1>2 DEF Has
    <2>2. PICK k \in i + 1 .. j : Takes(box, k, s)
      BY <2>1, <1>2 DEF TakenBefore
    <2>3. Takes(b, k, s)
      BY <1>1, <1>2, <2>1, <2>2 DEF Takes
    <2> QED BY <2>3
  <1>3. CASE j = n + 1
    <2>1. Adds(m, t)
      BY <1>1, <1>3 DEF Has, Adds
    <2>2. i \in 0 .. n /\ Has(known, box, i, s)
      BY <1>1, <1>3, <2>1 DEF Has, Adds
    <2>3. PICK k \in i + 1 .. n : Takes(box, k, s)
      BY <2>1, <2>2 DEF TakenAway
    <2>4. k \in i + 1 .. j /\ Takes(b, k, s)
      BY <1>1, <1>3, <2>2, <2>3 DEF Takes
    <2> QED BY <2>4
  <1> QED BY <1>1, <1>2, <1>3

\* A message that is not about the sink leaves true what is told of it.
LEMMA AppendTrue ==
  ASSUME NEW S, NEW box \in Seq(S), NEW m \in S, NEW b, b = Append(box, m), NEW known, NEW s,
         NEW out, NEW said, NEW muted, ~IsAbout(m, s), LastIsTrue(known, box, s, out, said, muted)
  PROVE  LastIsTrue(known, b, s, out, said, muted)
  <1> DEFINE n == Len(box)
  <1>1. /\ Len(b) = n + 1 /\ n \in Nat /\ b[n + 1] = m
        /\ \A i \in 1 .. n : b[i] = box[i]
    BY BoxAppend
  <1>2. PICK i \in 0 .. n : /\ Has(known, box, i, s)
                            /\ IF i = 0 THEN AsAtServer(s, out, said, muted) ELSE s \in box[i].muted <=> s \in muted
                            /\ \A k \in i + 1 .. n : ~SpeaksOf(box, k, s)
    BY DEF LastIsTrue
  <1>3. i \in 0 .. Len(b) /\ Has(known, b, i, s)
    BY <1>1, <1>2 DEF Has
  <1>4. IF i = 0 THEN AsAtServer(s, out, said, muted) ELSE s \in b[i].muted <=> s \in muted
    BY <1>1, <1>2
  <1>5. \A k \in i + 1 .. Len(b) : ~SpeaksOf(b, k, s)
    BY <1>1, <1>2 DEF SpeaksOf, IsAbout
  <1> QED BY <1>3, <1>4, <1>5 DEF LastIsTrue

\* An answer says what is true.
LEMMA AppendSays ==
  ASSUME NEW S, NEW box \in Seq(S), NEW m \in S, NEW b, b = Append(box, m), NEW known, NEW s,
         NEW out, NEW said, NEW muted, Adds(m, s), s \in m.muted <=> s \in muted
  PROVE  LastIsTrue(known, b, s, out, said, muted)
  <1> DEFINE n == Len(box)
  <1>1. Len(b) = n + 1 /\ n \in Nat /\ b[n + 1] = m
    BY BoxAppend
  <1>2. Has(known, b, n + 1, s)
    BY <1>1 DEF Has, Adds
  <1>3. IF n + 1 = 0 THEN AsAtServer(s, out, said, muted) ELSE s \in b[n + 1].muted <=> s \in muted
    BY <1>1
  <1>4. \A k \in n + 2 .. Len(b) : ~SpeaksOf(b, k, s)
    BY <1>1
  <1>5. n + 1 \in 0 .. Len(b)
    BY <1>1
  <1>6. n + 1 + 1 = n + 2
    BY <1>1
  <1> QED BY <1>2, <1>3, <1>4, <1>5, <1>6 DEF LastIsTrue

\* A message that does not name the default leaves it true, one that does makes it so.
LEMMA AppendName ==
  ASSUME NEW S, NEW box \in Seq(S), NEW m \in S, NEW b, b = Append(box, m), NEW name, NEW default,
         IF m.kind = "server" THEN m.default = default ELSE NameIsTrue(name, box, default)
  PROVE  NameIsTrue(name, b, default)
  <1> DEFINE n == Len(box)
  <1>1. /\ Len(b) = n + 1 /\ n \in Nat /\ b[n + 1] = m
        /\ \A i \in 1 .. n : b[i] = box[i]
    BY BoxAppend
  <1>2. CASE m.kind = "server"
    <2>1. n + 1 \in 0 .. Len(b) /\ n + 1 # 0 /\ \A k \in n + 1 + 1 .. Len(b) : b[k].kind # "server"
      BY <1>1
    <2> QED BY <1>1, <1>2, <2>1 DEF NameIsTrue
  <1>3. CASE m.kind # "server"
    <2>1. PICK i \in 0 .. n :
            /\ IF i = 0 THEN name = default ELSE box[i].kind = "server" /\ box[i].default = default
            /\ \A k \in i + 1 .. n : box[k].kind # "server"
      BY <1>3 DEF NameIsTrue
    <2>2. /\ i \in 0 .. Len(b)
          /\ IF i = 0 THEN name = default ELSE b[i].kind = "server" /\ b[i].default = default
      BY <1>1, <2>1
    <2>3. \A k \in i + 1 .. Len(b) : b[k].kind # "server"
      BY <1>1, <1>3, <2>1
    <2> QED BY <2>2, <2>3 DEF NameIsTrue
  <1> QED BY <1>2, <1>3

\* The first message is taken, and the control has what it gave.
LEMMA TailAway ==
  ASSUME NEW S, NEW box \in Seq(S), box # <<>>, NEW b, b = Tail(box), NEW known, NEW now, NEW s,
         s \in now => Adds(box[1], s) \/ (s \in known /\ ~Takes(box, 1, s)),
         TakenAway(known, box, s)
  PROVE  TakenAway(now, b, s)
  <1> DEFINE n == Len(box)
  <1>1. /\ Len(b) = n - 1 /\ n \in Nat \ {0}
        /\ \A i \in 1 .. n - 1 : b[i] = box[i + 1]
    BY BoxTail
  <1> SUFFICES ASSUME NEW i \in 0 .. Len(b), Has(now, b, i, s)
               PROVE  \E k \in i + 1 .. Len(b) : Takes(b, k, s)
    BY DEF TakenAway
  <1>2. ASSUME NEW j \in 0 .. n, Has(known, box, j, s), j = i + 1 \/ (j = i /\ ~Takes(box, i + 1, s))
        PROVE  \E k \in i + 1 .. Len(b) : Takes(b, k, s)
    <2>1. PICK k \in j + 1 .. n : Takes(box, k, s)
      BY <1>2 DEF TakenAway
    <2>2. k - 1 \in i + 1 .. Len(b) /\ b[k - 1] = box[k]
      BY <1>1, <1>2, <2>1
    <2> QED BY <2>1, <2>2 DEF Takes
  <1>3. CASE i = 0
    <2>1. Has(known, box, 1, s) \/ (Has(known, box, 0, s) /\ ~Takes(box, 1, s))
      BY <1>3 DEF Has, Adds
    <2> QED BY <1>1, <1>2, <1>3, <2>1
  <1>4. CASE i # 0
    <2>1. i + 1 \in 0 .. n /\ Has(known, box, i + 1, s)
      BY <1>1, <1>4 DEF Has
    <2> QED BY <1>2, <2>1
  <1> QED BY <1>3, <1>4

\* The same for two sinks of which one is taken away first.
LEMMA TailBefore ==
  ASSUME NEW S, NEW box \in Seq(S), box # <<>>, NEW b, b = Tail(box), NEW known, NEW now, NEW s, NEW t,
         s \in now => Adds(box[1], s) \/ (s \in known /\ ~Takes(box, 1, s)),
         t \in now => Adds(box[1], t) \/ (t \in known /\ ~Takes(box, 1, t)),
         TakenBefore(known, box, s, t), TakenBefore(known, box, t, s)
  PROVE  TakenBefore(now, b, s, t)
  <1> DEFINE n == Len(box)
  <1>1. /\ Len(b) = n - 1 /\ n \in Nat \ {0}
        /\ \A i \in 1 .. n - 1 : b[i] = box[i + 1]
    BY BoxTail
  <1> SUFFICES ASSUME NEW i \in 0 .. Len(b), NEW j \in 0 .. Len(b), i <= j,
                      Has(now, b, i, s), Has(now, b, j, t)
               PROVE  \E k \in i + 1 .. j : Takes(b, k, s)
    BY DEF TakenBefore
  <1>2. ASSUME NEW x \in 0 .. n, Has(known, box, x, s), x = i + 1 \/ (x = i /\ ~Takes(box, i + 1, s)),
               j # 0
        PROVE  \E k \in i + 1 .. j : Takes(b, k, s)
    <2>1. Has(known, box, j + 1, t) /\ j + 1 \in 0 .. n /\ x <= j + 1
      BY <1>1, <1>2 DEF Has
    <2>2. PICK k \in x + 1 .. j + 1 : Takes(box, k, s)
      BY <1>2, <2>1 DEF TakenBefore
    <2>3. k - 1 \in i + 1 .. j /\ b[k - 1] = box[k]
      BY <1>1, <1>2, <2>2
    <2> QED BY <2>2, <2>3 DEF Takes
  <1>3. CASE i = 0
    <2>1. Has(known, box, 1, s) \/ (Has(known, box, 0, s) /\ ~Takes(box, 1, s))
      BY <1>3 DEF Has, Adds
    <2>2. CASE j # 0
      BY <1>1, <1>2, <1>3, <2>1, <2>2
    <2>3. CASE j = 0
      <3>1. Has(known, box, 1, t) \/ (Has(known, box, 0, t) /\ ~Takes(box, 1, t))
        BY <2>3 DEF Has, Adds
      <3>2. 0 \in 0 .. n /\ 1 \in 0 .. n
        BY <1>1
      <3>3. \A x, y \in {0, 1} : Has(known, box, x, s) /\ Has(known, box, y, t) =>
               (x < y /\ Takes(box, 1, s)) \/ (y < x /\ Takes(box, 1, t))
        <4> TAKE x, y \in {0, 1}
        <4> HAVE Has(known, box, x, s) /\ Has(known, box, y, t)
        <4>1. x <= y => \E k \in x + 1 .. y : Takes(box, k, s)
          BY <3>2 DEF TakenBefore
        <4>2. y <= x => \E k \in y + 1 .. x : Takes(box, k, t)
          BY <3>2 DEF TakenBefore
        <4> QED BY <4>1, <4>2
      <3>4. \A x : Has(known, box, 1, x) => box[1].kind = "sink"
        BY DEF Has
      <3>5. Takes(box, 1, s) \/ Takes(box, 1, t) => box[1].kind = "removed"
        BY DEF Takes
      <3> QED BY <2>1, <3>1, <3>3, <3>4, <3>5
    <2> QED BY <2>2, <2>3
  <1>4. CASE i # 0
    <2>1. i + 1 \in 0 .. n /\ Has(known, box, i + 1, s) /\ j # 0
      BY <1>1, <1>4 DEF Has
    <2> QED BY <1>2, <2>1
  <1> QED BY <1>3, <1>4

\* What is told last of a sink stays true when it has reached the control.
LEMMA TailTrue ==
  ASSUME NEW S, NEW box \in Seq(S), box # <<>>, NEW b, b = Tail(box), NEW known, NEW now, NEW s,
         NEW out, NEW said, NEW outNow, NEW saidNow, NEW muted,
         Adds(box[1], s) /\ (s \in box[1].muted <=> s \in muted) =>
           s \in now /\ AsAtServer(s, outNow, saidNow, muted),
         ~IsAbout(box[1], s) /\ s \in known /\ AsAtServer(s, out, said, muted) =>
           s \in now /\ AsAtServer(s, outNow, saidNow, muted),
         LastIsTrue(known, box, s, out, said, muted)
  PROVE  LastIsTrue(now, b, s, outNow, saidNow, muted)
  <1> DEFINE n == Len(box)
  <1>1. /\ Len(b) = n - 1 /\ n \in Nat \ {0}
        /\ \A i \in 1 .. n - 1 : b[i] = box[i + 1]
    BY BoxTail
  <1>2. PICK i \in 0 .. n : /\ Has(known, box, i, s)
                            /\ IF i = 0 THEN AsAtServer(s, out, said, muted) ELSE s \in box[i].muted <=> s \in muted
                            /\ \A k \in i + 1 .. n : ~SpeaksOf(box, k, s)
    BY DEF LastIsTrue
  <1>3. \A k \in 1 .. Len(b) : k + 1 \in i + 1 .. n => ~SpeaksOf(b, k, s)
    BY <1>1, <1>2 DEF SpeaksOf
  <1>4. CASE i \in {0, 1}
    <2>1. i = 0 => ~IsAbout(box[1], s) /\ s \in known /\ AsAtServer(s, out, said, muted)
      <3>1. i = 0 => 1 \in i + 1 .. n
        BY <1>1
      <3> QED BY <1>2, <3>1 DEF SpeaksOf, IsAbout, Has
    <2>2. i = 1 => Adds(box[1], s) /\ (s \in box[1].muted <=> s \in muted)
      BY <1>2 DEF Has, Adds
    <2>3. s \in now /\ AsAtServer(s, outNow, saidNow, muted)
      BY <1>4, <2>1, <2>2
    <2>4. 0 \in 0 .. Len(b) /\ Has(now, b, 0, s)
      BY <1>1, <2>3 DEF Has
    <2>5. \A k \in 0 + 1 .. Len(b) : ~SpeaksOf(b, k, s)
      BY <1>1, <1>3, <1>4
    <2> QED BY <2>3, <2>4, <2>5 DEF LastIsTrue
  <1>5. CASE i \notin {0, 1}
    <2>1. i - 1 \in 0 .. Len(b) /\ i - 1 # 0 /\ i # 0 /\ b[i - 1] = box[i]
      BY <1>1, <1>5
    <2>2. Has(now, b, i - 1, s) /\ (s \in b[i - 1].muted <=> s \in muted)
      BY <1>2, <2>1 DEF Has
    <2>3. \A k \in (i - 1) + 1 .. Len(b) : ~SpeaksOf(b, k, s)
      <3>1. \A k \in (i - 1) + 1 .. Len(b) : k \in 1 .. Len(b) /\ k + 1 \in i + 1 .. n
        BY <1>1, <1>5
      <3> QED BY <1>3, <3>1
    <2> QED BY <2>1, <2>2, <2>3 DEF LastIsTrue
  <1> QED BY <1>4, <1>5

\* And what is told of the default.
LEMMA TailName ==
  ASSUME NEW S, NEW box \in Seq(S), box # <<>>, NEW b, b = Tail(box), NEW name, NEW now, NEW default,
         IF box[1].kind = "server" THEN now = box[1].default ELSE now = name,
         NameIsTrue(name, box, default)
  PROVE  NameIsTrue(now, b, default)
  <1> DEFINE n == Len(box)
  <1>1. /\ Len(b) = n - 1 /\ n \in Nat \ {0}
        /\ \A i \in 1 .. n - 1 : b[i] = box[i + 1]
    BY BoxTail
  <1>2. PICK i \in 0 .. n :
          /\ IF i = 0 THEN name = default ELSE box[i].kind = "server" /\ box[i].default = default
          /\ \A k \in i + 1 .. n : box[k].kind # "server"
    BY DEF NameIsTrue
  <1>3. \A k \in 1 .. Len(b) : k + 1 \in i + 1 .. n => b[k].kind # "server"
    BY <1>1, <1>2
  <1>4. CASE i \in {0, 1}
    <2>1. now = default
      <3>1. i = 0 => 1 \in i + 1 .. n
        BY <1>1
      <3> QED BY <1>2, <1>4, <3>1
    <2>2. 0 \in 0 .. Len(b) /\ \A k \in 0 + 1 .. Len(b) : b[k].kind # "server"
      BY <1>1, <1>3, <1>4
    <2> QED BY <2>1, <2>2 DEF NameIsTrue
  <1>5. CASE i \notin {0, 1}
    <2>1. i - 1 \in 0 .. Len(b) /\ i - 1 # 0 /\ i # 0 /\ b[i - 1] = box[i]
      BY <1>1, <1>5
    <2>2. \A k \in (i - 1) + 1 .. Len(b) : b[k].kind # "server"
      <3>1. \A k \in (i - 1) + 1 .. Len(b) : k \in 1 .. Len(b) /\ k + 1 \in i + 1 .. n
        BY <1>1, <1>5
      <3> QED BY <1>3, <3>1
    <2> QED BY <1>2, <2>1, <2>2 DEF NameIsTrue
  <1> QED BY <1>4, <1>5

\* The order and the count of the lists when a message or a request is added or taken.
LEMMA AppendOrder ==
  ASSUME NEW S, NEW q \in Seq(S), NEW m \in S, NEW r, r = Append(q, m),
         \A i \in 1 .. Len(q) : InTurn(q[i], m), InOrder(q)
  PROVE  InOrder(r)
  BY BoxAppend DEF InOrder

\* The messages are still ahead of the requests when one has been added ...
LEMMA AppendAhead ==
  ASSUME NEW S, NEW box \in Seq(S), NEW m \in S, NEW b, b = Append(box, m),
         NEW q, \A j \in 1 .. Len(q) : InTurn(m, q[j]), Ahead(box, q)
  PROVE  Ahead(b, q)
  BY BoxAppend DEF Ahead

\* ... or a request ...
LEMMA AppendBehind ==
  ASSUME NEW S, NEW q \in Seq(S), NEW m \in S, NEW r, r = Append(q, m),
         NEW box, \A i \in 1 .. Len(box) : InTurn(box[i], m), Ahead(box, q)
  PROVE  Ahead(box, r)
  BY BoxAppend DEF Ahead

\* A list that is added is counted when it is outstanding.
LEMMA AppendCounted ==
  ASSUME NEW S, NEW q \in Seq(S), NEW m \in S, NEW r, r = Append(q, m), NEW state, NEW outstanding,
         m.list /\ Rank[m.kind] <= 6 => state # "READY" /\ outstanding >= 7 - Rank[m.kind],
         Counted(q, state, outstanding)
  PROVE  Counted(r, state, outstanding)
  <1>1. /\ Len(r) = Len(q) + 1 /\ Len(q) \in Nat /\ r[Len(q) + 1] = m
        /\ \A i \in 1 .. Len(q) : r[i] = q[i]
    BY BoxAppend
  <1> SUFFICES ASSUME NEW i \in 1 .. Len(r), r[i].list /\ Rank[r[i].kind] <= 6
               PROVE  state # "READY" /\ outstanding >= 7 - Rank[r[i].kind]
    BY DEF Counted
  <1>2. CASE i \in 1 .. Len(q)
    BY <1>1, <1>2 DEF Counted
  <1>3. CASE i = Len(q) + 1
    BY <1>1, <1>3
  <1> QED BY <1>1, <1>2, <1>3

\* The first is before all others.
LEMMA TailOrder ==
  ASSUME NEW S, NEW q \in Seq(S), q # <<>>, NEW r, r = Tail(q), InOrder(q)
  PROVE  InOrder(r) /\ \A j \in 1 .. Len(r) : InTurn(q[1], r[j])
  <1>1. /\ Len(r) = Len(q) - 1 /\ Len(q) \in Nat \ {0}
        /\ \A i \in 1 .. Len(r) : r[i] = q[i + 1]
    BY BoxTail
  <1> QED BY <1>1 DEF InOrder

\* ... or the first message has been taken ...
LEMMA TailAhead ==
  ASSUME NEW S, NEW box \in Seq(S), box # <<>>, NEW b, b = Tail(box), NEW q, Ahead(box, q)
  PROVE  Ahead(b, q) /\ \A j \in 1 .. Len(q) : InTurn(box[1], q[j])
  <1>1. /\ Len(b) = Len(box) - 1 /\ Len(box) \in Nat \ {0}
        /\ \A i \in 1 .. Len(b) : b[i] = box[i + 1]
    BY BoxTail
  <1> QED BY <1>1 DEF Ahead

\* ... or the first request.
LEMMA TailBehind ==
  ASSUME NEW S, NEW q \in Seq(S), q # <<>>, NEW r, r = Tail(q), NEW box, Ahead(box, q)
  PROVE  Ahead(box, r) /\ \A i \in 1 .. Len(box) : InTurn(box[i], q[1])
  <1>1. /\ Len(r) = Len(q) - 1 /\ Len(q) \in Nat \ {0}
        /\ \A i \in 1 .. Len(r) : r[i] = q[i + 1]
    BY BoxTail
  <1> QED BY <1>1 DEF Ahead

\* What is left is counted.
LEMMA TailCounted ==
  ASSUME NEW S, NEW q \in Seq(S), q # <<>>, NEW r, r = Tail(q), NEW state, NEW outstanding,
         Counted(q, state, outstanding)
  PROVE  Counted(r, state, outstanding)
  <1>1. /\ Len(r) = Len(q) - 1 /\ Len(q) \in Nat \ {0}
        /\ \A i \in 1 .. Len(r) : r[i] = q[i + 1]
    BY BoxTail
  <1>2. \A i \in 1 .. Len(r) : i + 1 \in 1 .. Len(q)
    BY <1>1
  <1> QED BY <1>1, <1>2 DEF Counted

-----------------------------------------------------------------------------
\* What the operators on the control give.
LEMMA DecOutstandingGives ==
  ASSUME NEW m \in MixerType, NEW t, t = DecOutstanding(m)
  PROVE  /\ t \in MixerType
         /\ t.context = m.context /\ t.reconnect = m.reconnect /\ t.sinks = m.sinks /\ t.muted = m.muted
         /\ t.pushing = m.pushing /\ t.defaultName = m.defaultName /\ t.defaultSink = m.defaultSink
         /\ t.outstanding = (IF m.outstanding = 0 THEN 0 ELSE m.outstanding - 1)
         /\ t.state = (IF m.outstanding = 1 THEN "READY" ELSE m.state)
  <1>1. CASE m.outstanding = 0
    BY <1>1 DEF DecOutstanding, MixerType
  <1>2. CASE m.outstanding # 0
    <2> DEFINE v == IF m.outstanding = 1 THEN "READY" ELSE m.state
    <2>1. m.outstanding \in 1 .. 7
      BY <1>2 DEF MixerType
    <2>2. t = [m EXCEPT !.outstanding = m.outstanding - 1, !.state = v]
      BY <2>1 DEF DecOutstanding, MixerType
    <2>3. v \in {"CLOSED", "CONNECTING", "READY", "FAILED"} /\ m.outstanding - 1 \in 0 .. 7
      BY <2>1 DEF MixerType
    <2> HIDE DEF v
    <2>4. t \in MixerType /\ t.state = v /\ t.outstanding = m.outstanding - 1
      BY <2>2, <2>3 DEF MixerType
    <2> QED BY <1>2, <2>2, <2>4 DEF MixerType, v
  <1> QED BY <1>1, <1>2

\* A name given by the server changes the default and nothing else.
LEMMA UpdateDefaultGives ==
  ASSUME MixerAssumption, NEW m \in MixerType, NEW name \in Names, NEW t,
         t = UpdateDefaultFromName(m, name)
  PROVE  /\ t \in MixerType
         /\ t.context = m.context /\ t.reconnect = m.reconnect /\ t.sinks = m.sinks /\ t.muted = m.muted
         /\ t.pushing = m.pushing /\ t.state = m.state /\ t.outstanding = m.outstanding
         /\ t.defaultName = name
         /\ DefaultNamed(m) => DefaultNamed(t)
  <1> DEFINE v == IF \E s \in m.sinks : SinkName[s] = name
                  THEN CHOOSE s \in m.sinks : SinkName[s] = name ELSE NoSink
  <1>1. CASE m.defaultName = name
    BY <1>1 DEF UpdateDefaultFromName
  <1>2. CASE m.defaultName # name
    <2>1. t = [m EXCEPT !.defaultName = name, !.defaultSink = v]
      BY <1>2 DEF UpdateDefaultFromName
    <2>2. m.sinks \subseteq Sinks
      BY DEF MixerType
    <2>3. \/ v = NoSink /\ \A s \in m.sinks : SinkName[s] # name
          \/ v \in m.sinks /\ SinkName[v] = name
      OBVIOUS
    <2> HIDE DEF v
    <2>4. v \in Sinks \cup {NoSink} /\ (v \in Sinks => v # NoSink)
      BY <2>2, <2>3 DEF MixerAssumption
    <2>5. t \in MixerType
      BY <2>1, <2>4 DEF MixerType
    <2>6. t.defaultSink = v /\ t.defaultName = name /\ t.sinks = m.sinks
      BY <2>1 DEF MixerType
    <2>7. DefaultNamed(t)
      BY <2>2, <2>3, <2>4, <2>6 DEF DefaultNamed
    <2> QED BY <2>1, <2>5, <2>6, <2>7 DEF MixerType
  <1> QED BY <1>1, <1>2

\* The control t after m has heard of sinks, of which muted are.
HeardOf(m, sinks, muted, t) ==
  /\ t \in MixerType
  /\ t.context = m.context /\ t.reconnect = m.reconnect /\ t.pushing = m.pushing
  /\ t.state = m.state /\ t.outstanding = m.outstanding /\ t.defaultName = m.defaultName
  /\ t.sinks = m.sinks \cup sinks
  /\ LET heard == sinks \ (m.sinks \cap m.pushing) IN t.muted = (m.muted \ heard) \cup (heard \cap muted)
  /\ DefaultNamed(m) => DefaultNamed(t)

\* Answers about sinks make them known and keep the default the named one.
LEMMA UpdateSinksGives ==
  ASSUME MixerAssumption, NEW m \in MixerType, NEW sinks \in SUBSET Sinks, NEW muted \in SUBSET Sinks,
         NEW t, t = UpdateSinks(m, sinks, muted)
  PROVE  HeardOf(m, sinks, muted, t)
  <1> DEFINE heard == sinks \ (m.sinks \cap m.pushing)
             named == {s \in heard : SinkName[s] = m.defaultName}
             v == IF named # {} THEN CHOOSE s \in named : TRUE ELSE m.defaultSink
             d == (m.muted \ heard) \cup (heard \cap muted)
  <1>1. t = [m EXCEPT !.sinks = m.sinks \cup sinks, !.muted = d, !.defaultSink = v]
    BY DEF UpdateSinks, MixerType
  <1>2. (named # {} /\ v \in named) \/ (named = {} /\ v = m.defaultSink)
    OBVIOUS
  <1>3. heard \subseteq Sinks /\ heard \subseteq sinks /\ sinks \subseteq heard \cup m.sinks
    OBVIOUS
  <1>4. /\ m.sinks \subseteq Sinks /\ m.muted \subseteq Sinks /\ m.pushing \subseteq Sinks
        /\ m.defaultSink \in Sinks \cup {NoSink}
    BY DEF MixerType
  <1>5. d \subseteq Sinks
    BY <1>3, <1>4
  <1> HIDE DEF v
  <1>6. v \in Sinks \cup {NoSink} /\ (v \in Sinks => v # NoSink)
    BY <1>2, <1>3, <1>4 DEF MixerAssumption
  <1>8. t \in MixerType
    BY <1>1, <1>4, <1>5, <1>6, ZenonT(60) DEF MixerType
  <1>9. /\ t.defaultSink = v /\ t.defaultName = m.defaultName /\ t.sinks = m.sinks \cup sinks
        /\ t.muted = d
    BY <1>1 DEF MixerType
  <1>10. ASSUME DefaultNamed(m) PROVE DefaultNamed(t)
    <2>1. CASE v \in named
      BY <1>3, <1>6, <1>9, <2>1 DEF DefaultNamed
    <2>2. CASE named = {} /\ v = m.defaultSink
      <3>1. \A s \in heard : SinkName[s] # m.defaultName
        BY <2>2
      <3> QED BY <1>3, <1>9, <1>10, <2>2, <3>1 DEF DefaultNamed
    <2> QED BY <1>2, <2>1, <2>2
  <1> QED BY <1>1, <1>8, <1>9, <1>10 DEF MixerType, HeardOf, d

\* A sink that goes takes the default with it, as no other has its name.
LEMMA RemoveSinkGives ==
  ASSUME MixerAssumption, NEW m \in MixerType, NEW s \in Sinks, NEW t, t = RemoveSink(m, s)
  PROVE  /\ t \in MixerType
         /\ t.context = m.context /\ t.reconnect = m.reconnect
         /\ t.state = m.state /\ t.outstanding = m.outstanding /\ t.defaultName = m.defaultName
         /\ t.sinks = m.sinks \ {s} /\ t.muted = m.muted \ {s}
         /\ DefaultNamed(m) /\ UniqueNames(m.sinks) => DefaultNamed(t)
  <1> DEFINE v == IF m.defaultSink = s THEN NoSink ELSE m.defaultSink
  <1>1. t = [m EXCEPT !.sinks = m.sinks \ {s}, !.muted = m.muted \ {s},
                      !.pushing = m.pushing \ {s}, !.defaultSink = v]
    BY DEF RemoveSink, MixerType
  <1>2. v \in Sinks \cup {NoSink} /\ s # NoSink
    BY DEF MixerType, MixerAssumption
  <1>3. t \in MixerType
    BY <1>1, <1>2, ZenonT(60) DEF MixerType
  <1>4. t.defaultSink = v /\ t.defaultName = m.defaultName /\ t.sinks = m.sinks \ {s}
    BY <1>1 DEF MixerType
  <1>5. DefaultNamed(m) /\ UniqueNames(m.sinks) => DefaultNamed(t)
    BY <1>2, <1>4 DEF DefaultNamed, UniqueNames
  <1> QED BY <1>1, <1>3, <1>4, <1>5 DEF MixerType

\* A function on 1 .. 7 is a sequence.
LEMMA SevenAsSeq ==
  ASSUME NEW S, NEW f \in [1 .. 7 -> S]
  PROVE  f \in Seq(S) /\ Len(f) = 7
  <1>1. 7 \in Nat
    OBVIOUS
  <1> QED BY <1>1, FunctionIsSeq, Zenon

\* The kinds that are asked for, and their order.
LEMMA ListsAsk ==
  ASSUME NEW f, f = [i \in DOMAIN Lists |-> Request(Lists[i], Sinks, TRUE)]
  PROVE  /\ f \in [1 .. 7 -> Requests]
         /\ \A i \in 1 .. 7 : f[i].list /\ f[i].of = Sinks /\ Rank[f[i].kind] = i
         /\ f[1].kind = "server" /\ f[3].kind = "sink"
  <1>1. /\ DOMAIN Lists = 1 .. 7
        /\ Lists[1] = "server" /\ Lists[2] = "client" /\ Lists[3] = "sink" /\ Lists[4] = "source"
        /\ Lists[5] = "sinkInput" /\ Lists[6] = "sourceOutput" /\ Lists[7] = "card"
    BY DEF Lists
  <1>2. \A k \in ListKinds : Request(k, Sinks, TRUE) \in Requests
    BY DEF Request, Requests, ListKinds
  <1>3. \A i \in 1 .. 7 : Lists[i] \in ListKinds /\ Rank[Lists[i]] = i
    <2>1. \A i \in 1 .. 7 : i = 1 \/ i = 2 \/ i = 3 \/ i = 4 \/ i = 5 \/ i = 6 \/ i = 7
      OBVIOUS
    <2>2. /\ Rank["server"] = 1 /\ Rank["client"] = 2 /\ Rank["sink"] = 3 /\ Rank["source"] = 4
          /\ Rank["sinkInput"] = 5 /\ Rank["sourceOutput"] = 6 /\ Rank["card"] = 7
      BY DEF ListKinds, Rank
    <2> QED BY <1>1, <2>1, <2>2 DEF ListKinds
  <1>4. f \in [1 .. 7 -> Requests] /\ \A i \in 1 .. 7 : f[i] = Request(Lists[i], Sinks, TRUE)
    BY <1>1, <1>2, <1>3
  <1> QED BY <1>1, <1>3, <1>4 DEF Request

\* What is asked for when the control is connected.
LEMMA ReadyAsks ==
  ASSUME NEW restore \in BOOLEAN
  PROVE  LET q == [i \in DOMAIN Lists |-> Request(Lists[i], Sinks, TRUE)]
                  \o (IF restore THEN <<Request("restore", Sinks, TRUE)>> ELSE <<>>)
         IN  /\ q \in Seq(Requests) /\ Len(q) \in {7, 8}
             /\ \A i \in 1 .. Len(q) : q[i].list /\ q[i].of = Sinks /\ Rank[q[i].kind] = i
             /\ q[1].kind = "server" /\ q[3].kind = "sink"
  <1>1. PICK f : f = [i \in DOMAIN Lists |-> Request(Lists[i], Sinks, TRUE)]
    OBVIOUS
  <1>2. PICK e : e = Request("restore", Sinks, TRUE)
    OBVIOUS
  <1>3. PICK q : q = f \o (IF restore THEN <<e>> ELSE <<>>)
    OBVIOUS
  <1>4. /\ f \in [1 .. 7 -> Requests]
        /\ \A i \in 1 .. 7 : f[i].list /\ f[i].of = Sinks /\ Rank[f[i].kind] = i
        /\ f[1].kind = "server" /\ f[3].kind = "sink"
    BY <1>1, ListsAsk, Zenon
  <1>5. f \in Seq(Requests) /\ Len(f) = 7
    BY <1>4, SevenAsSeq, Zenon
  <1>6. e \in Requests /\ e.list /\ e.of = Sinks /\ Rank[e.kind] = 8
    BY <1>2 DEF ListKinds, Rank, Request, Requests
  <1>7. q = f \/ q = Append(f, e)
    <2>1. f \o <<>> = f /\ f \o <<e>> = Append(f, e)
      BY <1>5, <1>6, AppendIsConcat
    <2>2. CASE restore
      BY <1>3, <2>1, <2>2, Zenon
    <2>3. CASE ~restore
      BY <1>3, <2>1, <2>3, Zenon
    <2> QED BY <2>2, <2>3
  <1>8. /\ q \in Seq(Requests) /\ Len(q) \in {7, 8}
        /\ \A i \in 1 .. 7 : q[i] = f[i]
        /\ \A i \in 1 .. Len(q) : i \in 1 .. 7 \/ (i = 8 /\ q[i] = e)
    <2>1. CASE q = f
      BY <1>5, <2>1
    <2>2. CASE q = Append(f, e)
      <3>1. /\ q \in Seq(Requests) /\ Len(q) = Len(f) + 1
            /\ \A i \in 1 .. Len(f) : q[i] = f[i]
            /\ q[Len(f) + 1] = e
        <4>1. f \in Seq(Requests) /\ e \in Requests
          BY <1>5, <1>6, Zenon
        <4> QED BY <4>1, <2>2, BoxAppend
      <3> QED BY <1>5, <3>1
    <2> QED BY <1>7, <2>1, <2>2, Zenon
  <1>9. ASSUME NEW i \in 1 .. Len(q) PROVE q[i].list /\ q[i].of = Sinks /\ Rank[q[i].kind] = i
    <2>1. CASE i \in 1 .. 7
      BY <1>4, <1>8, <2>1, Zenon
    <2>2. CASE i = 8 /\ q[i] = e
      BY <1>6, <2>2, Zenon
    <2> QED BY <1>8, <2>1, <2>2, Zenon
  <1>10. 1 \in 1 .. 7 /\ 3 \in 1 .. 7
    OBVIOUS
  <1>11. q = [i \in DOMAIN Lists |-> Request(Lists[i], Sinks, TRUE)]
             \o (IF restore THEN <<Request("restore", Sinks, TRUE)>> ELSE <<>>)
    BY <1>1, <1>2, <1>3, Zenon
  <1>12. /\ q \in Seq(Requests) /\ Len(q) \in {7, 8}
         /\ \A i \in 1 .. Len(q) : q[i].list /\ q[i].of = Sinks /\ Rank[q[i].kind] = i
         /\ q[1].kind = "server" /\ q[3].kind = "sink"
    BY <1>4, <1>8, <1>9, <1>10, Zenon
  <1> QED BY <1>11, <1>12, Zenon

-----------------------------------------------------------------------------
\* Every kind of list has its place.
LEMMA RankIsNumber == \A k \in ListKinds : Rank[k] \in 1 .. 8
  BY DEF Rank, ListKinds

\* Two sinks that the control has at once have different names.
LEMMA KnownAreUnique ==
  ASSUME MixerShape, MixerQueues, SinksApart
  PROVE  UniqueNames(mixer.sinks)
  <1> SUFFICES ASSUME NEW s \in mixer.sinks, NEW t \in mixer.sinks, SinkName[s] = SinkName[t], s # t
               PROVE  FALSE
    BY DEF UniqueNames
  <1>1. s \in Sinks /\ t \in Sinks
    BY DEF MixerShape, MixerTypeOK, MixerType
  <1>2. TakenBefore(mixer.sinks, inbox, s, t)
    BY <1>1 DEF SinksApart
  <1>3. 0 \in 0 .. Len(inbox) /\ 0 <= 0
    BY LenProperties DEF MixerQueues
  <1>4. Has(mixer.sinks, inbox, 0, s) /\ Has(mixer.sinks, inbox, 0, t)
    BY DEF Has
  <1>5. \E k \in 0 + 1 .. 0 : Takes(inbox, k, s)
    BY <1>2, <1>3, <1>4, Zenon DEF TakenBefore
  <1> QED BY <1>5

\* An event that arrives leaves what is told of the sinks it is not about, the default,
\* and the order of the lists.
LEMMA EventAppend ==
  ASSUME NEW box \in Seq(Messages), NEW m \in Messages, m.kind \in Events, NEW b, b = Append(box, m)
  PROVE  /\ b \in Seq(Messages)
         /\ \A known, s : TakenAway(known, box, s) => TakenAway(known, b, s)
         /\ \A known, s, t : TakenBefore(known, box, s, t) => TakenBefore(known, b, s, t)
         /\ \A known, s, out, said, muted :
              ~IsAbout(m, s) /\ LastIsTrue(known, box, s, out, said, muted) => LastIsTrue(known, b, s, out, said, muted)
         /\ \A name, default : NameIsTrue(name, box, default) => NameIsTrue(name, b, default)
         /\ InOrder(box) => InOrder(b)
         /\ \A q : Ahead(box, q) => Ahead(b, q)
         /\ \A state, outstanding : Counted(box, state, outstanding) => Counted(b, state, outstanding)
  <1>1. ~m.list /\ m.kind # "sink" /\ m.kind # "server"
    BY DEF Messages, Events
  <1>2. \A s : ~Adds(m, s)
    BY <1>1 DEF Adds
  <1>3. \A q : \A i \in 1 .. Len(q) : InTurn(q[i], m) /\ InTurn(m, q[i])
    BY <1>1 DEF InTurn
  <1>4. b \in Seq(Messages)
    BY BoxAppend
  <1>5. \A known, s : TakenAway(known, box, s) => TakenAway(known, b, s)
    BY <1>2, AppendAway
  <1>6. \A known, s, t : TakenBefore(known, box, s, t) => TakenBefore(known, b, s, t)
    BY <1>2, AppendBefore
  <1>7. \A known, s, out, said, muted :
          ~IsAbout(m, s) /\ LastIsTrue(known, box, s, out, said, muted) => LastIsTrue(known, b, s, out, said, muted)
    BY AppendTrue
  <1>8. \A name, default : NameIsTrue(name, box, default) => NameIsTrue(name, b, default)
    BY <1>1, AppendName
  <1>9. InOrder(box) => InOrder(b)
    BY <1>3, AppendOrder
  <1>10. \A q : Ahead(box, q) => Ahead(b, q)
    <2> SUFFICES ASSUME NEW q, Ahead(box, q) PROVE Ahead(b, q)
      OBVIOUS
    <2>1. \A j \in 1 .. Len(q) : InTurn(m, q[j])
      BY <1>3, Zenon
    <2> QED BY <2>1, AppendAhead
  <1>11. \A state, outstanding : Counted(box, state, outstanding) => Counted(b, state, outstanding)
    BY <1>1, AppendCounted
  <1> QED BY <1>4, <1>5, <1>6, <1>7, <1>8, <1>9, <1>10, <1>11

\* What the server changes is told, asked about, or concerns others.
LEMMA ChangeKeeps ==
  ASSUME MixerAssumption, MixerInv, NEW server \in ServerType, NEW message \in Messages,
         ServerChanges(server, message), UniqueNames(server.sinks),
         message.kind \in {"removed", "changed"},
         \A s \in Sinks : s \notin server.sinks =>
           s \notin soundServer.sinks \/ (message.kind = "removed" /\ s \in message.of),
         \A s \in server.sinks :
           \/ message.kind = "changed" /\ s \in message.of
           \/ /\ s \in soundServer.sinks /\ ~IsAbout(message, s)
              /\ s \in server.muted <=> s \in soundServer.muted,
         \/ message.kind = "changed" /\ message.of = {}
         \/ server.default = soundServer.default
  PROVE  MixerInv'
  <1>1. /\ soundServer' = server /\ upheavals' = upheavals + 1 /\ upheavals < MaxUpheavals
        /\ UNCHANGED <<asked, mixer, ignored>>
        /\ inbox' = IF mixer.context = "ready" THEN Append(inbox, message) ELSE inbox
    BY DEF ServerChanges
  <1>2. /\ inbox \in Seq(Messages) /\ asked \in Seq(Requests) /\ upheavals \in 0 .. MaxUpheavals
        /\ mixer \in MixerType /\ ignored \subseteq Sinks /\ MaxUpheavals \in Nat
    BY DEF MixerInv, MixerQueues, MixerShape, MixerTypeOK, MixerAssumption
  <1>3. /\ MixerShape /\ SinksApart /\ LostIsTold /\ PresentIsTold /\ DefaultIsTold
        /\ DefaultNamed(mixer) /\ ListsInOrder /\ ListsAreCounted
    BY DEF MixerInv
  <1>4. CASE mixer.context # "ready"
    <2>1. inbox' = inbox /\ inbox = <<>> /\ asked = <<>>
      BY <1>1, <1>3, <1>4 DEF MixerShape
    <2>2. MixerShape'
      BY <1>1, <1>2, <1>3, <2>1 DEF MixerShape, MixerTypeOK
    <2>3. MixerQueues'
      BY <1>1, <1>2, <2>1 DEF MixerQueues
    <2>4. SinksApart'
      BY <1>1, <1>3, <2>1 DEF SinksApart
    <2>5. LostIsTold' /\ PresentIsTold' /\ DefaultIsTold'
      BY <1>1, <1>4 DEF LostIsTold, PresentIsTold, DefaultIsTold
    <2>6. DefaultNamed(mixer')
      BY <1>1, <1>3
    <2>7. ListsInOrder' /\ ListsAreCounted'
      BY <1>1, <1>3, <2>1 DEF ListsInOrder, ListsAreCounted
    <2> QED BY <2>2, <2>3, <2>4, <2>5, <2>6, <2>7 DEF MixerInv
  <1>5. CASE mixer.context = "ready"
    <2>1. inbox' = Append(inbox, message)
      BY <1>1, <1>5
    <2>2. /\ message.kind \in Events /\ inbox' \in Seq(Messages)
          /\ Len(inbox') = Len(inbox) + 1 /\ Len(inbox) \in Nat
          /\ \A i \in 1 .. Len(inbox) : inbox'[i] = inbox[i]
          /\ inbox'[Len(inbox) + 1] = message
      BY <1>2, <2>1, BoxAppend DEF Events
    <2>3. MixerShape'
      BY <1>1, <1>2, <1>3, <1>5 DEF MixerShape, MixerTypeOK
    <2>4. MixerQueues'
      BY <1>1, <1>2, <2>2 DEF MixerQueues
    <2>5. SinksApart'
      <3>1. \A s, t \in Sinks : s # t /\ SinkName[s] = SinkName[t] => TakenBefore(mixer.sinks, inbox', s, t)
        BY <1>2, <1>3, <2>1, <2>2, EventAppend DEF SinksApart
      <3> QED BY <1>1, <3>1 DEF SinksApart
    <2>6. LostIsTold'
      <3> SUFFICES ASSUME NEW s \in Sinks, s \notin server.sinks PROVE TakenAway(mixer.sinks, inbox', s)
        BY <1>1 DEF LostIsTold
      <3>1. CASE s \notin soundServer.sinks
        <4>1. TakenAway(mixer.sinks, inbox, s)
          BY <1>3, <1>5, <3>1 DEF LostIsTold
        <4> QED BY <1>2, <2>1, <2>2, <4>1, EventAppend
      <3>2. CASE message.kind = "removed" /\ s \in message.of
        BY <1>2, <2>1, <3>2, AppendTakes
      <3> QED BY <3>1, <3>2
    <2>7. PresentIsTold'
      <3> SUFFICES ASSUME NEW s \in server.sinks
                   PROVE  \/ WillAsk(s)'
                          \/ LastIsTrue(mixer.sinks, inbox', s, ignored, mixer.muted, server.muted)
        BY <1>1 DEF PresentIsTold
      <3>1. CASE message.kind = "changed" /\ s \in message.of
        <4>1. Len(inbox) + 1 \in 1 .. Len(inbox')
          BY <2>2
        <4> QED BY <2>2, <3>1, <4>1 DEF WillAsk
      <3>2. CASE /\ s \in soundServer.sinks /\ ~IsAbout(message, s)
                 /\ s \in server.muted <=> s \in soundServer.muted
        <4>1. CASE WillAsk(s)
          <5>1. \A i \in 1 .. Len(inbox) : i \in 1 .. Len(inbox')
            BY <2>2
          <5> QED BY <1>1, <2>2, <4>1, <5>1 DEF WillAsk
        <4>2. CASE LastIsTrue(mixer.sinks, inbox, s, ignored, mixer.muted, soundServer.muted)
          <5>1. LastIsTrue(mixer.sinks, inbox', s, ignored, mixer.muted, soundServer.muted)
            BY <1>2, <2>1, <2>2, <3>2, <4>2, EventAppend
          <5> QED BY <3>2, <5>1 DEF LastIsTrue, AsAtServer
        <4> QED BY <1>3, <1>5, <3>2, <4>1, <4>2 DEF PresentIsTold
      <3> QED BY <3>1, <3>2
    <2>8. DefaultIsTold'
      <3>1. CASE message.kind = "changed" /\ message.of = {}
        <4>1. Len(inbox) + 1 \in 1 .. Len(inbox')
          BY <2>2
        <4> QED BY <2>2, <3>1, <4>1 DEF DefaultIsTold, WillAskDefault
      <3>2. CASE server.default = soundServer.default
        <4>1. CASE WillAskDefault
          <5>1. \A i \in 1 .. Len(inbox) : i \in 1 .. Len(inbox')
            BY <2>2
          <5> QED BY <1>1, <2>2, <4>1, <5>1 DEF WillAskDefault, DefaultIsTold
        <4>2. CASE NameIsTrue(mixer.defaultName, inbox, soundServer.default)
          <5>1. NameIsTrue(mixer.defaultName, inbox', soundServer.default)
            BY <1>2, <2>1, <2>2, <4>2, EventAppend
          <5> QED BY <1>1, <3>2, <5>1 DEF DefaultIsTold
        <4> QED BY <1>3, <1>5, <4>1, <4>2 DEF DefaultIsTold
      <3> QED BY <3>1, <3>2
    <2>9. DefaultNamed(mixer')
      BY <1>1, <1>3
    <2>10. ListsInOrder' /\ ListsAreCounted'
      <3>1. InOrder(inbox') /\ Ahead(inbox', asked) /\ Counted(inbox', mixer.state, mixer.outstanding)
        BY <1>2, <1>3, <2>1, <2>2, EventAppend DEF ListsInOrder, ListsAreCounted
      <3> QED BY <1>1, <1>3, <3>1 DEF ListsInOrder, ListsAreCounted
    <2> QED BY <2>3, <2>4, <2>5, <2>6, <2>7, <2>8, <2>9, <2>10 DEF MixerInv
  <1> QED BY <1>4, <1>5

\* A sink comes, goes or is muted, or the default is another: the change is told.
LEMMA ServerSteps ==
  ASSUME MixerAssumption, MixerInv,
         \/ \E s \in Sinks : SinkPlugged(s) \/ SinkUnplugged(s) \/ SinkMuted(s)
         \/ \E n \in Names : DefaultChosen(n)
  PROVE  MixerInv'
  <1>1. /\ soundServer \in [sinks : SUBSET Sinks, muted : SUBSET Sinks, default : Names]
        /\ UniqueNames(soundServer.sinks)
    BY DEF MixerInv, MixerShape, MixerTypeOK, ServerType
  <1>2. ASSUME NEW kind \in {"removed", "changed"}, NEW of \in SUBSET Sinks, NEW m, m = Message(kind, of, FALSE, TRUE),
               kind = "removed" => \E s \in Sinks : of = {s}
        PROVE  m \in Messages /\ m.kind = kind /\ m.of = of
    BY <1>2 DEF Message, Messages, Events
  <1>3. ASSUME NEW s \in Sinks, SinkPlugged(s) PROVE MixerInv'
    <2>1. PICK m : m = Message("changed", {s}, FALSE, TRUE)
      OBVIOUS
    <2>2. m \in Messages /\ m.kind = "changed" /\ m.of = {s}
      <3>1. {s} \in SUBSET Sinks /\ \E x \in Sinks : {s} = {x}
        OBVIOUS
      <3> QED BY <1>2, <2>1, <3>1, ZenonT(60)
    <2>3. PICK server : server = [soundServer EXCEPT !.sinks = soundServer.sinks \cup {s}]
      OBVIOUS
    <2>4. /\ server \in ServerType /\ server.sinks = soundServer.sinks \cup {s}
          /\ server.muted = soundServer.muted /\ server.default = soundServer.default
      BY <1>1, <2>3 DEF ServerType
    <2>5. ServerChanges(server, m) /\ UniqueNames(server.sinks)
      BY <1>1, <1>3, <2>1, <2>3, <2>4 DEF SinkPlugged
    <2> QED BY <2>2, <2>4, <2>5, ChangeKeeps DEF IsAbout
  <1>4. ASSUME NEW s \in Sinks, SinkUnplugged(s) PROVE MixerInv'
    <2>1. PICK m : m = Message("removed", {s}, FALSE, TRUE)
      OBVIOUS
    <2>2. m \in Messages /\ m.kind = "removed" /\ m.of = {s}
      <3>1. {s} \in SUBSET Sinks /\ \E x \in Sinks : {s} = {x}
        OBVIOUS
      <3> QED BY <1>2, <2>1, <3>1, Zenon
    <2>3. PICK server : server = [soundServer EXCEPT !.sinks = soundServer.sinks \ {s}, !.muted = soundServer.muted \ {s}]
      OBVIOUS
    <2>4. /\ server \in ServerType /\ server.sinks = soundServer.sinks \ {s}
          /\ server.muted = soundServer.muted \ {s} /\ server.default = soundServer.default
      BY <1>1, <2>3 DEF ServerType
    <2>5. ServerChanges(server, m) /\ UniqueNames(server.sinks)
      BY <1>1, <1>4, <2>1, <2>3, <2>4 DEF SinkUnplugged, UniqueNames
    <2> QED BY <2>2, <2>4, <2>5, ChangeKeeps DEF IsAbout
  <1>5. ASSUME NEW s \in Sinks, SinkMuted(s) PROVE MixerInv'
    <2>1. PICK m : m = Message("changed", {s}, FALSE, TRUE)
      OBVIOUS
    <2>2. m \in Messages /\ m.kind = "changed" /\ m.of = {s}
      <3>1. {s} \in SUBSET Sinks /\ \E x \in Sinks : {s} = {x}
        OBVIOUS
      <3> QED BY <1>2, <2>1, <3>1, ZenonT(60)
    <2>3. PICK server : server = [soundServer EXCEPT !.muted = soundServer.muted \cup {s}]
      OBVIOUS
    <2>4. /\ server \in ServerType /\ server.sinks = soundServer.sinks
          /\ server.muted = soundServer.muted \cup {s} /\ server.default = soundServer.default
      BY <1>1, <2>3 DEF ServerType
    <2>5. ServerChanges(server, m) /\ UniqueNames(server.sinks)
      BY <1>1, <1>5, <2>1, <2>3, <2>4 DEF SinkMuted
    <2> QED BY <2>2, <2>4, <2>5, ChangeKeeps DEF IsAbout
  <1>6. ASSUME NEW n \in Names, DefaultChosen(n) PROVE MixerInv'
    <2>1. PICK m : m = Message("changed", {}, FALSE, TRUE)
      OBVIOUS
    <2>2. m \in Messages /\ m.kind = "changed" /\ m.of = {}
      BY <1>2, <2>1
    <2>3. PICK server : server = [soundServer EXCEPT !.default = n]
      OBVIOUS
    <2>4. /\ server \in ServerType /\ server.sinks = soundServer.sinks
          /\ server.muted = soundServer.muted /\ server.default = n
      BY <1>1, <2>3 DEF ServerType
    <2>5. ServerChanges(server, m) /\ UniqueNames(server.sinks)
      BY <1>1, <1>6, <2>1, <2>3, <2>4 DEF DefaultChosen
    <2> QED BY <2>2, <2>4, <2>5, ChangeKeeps DEF IsAbout
  <1> QED BY <1>3, <1>4, <1>5, <1>6

-----------------------------------------------------------------------------
\* The connection: what is known is forgotten before all is asked for again.
LEMMA ConnectionSteps ==
  ASSUME MixerAssumption, MixerInv, Open \/ (\E restore \in BOOLEAN : Ready(restore)) \/ ContextFails \/ Reconnect
  PROVE  MixerInv'
  <1>1. /\ inbox \in Seq(Messages) /\ asked \in Seq(Requests) /\ upheavals \in 0 .. MaxUpheavals
        /\ mixer \in MixerType /\ ignored \subseteq Sinks /\ MaxUpheavals \in Nat
        /\ soundServer \in ServerType /\ UniqueNames(soundServer.sinks)
    BY DEF MixerInv, MixerQueues, MixerShape, MixerTypeOK, MixerAssumption
  <1>2. /\ MixerShape /\ SinksApart /\ LostIsTold /\ PresentIsTold /\ DefaultIsTold
        /\ DefaultNamed(mixer) /\ ListsInOrder /\ ListsAreCounted
    BY DEF MixerInv
  <1>3. <<>> \in Seq(Messages) /\ <<>> \in Seq(Requests) /\ Len(<<>>) = 0
    OBVIOUS
  <1>4. \A known, s : known = {} => TakenAway(known, <<>>, s)
    BY <1>3 DEF TakenAway, Has
  <1>5. \A known, s, t : known = {} => TakenBefore(known, <<>>, s, t)
    BY <1>3 DEF TakenBefore, Has
  <1>6. /\ InOrder(<<>>) /\ \A q : Ahead(<<>>, q)
        /\ \A box : Ahead(box, <<>>)
        /\ \A state, outstanding : Counted(<<>>, state, outstanding)
    BY <1>3 DEF InOrder, Ahead, Counted
  <1>7. CASE Open
    <2>1. /\ mixer.context = "unconnected" /\ ~mixer.reconnect
          /\ mixer' = [mixer EXCEPT !.context = "connecting", !.state = "CONNECTING"]
          /\ UNCHANGED <<soundServer, asked, inbox, ignored, upheavals>>
      BY <1>7 DEF Open
    <2>2. /\ mixer' \in MixerType /\ mixer'.context = "connecting" /\ mixer'.state = "CONNECTING"
          /\ mixer'.sinks = mixer.sinks /\ mixer'.defaultSink = mixer.defaultSink
          /\ mixer'.defaultName = mixer.defaultName /\ ~mixer'.reconnect
      BY <1>1, <2>1 DEF MixerType
    <2>3. mixer.sinks = {} /\ asked = <<>> /\ inbox = <<>>
      BY <1>2, <2>1 DEF MixerShape
    <2>4. MixerShape' /\ MixerQueues'
      BY <1>1, <2>1, <2>2, <2>3 DEF MixerShape, MixerQueues, MixerTypeOK
    <2>5. SinksApart'
      BY <1>2, <2>1, <2>2 DEF SinksApart
    <2>6. LostIsTold' /\ PresentIsTold' /\ DefaultIsTold'
      BY <2>2 DEF LostIsTold, PresentIsTold, DefaultIsTold
    <2>7. DefaultNamed(mixer')
      BY <1>2, <2>2 DEF DefaultNamed
    <2>8. ListsInOrder' /\ ListsAreCounted'
      BY <1>6, <2>1, <2>3 DEF ListsInOrder, ListsAreCounted
    <2> QED BY <2>4, <2>5, <2>6, <2>7, <2>8 DEF MixerInv
  <1>8. ASSUME NEW restore \in BOOLEAN, Ready(restore) PROVE MixerInv'
    <2>1. PICK n \in {6, 7} :
            /\ mixer.context = "connecting" /\ mixer' = [mixer EXCEPT !.context = "ready", !.outstanding = n]
            /\ UNCHANGED <<soundServer, inbox, ignored, upheavals>>
      BY <1>8, Zenon DEF Ready
    <2>2. /\ mixer' \in MixerType /\ mixer'.context = "ready" /\ mixer'.state = mixer.state
          /\ mixer'.outstanding = n /\ mixer'.sinks = mixer.sinks
          /\ mixer'.defaultSink = mixer.defaultSink /\ mixer'.defaultName = mixer.defaultName
          /\ mixer'.reconnect = mixer.reconnect
      <3>1. n \in 0 .. 7
        OBVIOUS
      <3> QED BY <1>1, <2>1, <3>1 DEF MixerType
    <2>3. /\ mixer.sinks = {} /\ asked = <<>> /\ inbox = <<>> /\ mixer.state # "READY"
          /\ ~mixer.reconnect
      BY <1>2, <2>1 DEF MixerShape
    <2>4. asked' = [i \in DOMAIN Lists |-> Request(Lists[i], Sinks, TRUE)]
                   \o (IF restore THEN <<Request("restore", Sinks, TRUE)>> ELSE <<>>)
      BY <1>8, Zenon DEF Ready
    <2>5. /\ asked' \in Seq(Requests) /\ Len(asked') \in {7, 8}
          /\ \A i \in 1 .. Len(asked') : asked'[i].list /\ asked'[i].of = Sinks /\ Rank[asked'[i].kind] = i
          /\ asked'[1].kind = "server" /\ asked'[3].kind = "sink"
      BY <2>4, ReadyAsks, Zenon
    <2>6. 1 \in 1 .. Len(asked') /\ 3 \in 1 .. Len(asked')
      BY <2>5
    <2>7. MixerShape' /\ MixerQueues'
      BY <1>1, <2>1, <2>2, <2>3, <2>5 DEF MixerShape, MixerQueues, MixerTypeOK
    <2>8. SinksApart' /\ LostIsTold'
      BY <1>4, <1>5, <2>1, <2>2, <2>3 DEF SinksApart, LostIsTold
    <2>9. PresentIsTold'
      <3> SUFFICES ASSUME NEW s \in soundServer.sinks PROVE WillAsk(s)'
        BY <2>1 DEF PresentIsTold
      <3>1. s \in Sinks
        BY <1>1 DEF ServerType
      <3> QED BY <2>5, <2>6, <3>1 DEF WillAsk
    <2>10. DefaultIsTold'
      BY <2>5, <2>6 DEF DefaultIsTold, WillAskDefault
    <2>11. DefaultNamed(mixer')
      BY <1>2, <2>2 DEF DefaultNamed
    <2>12. ListsInOrder'
      <3>1. InOrder(asked')
        BY <2>5 DEF InOrder, InTurn
      <3> QED BY <1>6, <2>1, <2>3, <3>1 DEF ListsInOrder
    <2>13. ListsAreCounted'
      <3>1. Counted(asked', mixer'.state, mixer'.outstanding)
        <4> SUFFICES ASSUME NEW i \in 1 .. Len(asked')
                     PROVE  mixer'.state # "READY" /\ mixer'.outstanding >= 7 - Rank[asked'[i].kind]
          BY DEF Counted
        <4>1. Rank[asked'[i].kind] = i
          BY <2>5
        <4>2. mixer'.outstanding = n /\ mixer'.state # "READY"
          BY <2>2, <2>3
        <4>3. n >= 7 - i
          BY <2>5
        <4> QED BY <4>1, <4>2, <4>3
      <3> QED BY <1>6, <2>1, <2>3, <3>1 DEF ListsAreCounted
    <2> QED BY <2>7, <2>8, <2>9, <2>10, <2>11, <2>12, <2>13 DEF MixerInv
  <1>9. CASE ContextFails
    <2>1. /\ mixer' = [mixer EXCEPT !.context = "failed", !.state = "FAILED", !.reconnect = TRUE, !.pushing = {}]
          /\ asked' = <<>> /\ inbox' = <<>> /\ upheavals' = upheavals + 1 /\ upheavals < MaxUpheavals
          /\ UNCHANGED <<soundServer, ignored>>
      BY <1>9 DEF ContextFails
    <2>2. /\ mixer' \in MixerType /\ mixer'.context = "failed"
          /\ mixer'.sinks = mixer.sinks /\ mixer'.defaultSink = mixer.defaultSink
          /\ mixer'.defaultName = mixer.defaultName
      BY <1>1, <2>1 DEF MixerType
    <2>3. MixerShape' /\ MixerQueues'
      BY <1>1, <1>3, <2>1, <2>2 DEF MixerShape, MixerQueues, MixerTypeOK
    <2>4. SinksApart'
      <3>1. UniqueNames(mixer.sinks)
        BY <1>2, KnownAreUnique DEF MixerInv
      <3>2. mixer'.sinks = mixer.sinks /\ inbox' = <<>>
        BY <2>1, <2>2
      <3> SUFFICES ASSUME NEW s \in Sinks, NEW t \in Sinks, s # t, SinkName[s] = SinkName[t]
                   PROVE  TakenBefore(mixer.sinks, <<>>, s, t)
        BY <3>2 DEF SinksApart
      <3>3. ~(s \in mixer.sinks /\ t \in mixer.sinks)
        BY <3>1 DEF UniqueNames
      <3> QED BY <1>3, <3>3 DEF TakenBefore, Has
    <2>5. LostIsTold' /\ PresentIsTold' /\ DefaultIsTold'
      BY <2>2 DEF LostIsTold, PresentIsTold, DefaultIsTold
    <2>6. DefaultNamed(mixer')
      BY <1>2, <2>2 DEF DefaultNamed
    <2>7. ListsInOrder' /\ ListsAreCounted'
      BY <1>6, <2>1 DEF ListsInOrder, ListsAreCounted
    <2> QED BY <2>3, <2>4, <2>5, <2>6, <2>7 DEF MixerInv
  <1>10. CASE Reconnect
    <2>1. /\ mixer' = [mixer EXCEPT !.reconnect = FALSE, !.context = "connecting", !.state = "CONNECTING",
                                    !.sinks = {}, !.muted = {}, !.pushing = {}, !.defaultSink = NoSink]
          /\ ignored' = {} /\ UNCHANGED <<soundServer, asked, inbox, upheavals>>
      BY <1>10 DEF Reconnect
    <2>2. /\ mixer' \in MixerType /\ mixer'.context = "connecting" /\ mixer'.state = "CONNECTING"
          /\ mixer'.sinks = {} /\ mixer'.defaultSink = NoSink /\ ~mixer'.reconnect
      BY <1>1, <2>1 DEF MixerType
    <2>3. asked = <<>> /\ inbox = <<>>
      BY <1>2, <1>10 DEF MixerShape, Reconnect
    <2>4. MixerShape' /\ MixerQueues'
      BY <1>1, <2>1, <2>2, <2>3 DEF MixerShape, MixerQueues, MixerTypeOK
    <2>5. SinksApart'
      BY <1>5, <2>1, <2>2, <2>3 DEF SinksApart
    <2>6. LostIsTold' /\ PresentIsTold' /\ DefaultIsTold'
      BY <2>2 DEF LostIsTold, PresentIsTold, DefaultIsTold
    <2>7. DefaultNamed(mixer')
      BY <2>2 DEF DefaultNamed
    <2>8. ListsInOrder' /\ ListsAreCounted'
      BY <1>6, <2>1, <2>3 DEF ListsInOrder, ListsAreCounted
    <2> QED BY <2>4, <2>5, <2>6, <2>7, <2>8 DEF MixerInv
  <1> QED BY <1>7, <1>8, <1>9, <1>10

-----------------------------------------------------------------------------
\* A request that is added leaves the rest as it is.
LEMMA RequestAdded ==
  ASSUME MixerAssumption, MixerInv, mixer.context = "ready", NEW r \in Requests, ~r.list,
         asked' = Append(asked, r), UNCHANGED <<soundServer, ignored>>,
         mixer' \in MixerType, inbox' \in Seq(Messages), upheavals' \in 0 .. MaxUpheavals,
         mixer'.context = "ready", mixer'.state = mixer.state, mixer'.reconnect = mixer.reconnect,
         mixer'.outstanding = mixer.outstanding, mixer'.sinks = mixer.sinks, mixer'.muted = mixer.muted,
         mixer'.defaultName = mixer.defaultName, mixer'.defaultSink = mixer.defaultSink,
         \/ inbox' = inbox
         \/ /\ inbox # <<>> /\ inbox' = Tail(inbox) /\ inbox[1].kind = "changed"
            /\ IF inbox[1].of = {} THEN r.kind = "server" ELSE r.kind = "sink" /\ r.of = inbox[1].of
  PROVE  MixerInv'
  <1>1. /\ inbox \in Seq(Messages) /\ asked \in Seq(Requests)
        /\ soundServer \in ServerType /\ UniqueNames(soundServer.sinks) /\ ignored \subseteq Sinks
    BY DEF MixerInv, MixerQueues, MixerShape, MixerTypeOK
  <1>2. /\ MixerShape /\ SinksApart /\ LostIsTold /\ PresentIsTold /\ DefaultIsTold
        /\ DefaultNamed(mixer) /\ ListsInOrder /\ ListsAreCounted
    BY DEF MixerInv
  <1>3. /\ asked' \in Seq(Requests) /\ Len(asked') = Len(asked) + 1 /\ Len(asked) \in Nat
        /\ \A i \in 1 .. Len(asked) : asked'[i] = asked[i]
        /\ asked'[Len(asked) + 1] = r
    BY <1>1, BoxAppend
  <1>4. MixerShape' /\ MixerQueues'
    BY <1>1, <1>2, <1>3 DEF MixerShape, MixerQueues, MixerTypeOK
  <1>5. DefaultNamed(mixer')
    BY <1>2 DEF DefaultNamed
  <1>6. \A b : \A i \in 1 .. Len(b) : InTurn(b[i], r)
    BY DEF InTurn
  <1>7. InOrder(asked') /\ Counted(asked', mixer.state, mixer.outstanding)
    BY <1>1, <1>2, <1>6, AppendOrder, AppendCounted DEF ListsInOrder, ListsAreCounted
  <1>9. CASE inbox' = inbox
    <2>1. SinksApart' /\ LostIsTold'
      BY <1>2, <1>9 DEF SinksApart, LostIsTold
    <2>2. \A s : WillAsk(s) => WillAsk(s)'
      <3>1. \A i \in 1 .. Len(asked) : i \in 1 .. Len(asked')
        BY <1>3
      <3> QED BY <1>3, <1>9, <3>1 DEF WillAsk
    <2>3. PresentIsTold'
      <3> SUFFICES ASSUME NEW s \in soundServer.sinks
                   PROVE  \/ WillAsk(s)'
                          \/ LastIsTrue(mixer.sinks, inbox, s, ignored, mixer.muted, soundServer.muted)
        BY <1>9 DEF PresentIsTold
      <3> QED BY <1>2, <2>2 DEF PresentIsTold
    <2>4. DefaultIsTold'
      <3>1. \A i \in 1 .. Len(asked) : i \in 1 .. Len(asked')
        BY <1>3
      <3>2. WillAskDefault => WillAskDefault'
        BY <1>3, <1>9, <3>1 DEF WillAskDefault
      <3> QED BY <1>2, <1>9, <3>2 DEF DefaultIsTold
    <2>5. ListsInOrder' /\ ListsAreCounted'
      <3>1. Ahead(inbox, asked')
        BY <1>1, <1>2, <1>6, AppendBehind DEF ListsInOrder
      <3> QED BY <1>2, <1>7, <1>9, <3>1 DEF ListsInOrder, ListsAreCounted
    <2> QED BY <1>4, <1>5, <2>1, <2>3, <2>4, <2>5 DEF MixerInv
  <1>10. CASE /\ inbox # <<>> /\ inbox' = Tail(inbox) /\ inbox[1].kind = "changed"
              /\ IF inbox[1].of = {} THEN r.kind = "server" ELSE r.kind = "sink" /\ r.of = inbox[1].of
    <2>1. /\ Len(inbox') = Len(inbox) - 1 /\ Len(inbox) \in Nat \ {0}
          /\ \A i \in 1 .. Len(inbox') : inbox'[i] = inbox[i + 1]
      BY <1>1, <1>10, BoxTail
    <2>2. \A s : ~Adds(inbox[1], s) /\ ~Takes(inbox, 1, s) /\ ~IsAbout(inbox[1], s)
      BY <1>10 DEF Adds, Takes, IsAbout
    <2>3. SinksApart'
      <3> SUFFICES ASSUME NEW s \in Sinks, NEW t \in Sinks, s # t, SinkName[s] = SinkName[t]
                   PROVE  TakenBefore(mixer.sinks, inbox', s, t)
        BY DEF SinksApart
      <3>1. TakenBefore(mixer.sinks, inbox, s, t) /\ TakenBefore(mixer.sinks, inbox, t, s)
        BY <1>2 DEF SinksApart
      <3> QED BY <1>1, <1>10, <2>2, <3>1, TailBefore
    <2>4. LostIsTold'
      <3> SUFFICES ASSUME NEW s \in Sinks, s \notin soundServer.sinks PROVE TakenAway(mixer.sinks, inbox', s)
        BY DEF LostIsTold
      <3>1. TakenAway(mixer.sinks, inbox, s)
        BY <1>2 DEF LostIsTold
      <3> QED BY <1>1, <1>10, <2>2, <3>1, TailAway
    <2>5. Len(asked) + 1 \in 1 .. Len(asked') /\ \A i \in 1 .. Len(asked) : i \in 1 .. Len(asked')
      BY <1>3
    <2>6. \A s : WillAsk(s) => WillAsk(s)'
      <3> SUFFICES ASSUME NEW s, WillAsk(s) PROVE WillAsk(s)'
        OBVIOUS
      <3>1. CASE \E i \in 1 .. Len(asked) : asked[i].kind = "sink" /\ s \in asked[i].of
        BY <1>3, <2>5, <3>1 DEF WillAsk
      <3>2. ASSUME NEW i \in 1 .. Len(inbox), inbox[i].kind = "changed", s \in inbox[i].of PROVE WillAsk(s)'
        <4>1. CASE i = 1
          BY <1>3, <1>10, <2>5, <3>2, <4>1 DEF WillAsk
        <4>2. CASE i # 1
          <5>1. i - 1 \in 1 .. Len(inbox') /\ inbox'[i - 1] = inbox[i]
            BY <2>1, <4>2
          <5> QED BY <3>2, <5>1 DEF WillAsk
        <4> QED BY <4>1, <4>2
      <3> QED BY <3>1, <3>2 DEF WillAsk
    <2>7. PresentIsTold'
      <3> SUFFICES ASSUME NEW s \in soundServer.sinks
                   PROVE  \/ WillAsk(s)'
                          \/ LastIsTrue(mixer.sinks, inbox', s, ignored, mixer.muted, soundServer.muted)
        BY DEF PresentIsTold
      <3>1. CASE WillAsk(s)
        BY <2>6, <3>1
      <3>2. CASE LastIsTrue(mixer.sinks, inbox, s, ignored, mixer.muted, soundServer.muted)
        BY <1>1, <1>10, <2>2, <3>2, TailTrue
      <3> QED BY <1>2, <3>1, <3>2 DEF PresentIsTold
    <2>8. DefaultIsTold'
      <3>1. CASE \E i \in 1 .. Len(asked) : asked[i].kind = "server"
        BY <1>3, <2>5, <3>1 DEF DefaultIsTold, WillAskDefault
      <3>2. ASSUME NEW i \in 1 .. Len(inbox), inbox[i].kind = "changed", inbox[i].of = {} PROVE DefaultIsTold'
        <4>1. CASE i = 1
          BY <1>3, <1>10, <2>5, <3>2, <4>1 DEF DefaultIsTold, WillAskDefault
        <4>2. CASE i # 1
          <5>1. i - 1 \in 1 .. Len(inbox') /\ inbox'[i - 1] = inbox[i]
            BY <2>1, <4>2
          <5> QED BY <3>2, <5>1 DEF DefaultIsTold, WillAskDefault
        <4> QED BY <4>1, <4>2
      <3>3. CASE NameIsTrue(mixer.defaultName, inbox, soundServer.default)
        <4>1. NameIsTrue(mixer.defaultName, inbox', soundServer.default)
          BY <1>1, <1>10, <3>3, TailName
        <4> QED BY <4>1 DEF DefaultIsTold
      <3> QED BY <1>2, <3>1, <3>2, <3>3 DEF DefaultIsTold, WillAskDefault
    <2>9. ListsInOrder' /\ ListsAreCounted'
      <3>1. InOrder(inbox') /\ Ahead(inbox', asked) /\ Counted(inbox', mixer.state, mixer.outstanding)
        BY <1>1, <1>2, <1>10, TailOrder, TailAhead, TailCounted DEF ListsInOrder, ListsAreCounted
      <3>2. Ahead(inbox', asked')
        BY <1>1, <1>6, <3>1, AppendBehind
      <3> QED BY <1>7, <3>1, <3>2 DEF ListsInOrder, ListsAreCounted
    <2> QED BY <1>4, <1>5, <2>3, <2>4, <2>7, <2>8, <2>9 DEF MixerInv
  <1> QED BY <1>9, <1>10

\* What is on its way is there only while the control is connected.
LEMMA BusyIsReady ==
  ASSUME MixerInv, asked # <<>> \/ inbox # <<>>
  PROVE  mixer.context = "ready" /\ ~mixer.reconnect
  BY DEF MixerInv, MixerShape

\* A volume is pushed.
LEMMA PushVolumeStep ==
  ASSUME MixerAssumption, MixerInv, NEW s \in Sinks, PushVolume(s)
  PROVE  MixerInv'
  <1>1. PICK r : r = Request("volume", {s}, FALSE)
    OBVIOUS
  <1>2. r \in Requests /\ ~r.list
    BY <1>1 DEF Request, Requests, ListKinds
  <1>3. /\ mixer.context = "ready" /\ mixer' = [mixer EXCEPT !.pushing = mixer.pushing \cup {s}]
        /\ asked' = Append(asked, r) /\ upheavals < MaxUpheavals /\ upheavals' = upheavals + 1
        /\ UNCHANGED <<soundServer, inbox, ignored>>
    BY <1>1 DEF PushVolume, MixerInv, MixerShape, MixerTypeOK, MixerType
  <1>4. /\ mixer \in MixerType /\ inbox \in Seq(Messages) /\ upheavals \in 0 .. MaxUpheavals
        /\ MaxUpheavals \in Nat
    BY DEF MixerInv, MixerQueues, MixerShape, MixerTypeOK, MixerAssumption
  <1>5. /\ mixer' \in MixerType /\ mixer'.context = "ready"
        /\ mixer'.state = mixer.state /\ mixer'.reconnect = mixer.reconnect
        /\ mixer'.outstanding = mixer.outstanding /\ mixer'.sinks = mixer.sinks /\ mixer'.muted = mixer.muted
        /\ mixer'.defaultName = mixer.defaultName /\ mixer'.defaultSink = mixer.defaultSink
    BY <1>3, <1>4 DEF MixerType
  <1>6. inbox' \in Seq(Messages) /\ upheavals' \in 0 .. MaxUpheavals /\ inbox' = inbox
    BY <1>3, <1>4
  <1> QED BY <1>2, <1>3, <1>5, <1>6, RequestAdded

\* A message is taken that asks for nothing; now is what the control has after it.
LEMMA MessageTaken ==
  ASSUME MixerAssumption, MixerInv, inbox # <<>>, inbox' = Tail(inbox), inbox[1].kind # "changed",
         UNCHANGED <<soundServer, asked, upheavals>>, ignored' \subseteq Sinks,
         mixer' \in MixerType, mixer'.context = "ready", ~mixer'.reconnect, DefaultNamed(mixer'),
         \A s \in Sinks : s \in mixer'.sinks =>
           Adds(inbox[1], s) \/ (s \in mixer.sinks /\ ~Takes(inbox, 1, s)),
         \A s \in Sinks : Adds(inbox[1], s) =>
           s \in mixer'.sinks /\ (s \in ignored' \/ (s \in mixer'.muted <=> s \in inbox[1].muted)),
         \A s \in Sinks : ~IsAbout(inbox[1], s) =>
           /\ s \in mixer'.sinks <=> s \in mixer.sinks
           /\ s \in mixer'.muted <=> s \in mixer.muted
           /\ s \in ignored' <=> s \in ignored,
         IF inbox[1].kind = "server" THEN mixer'.defaultName = inbox[1].default
         ELSE mixer'.defaultName = mixer.defaultName,
         \/ mixer'.state = mixer.state /\ mixer'.outstanding = mixer.outstanding
         \/ /\ inbox[1].kind \notin Events
            /\ mixer'.outstanding = (IF mixer.outstanding = 0 THEN 0 ELSE mixer.outstanding - 1)
            /\ mixer'.state = (IF mixer.outstanding = 1 THEN "READY" ELSE mixer.state)
  PROVE  MixerInv'
  <1>1. /\ inbox \in Seq(Messages) /\ asked \in Seq(Requests)
        /\ soundServer \in ServerType /\ UniqueNames(soundServer.sinks) /\ mixer \in MixerType
        /\ soundServer.sinks \subseteq Sinks
    BY DEF MixerInv, MixerQueues, MixerShape, MixerTypeOK, ServerType
  <1>2. /\ MixerShape /\ SinksApart /\ LostIsTold /\ PresentIsTold /\ DefaultIsTold
        /\ ListsInOrder /\ ListsAreCounted
    BY DEF MixerInv
  <1>3. /\ inbox' \in Seq(Messages) /\ Len(inbox') = Len(inbox) - 1 /\ Len(inbox) \in Nat \ {0}
        /\ \A i \in 1 .. Len(inbox') : inbox'[i] = inbox[i + 1]
    BY <1>1, BoxTail
  <1>4. mixer.context = "ready"
    BY BusyIsReady
  <1>5. MixerShape' /\ MixerQueues'
    BY <1>1, <1>2, <1>3 DEF MixerShape, MixerQueues, MixerTypeOK
  <1>6. SinksApart'
    <2> SUFFICES ASSUME NEW s \in Sinks, NEW t \in Sinks, s # t, SinkName[s] = SinkName[t]
                 PROVE  TakenBefore(mixer'.sinks, inbox', s, t)
      BY DEF SinksApart
    <2>1. TakenBefore(mixer.sinks, inbox, s, t) /\ TakenBefore(mixer.sinks, inbox, t, s)
      BY <1>2 DEF SinksApart
    <2>2. /\ s \in mixer'.sinks => Adds(inbox[1], s) \/ (s \in mixer.sinks /\ ~Takes(inbox, 1, s))
          /\ t \in mixer'.sinks => Adds(inbox[1], t) \/ (t \in mixer.sinks /\ ~Takes(inbox, 1, t))
      OBVIOUS
    <2>3. inbox \in Seq(Messages) /\ inbox # <<>> /\ inbox' = Tail(inbox)
      BY <1>1
    <2>4. PICK b, known, now : b = inbox' /\ known = mixer.sinks /\ now = mixer'.sinks
      OBVIOUS
    <2>5. TakenBefore(now, b, s, t)
      <3>1. inbox \in Seq(Messages) /\ inbox # <<>> /\ b = Tail(inbox)
        BY <2>3, <2>4
      <3>2. /\ s \in now => Adds(inbox[1], s) \/ (s \in known /\ ~Takes(inbox, 1, s))
            /\ t \in now => Adds(inbox[1], t) \/ (t \in known /\ ~Takes(inbox, 1, t))
            /\ TakenBefore(known, inbox, s, t) /\ TakenBefore(known, inbox, t, s)
        BY <2>1, <2>2, <2>4
      <3> QED BY <3>1, <3>2, TailBefore
    <2> QED BY <2>4, <2>5
  <1>7. LostIsTold'
    <2> SUFFICES ASSUME NEW s \in Sinks, s \notin soundServer.sinks PROVE TakenAway(mixer'.sinks, inbox', s)
      BY DEF LostIsTold
    <2>1. TakenAway(mixer.sinks, inbox, s)
      BY <1>2, <1>4 DEF LostIsTold
    <2> QED BY <1>1, <2>1, TailAway
  <1>8. PresentIsTold'
    <2> SUFFICES ASSUME NEW s \in soundServer.sinks
                 PROVE  \/ WillAsk(s)'
                        \/ LastIsTrue(mixer'.sinks, inbox', s, ignored', mixer'.muted, soundServer.muted)
      BY DEF PresentIsTold
    <2>1. CASE WillAsk(s)
      <3>1. CASE \E i \in 1 .. Len(asked) : asked[i].kind = "sink" /\ s \in asked[i].of
        BY <3>1 DEF WillAsk
      <3>2. ASSUME NEW i \in 1 .. Len(inbox), inbox[i].kind = "changed", s \in inbox[i].of PROVE WillAsk(s)'
        <4>1. i - 1 \in 1 .. Len(inbox') /\ inbox'[i - 1] = inbox[i]
          BY <1>3, <3>2
        <4> QED BY <3>2, <4>1 DEF WillAsk
      <3> QED BY <2>1, <3>1, <3>2 DEF WillAsk
    <2>2. CASE LastIsTrue(mixer.sinks, inbox, s, ignored, mixer.muted, soundServer.muted)
      <3>1. s \in Sinks
        BY <1>1
      <3>2. Adds(inbox[1], s) /\ (s \in inbox[1].muted <=> s \in soundServer.muted) =>
              s \in mixer'.sinks /\ AsAtServer(s, ignored', mixer'.muted, soundServer.muted)
        BY <3>1 DEF AsAtServer
      <3>3. ~IsAbout(inbox[1], s) /\ s \in mixer.sinks /\ AsAtServer(s, ignored, mixer.muted, soundServer.muted) =>
              s \in mixer'.sinks /\ AsAtServer(s, ignored', mixer'.muted, soundServer.muted)
        BY <3>1 DEF AsAtServer
      <3> QED BY <1>1, <2>2, <3>2, <3>3, TailTrue
    <2> QED BY <1>2, <1>4, <2>1, <2>2 DEF PresentIsTold
  <1>9. DefaultIsTold'
    <2>1. CASE \E i \in 1 .. Len(asked) : asked[i].kind = "server"
      BY <2>1 DEF DefaultIsTold, WillAskDefault
    <2>2. ASSUME NEW i \in 1 .. Len(inbox), inbox[i].kind = "changed", inbox[i].of = {} PROVE DefaultIsTold'
      <3>1. i - 1 \in 1 .. Len(inbox') /\ inbox'[i - 1] = inbox[i]
        BY <1>3, <2>2
      <3> QED BY <2>2, <3>1 DEF DefaultIsTold, WillAskDefault
    <2>3. CASE NameIsTrue(mixer.defaultName, inbox, soundServer.default)
      <3>1. NameIsTrue(mixer'.defaultName, inbox', soundServer.default)
        BY <1>1, <2>3, TailName
      <3> QED BY <3>1 DEF DefaultIsTold
    <2> QED BY <1>2, <1>4, <2>1, <2>2, <2>3 DEF DefaultIsTold, WillAskDefault
  <1>10. ListsInOrder'
    <2>1. InOrder(inbox') /\ Ahead(inbox', asked)
      BY <1>1, <1>2, TailOrder, TailAhead DEF ListsInOrder
    <2> QED BY <1>2, <2>1 DEF ListsInOrder
  <1>11. ListsAreCounted'
    <2>1. Counted(inbox', mixer.state, mixer.outstanding) /\ Counted(asked, mixer.state, mixer.outstanding)
      BY <1>1, <1>2, TailCounted DEF ListsAreCounted
    <2>2. CASE mixer'.state = mixer.state /\ mixer'.outstanding = mixer.outstanding
      BY <2>1, <2>2 DEF ListsAreCounted
    <2>3. CASE /\ inbox[1].kind \notin Events
               /\ mixer'.outstanding = (IF mixer.outstanding = 0 THEN 0 ELSE mixer.outstanding - 1)
               /\ mixer'.state = (IF mixer.outstanding = 1 THEN "READY" ELSE mixer.state)
      <3>1. /\ \A j \in 1 .. Len(inbox') : InTurn(inbox[1], inbox'[j])
            /\ \A j \in 1 .. Len(asked) : InTurn(inbox[1], asked[j])
        BY <1>1, <1>2, TailOrder, TailAhead DEF ListsInOrder
      <3>2. inbox[1] \in Messages /\ inbox[1].kind \in ListKinds \cup Events /\ Rank[inbox[1].kind] \in 1 .. 8
        <4>1. inbox[1] \in Messages
          BY <1>1, <1>3, BoxTail
        <4>2. inbox[1].kind \in ListKinds \cup Events
          BY <4>1 DEF Messages
        <4> QED BY <2>3, <4>1, <4>2, RankIsNumber
      <3>3. inbox[1].list /\ Rank[inbox[1].kind] <= 6 =>
              mixer.state # "READY" /\ mixer.outstanding >= 7 - Rank[inbox[1].kind]
        BY <1>2, <1>3 DEF ListsAreCounted, Counted
      <3>4. mixer.outstanding \in 0 .. 7
        BY <1>1 DEF MixerType
      <3>5. ASSUME NEW m, InTurn(inbox[1], m), m.list, Rank[m.kind] <= 6, m.kind \in ListKinds
            PROVE  mixer'.state # "READY" /\ mixer'.outstanding >= 7 - Rank[m.kind]
        <4>1. inbox[1].list /\ Rank[inbox[1].kind] < Rank[m.kind]
          BY <2>3, <3>5 DEF InTurn
        <4>2. Rank[m.kind] \in 1 .. 8
          BY <3>5, RankIsNumber
        <4>3. Rank[inbox[1].kind] <= 5
          BY <3>2, <3>5, <4>1, <4>2
        <4>4. mixer.state # "READY" /\ mixer.outstanding >= 7 - Rank[inbox[1].kind]
          BY <3>2, <3>3, <4>1, <4>3
        <4>5. mixer.outstanding >= 2
          BY <3>2, <3>4, <4>3, <4>4
        <4>6. mixer'.state = mixer.state /\ mixer'.outstanding = mixer.outstanding - 1
          BY <2>3, <3>4, <4>5
        <4> QED BY <3>2, <3>4, <4>1, <4>2, <4>4, <4>6
      <3>6. Counted(inbox', mixer'.state, mixer'.outstanding)
        <4>1. \A i \in 1 .. Len(inbox') : inbox'[i].list => inbox'[i].kind \in ListKinds
          BY <1>3 DEF Messages
        <4> QED BY <3>1, <3>5, <4>1 DEF Counted
      <3>7. Counted(asked, mixer'.state, mixer'.outstanding)
        <4>1. \A i \in 1 .. Len(asked) : asked[i].list => asked[i].kind \in ListKinds
          BY <1>1 DEF Requests
        <4> QED BY <3>1, <3>5, <4>1 DEF Counted
      <3> QED BY <3>6, <3>7 DEF ListsAreCounted
    <2> QED BY <2>2, <2>3
  <1> QED BY <1>5, <1>6, <1>7, <1>8, <1>9, <1>10, <1>11 DEF MixerInv

\* A volume has been pushed, which changes nothing that is told.
LEMMA PushDoneStep ==
  ASSUME MixerAssumption, MixerInv, PushDone
  PROVE  MixerInv'
  <1>1. inbox # <<>> /\ inbox \in Seq(Messages) /\ mixer \in MixerType /\ DefaultNamed(mixer) /\ ignored \subseteq Sinks
    BY DEF PushDone, MixerInv, MixerQueues, MixerShape, MixerTypeOK
  <1>2. Head(inbox) = inbox[1]
    BY <1>1, BoxTail
  <1>3. inbox[1].kind = "pushed" /\ inbox' = Tail(inbox) /\ UNCHANGED <<soundServer, asked, ignored, upheavals>>
    BY <1>2 DEF PushDone
  <1>4. PICK p \in SUBSET mixer.pushing : mixer' = [mixer EXCEPT !.pushing = p]
    <2> DEFINE p == {s \in mixer.pushing : s \notin Head(inbox).of
                            \/ Request("volume", {s}, FALSE) \in ToSet(asked)
                            \/ \E m \in ToSet(Tail(inbox)) : m.kind = "pushed" /\ s \in m.of}
    <2>1. mixer' = [mixer EXCEPT !.pushing = p]
      BY Zenon DEF PushDone
    <2>2. p \in SUBSET mixer.pushing
      OBVIOUS
    <2> QED BY <2>1, <2>2, Zenon
  <1>5. /\ mixer' \in MixerType /\ mixer'.context = mixer.context /\ mixer'.reconnect = mixer.reconnect
        /\ mixer'.sinks = mixer.sinks /\ mixer'.muted = mixer.muted /\ mixer'.state = mixer.state
        /\ mixer'.outstanding = mixer.outstanding /\ mixer'.defaultName = mixer.defaultName
        /\ mixer'.defaultSink = mixer.defaultSink
    BY <1>1, <1>4 DEF MixerType
  <1>6. mixer'.context = "ready" /\ ~mixer'.reconnect /\ DefaultNamed(mixer')
    BY <1>1, <1>5, BusyIsReady DEF DefaultNamed
  <1>7. \A s : ~Adds(inbox[1], s) /\ ~Takes(inbox, 1, s) /\ ~IsAbout(inbox[1], s)
    BY <1>3 DEF Adds, Takes, IsAbout
  <1>8. inbox[1].kind # "changed" /\ inbox[1].kind # "server"
    BY <1>3
  <1> QED BY <1>1, <1>3, <1>5, <1>6, <1>7, <1>8, MessageTaken

\* An event takes a sink away, or is followed by a question about what changed.
LEMMA EventReceivedStep ==
  ASSUME MixerAssumption, MixerInv, EventReceived
  PROVE  MixerInv'
  <1>1. /\ inbox # <<>> /\ inbox \in Seq(Messages) /\ mixer \in MixerType /\ DefaultNamed(mixer)
        /\ ignored \subseteq Sinks /\ asked \in Seq(Requests) /\ upheavals \in 0 .. MaxUpheavals
    BY DEF EventReceived, MixerInv, MixerQueues, MixerShape, MixerTypeOK
  <1>2. Head(inbox) = inbox[1] /\ inbox[1] \in Messages /\ Tail(inbox) \in Seq(Messages)
    BY <1>1, BoxTail
  <1>3. inbox' = Tail(inbox) /\ UNCHANGED <<soundServer, ignored, upheavals>>
    BY DEF EventReceived
  <1>4. mixer.context = "ready" /\ ~mixer.reconnect
    BY <1>1, BusyIsReady
  <1>5. CASE inbox[1].kind = "removed"
    <2>1. PICK s \in Sinks : inbox[1].of = {s}
      BY <1>2, <1>5 DEF Messages
    <2>2. mixer' = RemoveSink(mixer, s) /\ asked' = asked
      BY <1>2, <1>5, <2>1 DEF EventReceived
    <2>3. UniqueNames(mixer.sinks)
      BY KnownAreUnique DEF MixerInv
    <2>4. /\ mixer' \in MixerType
          /\ mixer'.context = mixer.context /\ mixer'.reconnect = mixer.reconnect
          /\ mixer'.state = mixer.state /\ mixer'.outstanding = mixer.outstanding
          /\ mixer'.defaultName = mixer.defaultName
          /\ mixer'.sinks = mixer.sinks \ {s} /\ mixer'.muted = mixer.muted \ {s}
          /\ DefaultNamed(mixer')
      BY <1>1, <2>2, <2>3, RemoveSinkGives
    <2>5. \A x : ~Adds(inbox[1], x) /\ (Takes(inbox, 1, x) <=> x = s) /\ (IsAbout(inbox[1], x) <=> x = s)
      BY <1>5, <2>1 DEF Adds, Takes, IsAbout
    <2>6. inbox[1].kind # "changed" /\ inbox[1].kind # "server"
      BY <1>5
    <2> QED BY <1>1, <1>3, <1>4, <2>2, <2>4, <2>5, <2>6, MessageTaken
  <1>6. CASE inbox[1].kind # "removed"
    <2>1. inbox[1].kind = "changed"
      BY <1>2, <1>6 DEF EventReceived
    <2>2. PICK r : r = IF inbox[1].of = {} THEN Request("server", Sinks, FALSE)
                       ELSE Request("sink", inbox[1].of, FALSE)
      OBVIOUS
    <2>3. asked' = Append(asked, r) /\ mixer' = mixer
      BY <1>2, <1>6, <2>2 DEF EventReceived
    <2>4. /\ r \in Requests /\ ~r.list
          /\ IF inbox[1].of = {} THEN r.kind = "server" ELSE r.kind = "sink" /\ r.of = inbox[1].of
      <3>1. inbox[1].of \in SUBSET Sinks
        BY <1>2 DEF Messages
      <3> QED BY <2>2, <3>1 DEF Request, Requests, ListKinds
    <2> QED BY <1>1, <1>2, <1>3, <1>4, <2>1, <2>3, <2>4, RequestAdded
  <1> QED BY <1>5, <1>6

\* An answer makes known what it tells, unless it is an error.
LEMMA AnswerReceivedStep ==
  ASSUME MixerAssumption, MixerInv, AnswerReceived
  PROVE  MixerInv'
  <1>1. /\ inbox # <<>> /\ inbox \in Seq(Messages) /\ mixer \in MixerType /\ DefaultNamed(mixer)
        /\ ignored \subseteq Sinks
    BY DEF AnswerReceived, MixerInv, MixerQueues, MixerShape, MixerTypeOK
  <1>2. Head(inbox) = inbox[1] /\ inbox[1] \in Messages
    BY <1>1, BoxTail
  <1>3. mixer.context = "ready" /\ ~mixer.reconnect
    BY <1>1, BusyIsReady
  <1>4. PICK a : a = inbox[1]
    OBVIOUS
  <1>5. /\ a \in Messages /\ a.kind \notin Events /\ a.kind # "changed" /\ a.kind # "removed"
        /\ a.of \in SUBSET Sinks /\ a.muted \in SUBSET Sinks
    BY <1>2, <1>4 DEF AnswerReceived, Events, Messages
  <1>6. PICK known : known = CASE a.kind = "server" -> UpdateDefaultFromName(mixer, a.default)
                               [] a.kind = "sink" -> UpdateSinks(mixer, a.of, a.muted)
                               [] OTHER -> mixer
    OBVIOUS
  <1>7. /\ mixer' = IF a.ok THEN DecOutstanding(known) ELSE mixer
        /\ ignored' = IF a.ok /\ a.kind = "sink"
                      THEN (ignored \ a.of) \cup (a.of \cap mixer.pushing) ELSE ignored
        /\ inbox' = Tail(inbox) /\ UNCHANGED <<soundServer, asked, upheavals>>
    BY <1>2, <1>4, <1>6, Zenon DEF AnswerReceived
  <1>8. ignored' \subseteq Sinks
    BY <1>1, <1>5, <1>7
  <1>9. /\ known \in MixerType
        /\ known.context = mixer.context /\ known.reconnect = mixer.reconnect /\ known.state = mixer.state
        /\ known.outstanding = mixer.outstanding /\ DefaultNamed(known)
        /\ IF a.kind = "server" THEN known.defaultName = a.default ELSE known.defaultName = mixer.defaultName
        /\ IF a.kind = "sink"
           THEN /\ known.sinks = mixer.sinks \cup a.of
                /\ \A s \in Sinks : s \in known.muted <=>
                     IF s \in a.of \ (mixer.sinks \cap mixer.pushing) THEN s \in a.muted ELSE s \in mixer.muted
           ELSE known.sinks = mixer.sinks /\ known.muted = mixer.muted
    <2>1. CASE a.kind = "server"
      <3>1. known = UpdateDefaultFromName(mixer, a.default) /\ a.default \in Names
        BY <1>5, <1>6, <2>1 DEF Messages
      <3>2. /\ known \in MixerType
            /\ known.context = mixer.context /\ known.reconnect = mixer.reconnect /\ known.state = mixer.state
            /\ known.outstanding = mixer.outstanding /\ DefaultNamed(known)
            /\ known.defaultName = a.default /\ known.sinks = mixer.sinks /\ known.muted = mixer.muted
        BY <1>1, <3>1, UpdateDefaultGives
      <3>3. a.kind # "sink"
        BY <2>1
      <3> QED BY <2>1, <3>2, <3>3, Zenon
    <2>2. CASE a.kind = "sink"
      <3>1. PICK of \in SUBSET Sinks, muted \in SUBSET Sinks : of = a.of /\ muted = a.muted
        BY <1>5
      <3>2. known = UpdateSinks(mixer, of, muted)
        BY <1>6, <2>2, <3>1
      <3>3. mixer \in MixerType /\ DefaultNamed(mixer)
        BY <1>1
      <3>4. HeardOf(mixer, of, muted, known)
        BY <3>2, <3>3, UpdateSinksGives
      <3>5. \A s \in Sinks : s \in known.muted <=>
              IF s \in of \ (mixer.sinks \cap mixer.pushing) THEN s \in muted ELSE s \in mixer.muted
        BY <3>4 DEF HeardOf
      <3>6. /\ known \in MixerType
            /\ known.context = mixer.context /\ known.reconnect = mixer.reconnect /\ known.state = mixer.state
            /\ known.outstanding = mixer.outstanding /\ DefaultNamed(known)
            /\ known.defaultName = mixer.defaultName /\ known.sinks = mixer.sinks \cup of
        BY <3>3, <3>4 DEF HeardOf
      <3>7. a.kind # "server"
        BY <2>2
      <3> QED BY <2>2, <3>1, <3>5, <3>6, <3>7, Zenon
    <2>3. CASE a.kind \notin {"server", "sink"}
      <3>1. known = mixer
        BY <1>6, <2>3
      <3> QED BY <1>1, <2>3, <3>1
    <2> QED BY <2>1, <2>2, <2>3
  <1>10. CASE ~a.ok
    <2>1. mixer' = mixer /\ ignored' = ignored
      BY <1>7, <1>10
    <2>2. \A s : ~Adds(a, s) /\ ~Takes(inbox, 1, s)
      BY <1>4, <1>5, <1>10 DEF Adds, Takes
    <2>3. a.kind # "server"
      BY <1>5, <1>10 DEF Messages
    <2> QED BY <1>1, <1>3, <1>4, <1>5, <1>7, <2>1, <2>2, <2>3, MessageTaken
  <1>11. CASE a.ok
    <2>1. /\ mixer' \in MixerType
          /\ mixer'.context = "ready" /\ ~mixer'.reconnect /\ mixer'.sinks = known.sinks
          /\ mixer'.muted = known.muted
          /\ mixer'.defaultName = known.defaultName /\ mixer'.defaultSink = known.defaultSink
          /\ mixer'.outstanding = (IF mixer.outstanding = 0 THEN 0 ELSE mixer.outstanding - 1)
          /\ mixer'.state = (IF mixer.outstanding = 1 THEN "READY" ELSE mixer.state)
      BY <1>3, <1>7, <1>9, <1>11, DecOutstandingGives
    <2>2. DefaultNamed(mixer')
      BY <1>9, <2>1 DEF DefaultNamed
    <2>3. \A s : (Adds(a, s) <=> a.kind = "sink" /\ s \in a.of) /\ (IsAbout(a, s) <=> a.kind = "sink" /\ s \in a.of)
      BY <1>5, <1>11 DEF Adds, IsAbout
    <2>4. \A s : ~Takes(inbox, 1, s)
      BY <1>4, <1>5 DEF Takes
    <2>5. \A s \in Sinks : s \in mixer'.sinks => Adds(a, s) \/ s \in mixer.sinks
      BY <1>9, <2>1, <2>3
    <2>6. \A s \in Sinks : Adds(a, s) =>
            s \in mixer'.sinks /\ (s \in ignored' \/ (s \in mixer'.muted <=> s \in a.muted))
      <3> SUFFICES ASSUME NEW s \in Sinks, a.kind = "sink", s \in a.of
                   PROVE  s \in known.sinks /\ (s \in ignored' \/ (s \in known.muted <=> s \in a.muted))
        BY <2>1, <2>3
      <3>1. CASE s \in mixer.pushing
        BY <1>7, <1>9, <1>11, <3>1
      <3>2. CASE s \notin mixer.pushing
        BY <1>9, <3>2
      <3> QED BY <3>1, <3>2
    <2>7. \A s \in Sinks : ~IsAbout(a, s) =>
            /\ s \in mixer'.sinks <=> s \in mixer.sinks
            /\ s \in mixer'.muted <=> s \in mixer.muted
            /\ s \in ignored' <=> s \in ignored
      <3> SUFFICES ASSUME NEW s \in Sinks, ~(a.kind = "sink" /\ s \in a.of)
                   PROVE  /\ s \in known.sinks <=> s \in mixer.sinks
                          /\ s \in known.muted <=> s \in mixer.muted
                          /\ s \in ignored' <=> s \in ignored
        BY <2>1, <2>3
      <3>1. CASE a.kind = "sink"
        BY <1>7, <1>9, <3>1
      <3>2. CASE a.kind # "sink"
        BY <1>7, <1>9, <3>2
      <3> QED BY <3>1, <3>2
    <2>8. IF a.kind = "server" THEN mixer'.defaultName = a.default ELSE mixer'.defaultName = mixer.defaultName
      BY <1>9, <2>1
    <2> QED BY <1>1, <1>4, <1>5, <1>7, <1>8, <2>1, <2>2, <2>4, <2>5, <2>6, <2>7, <2>8, MessageTaken
  <1> QED BY <1>10, <1>11

\* The message m that answers the request r.
Answers(m, r) ==
  \/ r.kind = "volume" /\ m.kind = "pushed" /\ ~m.list
  \/ /\ r.kind # "volume" /\ m.kind = r.kind /\ m.list = r.list
     /\ m.of = r.of \cap soundServer.sinks
     /\ r.kind = "sink" /\ m.of # {} => m.ok /\ m.muted = m.of \cap soundServer.muted
     /\ r.kind = "server" => m.default = soundServer.default

\* The first request is answered, and when it was about a volume the change may be told.
LEMMA RequestAnswered ==
  ASSUME MixerAssumption, MixerInv, asked # <<>>, asked' = Tail(asked),
         UNCHANGED <<soundServer, mixer, ignored, upheavals>>,
         NEW m \in Messages, Answers(m, asked[1]), NEW box, box = Append(inbox, m),
         inbox' = box \/ \E e \in Messages : e.kind = "changed" /\ inbox' = Append(box, e)
  PROVE  MixerInv'
  <1>1. /\ inbox \in Seq(Messages) /\ asked \in Seq(Requests)
        /\ soundServer \in ServerType /\ UniqueNames(soundServer.sinks) /\ soundServer.sinks \subseteq Sinks
    BY DEF MixerInv, MixerQueues, MixerShape, MixerTypeOK, ServerType
  <1>2. /\ MixerShape /\ SinksApart /\ LostIsTold /\ PresentIsTold /\ DefaultIsTold
        /\ DefaultNamed(mixer) /\ ListsInOrder /\ ListsAreCounted
    BY DEF MixerInv
  <1>3. mixer.context = "ready"
    BY BusyIsReady
  <1>4. /\ asked' \in Seq(Requests) /\ Len(asked') = Len(asked) - 1 /\ Len(asked) \in Nat \ {0}
        /\ \A i \in 1 .. Len(asked') : asked'[i] = asked[i + 1]
    BY <1>1, BoxTail
  <1>5. asked[1] \in Requests
    BY <1>1, BoxTail
  <1>6. /\ box \in Seq(Messages) /\ Len(box) = Len(inbox) + 1 /\ Len(inbox) \in Nat
        /\ \A i \in 1 .. Len(inbox) : box[i] = inbox[i]
        /\ box[Len(inbox) + 1] = m
    BY <1>1, BoxAppend
  <1>7. /\ inbox' \in Seq(Messages)
        /\ \A i \in 1 .. Len(box) : i \in 1 .. Len(inbox') /\ inbox'[i] = box[i]
        /\ \A known, s : TakenAway(known, box, s) => TakenAway(known, inbox', s)
        /\ \A known, s, t : TakenBefore(known, box, s, t) => TakenBefore(known, inbox', s, t)
        /\ \A known, s, out, said, muted :
             LastIsTrue(known, box, s, out, said, muted) => LastIsTrue(known, inbox', s, out, said, muted)
        /\ \A name, default : NameIsTrue(name, box, default) => NameIsTrue(name, inbox', default)
        /\ InOrder(box) => InOrder(inbox')
        /\ \A q : Ahead(box, q) => Ahead(inbox', q)
        /\ \A state, outstanding : Counted(box, state, outstanding) => Counted(inbox', state, outstanding)
    <2>1. CASE inbox' = box
      BY <1>6, <2>1
    <2>2. ASSUME NEW e \in Messages, e.kind = "changed", inbox' = Append(box, e) PROVE <1>7!:
      <3>1. box \in Seq(Messages) /\ e.kind \in Events /\ \A s : ~IsAbout(e, s)
        BY <1>6, <2>2 DEF Events, IsAbout
      <3>2. \A i \in 1 .. Len(box) : i \in 1 .. Len(inbox') /\ inbox'[i] = box[i]
        <4>1. /\ Len(inbox') = Len(box) + 1 /\ Len(box) \in Nat
              /\ \A i \in 1 .. Len(box) : inbox'[i] = box[i]
          BY <2>2, <3>1, BoxAppend
        <4> QED BY <4>1
      <3> QED BY <2>2, <3>1, <3>2, EventAppend
    <2> QED BY <2>1, <2>2
  <1>8. \A i \in 1 .. Len(inbox) : i \in 1 .. Len(inbox') /\ inbox'[i] = inbox[i]
    BY <1>6, <1>7
  <1>9. \A s \in Sinks : Adds(m, s) => s \in soundServer.sinks
    BY DEF Adds, Answers
  <1>10. \A s : m.kind # "removed" /\ (IsAbout(m, s) => m.kind = "sink" /\ m.of # {} /\ s \in m.of)
    BY <1>5 DEF Answers, IsAbout, Requests, ListKinds
  <1>11. MixerShape' /\ MixerQueues' /\ DefaultNamed(mixer')
    BY <1>2, <1>3, <1>4, <1>7 DEF MixerShape, MixerQueues, MixerTypeOK
  <1>12. SinksApart'
    <2> SUFFICES ASSUME NEW s \in Sinks, NEW t \in Sinks, s # t, SinkName[s] = SinkName[t]
                 PROVE  TakenBefore(mixer.sinks, box, s, t)
      BY <1>7 DEF SinksApart
    <2>1. TakenBefore(mixer.sinks, inbox, s, t)
      BY <1>2 DEF SinksApart
    <2>2. ASSUME Adds(m, t) PROVE TakenAway(mixer.sinks, inbox, s) /\ ~Adds(m, s)
      <3>1. s \notin soundServer.sinks
        BY <1>1, <1>9, <2>2 DEF UniqueNames
      <3> QED BY <1>2, <1>3, <1>9, <3>1 DEF LostIsTold
    <2> QED BY <1>1, <2>1, <2>2, AppendBefore
  <1>13. LostIsTold'
    <2> SUFFICES ASSUME NEW s \in Sinks, s \notin soundServer.sinks PROVE TakenAway(mixer.sinks, box, s)
      BY <1>7 DEF LostIsTold
    <2>1. TakenAway(mixer.sinks, inbox, s) /\ ~Adds(m, s)
      BY <1>2, <1>3, <1>9 DEF LostIsTold
    <2> QED BY <1>1, <2>1, AppendAway
  <1>14. PresentIsTold'
    <2> SUFFICES ASSUME NEW s \in soundServer.sinks
                 PROVE  \/ WillAsk(s)'
                        \/ LastIsTrue(mixer.sinks, box, s, ignored, mixer.muted, soundServer.muted)
      BY <1>7 DEF PresentIsTold
    <2>1. CASE asked[1].kind = "sink" /\ s \in asked[1].of
      <3>1. Adds(m, s) /\ (s \in m.muted <=> s \in soundServer.muted)
        BY <2>1 DEF Adds, Answers
      <3> QED BY <1>1, <3>1, AppendSays
    <2>2. ASSUME NEW i \in 1 .. Len(asked), i # 1, asked[i].kind = "sink", s \in asked[i].of PROVE WillAsk(s)'
      <3>1. i - 1 \in 1 .. Len(asked') /\ asked'[i - 1] = asked[i]
        BY <1>4, <2>2
      <3> QED BY <2>2, <3>1 DEF WillAsk
    <2>3. CASE \E i \in 1 .. Len(inbox) : inbox[i].kind = "changed" /\ s \in inbox[i].of
      BY <1>8, <2>3 DEF WillAsk
    <2>4. CASE /\ LastIsTrue(mixer.sinks, inbox, s, ignored, mixer.muted, soundServer.muted)
               /\ ~(asked[1].kind = "sink" /\ s \in asked[1].of)
      <3>1. ~IsAbout(m, s)
        BY <1>10, <2>4 DEF Answers, IsAbout
      <3> QED BY <1>1, <2>4, <3>1, AppendTrue
    <2>5. WillAsk(s) \/ LastIsTrue(mixer.sinks, inbox, s, ignored, mixer.muted, soundServer.muted)
      BY <1>2, <1>3 DEF PresentIsTold
    <2> QED BY <2>1, <2>2, <2>3, <2>4, <2>5 DEF WillAsk
  <1>15. DefaultIsTold'
    <2>1. CASE asked[1].kind = "server"
      <3>1. m.kind = "server" /\ m.default = soundServer.default
        BY <2>1 DEF Answers
      <3>2. NameIsTrue(mixer.defaultName, box, soundServer.default)
        BY <1>1, <3>1, AppendName
      <3> QED BY <1>7, <3>2 DEF DefaultIsTold
    <2>2. ASSUME NEW i \in 1 .. Len(asked), i # 1, asked[i].kind = "server" PROVE DefaultIsTold'
      <3>1. i - 1 \in 1 .. Len(asked') /\ asked'[i - 1] = asked[i]
        BY <1>4, <2>2
      <3> QED BY <2>2, <3>1 DEF DefaultIsTold, WillAskDefault
    <2>3. CASE \E i \in 1 .. Len(inbox) : inbox[i].kind = "changed" /\ inbox[i].of = {}
      BY <1>8, <2>3 DEF DefaultIsTold, WillAskDefault
    <2>4. CASE NameIsTrue(mixer.defaultName, inbox, soundServer.default) /\ asked[1].kind # "server"
      <3>1. m.kind # "server"
        BY <2>4 DEF Answers
      <3>2. NameIsTrue(mixer.defaultName, box, soundServer.default)
        BY <1>1, <2>4, <3>1, AppendName
      <3> QED BY <1>7, <3>2 DEF DefaultIsTold
    <2>5. WillAskDefault \/ NameIsTrue(mixer.defaultName, inbox, soundServer.default)
      BY <1>2, <1>3 DEF DefaultIsTold
    <2> QED BY <2>1, <2>2, <2>3, <2>4, <2>5 DEF WillAskDefault
  <1>16. ListsInOrder'
    <2>1. InOrder(asked') /\ \A j \in 1 .. Len(asked') : InTurn(asked[1], asked'[j])
      BY <1>1, <1>2, TailOrder DEF ListsInOrder
    <2>2. Ahead(inbox, asked') /\ \A i \in 1 .. Len(inbox) : InTurn(inbox[i], asked[1])
      BY <1>1, <1>2, TailBehind DEF ListsInOrder
    <2>3. \A i \in 1 .. Len(inbox) : InTurn(inbox[i], m)
      BY <2>2 DEF InTurn, Answers
    <2>4. \A j \in 1 .. Len(asked') : InTurn(m, asked'[j])
      BY <2>1 DEF InTurn, Answers, Events
    <2>5. InOrder(box)
      BY <1>1, <1>2, <2>3, AppendOrder DEF ListsInOrder
    <2>6. Ahead(box, asked')
      BY <1>1, <2>2, <2>4, AppendAhead
    <2> QED BY <1>7, <2>1, <2>5, <2>6 DEF ListsInOrder
  <1>17. ListsAreCounted'
    <2>1. Counted(asked', mixer.state, mixer.outstanding)
      BY <1>1, <1>2, TailCounted DEF ListsAreCounted
    <2>2. m.list /\ Rank[m.kind] <= 6 => mixer.state # "READY" /\ mixer.outstanding >= 7 - Rank[m.kind]
      <3>1. 1 \in 1 .. Len(asked)
        BY <1>4
      <3> QED BY <1>2, <3>1 DEF Answers, ListsAreCounted, Counted
    <2>3. Counted(box, mixer.state, mixer.outstanding)
      BY <1>1, <1>2, <2>2, AppendCounted DEF ListsAreCounted
    <2> QED BY <1>7, <2>1, <2>3 DEF ListsAreCounted
  <1> QED BY <1>11, <1>12, <1>13, <1>14, <1>15, <1>16, <1>17 DEF MixerInv

\* What the server says, given by its fields.
LEMMA MessageIsOne ==
  ASSUME NEW kind \in ListKinds \cup {"changed", "pushed"}, NEW of \in SUBSET Sinks, NEW list \in BOOLEAN,
         NEW ok \in BOOLEAN, NEW muted \in SUBSET Sinks, NEW default \in Names \cup {NoName},
         list => kind \in ListKinds, kind = "server" \/ (list /\ kind # "restore") => ok,
         kind = "server" => default \in Names,
         NEW m, m = [kind |-> kind, of |-> of, list |-> list, ok |-> ok, muted |-> muted, default |-> default]
  PROVE  /\ m \in Messages /\ m.kind = kind /\ m.of = of /\ m.list = list /\ m.ok = ok
         /\ m.muted = muted /\ m.default = default
  <1>1. kind # "removed" /\ kind \in ListKinds \cup Events /\ (list => kind \notin Events)
    BY DEF ListKinds, Events
  <1> QED BY <1>1 DEF Messages

\* The server answers with what it has now.
LEMMA ServerAnswersStep ==
  ASSUME MixerAssumption, MixerInv, NEW restore \in BOOLEAN, NEW louder \in BOOLEAN,
         ServerAnswers(restore, louder)
  PROVE  MixerInv'
  <1>1. /\ inbox \in Seq(Messages) /\ asked \in Seq(Requests) /\ asked # <<>>
        /\ soundServer \in ServerType
    BY DEF MixerInv, MixerQueues, MixerShape, MixerTypeOK, ServerAnswers
  <1>2. PICK r : r = asked[1]
    OBVIOUS
  <1>3. Head(asked) = r /\ r \in Requests
    BY <1>1, <1>2, BoxTail
  <1>4. PICK there : there = r.of \cap soundServer.sinks
    OBVIOUS
  <1>5. there \in SUBSET Sinks /\ r.of \in SUBSET Sinks
    BY <1>3, <1>4 DEF Requests
  <1>6. /\ asked' = Tail(asked) /\ UNCHANGED <<soundServer, mixer, ignored, upheavals>>
        /\ inbox' = inbox \o
             (IF r.kind = "volume"
              THEN <<Message("pushed", r.of, FALSE, TRUE)>>
                   \o (IF louder /\ there # {} THEN <<Message("changed", there, FALSE, TRUE)>> ELSE <<>>)
              ELSE <<Message(r.kind, there, r.list, (r.of = Sinks \/ there # {}) /\ (r.kind = "restore" => restore))>>)
    BY <1>3, <1>4, Zenon DEF ServerAnswers
  <1>7. CASE r.kind # "volume"
    <2>1. PICK ok \in BOOLEAN : ok = ((r.of = Sinks \/ there # {}) /\ (r.kind = "restore" => restore))
      BY Zenon
    <2>2. PICK list \in BOOLEAN : list = r.list
      BY <1>3 DEF Requests
    <2>3. PICK muted \in SUBSET Sinks : muted = IF r.kind = "sink" THEN there \cap soundServer.muted ELSE {}
      BY <1>5
    <2>4. PICK default \in Names \cup {NoName} : default = IF r.kind = "server" THEN soundServer.default ELSE NoName
      BY <1>1 DEF ServerType
    <2>5. PICK m : m = [kind |-> r.kind, of |-> there, list |-> list, ok |-> ok, muted |-> muted, default |-> default]
      OBVIOUS
    <2>6. m = Message(r.kind, there, r.list, (r.of = Sinks \/ there # {}) /\ (r.kind = "restore" => restore))
      BY <2>1, <2>2, <2>3, <2>4, <2>5, Zenon DEF Message
    <2>7. inbox' = inbox \o <<m>>
      BY <1>6, <1>7, <2>6, Zenon
    <2>8. /\ r.kind \in ListKinds /\ r.kind # "volume" /\ (r.kind = "server" \/ r.list => r.of = Sinks)
      BY <1>3, <1>7 DEF Requests
    <2>9. ok <=> (r.of = Sinks \/ there # {}) /\ (r.kind = "restore" => restore)
      BY <2>1, Zenon
    <2>10. list <=> r.list
      BY <2>2
    <2>11. r.kind = "server" \/ (list /\ r.kind # "restore") => ok
      BY <2>8, <2>9, <2>10
    <2>12. r.kind = "server" => default \in Names
      BY <1>1, <2>4 DEF ServerType
    <2>13. /\ m \in Messages /\ m.kind = r.kind /\ m.of = there /\ m.list = list /\ m.ok = ok
           /\ m.muted = muted /\ m.default = default
      BY <1>5, <2>5, <2>8, <2>11, <2>12, MessageIsOne
    <2>14. Answers(m, r)
      BY <1>4, <1>7, <2>2, <2>3, <2>4, <2>9, <2>13 DEF Answers
    <2>15. inbox' = Append(inbox, m)
      BY <1>1, <2>7, <2>13, AppendIsConcat
    <2> QED BY <1>1, <1>2, <1>6, <2>13, <2>14, <2>15, RequestAnswered
  <1>8. CASE r.kind = "volume"
    <2>1. PICK m : m = Message("pushed", r.of, FALSE, TRUE)
      OBVIOUS
    <2>2. PICK e : e = Message("changed", there, FALSE, TRUE)
      OBVIOUS
    <2>3. m \in Messages /\ m.kind = "pushed" /\ ~m.list
      BY <1>5, <2>1 DEF Message, Messages, Events
    <2>4. e \in Messages /\ e.kind = "changed"
      BY <1>5, <2>2 DEF Message, Messages, Events
    <2>5. Answers(m, r)
      BY <1>8, <2>3 DEF Answers
    <2>6. PICK box : box = Append(inbox, m)
      OBVIOUS
    <2>7. inbox' = box \/ inbox' = Append(box, e)
      <3>1. box \in Seq(Messages) /\ box = inbox \o <<m>>
        BY <1>1, <2>3, <2>6, AppendIsConcat
      <3>2. CASE louder /\ there # {}
        <4>1. inbox' = inbox \o (<<m>> \o <<e>>)
          BY <1>6, <1>8, <2>1, <2>2, <3>2, Zenon
        <4>2. inbox \o (<<m>> \o <<e>>) = Append(box, e)
          BY <1>1, <2>3, <2>4, <2>6
        <4> QED BY <4>1, <4>2
      <3>3. CASE ~(louder /\ there # {})
        <4>1. inbox' = inbox \o (<<m>> \o <<>>)
          BY <1>6, <1>8, <2>1, <3>3, Zenon
        <4>2. <<m>> \o <<>> = <<m>>
          BY <2>3
        <4> QED BY <3>1, <4>1, <4>2
      <3> QED BY <3>2, <3>3
    <2> QED BY <1>1, <1>2, <1>6, <2>3, <2>4, <2>5, <2>6, <2>7, RequestAnswered
  <1> QED BY <1>7, <1>8

\* At the start nothing is known and nothing is on its way.
LEMMA MixerInitially == ASSUME MixerAssumption, MixerInit PROVE MixerInv
  <1>1. /\ soundServer \in ServerType /\ UniqueNames(soundServer.sinks)
        /\ asked = <<>> /\ inbox = <<>> /\ ignored = {} /\ upheavals = 0
        /\ mixer = [state |-> "CLOSED", context |-> "unconnected", reconnect |-> FALSE,
                    outstanding |-> 0, sinks |-> {}, muted |-> {}, pushing |-> {},
                    defaultName |-> NoName, defaultSink |-> NoSink]
    BY DEF MixerInit
  <1>2. <<>> \in Seq(Messages) /\ <<>> \in Seq(Requests) /\ Len(<<>>) = 0
    OBVIOUS
  <1>3. mixer \in MixerType /\ mixer.context = "unconnected" /\ ~mixer.reconnect /\ mixer.sinks = {}
        /\ mixer.defaultSink = NoSink
    BY <1>1 DEF MixerType
  <1>4. MixerShape /\ MixerQueues
    BY <1>1, <1>2, <1>3 DEF MixerShape, MixerQueues, MixerTypeOK, MixerAssumption
  <1>5. SinksApart
    BY <1>1, <1>2, <1>3 DEF SinksApart, TakenBefore, Has
  <1>6. LostIsTold /\ PresentIsTold /\ DefaultIsTold
    BY <1>3 DEF LostIsTold, PresentIsTold, DefaultIsTold
  <1>7. DefaultNamed(mixer)
    BY <1>3 DEF DefaultNamed
  <1>8. ListsInOrder /\ ListsAreCounted
    BY <1>1, <1>2 DEF ListsInOrder, InOrder, Ahead, ListsAreCounted, Counted
  <1> QED BY <1>4, <1>5, <1>6, <1>7, <1>8 DEF MixerInv

\* Every step of the control, of the connection and of the server keeps it.
LEMMA MixerKept == ASSUME MixerAssumption, MixerInv, [MixerNext]_mixerVars PROVE MixerInv'
  <1>1. CASE Open \/ (\E restore \in BOOLEAN : Ready(restore)) \/ ContextFails \/ Reconnect
    BY <1>1, ConnectionSteps
  <1>2. CASE AnswerReceived
    BY <1>2, AnswerReceivedStep
  <1>3. CASE EventReceived
    BY <1>3, EventReceivedStep
  <1>4. CASE PushDone
    BY <1>4, PushDoneStep
  <1>5. CASE \E restore, louder \in BOOLEAN : ServerAnswers(restore, louder)
    BY <1>5, ServerAnswersStep
  <1>6. CASE \E s \in Sinks : PushVolume(s)
    BY <1>6, PushVolumeStep
  <1>7. CASE \/ \E s \in Sinks : SinkPlugged(s) \/ SinkUnplugged(s) \/ SinkMuted(s)
             \/ \E n \in Names : DefaultChosen(n)
    BY <1>7, ServerSteps
  <1>8. CASE UNCHANGED mixerVars
    BY <1>8 DEF mixerVars, MixerInv, MixerShape, MixerTypeOK, MixerQueues, SinksApart, LostIsTold,
       PresentIsTold, WillAsk, DefaultIsTold, WillAskDefault, ListsInOrder, ListsAreCounted
  <1> QED BY <1>1, <1>2, <1>3, <1>4, <1>5, <1>6, <1>7, <1>8 DEF MixerNext

\* What is muted is there, at the server and in the control.
MutedAreThere == mixer.muted \subseteq mixer.sinks /\ soundServer.muted \subseteq soundServer.sinks

\* No step mutes a sink that is not there.
LEMMA MutedKept ==
  ASSUME MixerAssumption, MixerInv, MutedAreThere, [MixerNext]_mixerVars
  PROVE  MutedAreThere'
  <1>1. /\ inbox \in Seq(Messages) /\ mixer \in MixerType /\ mixer.muted \subseteq mixer.sinks
        /\ soundServer \in [sinks : SUBSET Sinks, muted : SUBSET Sinks, default : Names]
        /\ soundServer.muted \subseteq soundServer.sinks
    BY DEF MixerInv, MixerQueues, MixerShape, MixerTypeOK, ServerType, MutedAreThere
  <1> SUFFICES /\ mixer'.muted \subseteq mixer'.sinks
               /\ soundServer'.muted \subseteq soundServer'.sinks
    BY DEF MutedAreThere
  <1>2. CASE Open \/ (\E restore \in BOOLEAN : Ready(restore)) \/ ContextFails \/ Reconnect
    <2>1. soundServer' = soundServer
      BY <1>2 DEF Open, Ready, ContextFails, Reconnect
    <2>2. CASE Open \/ ContextFails \/ Reconnect
      BY <1>1, <2>1, <2>2, ZenonT(60) DEF Open, ContextFails, Reconnect, MixerType
    <2>3. ASSUME NEW restore \in BOOLEAN, Ready(restore)
          PROVE  mixer'.muted = mixer.muted /\ mixer'.sinks = mixer.sinks
      <3>1. PICK n : mixer' = [mixer EXCEPT !.context = "ready", !.outstanding = n]
        BY <2>3, Zenon DEF Ready
      <3> QED BY <1>1, <3>1 DEF MixerType
    <2> QED BY <1>1, <1>2, <2>1, <2>2, <2>3
  <1>3. CASE AnswerReceived
    <2>1. inbox # <<>> /\ soundServer' = soundServer
      BY <1>3 DEF AnswerReceived
    <2>2. PICK a : a = Head(inbox)
      OBVIOUS
    <2>3. a \in Messages
      BY <1>1, <2>1, <2>2, BoxTail
    <2>4. PICK of \in SUBSET Sinks, muted \in SUBSET Sinks : of = a.of /\ muted = a.muted
      BY <2>3 DEF Messages
    <2>5. PICK known : known = CASE a.kind = "server" -> UpdateDefaultFromName(mixer, a.default)
                                 [] a.kind = "sink" -> UpdateSinks(mixer, of, muted)
                                 [] OTHER -> mixer
      OBVIOUS
    <2>6. mixer' = IF a.ok THEN DecOutstanding(known) ELSE mixer
      BY <1>3, <2>2, <2>4, <2>5, Zenon DEF AnswerReceived
    <2>7. known \in MixerType /\ known.muted \subseteq known.sinks
      <3>1. CASE a.kind = "server"
        <4>1. known = UpdateDefaultFromName(mixer, a.default) /\ a.default \in Names
          BY <2>3, <2>5, <3>1 DEF Messages
        <4>2. mixer \in MixerType
          BY <1>1
        <4>3. known \in MixerType /\ known.muted = mixer.muted /\ known.sinks = mixer.sinks
          BY <4>1, <4>2, UpdateDefaultGives
        <4> QED BY <1>1, <4>3
      <3>2. CASE a.kind = "sink"
        <4>1. known = UpdateSinks(mixer, of, muted) /\ mixer \in MixerType
          BY <1>1, <2>5, <3>2
        <4>2. HeardOf(mixer, of, muted, known)
          BY <4>1, UpdateSinksGives
        <4> QED BY <1>1, <4>2 DEF HeardOf
      <3>3. CASE a.kind \notin {"server", "sink"}
        <4>1. known = mixer
          BY <2>5, <3>3
        <4> QED BY <1>1, <4>1
      <3> QED BY <3>1, <3>2, <3>3
    <2>8. mixer'.muted \subseteq mixer'.sinks
      BY <1>1, <2>6, <2>7, DecOutstandingGives
    <2> QED BY <1>1, <2>1, <2>8
  <1>4. CASE EventReceived
    <2>1. inbox # <<>> /\ soundServer' = soundServer
      BY <1>4 DEF EventReceived
    <2>2. mixer' = mixer \/ \E s : mixer' = RemoveSink(mixer, s)
      BY <1>4, Zenon DEF EventReceived
    <2>3. \A s : /\ RemoveSink(mixer, s).muted = mixer.muted \ {s}
                /\ RemoveSink(mixer, s).sinks = mixer.sinks \ {s}
      BY <1>1 DEF RemoveSink, MixerType
    <2> QED BY <1>1, <2>1, <2>2, <2>3
  <1>5. CASE PushDone \/ (\E s \in Sinks : PushVolume(s))
    <2>1. soundServer' = soundServer /\ \E p : mixer' = [mixer EXCEPT !.pushing = p]
      BY <1>5, Zenon DEF PushDone, PushVolume
    <2> QED BY <1>1, <2>1 DEF MixerType
  <1>6. CASE \E restore, louder \in BOOLEAN : ServerAnswers(restore, louder)
    BY <1>1, <1>6 DEF ServerAnswers
  <1>7. CASE \/ \E s \in Sinks : SinkPlugged(s) \/ SinkUnplugged(s) \/ SinkMuted(s)
             \/ \E n \in Names : DefaultChosen(n)
    <2>1. mixer' = mixer
      BY <1>7 DEF SinkPlugged, SinkUnplugged, SinkMuted, DefaultChosen, ServerChanges
    <2>2. \/ \E s \in Sinks :
               \/ soundServer' = [soundServer EXCEPT !.sinks = @ \cup {s}]
               \/ soundServer' = [soundServer EXCEPT !.sinks = @ \ {s}, !.muted = @ \ {s}]
               \/ s \in soundServer.sinks /\ soundServer' = [soundServer EXCEPT !.muted = @ \cup {s}]
          \/ \E n \in Names : soundServer' = [soundServer EXCEPT !.default = n]
      BY <1>7, Zenon DEF SinkPlugged, SinkUnplugged, SinkMuted, DefaultChosen, ServerChanges
    <2>3. ASSUME NEW s \in Sinks,
                 \/ soundServer' = [soundServer EXCEPT !.sinks = @ \cup {s}]
                 \/ soundServer' = [soundServer EXCEPT !.sinks = @ \ {s}, !.muted = @ \ {s}]
                 \/ s \in soundServer.sinks /\ soundServer' = [soundServer EXCEPT !.muted = @ \cup {s}]
          PROVE  soundServer'.muted \subseteq soundServer'.sinks
      <3>1. CASE soundServer' = [soundServer EXCEPT !.sinks = @ \cup {s}]
        BY <1>1, <3>1
      <3>2. CASE soundServer' = [soundServer EXCEPT !.sinks = @ \ {s}, !.muted = @ \ {s}]
        BY <1>1, <3>2
      <3>3. CASE s \in soundServer.sinks /\ soundServer' = [soundServer EXCEPT !.muted = @ \cup {s}]
        <4>1. soundServer'.muted = soundServer.muted \cup {s} /\ soundServer'.sinks = soundServer.sinks
          BY <1>1, <3>3
        <4> QED BY <1>1, <3>3, <4>1
      <3> QED BY <2>3, <3>1, <3>2, <3>3
    <2>4. ASSUME NEW n \in Names, soundServer' = [soundServer EXCEPT !.default = n]
          PROVE  soundServer'.muted \subseteq soundServer'.sinks
      BY <1>1, <2>4
    <2> QED BY <1>1, <2>1, <2>2, <2>3, <2>4
  <1>8. CASE UNCHANGED mixerVars
    BY <1>1, <1>8 DEF mixerVars
  <1> QED BY <1>2, <1>3, <1>4, <1>5, <1>6, <1>7, <1>8 DEF MixerNext

\* The named parts of the invariant that a user sees.
LEMMA MixerShows == ASSUME MixerAssumption, MixerInv, MutedAreThere PROVE MixerFollowsServer
  <1>1. /\ inbox \in Seq(Messages) /\ asked \in Seq(Requests) /\ mixer \in MixerType
        /\ soundServer \in ServerType /\ mixer.sinks \subseteq Sinks /\ mixer.muted \subseteq Sinks
        /\ soundServer.sinks \subseteq Sinks /\ soundServer.muted \subseteq Sinks
    BY DEF MixerInv, MixerQueues, MixerShape, MixerTypeOK, MixerType, ServerType
  <1>2. DefaultFollowsName
    <2>1. UniqueNames(mixer.sinks)
      BY KnownAreUnique DEF MixerInv
    <2>2. DefaultNamed(mixer)
      BY DEF MixerInv
    <2>3. CASE mixer.defaultSink = NoSink
      BY <2>2, <2>3 DEF DefaultNamed, DefaultFollowsName
    <2>4. CASE mixer.defaultSink # NoSink
      <3>1. mixer.defaultSink \in mixer.sinks /\ SinkName[mixer.defaultSink] = mixer.defaultName
        BY <2>2, <2>4 DEF DefaultNamed
      <3>2. \A s \in mixer.sinks : SinkName[s] = mixer.defaultName => s = mixer.defaultSink
        BY <2>1, <3>1 DEF UniqueNames
      <3> DEFINE named == CHOOSE s \in mixer.sinks : SinkName[s] = mixer.defaultName
      <3>3. named \in mixer.sinks /\ SinkName[named] = mixer.defaultName
        BY <3>1
      <3>4. named = mixer.defaultSink
        BY <3>2, <3>3
      <3> QED BY <3>1, <3>4 DEF DefaultFollowsName
    <2> QED BY <2>3, <2>4
  <1>3. ReadyIsComplete
    <2> SUFFICES ASSUME mixer.state = "READY", NEW m \in ToSet(asked) \cup ToSet(inbox), m.list
                 PROVE  m.kind \in {"card", "restore"}
      BY DEF ReadyIsComplete
    <2>1. ASSUME NEW q, Counted(q, mixer.state, mixer.outstanding), NEW i \in 1 .. Len(q), m = q[i]
          PROVE  ~(Rank[m.kind] <= 6)
      BY <2>1 DEF Counted
    <2>2. \/ \E i \in 1 .. Len(asked) : m = asked[i]
          \/ \E i \in 1 .. Len(inbox) : m = inbox[i]
      BY <1>1 DEF ToSet
    <2>3. ~(Rank[m.kind] <= 6)
      BY <2>1, <2>2 DEF MixerInv, ListsAreCounted
    <2>4. m \in Requests \/ m \in Messages
      BY <1>1, <2>2
    <2>5. m.kind \in ListKinds
      BY <2>4 DEF Requests, Messages
    <2> QED BY <2>3, <2>5 DEF ListKinds, Rank
  <1>4. SoundServerIsFollowed
    <2> SUFFICES ASSUME mixer.context = "ready", asked = <<>>, inbox = <<>>
                 PROVE  /\ mixer.sinks = soundServer.sinks /\ mixer.defaultName = soundServer.default
                        /\ mixer.muted \ ignored = soundServer.muted \ ignored
      BY DEF SoundServerIsFollowed
    <2>1. Len(inbox) = 0 /\ Len(asked) = 0
      OBVIOUS
    <2>2. \A s : ~WillAsk(s)
      BY <2>1 DEF WillAsk
    <2>3. ASSUME NEW s \in soundServer.sinks
          PROVE  s \in mixer.sinks /\ (s \in ignored \/ (s \in mixer.muted <=> s \in soundServer.muted))
      <3>1. LastIsTrue(mixer.sinks, inbox, s, ignored, mixer.muted, soundServer.muted)
        BY <2>2 DEF MixerInv, PresentIsTold
      <3>2. /\ Has(mixer.sinks, inbox, 0, s)
            /\ IF 0 = 0 THEN AsAtServer(s, ignored, mixer.muted, soundServer.muted)
               ELSE s \in inbox[0].muted <=> s \in soundServer.muted
        BY <2>1, <3>1 DEF LastIsTrue
      <3> QED BY <3>2 DEF Has, AsAtServer
    <2>4. ASSUME NEW s \in Sinks, s \notin soundServer.sinks PROVE s \notin mixer.sinks
      <3>1. TakenAway(mixer.sinks, inbox, s)
        BY <2>4 DEF MixerInv, LostIsTold
      <3>2. 0 \in 0 .. Len(inbox) /\ (s \in mixer.sinks => Has(mixer.sinks, inbox, 0, s))
        BY <2>1 DEF Has
      <3>3. s \in mixer.sinks => \E k \in 0 + 1 .. Len(inbox) : Takes(inbox, k, s)
        BY <3>1, <3>2 DEF TakenAway
      <3> QED BY <2>1, <3>3
    <2>5. mixer.sinks = soundServer.sinks
      BY <1>1, <2>3, <2>4
    <2>6. mixer.defaultName = soundServer.default
      <3>1. NameIsTrue(mixer.defaultName, inbox, soundServer.default)
        BY <2>1 DEF MixerInv, DefaultIsTold, WillAskDefault
      <3> QED BY <2>1, <3>1 DEF NameIsTrue
    <2>7. mixer.muted \subseteq mixer.sinks /\ soundServer.muted \subseteq soundServer.sinks
      BY DEF MutedAreThere
    <2>8. mixer.muted \ ignored = soundServer.muted \ ignored
      BY <2>3, <2>5, <2>7
    <2> QED BY <2>5, <2>6, <2>8
  <1> QED BY <1>2, <1>3, <1>4 DEF MixerFollowsServer, MixerInv, MixerShape

\* GvcMixerControl follows the sound server, for any sinks, names and number of upheavals:
\* whatever the server changes while requests and answers cross, and however often the
\* connection is lost, the default sink is the one that the server named, the control is
\* not ready before it has what it counts, and when nothing is on its way its sinks, its
\* default and what is muted are those of the server.
THEOREM MixerFollowsTheServer == MixerSpec => []MixerFollowsServer
  <1>1. MixerInit => MixerInv /\ MutedAreThere
    <2>1. MixerInit => MutedAreThere
      BY DEF MixerInit, MutedAreThere
    <2> QED BY <2>1, MixerAssumption, MixerInitially
  <1>2. MixerInv /\ MutedAreThere /\ [MixerNext]_mixerVars => (MixerInv /\ MutedAreThere)'
    BY MixerAssumption, MixerKept, MutedKept
  <1>3. MixerInv /\ MutedAreThere => MixerFollowsServer
    BY MixerAssumption, MixerShows
  <1> QED BY <1>1, <1>2, <1>3, PTL DEF MixerSpec
=============================================================================
