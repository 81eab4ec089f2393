------------------------------- MODULE Controls -------------------------------
(***************************************************************************)
(* The controls of the toolkit.  Text entries: the hint of an empty one    *)
(* (StEntry), the warning about caps lock in one for passwords, its input  *)
(* method (StIMText), and the clipboard (StClipboard), whose text arrives  *)
(* with an event of the X server; a text is a sequence of pieces.  A       *)
(* button (StButton), pressed with the buttons of the mouse, for which it  *)
(* grabs the pointer, or a key.  An icon (StIcon), whose texture is loaded *)
(* while the old one is displayed, with a shadow made from the texture.    *)
(***************************************************************************)
EXTENDS Integers, Sequences, FiniteSets

CONSTANTS
  Entries_, NoEntry,
  HintEntries, PasswordEntries,   \* those used with a hint, for a password
  Hints, NoHint,
  MaxPieces, MaxConversions,   \* bounds on a text and the conversions under way
  Buttons,        \* of the mouse; 1 is the one a key stands for
  ButtonMask,     \* those the StButton takes
  Toggles,        \* toggle-mode
  IconNames, IconSizes,
  DefaultSize,    \* DEFAULT_ICON_SIZE
  NoTexture

ASSUME ControlsAssumption ==
  /\ NoEntry \notin Entries_ /\ HintEntries \subseteq Entries_ /\ PasswordEntries \subseteq Entries_
  /\ NoHint \notin Hints /\ MaxPieces \in Nat /\ MaxConversions \in Nat
  /\ 1 \in ButtonMask /\ ButtonMask \subseteq Buttons /\ Buttons \subseteq Nat \ {0}
  /\ \A n \in IconNames \cup {NoTexture}, s \in IconSizes \cup {DefaultSize} : NoTexture # [name |-> n, size |-> s]
  /\ \A s \in IconSizes : s # 0

VARIABLES
  entryFocus,     \* whose ClutterText has the key focus
  entryText,      \* what its ClutterText displays
  selected,       \* all of it is selected, or nothing
  hint, hintVisible, indeterminate,
  content,        \* history: what the user and the shell put into the entry
  disturbed,      \* history: text came in late, or the hint changed while in use
  capsLock, password, \* the keymap, password-char # 0
  secondaryIcon,  \* "none", "own" or "warning"
  warningShown,   \* capslock_warning_shown
  needReset,      \* need_im_reset
  preedit,        \* its input method has the beginning of some text
  clipboard,      \* clipboard_text of the shell
  clipboardOwner, \* "shell", "other" or "nobody"
  filters,        \* filters of st_clipboard_get_text(): the entries that wait
  answers         \* SelectionNotify events on their way

textVars == <<entryFocus, entryText, selected, hint, hintVisible, indeterminate, content, disturbed>>
warningVars == <<capsLock, password, secondaryIcon, warningShown>>
imVars == <<needReset, preedit>>
clipVars == <<clipboard, clipboardOwner, filters, answers>>
entryVars == <<textVars, warningVars, imVars, clipVars>>

Every(v) == [e \in Entries_ |-> v]

EntriesInit ==
  /\ entryFocus = NoEntry /\ entryText = Every(<<>>) /\ selected = Every(FALSE)
  /\ hint = Every(NoHint) /\ hintVisible = Every(FALSE) /\ indeterminate = Every(FALSE)
  /\ content = Every(<<>>) /\ disturbed = Every(FALSE)
  /\ capsLock = FALSE /\ password = Every(FALSE)
  /\ secondaryIcon = Every("none") /\ warningShown = Every(FALSE)
  /\ needReset = Every(FALSE) /\ preedit = Every(FALSE)
  /\ clipboard = <<>> /\ clipboardOwner = "nobody"
  /\ filters = <<>> /\ answers = <<>>

\* st_entry_get_text()
GetText(e) == IF hintVisible[e] THEN <<>> ELSE entryText[e]

-----------------------------------------------------------------------------
\* The text

\* clutter_text_delete_selection() and clutter_text_insert_text(), of a paste
\* (st_entry_clipboard_callback) or the input method (st_im_text_commit_cb), at
\* whatever the entry displays by then
Insert(e, new) ==
  /\ Len(entryText[e]) < MaxPieces
  /\ entryText' = [entryText EXCEPT ![e] = (IF selected[e] THEN <<>> ELSE @) \o new]
  /\ content' = [content EXCEPT ![e] = (IF selected[e] THEN <<>> ELSE @) \o new]
  /\ selected' = [selected EXCEPT ![e] = FALSE]
  /\ disturbed' = [disturbed EXCEPT ![e] = @ \/ hintVisible[e]]
  /\ UNCHANGED <<entryFocus, hint, hintVisible, indeterminate>>

\* st_entry_set_text()
SetText(e, text) ==
  LET asHint == hint[e] # NoHint /\ text = <<>> /\ entryFocus # e IN
  /\ entryText' = [entryText EXCEPT ![e] = IF asHint THEN <<hint[e]>> ELSE text]
  /\ hintVisible' = [hintVisible EXCEPT ![e] = asHint]
  /\ indeterminate' = [indeterminate EXCEPT ![e] = asHint]
  /\ selected' = [selected EXCEPT ![e] = FALSE]
  /\ content' = [content EXCEPT ![e] = text]
  /\ disturbed' = [disturbed EXCEPT ![e] = FALSE]
  /\ UNCHANGED <<entryFocus, hint, warningVars, imVars, clipVars>>

\* st_entry_set_hint_text(): a hint that is displayed is not replaced, and to take
\* the hint away from an empty entry leaves hint_visible set.
SetHintText(e, text) ==
  LET shows == entryText[e] = <<>> /\ entryFocus # e IN
  /\ text # hint[e]
  /\ hint' = [hint EXCEPT ![e] = text]
  /\ hintVisible' = [hintVisible EXCEPT ![e] = @ \/ shows]
  /\ indeterminate' = [indeterminate EXCEPT ![e] = @ \/ shows]
  /\ entryText' = [entryText EXCEPT ![e] =
                     IF ~shows THEN @ ELSE IF text = NoHint THEN <<>> ELSE <<text>>]
  /\ disturbed' = [disturbed EXCEPT ![e] = @ \/ hintVisible[e] \/ (shows /\ text = NoHint)]
  /\ UNCHANGED <<entryFocus, selected, content, warningVars, imVars, clipVars>>

\* clutter_text_focus_in_cb(), _focus_out_cb(): a change of the key focus is one step
\* of the stage, which tells the entry that loses it first.
FocusInText(e, text, visible) ==
  LET drops == hint[e] # NoHint /\ visible[e] IN
  [text |-> IF drops THEN [text EXCEPT ![e] = <<>>] ELSE text,
   visible |-> IF drops THEN [visible EXCEPT ![e] = FALSE] ELSE visible]
FocusOutText(e) ==   \* adds a hint if the entry is empty
  IF hint[e] # NoHint /\ entryText[e] = <<>>
  THEN [text |-> [entryText EXCEPT ![e] = <<hint[e]>>], visible |-> [hintVisible EXCEPT ![e] = TRUE]]
  ELSE [text |-> entryText, visible |-> hintVisible]

-----------------------------------------------------------------------------
\* The warning about caps lock

\* keymap_state_changed(), show_capslock_feedback(), remove_capslock_feedback(): the
\* icon and the mark, for a state of caps lock, or for the end of the focus
Feedback(e, caps, icon, shown) ==
  IF caps THEN IF icon = "none" THEN [icon |-> "warning", shown |-> TRUE] ELSE [icon |-> icon, shown |-> shown]
  ELSE IF shown THEN [icon |-> "none", shown |-> FALSE] ELSE [icon |-> icon, shown |-> shown]

FeedbackFor(e, caps) ==
  LET f == Feedback(e, caps, secondaryIcon[e], warningShown[e]) IN
  /\ secondaryIcon' = [secondaryIcon EXCEPT ![e] = f.icon]
  /\ warningShown' = [warningShown EXCEPT ![e] = f.shown]

\* "state-changed" of the keymap, which only the focused entry listens to
CapsLockPressed ==
  /\ capsLock' = ~capsLock
  /\ IF entryFocus # NoEntry /\ password[entryFocus]
     THEN FeedbackFor(entryFocus, ~capsLock) ELSE UNCHANGED <<secondaryIcon, warningShown>>
  /\ UNCHANGED <<password, textVars, imVars, clipVars>>

\* clutter_text_password_char_cb(): the warning goes with the password, but does not
\* come with it.
SetPasswordChar(e) ==
  /\ password' = [password EXCEPT ![e] = ~@]
  /\ IF password[e] THEN FeedbackFor(e, FALSE) ELSE UNCHANGED <<secondaryIcon, warningShown>>
  /\ UNCHANGED <<capsLock, textVars, imVars, clipVars>>

\* st_entry_set_secondary_icon() of a caller
SetSecondaryIcon(e, icon) ==
  /\ icon # secondaryIcon[e]
  /\ secondaryIcon' = [secondaryIcon EXCEPT ![e] = icon]
  /\ UNCHANGED <<capsLock, password, warningShown, textVars, imVars, clipVars>>

FocusMoves(from, to, commits) ==
  LET left == IF from = NoEntry THEN [text |-> entryText, visible |-> hintVisible] ELSE FocusOutText(from)
      \* the handlers of the entry come before the one of the StIMText, whose
      \* input method may commit what was begun
      late == IF commits THEN [left.text EXCEPT ![from] = Append(@, "committed")] ELSE left.text
      entered == IF to = NoEntry THEN [text |-> late, visible |-> left.visible]
                 ELSE FocusInText(to, late, left.visible)
      changed == {from, to} \ {NoEntry} IN
  /\ from = entryFocus /\ to # from /\ entryFocus' = to
  /\ commits => from # NoEntry /\ preedit[from] /\ Len(left.text[from]) < MaxPieces
  /\ entryText' = entered.text /\ hintVisible' = entered.visible
  /\ indeterminate' = [e \in Entries_ |->
       IF e = to THEN FALSE ELSE indeterminate[e] \/ (e = from /\ left.text[e] # entryText[e])]
  /\ content' = IF commits THEN [content EXCEPT ![from] = Append(@, "committed")] ELSE content
  /\ disturbed' = [e \in Entries_ |-> disturbed[e] \/ (commits /\ e = from /\ left.visible[e])]
  /\ \E out \in {IF from = NoEntry THEN [icon |-> "none", shown |-> FALSE]
                 ELSE Feedback(from, FALSE, secondaryIcon[from], warningShown[from])},
        into \in {IF to = NoEntry \/ ~password[to] THEN [icon |-> "none", shown |-> FALSE]
                  ELSE Feedback(to, capsLock, secondaryIcon[to], warningShown[to])} :
       LET touched(e) == e = from \/ (e = to /\ password[e])
           new(e) == IF e = from THEN out ELSE into IN
       /\ secondaryIcon' = [e \in Entries_ |-> IF touched(e) THEN new(e).icon ELSE secondaryIcon[e]]
       /\ warningShown' = [e \in Entries_ |-> IF touched(e) THEN new(e).shown ELSE warningShown[e]]
  /\ needReset' = [e \in Entries_ |-> needReset[e] \/ e \in changed]
  /\ preedit' = IF from = NoEntry THEN preedit ELSE [preedit EXCEPT ![from] = FALSE]
  /\ UNCHANGED <<selected, hint, capsLock, password, clipVars>>

-----------------------------------------------------------------------------
\* The input method, and the keys that ClutterText handles

\* st_im_text_key_press_event(): the input method takes the key, to go on with what
\* it has begun or to commit it ("commits"),
Compose(e, commits) ==
  /\ entryFocus = e
  /\ needReset' = [needReset EXCEPT ![e] = TRUE]
  /\ preedit' = [preedit EXCEPT ![e] = ~commits]
  /\ IF commits THEN Insert(e, <<"committed">>) ELSE UNCHANGED textVars
  /\ UNCHANGED <<warningVars, clipVars>>

\* reset_im_context()
ResetContext(e) ==
  /\ preedit' = [preedit EXCEPT ![e] = @ /\ ~needReset[e]]
  /\ needReset' = [needReset EXCEPT ![e] = FALSE]

\* or it leaves the key to ClutterText, which inserts it and so moves the cursor,
Typed(e) ==
  /\ entryFocus = e /\ Insert(e, <<"typed">>) /\ ResetContext(e)
  /\ UNCHANGED <<warningVars, clipVars>>

\* or st_im_text_button_press_event(): the press selects, or not.
PressText(e) ==
  /\ entryFocus = e /\ ResetContext(e)
  /\ selected' = [selected EXCEPT ![e] = ~@ /\ entryText[e] # <<>>]
  /\ UNCHANGED <<entryFocus, entryText, hint, hintVisible, indeterminate, content, disturbed>>
  /\ UNCHANGED <<warningVars, clipVars>>

-----------------------------------------------------------------------------
\* The clipboard

\* st_clipboard_set_text()
SetClipboard(text) == clipboard' = text /\ clipboardOwner' = "shell"

\* st_entry_key_press_event(): copy, and cut
Copy(e, cut) ==
  /\ entryFocus = e /\ selected[e] /\ entryText[e] # <<>>
  /\ SetClipboard(<<"pasted">>)
  /\ IF cut THEN /\ entryText' = [entryText EXCEPT ![e] = <<>>]
                 /\ content' = [content EXCEPT ![e] = <<>>]
                 /\ selected' = [selected EXCEPT ![e] = FALSE]
                 /\ UNCHANGED <<entryFocus, hint, hintVisible, indeterminate, disturbed>>
     ELSE UNCHANGED textVars
  /\ UNCHANGED <<filters, answers, warningVars, imVars>>

OtherOwns(who) ==
  /\ clipboardOwner' = who /\ who # clipboardOwner
  /\ UNCHANGED <<clipboard, filters, answers, textVars, warningVars, imVars>>

\* st_clipboard_get_text(); the shell answers itself (st_clipboard_provider), another
\* owner may hang, and the X server answers for nobody.
Paste(e, answered) ==
  /\ entryFocus = e /\ Len(filters) < MaxConversions
  /\ filters' = Append(filters, e)
  /\ ~answered => clipboardOwner = "other"
  /\ answers' = IF answered
                THEN Append(answers, CASE clipboardOwner = "shell" -> clipboard
                                       [] clipboardOwner = "other" -> <<"pasted">>
                                       [] OTHER -> <<>>)
                ELSE answers
  /\ UNCHANGED <<clipboard, clipboardOwner, textVars, warningVars, imVars>>

\* st_clipboard_x11_event_filter(): whatever conversion it answers, the oldest filter
\* takes the event.
SelectionNotify ==
  /\ answers # <<>> /\ filters # <<>>
  /\ IF Head(answers) = <<>> THEN UNCHANGED textVars ELSE Insert(Head(filters), Head(answers))
  /\ filters' = Tail(filters) /\ answers' = Tail(answers)
  /\ UNCHANGED <<clipboard, clipboardOwner, warningVars, imVars>>

-----------------------------------------------------------------------------
EntriesNext ==
  \/ \E e \in Entries_ :
       \/ \E text \in {<<>>, <<"typed">>} : SetText(e, text)
       \/ \E b \in BOOLEAN : Compose(e, b) \/ Copy(e, b) \/ Paste(e, b)
       \/ Typed(e) \/ PressText(e)
  \/ \E e \in HintEntries, h \in Hints \cup {NoHint} : SetHintText(e, h)
  \/ \E e \in PasswordEntries : SetPasswordChar(e)
                               \/ \E icon \in {"none", "own"} : SetSecondaryIcon(e, icon)
  \/ CapsLockPressed
  \/ \E from, to \in Entries_ \cup {NoEntry}, commits \in BOOLEAN : FocusMoves(from, to, commits)
  \/ \E who \in {"other", "nobody"} : OtherOwns(who)
  \/ SelectionNotify

-----------------------------------------------------------------------------
EntriesTypeOK ==
  /\ entryFocus \in Entries_ \cup {NoEntry}
  /\ \A e \in Entries_ : Len(entryText[e]) <= MaxPieces + 1
  /\ hint \in [Entries_ -> Hints \cup {NoHint}]
  /\ {selected, hintVisible, indeterminate, disturbed, password, warningShown, needReset, preedit}
       \subseteq [Entries_ -> BOOLEAN]
  /\ secondaryIcon \in [Entries_ -> {"none", "own", "warning"}]
  /\ Len(filters) <= MaxConversions /\ Len(answers) <= Len(filters)

\* An entry tells its text, and never its hint, as long as nothing came in late and
\* nobody changed a hint that was in use (st_entry_get_text()): it displays the hint
\* exactly when it is empty and without focus, as its pseudo class says.
EntryTellsItsText ==
  \A e \in Entries_ : ~disturbed[e] =>
    /\ GetText(e) = content[e]
    /\ hintVisible[e] = (hint[e] # NoHint /\ content[e] = <<>> /\ entryFocus # e)
    /\ indeterminate[e] = hintVisible[e]

\* The warning about caps lock is there only in the password entry that has the
\* focus while caps lock is on (keymap_state_changed()), and an input method that
\* holds the beginning of a text can be made to forget it (reset_im_context()).
WarningIsTrue ==
  \A e \in Entries_ :
    /\ secondaryIcon[e] = "warning" => entryFocus = e /\ password[e] /\ capsLock
    /\ preedit[e] => needReset[e] /\ entryFocus = e

-----------------------------------------------------------------------------
\* Buttons and icons
VARIABLES
  down, keyDown,  \* the buttons of the mouse that are down, space or Return
  inside,         \* hover: the pointer is over the button
  hasFocus,       \* the button has the key focus
  pressed, grabbed, pointerGrab,   \* and whether clutter has a grab for it
  active, checked, checkedStyle,   \* pseudo classes "active" and "checked"
  started,        \* history: what was pressed on the button and has not come up since
  clicked         \* history: how the last click came

buttonVars == <<down, keyDown, inside, hasFocus, pressed, grabbed, pointerGrab, active,
                checked, checkedStyle, started, clicked>>

ButtonInit ==
  /\ down = {} /\ keyDown = FALSE /\ inside = FALSE /\ hasFocus = FALSE
  /\ pressed = {} /\ grabbed = {} /\ pointerGrab = FALSE
  /\ active = FALSE /\ checked = FALSE /\ checkedStyle = FALSE
  /\ started = {} /\ clicked = [by |-> 0, ok |-> TRUE]

-----------------------------------------------------------------------------
\* The button

\* st_button_press()
Press(mask) ==
  /\ active' = (active \/ pressed = {})
  /\ pressed' = pressed \cup mask
  /\ UNCHANGED <<checked, checkedStyle, clicked>>

SetChecked(now) == checked' = now /\ checkedStyle' = now

\* st_button_release(); 0 is no click.
Release(mask, click, ok) ==
  LET up == pressed \ mask = {} IN
  /\ pressed' = pressed \ mask
  /\ active' = (active /\ ~up)
  /\ IF up /\ click # 0 /\ Toggles THEN SetChecked(~checked) ELSE UNCHANGED <<checked, checkedStyle>>
  /\ clicked' = IF up /\ click # 0 THEN [by |-> click, ok |-> ok] ELSE clicked

\* The event comes to the button if the pointer is over it or it holds the grab.
ButtonPress(b) ==
  /\ b \notin down /\ down' = down \cup {b}
  /\ IF (inside \/ pointerGrab) /\ b \in ButtonMask
     THEN /\ Press({b}) /\ grabbed' = grabbed \cup {b} /\ pointerGrab' = TRUE
          /\ started' = started \cup {b}
     ELSE UNCHANGED <<pressed, active, checked, checkedStyle, clicked, grabbed, pointerGrab, started>>
  /\ UNCHANGED <<keyDown, inside, hasFocus>>

ButtonReleaseUngrabs(b) ==   \* a bug: the grab goes with the first release only
  /\ b \in down /\ down' = down \ {b} /\ started' = started \ {b}
  /\ IF (inside \/ pointerGrab) /\ b \in ButtonMask
     THEN /\ Release({b}, IF grabbed # {} /\ inside THEN b ELSE 0, started # {})
          /\ grabbed' = grabbed \ {b}
          /\ pointerGrab' = (pointerGrab /\ b \notin grabbed)
     ELSE UNCHANGED <<pressed, active, checked, checkedStyle, clicked, grabbed, pointerGrab>>
  /\ UNCHANGED <<keyDown, inside, hasFocus>>
ButtonRelease(b) ==
  /\ b \in down /\ down' = down \ {b} /\ started' = started \ {b}
  /\ IF (inside \/ pointerGrab) /\ b \in ButtonMask
     THEN /\ Release({b}, IF grabbed # {} /\ inside THEN b ELSE 0, started # {})
          /\ grabbed' = grabbed \ {b}
          /\ pointerGrab' = (pointerGrab /\ grabbed' # {})
     ELSE UNCHANGED <<pressed, active, checked, checkedStyle, clicked, grabbed, pointerGrab>>
  /\ UNCHANGED <<keyDown, inside, hasFocus>>

KeyPress ==
  /\ hasFocus /\ ~keyDown /\ keyDown' = TRUE
  /\ Press({1}) /\ started' = started \cup {0}
  /\ UNCHANGED <<down, inside, hasFocus, grabbed, pointerGrab>>

KeyRelease ==
  /\ keyDown /\ keyDown' = FALSE /\ started' = started \ {0}
  /\ IF hasFocus THEN Release({1}, IF 1 \in pressed THEN 1 ELSE 0, {0, 1} \cap started # {})
     ELSE UNCHANGED <<pressed, active, checked, checkedStyle, clicked>>
  /\ UNCHANGED <<down, inside, hasFocus, grabbed, pointerGrab>>

\* st_button_key_focus_out(): undoes a press of the key, and not of the mouse
KeyFocus ==
  /\ hasFocus' = ~hasFocus
  /\ IF hasFocus /\ 1 \in pressed /\ 1 \notin grabbed THEN Release({1}, 0, TRUE)
     ELSE UNCHANGED <<pressed, active, checked, checkedStyle, clicked>>
  /\ UNCHANGED <<down, keyDown, inside, grabbed, pointerGrab, started>>

\* st_button_enter(), st_button_leave()
EnterOrLeave ==
  /\ inside' = ~inside
  /\ IF grabbed = {} THEN UNCHANGED <<pressed, active, checked, checkedStyle, clicked>>
     ELSE IF inside' THEN Press(grabbed) ELSE Release(grabbed, 0, TRUE)
  /\ UNCHANGED <<down, keyDown, hasFocus, grabbed, pointerGrab, started>>

\* st_button_fake_release(), when a menu or a drag takes over
FakeRelease ==
  /\ pressed # {} \/ grabbed # {}
  /\ IF pressed = {} THEN UNCHANGED <<pressed, active, checked, checkedStyle, clicked>>
     ELSE Release(pressed, 0, TRUE)
  /\ grabbed' = {} /\ pointerGrab' = (pointerGrab /\ grabbed = {})
  /\ UNCHANGED <<down, keyDown, inside, hasFocus, started>>

ButtonNext ==
  \/ \E b \in Buttons : ButtonPress(b) \/ ButtonRelease(b)
  \/ KeyPress \/ KeyRelease \/ KeyFocus \/ EnterOrLeave \/ FakeRelease

-----------------------------------------------------------------------------
\* The icon

VARIABLES
  iconNode,       \* its theme node: "none", or how the style draws a shadow and the size
  iconName,       \* or gicon; NoTexture for neither
  propSize, iconSize,     \* prop_icon_size (-1: not set), icon_size
  iconTexture, pendingTexture,     \* what they were loaded for
  shadowSpec, shadowMaterial

iconVars == <<iconNode, iconName, propSize, iconSize, iconTexture, pendingTexture,
              shadowSpec, shadowMaterial>>

Nodes == [shadow : BOOLEAN, size : IconSizes \cup {0}]
NoIconNode == [shadow |-> FALSE, size |-> -1]

IconInit ==
  /\ iconNode = NoIconNode /\ iconName = NoTexture
  /\ propSize = -1 /\ iconSize = DefaultSize
  /\ iconTexture = NoTexture /\ pendingTexture = NoTexture
  /\ shadowSpec = FALSE /\ shadowMaterial = FALSE

\* st_icon_update_icon_size()
UpdatedSize(prop, node) == IF prop > 0 THEN prop ELSE IF node.size > 0 THEN node.size ELSE DefaultSize

\* st_icon_update(), st_icon_finish_update(): the texture cache has the texture, is
\* going to load it, or has nothing of that name.
UpdateIcon(name, size, node, found) ==
  LET wanted == [name |-> name, size |-> size]
      replaces == found = "loaded" \/ iconTexture = NoTexture IN
  /\ (name = NoTexture \/ node = NoIconNode) => found = "missing"
  /\ IF node = NoIconNode
     THEN pendingTexture' = NoTexture /\ UNCHANGED <<iconTexture, shadowMaterial>>
     ELSE IF found = "missing"
     THEN pendingTexture' = NoTexture /\ iconTexture' = NoTexture /\ UNCHANGED shadowMaterial
     ELSE IF replaces
     THEN iconTexture' = wanted /\ pendingTexture' = NoTexture /\ shadowMaterial' = node.shadow
     ELSE pendingTexture' = wanted /\ UNCHANGED <<iconTexture, shadowMaterial>>

Found == {"loaded", "loading", "missing"}

\* "notify::opacity": the texture has been loaded.
IconLoaded ==
  /\ pendingTexture # NoTexture
  /\ iconTexture' = pendingTexture /\ pendingTexture' = NoTexture
  /\ shadowMaterial' = shadowSpec
  /\ UNCHANGED <<iconNode, iconName, propSize, iconSize, shadowSpec>>

\* st_icon_set_icon_name(), st_icon_set_gicon(), st_icon_set_icon_type()
SetIcon(name, found) ==
  /\ name # iconName /\ iconName' = name
  /\ UpdateIcon(name, iconSize, iconNode, found)
  /\ UNCHANGED <<iconNode, propSize, iconSize, shadowSpec>>

SetIconSize(size, found) ==
  /\ size # propSize /\ propSize' = size
  /\ iconSize' = UpdatedSize(size, iconNode)
  /\ IF iconSize' # iconSize THEN UpdateIcon(iconName, iconSize', iconNode, found)
     ELSE found = "missing" /\ UNCHANGED <<iconTexture, pendingTexture, shadowMaterial>>
  /\ UNCHANGED <<iconNode, iconName, shadowSpec>>

\* st_icon_style_changed(): the specification of the shadow changes at once, what was
\* made from the old one when the texture is replaced.
IconStyleChanged(node, found) ==
  /\ iconNode' = node /\ shadowSpec' = node.shadow
  /\ iconSize' = UpdatedSize(propSize, node)
  /\ UpdateIcon(iconName, iconSize', node, found)
  /\ UNCHANGED <<iconName, propSize>>

\* The widget leaves the stage, or its style is about to change.
NodeDropped ==
  /\ iconNode # NoIconNode /\ iconNode' = NoIconNode
  /\ UNCHANGED <<iconName, propSize, iconSize, iconTexture, pendingTexture, shadowSpec, shadowMaterial>>

IconNext ==
  \/ IconLoaded \/ NodeDropped
  \/ \E found \in Found :
       \/ \E n \in IconNames \cup {NoTexture} : SetIcon(n, found)
       \/ \E s \in IconSizes \cup {-1} : SetIconSize(s, found)
       \/ \E n \in Nodes : IconStyleChanged(n, found)

-----------------------------------------------------------------------------
ControlsTypeOK ==
  /\ down \subseteq Buttons /\ grabbed \cup pressed \subseteq ButtonMask
  /\ {keyDown, inside, hasFocus, pointerGrab, active, checked, checkedStyle, shadowSpec, shadowMaterial}
       \subseteq BOOLEAN
  /\ started \subseteq Buttons \cup {0} /\ clicked.by \in Buttons \cup {0}
  /\ iconNode \in Nodes \cup {NoIconNode} /\ iconSize \in IconSizes \cup {DefaultSize}

\* A button never keeps the pointer (st_button_button_release(),
\* st_button_fake_release()): the grab is there while a button of the mouse that
\* took it is down, and it looks pressed as long as something presses it.  A click needs
\* a press on the button that is not over, be it that of another mouse button.
ButtonLetsGo ==
  /\ pointerGrab = (grabbed # {}) /\ grabbed \subseteq down
  /\ active = (pressed # {}) /\ (down = {} /\ ~keyDown => pressed = {})
  /\ checkedStyle = checked /\ clicked.ok

\* An icon with a style displays what was set last, or will as soon as that is loaded
\* (st_icon_update()), whatever came in between.
IconIsCurrent ==
  iconNode # NoIconNode =>
    LET last == IF pendingTexture # NoTexture THEN pendingTexture ELSE iconTexture IN
    last # NoTexture => last = [name |-> iconName, size |-> iconSize]

-----------------------------------------------------------------------------
\* The three controls know nothing of each other.
ControlsInit == EntriesInit /\ ButtonInit /\ IconInit
ControlsNext ==
  \/ EntriesNext /\ UNCHANGED <<buttonVars, iconVars>>
  \/ ButtonNext /\ UNCHANGED <<entryVars, iconVars>>
  \/ IconNext /\ UNCHANGED <<entryVars, buttonVars>>
ControlsSpec == ControlsInit /\ [][ControlsNext]_<<entryVars, buttonVars, iconVars>>

\* Entries, buttons and icons show what they were told last.
ControlsAreCurrent ==
  /\ EntriesTypeOK /\ EntryTellsItsText /\ WarningIsTrue
  /\ ControlsTypeOK /\ ButtonLetsGo /\ IconIsCurrent
=============================================================================
