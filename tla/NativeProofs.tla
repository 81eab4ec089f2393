----------------------------- MODULE NativeProofs -----------------------------
(***************************************************************************)
(* What is proved of components of the composition NativeMC, for all       *)
(* icons, calendars, functions and watches: that the shell agrees with the *)
(* X clients in the tray and with the server of the calendar, and that     *)
(* work at leisure and the watches of the idle time are not forgotten.     *)
(***************************************************************************)
EXTENDS NativeMC, SeqLemmas, FiniteSetTheorems, TLAPS

-----------------------------------------------------------------------------
(***************************************************************************)
(* The icons of the tray                                                   *)
(***************************************************************************)

\* The events of X.
TrayEvent == [what : {"dock", "unplugged"}, window : XIcons] \cup [what : {"clear"}]

\* Event number i says that the client of w has left its socket.
EndAt(w, i) == trayEvents[i].what = "unplugged" /\ trayEvents[i].window = w
EndComes(w) == \E i \in DOMAIN trayEvents : EndAt(w, i)

HasSocket(w) == \E s \in socketTable : s.window = w

\* The end of a socket comes once, and only while the client is not in it.
OneEnd(w) ==
  /\ \A i, j \in DOMAIN trayEvents : EndAt(w, i) /\ EndAt(w, j) => i = j
  /\ xstate[w] = "embedded" => ~EndComes(w)

\* The table, the children and what the shell shows are of the same sockets.
SocketsAgree ==
  /\ \A s \in socketTable : s.socket \in 1 .. made
  /\ \A s, t \in socketTable : s.socket = t.socket \/ s.window = t.window => s = t
  /\ \A c \in trayChildren : c.hasActor /\ [window |-> c.window, socket |-> c.socket] \in socketTable
  /\ \A s \in socketTable : \E c \in trayChildren : c.socket = s.socket /\ c.window = s.window
  /\ shownSockets = {c.socket : c \in trayChildren}

IconsInv ==
  /\ TrayIconsTypeOK /\ trayEvents \in Seq(TrayEvent) /\ SocketsAgree
  /\ \A w \in XIcons : OneEnd(w) /\ (HasSocket(w) <=> xstate[w] = "embedded" \/ EndComes(w))

\* An event that is appended is the last one.
LEMMA EventAppended ==
  ASSUME trayEvents \in Seq(TrayEvent), NEW e \in TrayEvent, trayEvents' = Append(trayEvents, e)
  PROVE  /\ trayEvents' \in Seq(TrayEvent)
         /\ \A w \in XIcons :
              LET ends == e.what = "unplugged" /\ e.window = w IN
              /\ EndComes(w)' <=> EndComes(w) \/ ends
              /\ (\A i, j \in DOMAIN trayEvents : EndAt(w, i) /\ EndAt(w, j) => i = j)
                 /\ ~(ends /\ EndComes(w))
                 => \A i, j \in DOMAIN trayEvents' : EndAt(w, i)' /\ EndAt(w, j)' => i = j
  <1>1. PICK n \in Nat : n = Len(trayEvents)
    OBVIOUS
  <1>2. /\ trayEvents' \in Seq(TrayEvent)
        /\ DOMAIN trayEvents = 1 .. n /\ DOMAIN trayEvents' = 1 .. n + 1
        /\ trayEvents'[n + 1] = e
        /\ \A i \in 1 .. n : trayEvents'[i] = trayEvents[i]
    BY <1>1
  <1>3. ASSUME NEW w \in XIcons
        PROVE  LET ends == e.what = "unplugged" /\ e.window = w IN
               /\ EndComes(w)' <=> EndComes(w) \/ ends
               /\ (\A i, j \in DOMAIN trayEvents : EndAt(w, i) /\ EndAt(w, j) => i = j)
                  /\ ~(ends /\ EndComes(w))
                  => \A i, j \in DOMAIN trayEvents' : EndAt(w, i)' /\ EndAt(w, j)' => i = j
    <2>1. /\ EndAt(w, n + 1)' <=> e.what = "unplugged" /\ e.window = w
          /\ \A i \in 1 .. n : EndAt(w, i)' <=> EndAt(w, i)
      BY <1>2 DEF EndAt
    <2>2. n + 1 \in 1 .. n + 1 /\ \A i \in 1 .. n + 1 : i \in 1 .. n \/ i = n + 1
      OBVIOUS
    <2>3. EndComes(w)' <=> EndComes(w) \/ (e.what = "unplugged" /\ e.window = w)
      BY <1>2, <2>1, <2>2 DEF EndComes
    <2>4. ASSUME \A i, j \in DOMAIN trayEvents : EndAt(w, i) /\ EndAt(w, j) => i = j,
                 ~(e.what = "unplugged" /\ e.window = w /\ EndComes(w)),
                 NEW i \in 1 .. n + 1, NEW j \in 1 .. n + 1, EndAt(w, i)', EndAt(w, j)'
          PROVE  i = j
      <3>1. CASE i \in 1 .. n /\ j \in 1 .. n
        BY <1>2, <2>1, <2>4, <3>1
      <3>2. CASE i = n + 1 /\ j \in 1 .. n
        BY <1>2, <2>1, <2>4, <3>2 DEF EndComes
      <3>3. CASE i \in 1 .. n /\ j = n + 1
        BY <1>2, <2>1, <2>4, <3>3 DEF EndComes
      <3> QED BY <2>2, <2>4, <3>1, <3>2, <3>3
    <2> QED BY <1>2, <2>3, <2>4
  <1> QED BY <1>2, <1>3

\* An event that is handled was the first one.
LEMMA EventHandled ==
  ASSUME trayEvents \in Seq(TrayEvent), trayEvents # <<>>, trayEvents' = Tail(trayEvents)
  PROVE  /\ trayEvents' \in Seq(TrayEvent)
         /\ \A w \in XIcons :
              /\ EndComes(w)' => EndComes(w)
              /\ (\A i, j \in DOMAIN trayEvents : EndAt(w, i) /\ EndAt(w, j) => i = j)
                 => \A i, j \in DOMAIN trayEvents' : EndAt(w, i)' /\ EndAt(w, j)' => i = j
              /\ ~(Head(trayEvents).what = "unplugged" /\ Head(trayEvents).window = w)
                 => (EndComes(w) => EndComes(w)')
              /\ Head(trayEvents).what = "unplugged" /\ Head(trayEvents).window = w
                 /\ (\A i, j \in DOMAIN trayEvents : EndAt(w, i) /\ EndAt(w, j) => i = j)
                 => EndComes(w) /\ ~EndComes(w)'
  <1>1. PICK n \in Nat : n = Len(trayEvents) /\ n > 0
    OBVIOUS
  <1>2. /\ trayEvents' \in Seq(TrayEvent)
        /\ DOMAIN trayEvents = 1 .. n /\ DOMAIN trayEvents' = 1 .. n - 1
        /\ trayEvents[1] = Head(trayEvents)
        /\ \A i \in 1 .. n - 1 : trayEvents'[i] = trayEvents[i + 1]
    BY <1>1
  <1>3. ASSUME NEW w \in XIcons
        PROVE  /\ EndComes(w)' => EndComes(w)
               /\ (\A i, j \in DOMAIN trayEvents : EndAt(w, i) /\ EndAt(w, j) => i = j)
                  => \A i, j \in DOMAIN trayEvents' : EndAt(w, i)' /\ EndAt(w, j)' => i = j
               /\ ~(Head(trayEvents).what = "unplugged" /\ Head(trayEvents).window = w)
                  => (EndComes(w) => EndComes(w)')
               /\ Head(trayEvents).what = "unplugged" /\ Head(trayEvents).window = w
                  /\ (\A i, j \in DOMAIN trayEvents : EndAt(w, i) /\ EndAt(w, j) => i = j)
                  => EndComes(w) /\ ~EndComes(w)'
    <2>1. \A i \in 1 .. n - 1 : i + 1 \in 1 .. n /\ (EndAt(w, i)' <=> EndAt(w, i + 1))
      BY <1>2 DEF EndAt
    <2>2. EndAt(w, 1) <=> Head(trayEvents).what = "unplugged" /\ Head(trayEvents).window = w
      BY <1>2 DEF EndAt
    <2>3. 1 \in 1 .. n /\ \A i \in 1 .. n : i # 1 => i - 1 \in 1 .. n - 1 /\ (i - 1) + 1 = i
      BY <1>1
    <2>4. EndComes(w)' => EndComes(w)
      BY <1>2, <2>1 DEF EndComes
    <2>5. ASSUME \A i, j \in DOMAIN trayEvents : EndAt(w, i) /\ EndAt(w, j) => i = j,
                 NEW i \in 1 .. n - 1, NEW j \in 1 .. n - 1, EndAt(w, i)', EndAt(w, j)'
          PROVE  i = j
      <3>1. i + 1 = j + 1
        BY <1>2, <2>1, <2>5
      <3> QED BY <3>1
    <2>6. ASSUME ~EndAt(w, 1), EndComes(w) PROVE EndComes(w)'
      <3>1. PICK i \in 1 .. n : EndAt(w, i)
        BY <1>2, <2>6 DEF EndComes
      <3>2. PICK k \in 1 .. n - 1 : k + 1 = i
        BY <2>3, <2>6, <3>1
      <3>3. EndAt(w, k)'
        BY <2>1, <3>1, <3>2
      <3> QED BY <1>2, <3>3 DEF EndComes
    <2>7. ASSUME EndAt(w, 1), \A i, j \in DOMAIN trayEvents : EndAt(w, i) /\ EndAt(w, j) => i = j
          PROVE  EndComes(w) /\ ~EndComes(w)'
      <3>1. EndComes(w)
        BY <1>2, <2>3, <2>7 DEF EndComes
      <3>2. ASSUME NEW i \in 1 .. n - 1, EndAt(w, i)' PROVE FALSE
        <4>1. EndAt(w, i + 1) /\ i + 1 \in 1 .. n
          BY <2>1, <3>2
        <4>2. i + 1 = 1
          BY <1>2, <2>3, <2>7, <4>1
        <4> QED BY <4>2
      <3> QED BY <1>2, <3>1, <3>2 DEF EndComes
    <2> QED BY <1>2, <2>2, <2>4, <2>5, <2>6, <2>7
  <1> QED BY <1>2, <1>3

\* At first there are no icons.
LEMMA IconsStart == TrayIconsInit => IconsInv
  <1> SUFFICES ASSUME TrayIconsInit PROVE IconsInv
    OBVIOUS
  <1>1. /\ tray = "new" /\ palette \in Palettes /\ colorsProp = {}
        /\ xstate = [w \in XIcons |-> "free"] /\ trayEvents = <<>>
        /\ socketTable = {} /\ trayChildren = {} /\ made = 0 /\ shownSockets = {}
    BY DEF TrayIconsInit
  <1>2. TrayIconsTypeOK
    BY <1>1, TrayIconsAssumption, FS_EmptySet DEF TrayIconsTypeOK
  <1>3. trayEvents \in Seq(TrayEvent) /\ DOMAIN trayEvents = {}
    BY <1>1
  <1>4. SocketsAgree
    BY <1>1 DEF SocketsAgree
  <1>5. ASSUME NEW w \in XIcons
        PROVE  OneEnd(w) /\ (HasSocket(w) <=> xstate[w] = "embedded" \/ EndComes(w))
    BY <1>1, <1>3 DEF OneEnd, HasSocket, EndComes
  <1> QED BY <1>2, <1>3, <1>4, <1>5 DEF IconsInv

\* What a client does appends an event.
LEMMA ClientStep ==
  ASSUME IconsInv, NEW w \in XIcons, ClientDocks(w) \/ ClientLeaves(w)
  PROVE  IconsInv'
  <1>1. UNCHANGED <<tray, palette, colors, colorsProp, socketTable, trayChildren, made, shownSockets>>
    BY DEF ClientDocks, ClientLeaves
  <1>2. SocketsAgree'
    BY <1>1 DEF IconsInv, SocketsAgree
  <1>3. trayEvents \in Seq(TrayEvent)
    BY DEF IconsInv
  <1>4. CASE ClientDocks(w)
    <2>1. trayEvents' = Append(trayEvents, [what |-> "dock", window |-> w]) /\ xstate' = xstate
      BY <1>4 DEF ClientDocks, XSends
    <2>2. [what |-> "dock", window |-> w] \in TrayEvent
      BY DEF TrayEvent
    <2>3. /\ trayEvents' \in Seq(TrayEvent)
          /\ \A v \in XIcons :
               /\ EndComes(v)' <=> EndComes(v)
               /\ (\A i, j \in DOMAIN trayEvents : EndAt(v, i) /\ EndAt(v, j) => i = j)
                  => \A i, j \in DOMAIN trayEvents' : EndAt(v, i)' /\ EndAt(v, j)' => i = j
      BY <1>3, <2>1, <2>2, EventAppended
    <2>4. TrayIconsTypeOK'
      BY <1>1, <2>1 DEF IconsInv, TrayIconsTypeOK
    <2>5. ASSUME NEW v \in XIcons
          PROVE  OneEnd(v)' /\ (HasSocket(v) <=> xstate[v] = "embedded" \/ EndComes(v))'
      <3>1. OneEnd(v) /\ (HasSocket(v) <=> xstate[v] = "embedded" \/ EndComes(v))
        BY DEF IconsInv
      <3> QED BY <1>1, <2>1, <2>3, <3>1 DEF OneEnd, HasSocket
    <2> QED BY <1>2, <2>3, <2>4, <2>5 DEF IconsInv
  <1>5. CASE ClientLeaves(w)
    <2>1. PICK to \in {"free", "gone"} :
            /\ xstate[w] = "embedded" \/ (xstate[w] = "free" /\ to = "gone")
            /\ xstate' = [xstate EXCEPT ![w] = to]
      BY <1>5 DEF ClientLeaves
    <2>2. xstate \in [XIcons -> {"free", "embedded", "gone"}]
      BY DEF IconsInv, TrayIconsTypeOK
    <2>3. /\ xstate'[w] = to /\ \A v \in XIcons \ {w} : xstate'[v] = xstate[v]
          /\ xstate' \in [XIcons -> {"free", "embedded", "gone"}]
      BY <2>1, <2>2
    <2>4. TrayIconsTypeOK'
      BY <1>1, <2>3 DEF IconsInv, TrayIconsTypeOK
    <2>5. CASE xstate[w] = "embedded"
      <3>1. trayEvents' = Append(trayEvents, [what |-> "unplugged", window |-> w])
        BY <1>5, <2>5 DEF ClientLeaves, XSends
      <3>2. [what |-> "unplugged", window |-> w] \in TrayEvent
        BY DEF TrayEvent
      <3>3. ~EndComes(w)
        BY <2>5 DEF IconsInv, OneEnd
      <3>4. /\ trayEvents' \in Seq(TrayEvent)
            /\ \A v \in XIcons :
                 /\ EndComes(v)' <=> EndComes(v) \/ v = w
                 /\ (\A i, j \in DOMAIN trayEvents : EndAt(v, i) /\ EndAt(v, j) => i = j)
                    => \A i, j \in DOMAIN trayEvents' : EndAt(v, i)' /\ EndAt(v, j)' => i = j
        BY <1>3, <3>1, <3>2, <3>3, EventAppended
      <3>5. ASSUME NEW v \in XIcons
            PROVE  OneEnd(v)' /\ (HasSocket(v) <=> xstate[v] = "embedded" \/ EndComes(v))'
        <4>1. OneEnd(v) /\ (HasSocket(v) <=> xstate[v] = "embedded" \/ EndComes(v))
          BY DEF IconsInv
        <4>2. HasSocket(v)' <=> HasSocket(v)
          BY <1>1 DEF HasSocket
        <4>3. CASE v = w
          BY <2>3, <2>5, <3>4, <4>1, <4>2, <4>3 DEF OneEnd
        <4>4. CASE v # w
          BY <2>3, <3>4, <4>1, <4>2, <4>4 DEF OneEnd
        <4> QED BY <4>3, <4>4
      <3> QED BY <1>2, <2>4, <3>4, <3>5 DEF IconsInv
    <2>6. CASE xstate[w] # "embedded"
      <3>1. trayEvents' = trayEvents
        BY <1>5, <2>6 DEF ClientLeaves
      <3>2. ASSUME NEW v \in XIcons
            PROVE  OneEnd(v)' /\ (HasSocket(v) <=> xstate[v] = "embedded" \/ EndComes(v))'
        <4>1. OneEnd(v) /\ (HasSocket(v) <=> xstate[v] = "embedded" \/ EndComes(v))
          BY DEF IconsInv
        <4>2. xstate'[v] = "embedded" <=> xstate[v] = "embedded"
          BY <2>1, <2>3, <2>6
        <4> QED BY <1>1, <3>1, <4>1, <4>2 DEF OneEnd, HasSocket, EndComes, EndAt
      <3> QED BY <1>2, <1>3, <2>4, <3>1, <3>2 DEF IconsInv
    <2> QED BY <2>5, <2>6
  <1> QED BY <1>4, <1>5

\* What concerns the tray as a whole leaves the icons where they are.
LEMMA TrayOnlyStep ==
  ASSUME IconsInv, SelectionTaken \/ ManageStage \/ StyleChanged \/ SelectionLost
  PROVE  IconsInv'
  <1>1. UNCHANGED <<xstate, socketTable, trayChildren, made, shownSockets>>
    BY DEF SelectionTaken, ManageStage, StyleChanged, SelectionLost
  <1>2. /\ tray' \in {"new", "managed", "lost", "refused"} /\ palette' \in Palettes
        /\ Cardinality(colorsProp') <= 1
    <2>1. \A p : Cardinality({p}) = 1
      BY FS_Singleton
    <2>2. Cardinality({}) = 0
      BY FS_EmptySet
    <2>3. CASE SelectionTaken
      BY <2>3 DEF SelectionTaken, IconsInv, TrayIconsTypeOK
    <2>4. CASE ManageStage
      <3>1. PICK p : colorsProp' = {p} \/ colorsProp' = colorsProp
        BY <2>4 DEF ManageStage, SetColors
      <3>2. Cardinality(colorsProp) <= 1 /\ palette \in Palettes
        BY DEF IconsInv, TrayIconsTypeOK
      <3>3. tray' \in {"new", "managed", "lost", "refused"} /\ palette' \in Palettes
        BY <2>4, <3>2 DEF ManageStage
      <3>4. CASE colorsProp' = {p}
        <4>1. Cardinality(colorsProp') = 1
          BY <2>1, <3>4, Zenon
        <4> QED BY <3>3, <4>1
      <3>5. CASE colorsProp' = colorsProp
        BY <3>2, <3>3, <3>5
      <3> QED BY <3>1, <3>4, <3>5
    <2>5. CASE StyleChanged
      <3>1. PICK p : colorsProp' = {p} \/ colorsProp' = colorsProp
        BY <2>5 DEF StyleChanged, SetColors
      <3>2. Cardinality(colorsProp) <= 1 /\ tray \in {"new", "managed", "lost", "refused"}
        BY DEF IconsInv, TrayIconsTypeOK
      <3>3. tray' \in {"new", "managed", "lost", "refused"} /\ palette' \in Palettes
        BY <2>5, <3>2 DEF StyleChanged
      <3>4. CASE colorsProp' = {p}
        <4>1. Cardinality(colorsProp') = 1
          BY <2>1, <3>4, Zenon
        <4> QED BY <3>3, <4>1
      <3>5. CASE colorsProp' = colorsProp
        BY <3>2, <3>3, <3>5
      <3> QED BY <3>1, <3>4, <3>5
    <2>6. CASE SelectionLost
      BY <2>2, <2>6 DEF SelectionLost, IconsInv, TrayIconsTypeOK
    <2> QED BY <2>3, <2>4, <2>5, <2>6
  <1>3. TrayIconsTypeOK' /\ SocketsAgree'
    BY <1>1, <1>2 DEF IconsInv, TrayIconsTypeOK, SocketsAgree
  <1>4. /\ trayEvents' \in Seq(TrayEvent)
        /\ \A v \in XIcons :
             /\ EndComes(v)' <=> EndComes(v)
             /\ (\A i, j \in DOMAIN trayEvents : EndAt(v, i) /\ EndAt(v, j) => i = j)
                => \A i, j \in DOMAIN trayEvents' : EndAt(v, i)' /\ EndAt(v, j)' => i = j
    <2>0. trayEvents \in Seq(TrayEvent)
      BY DEF IconsInv
    <2>1. CASE SelectionTaken
      <3>1. trayEvents' = Append(trayEvents, [what |-> "clear"])
        BY <2>1 DEF SelectionTaken
      <3>2. [what |-> "clear"] \in TrayEvent
        BY DEF TrayEvent
      <3> QED BY <2>0, <3>1, <3>2, EventAppended
    <2>2. CASE SelectionLost
      <3>1. trayEvents # <<>> /\ trayEvents' = Tail(trayEvents) /\ Head(trayEvents).what = "clear"
        BY <2>2 DEF SelectionLost, Next1
      <3> QED BY <2>0, <3>1, EventHandled
    <2>3. CASE ManageStage \/ StyleChanged
      <3>1. trayEvents' = trayEvents
        BY <2>3 DEF ManageStage, StyleChanged
      <3> QED BY <2>0, <3>1 DEF EndComes, EndAt
    <2> QED BY <2>1, <2>2, <2>3
  <1>5. ASSUME NEW v \in XIcons
        PROVE  OneEnd(v)' /\ (HasSocket(v) <=> xstate[v] = "embedded" \/ EndComes(v))'
    <2>1. OneEnd(v) /\ (HasSocket(v) <=> xstate[v] = "embedded" \/ EndComes(v))
      BY DEF IconsInv
    <2> QED BY <1>1, <1>4, <2>1 DEF OneEnd, HasSocket
  <1> QED BY <1>3, <1>4, <1>5 DEF IconsInv

\* The child that is made for a window is of that window.
LEMMA NewChild ==
  ASSUME NEW n \in Nat, NEW v \in XIcons, NEW c, c = [IconAdded(NaTrayChild(n, v)) EXCEPT !.hasActor = TRUE]
  PROVE  c.socket = n /\ c.window = v /\ c.hasActor /\ c \in ChildType
  <1>1. CASE v \in AlphaIcons
    <2> DEFINE k == [socket |-> n, window |-> v, hasActor |-> FALSE, alpha |-> TRUE, composited |-> TRUE,
                     parentRelative |-> FALSE]
               m == [k EXCEPT !.composited = FALSE]
    <2>1. (v \in AlphaIcons) = TRUE
      BY <1>1
    <2>2. NaTrayChild(n, v) = k
      BY <2>1, Zenon DEF NaTrayChild
    <2>3. k.alpha = TRUE /\ m.alpha = TRUE
      OBVIOUS
    <2>4. (~m.alpha /\ m.alpha = k.alpha) = FALSE
      BY <2>3
    <2> HIDE DEF k
    <2>5. IconAdded(NaTrayChild(n, v)) = [m EXCEPT !.parentRelative = ~m.alpha /\ m.alpha = k.alpha]
      BY <2>2, Zenon DEF IconAdded, Realized
    <2> HIDE DEF m
    <2>6. c = [[m EXCEPT !.parentRelative = FALSE] EXCEPT !.hasActor = TRUE]
      BY <2>4, <2>5, Zenon
    <2> USE DEF k, m
    <2> QED BY <2>6 DEF ChildType
  <1>2. CASE v \notin AlphaIcons
    <2> DEFINE k == [socket |-> n, window |-> v, hasActor |-> FALSE, alpha |-> FALSE, composited |-> FALSE,
                     parentRelative |-> FALSE]
               m == [k EXCEPT !.composited = FALSE]
    <2>1. (v \in AlphaIcons) = FALSE
      BY <1>2
    <2>2. NaTrayChild(n, v) = k
      BY <2>1, Zenon DEF NaTrayChild
    <2>3. k.alpha = FALSE /\ m.alpha = FALSE
      OBVIOUS
    <2>4. (~m.alpha /\ m.alpha = k.alpha) = TRUE
      BY <2>3
    <2> HIDE DEF k
    <2>5. IconAdded(NaTrayChild(n, v)) = [m EXCEPT !.parentRelative = ~m.alpha /\ m.alpha = k.alpha]
      BY <2>2, Zenon DEF IconAdded, Realized
    <2> HIDE DEF m
    <2>6. c = [[m EXCEPT !.parentRelative = TRUE] EXCEPT !.hasActor = TRUE]
      BY <2>4, <2>5, Zenon
    <2> USE DEF k, m
    <2> QED BY <2>6 DEF ChildType
  <1> QED BY <1>1, <1>2

\* A request to be docked makes a socket for a window that had none, or finds the
\* window gone.
LEMMA HandleDockRequestStep ==
  ASSUME IconsInv, HandleDockRequest
  PROVE  IconsInv'
  <1> DEFINE w == Head(trayEvents).window
  <1>1. /\ trayEvents \in Seq(TrayEvent) /\ trayEvents # <<>> /\ trayEvents' = Tail(trayEvents)
        /\ Head(trayEvents).what = "dock" /\ UNCHANGED <<tray, palette, colors, colorsProp>>
    BY DEF HandleDockRequest, Next1, IconsInv
  <1>2. /\ trayEvents' \in Seq(TrayEvent)
        /\ \A v \in XIcons :
             /\ EndComes(v)' <=> EndComes(v)
             /\ (\A i, j \in DOMAIN trayEvents : EndAt(v, i) /\ EndAt(v, j) => i = j)
                => \A i, j \in DOMAIN trayEvents' : EndAt(v, i)' /\ EndAt(v, j)' => i = j
    BY <1>1, EventHandled
  <1>3. w \in XIcons
    <2>1. Head(trayEvents) \in TrayEvent
      BY <1>1
    <2> QED BY <1>1, <2>1 DEF TrayEvent
  <1>4. /\ tray \in {"new", "managed", "lost", "refused"} /\ palette \in Palettes
        /\ Cardinality(colorsProp) <= 1
        /\ socketTable \subseteq [window : XIcons, socket : Nat] /\ trayChildren \subseteq ChildType
        /\ made \in 0 .. MaxSockets /\ shownSockets \subseteq 1 .. MaxSockets
        /\ xstate \in [XIcons -> {"free", "embedded", "gone"}]
    BY DEF IconsInv, TrayIconsTypeOK
  <1>5. ASSUME NEW v \in XIcons PROVE OneEnd(v) /\ (HasSocket(v) <=> xstate[v] = "embedded" \/ EndComes(v))
    BY DEF IconsInv
  <1>6. SocketsAgree
    BY DEF IconsInv
  <1> DEFINE c == [IconAdded(NaTrayChild(made + 1, w)) EXCEPT !.hasActor = TRUE]
             forgone == tray # "managed" \/ DockedAlready(w) \/ xstate[w] = "gone"
  <1>7. CASE forgone
    <2>1. UNCHANGED <<made, socketTable, trayChildren, shownSockets, xstate>>
      BY <1>7 DEF HandleDockRequest
    <2>2. TrayIconsTypeOK' /\ SocketsAgree'
      BY <1>1, <1>4, <1>6, <2>1 DEF TrayIconsTypeOK, SocketsAgree
    <2>3. ASSUME NEW v \in XIcons
          PROVE  OneEnd(v)' /\ (HasSocket(v) <=> xstate[v] = "embedded" \/ EndComes(v))'
      BY <1>2, <1>5, <2>1 DEF OneEnd, HasSocket
    <2> QED BY <1>2, <2>2, <2>3 DEF IconsInv
  <1>8. CASE ~forgone
    <2>1. /\ made < MaxSockets /\ made' = made + 1
          /\ \/ /\ socketTable' = socketTable \cup {[window |-> w, socket |-> c.socket]}
                /\ trayChildren' = trayChildren \cup {c}
                /\ shownSockets' = shownSockets \cup {c.socket}
                /\ xstate' = [xstate EXCEPT ![w] = "embedded"]
             \/ /\ xstate' = [xstate EXCEPT ![w] = "gone"]
                /\ UNCHANGED <<socketTable, trayChildren, shownSockets>>
      BY <1>8 DEF HandleDockRequest
    <2>2. ~HasSocket(w) /\ xstate[w] # "embedded" /\ ~EndComes(w)
      BY <1>3, <1>5, <1>8 DEF HasSocket, DockedAlready
    <2>3. made \in Nat /\ MaxSockets \in Nat /\ made' \in 0 .. MaxSockets /\ made + 1 \in 1 .. MaxSockets
      BY <1>4, <2>1, TrayIconsAssumption
    <2>4. c.socket = made + 1 /\ c.window = w /\ c.hasActor /\ c \in ChildType
      <3>1. made + 1 \in Nat
        BY <2>3
      <3> HIDE DEF w
      <3> QED BY <1>3, <3>1, NewChild
    <2>5. CASE UNCHANGED <<socketTable, trayChildren, shownSockets>> /\ xstate' = [xstate EXCEPT ![w] = "gone"]
      <3>1. TrayIconsTypeOK'
        BY <1>1, <1>4, <2>3, <2>5 DEF TrayIconsTypeOK
      <3>2. SocketsAgree'
        BY <1>6, <2>1, <2>3, <2>5 DEF SocketsAgree
      <3>3. ASSUME NEW v \in XIcons
            PROVE  OneEnd(v)' /\ (HasSocket(v) <=> xstate[v] = "embedded" \/ EndComes(v))'
        <4>1. xstate'[v] = "embedded" <=> xstate[v] = "embedded"
          BY <1>4, <2>2, <2>5
        <4> QED BY <1>2, <1>5, <2>5, <4>1 DEF OneEnd, HasSocket
      <3> QED BY <1>2, <3>1, <3>2, <3>3 DEF IconsInv
    <2>6. CASE /\ socketTable' = socketTable \cup {[window |-> w, socket |-> c.socket]}
               /\ trayChildren' = trayChildren \cup {c}
               /\ shownSockets' = shownSockets \cup {c.socket}
               /\ xstate' = [xstate EXCEPT ![w] = "embedded"]
      <3> HIDE DEF c, w
      <3> DEFINE new == [window |-> w, socket |-> c.socket]
      <3>1. TrayIconsTypeOK'
        <4>1. new \in [window : XIcons, socket : Nat]
          BY <1>3, <2>3, <2>4
        <4> QED BY <1>1, <1>3, <1>4, <2>3, <2>4, <2>6, <4>1 DEF TrayIconsTypeOK
      <3>2. SocketsAgree'
        <4>1. /\ \A s \in socketTable : s.socket \in 1 .. made /\ s.window # w
              /\ \A s, t \in socketTable : s.socket = t.socket \/ s.window = t.window => s = t
              /\ \A d \in trayChildren : d.hasActor /\ [window |-> d.window, socket |-> d.socket] \in socketTable
              /\ \A s \in socketTable : \E d \in trayChildren : d.socket = s.socket /\ d.window = s.window
              /\ shownSockets = {d.socket : d \in trayChildren}
          BY <1>6, <2>2 DEF SocketsAgree, HasSocket
        <4>2. new.window = w /\ new.socket = made + 1
          BY <2>4
        <4>3. /\ \A s \in socketTable' : s \in socketTable \/ s = new
              /\ \A d \in trayChildren' : d \in trayChildren \/ d = c
          BY <2>6
        <4>4. \A s \in socketTable' : s.socket \in 1 .. made'
          BY <2>1, <2>3, <4>1, <4>2, <4>3
        <4>5. \A s, t \in socketTable' : s.socket = t.socket \/ s.window = t.window => s = t
          <5>1. \A s \in socketTable : s.socket # made + 1
            BY <2>3, <4>1
          <5> QED BY <4>1, <4>2, <4>3, <5>1
        <4>6. \A d \in trayChildren' : d.hasActor /\ [window |-> d.window, socket |-> d.socket] \in socketTable'
          <5>1. [window |-> c.window, socket |-> c.socket] = new
            BY <2>4
          <5> QED BY <2>4, <2>6, <4>1, <4>3, <5>1
        <4>7. \A s \in socketTable' : \E d \in trayChildren' : d.socket = s.socket /\ d.window = s.window
          BY <2>4, <2>6, <4>1, <4>2, <4>3
        <4>8. shownSockets' = {d.socket : d \in trayChildren'}
          BY <2>6, <4>1
        <4> QED BY <4>4, <4>5, <4>6, <4>7, <4>8 DEF SocketsAgree
      <3>3. ASSUME NEW v \in XIcons
            PROVE  OneEnd(v)' /\ (HasSocket(v) <=> xstate[v] = "embedded" \/ EndComes(v))'
        <4>1. xstate'[w] = "embedded" /\ (v # w => xstate'[v] = xstate[v])
          BY <1>3, <1>4, <2>6
        <4>2. HasSocket(v)' <=> HasSocket(v) \/ v = w
          <5>1. new.window = w
            OBVIOUS
          <5> QED BY <2>6, <5>1 DEF HasSocket
        <4> QED BY <1>2, <1>5, <2>2, <4>1, <4>2 DEF OneEnd
      <3> QED BY <1>2, <3>1, <3>2, <3>3 DEF IconsInv
    <2> QED BY <2>1, <2>5, <2>6
  <1> QED BY <1>7, <1>8

\* The end of a socket takes its child, and what the shell shows of it.
LEMMA PlugRemovedStep ==
  ASSUME IconsInv, PlugRemoved
  PROVE  IconsInv'
  <1> DEFINE w == Head(trayEvents).window
             gone == {c \in trayChildren : c.window = w}
  <1>1. /\ trayEvents \in Seq(TrayEvent) /\ trayEvents # <<>> /\ trayEvents' = Tail(trayEvents)
        /\ Head(trayEvents).what = "unplugged"
        /\ UNCHANGED <<tray, palette, colors, colorsProp, xstate, made>>
    BY DEF PlugRemoved, Next1, IconsInv
  <1>2. /\ socketTable' = {s \in socketTable : s.window # w}
        /\ trayChildren' = trayChildren \ gone
        /\ shownSockets' = shownSockets \ {c.socket : c \in {d \in gone : d.hasActor}}
    BY DEF PlugRemoved
  <1>3. w \in XIcons
    <2>1. Head(trayEvents) \in TrayEvent
      BY <1>1
    <2> QED BY <1>1, <2>1 DEF TrayEvent
  <1>4. ASSUME NEW v \in XIcons PROVE OneEnd(v) /\ (HasSocket(v) <=> xstate[v] = "embedded" \/ EndComes(v))
    BY DEF IconsInv
  <1>5. /\ trayEvents' \in Seq(TrayEvent)
        /\ \A v \in XIcons :
             /\ EndComes(v)' <=> EndComes(v) /\ v # w
             /\ (\A i, j \in DOMAIN trayEvents : EndAt(v, i) /\ EndAt(v, j) => i = j)
                => \A i, j \in DOMAIN trayEvents' : EndAt(v, i)' /\ EndAt(v, j)' => i = j
    BY <1>1, <1>4, EventHandled DEF OneEnd
  <1>6. xstate[w] # "embedded"
    BY <1>1, <1>3, <1>4, EventHandled DEF OneEnd
  <1> HIDE DEF w
  <1>7. TrayIconsTypeOK'
    BY <1>1, <1>2 DEF IconsInv, TrayIconsTypeOK
  <1>8. SocketsAgree'
    <2>1. /\ \A s \in socketTable : s.socket \in 1 .. made
          /\ \A s, t \in socketTable : s.socket = t.socket \/ s.window = t.window => s = t
          /\ \A c \in trayChildren : c.hasActor /\ [window |-> c.window, socket |-> c.socket] \in socketTable
          /\ \A s \in socketTable : \E c \in trayChildren : c.socket = s.socket /\ c.window = s.window
          /\ shownSockets = {c.socket : c \in trayChildren}
      BY DEF IconsInv, SocketsAgree
    <2>2. \A c \in trayChildren' : c.hasActor /\ [window |-> c.window, socket |-> c.socket] \in socketTable'
      BY <1>2, <2>1
    <2>3. \A s \in socketTable' : \E c \in trayChildren' : c.socket = s.socket /\ c.window = s.window
      BY <1>2, <2>1
    <2>4. \A c, d \in trayChildren : c.socket = d.socket => c.window = d.window
      <3>1. ASSUME NEW c \in trayChildren, NEW d \in trayChildren, c.socket = d.socket
            PROVE  c.window = d.window
        <4>1. [window |-> c.window, socket |-> c.socket] = [window |-> d.window, socket |-> d.socket]
          BY <2>1, <3>1
        <4> QED BY <4>1
      <3> QED BY <3>1
    <2>5. shownSockets' = {c.socket : c \in trayChildren'}
      <3>1. {d \in gone : d.hasActor} = gone
        BY <2>1
      <3>2. shownSockets' = {c.socket : c \in trayChildren} \ {c.socket : c \in gone}
        BY <1>2, <2>1, <3>1
      <3> QED BY <1>2, <2>4, <3>2
    <2>6. /\ \A s \in socketTable' : s.socket \in 1 .. made'
          /\ \A s, t \in socketTable' : s.socket = t.socket \/ s.window = t.window => s = t
      BY <1>1, <1>2, <2>1
    <2> QED BY <2>2, <2>3, <2>5, <2>6 DEF SocketsAgree
  <1>9. ASSUME NEW v \in XIcons
        PROVE  OneEnd(v)' /\ (HasSocket(v) <=> xstate[v] = "embedded" \/ EndComes(v))'
    <2>1. HasSocket(v)' <=> HasSocket(v) /\ v # w
      BY <1>2 DEF HasSocket
    <2> QED BY <1>1, <1>4, <1>5, <1>6, <2>1 DEF OneEnd
  <1> QED BY <1>5, <1>7, <1>8, <1>9 DEF IconsInv

\* Every step keeps the icons as they should be.
LEMMA IconsStep == IconsInv /\ [TrayIconsNext]_trayVars => IconsInv'
  <1> SUFFICES ASSUME IconsInv, [TrayIconsNext]_trayVars PROVE IconsInv'
    OBVIOUS
  <1>1. CASE \E w \in XIcons : ClientDocks(w) \/ ClientLeaves(w)
    BY <1>1, ClientStep
  <1>2. CASE SelectionTaken \/ ManageStage \/ StyleChanged \/ SelectionLost
    BY <1>2, TrayOnlyStep
  <1>3. CASE HandleDockRequest
    BY <1>3, HandleDockRequestStep
  <1>4. CASE PlugRemoved
    BY <1>4, PlugRemovedStep
  <1>5. CASE UNCHANGED trayVars
    BY <1>5 DEF trayVars, IconsInv, TrayIconsTypeOK, SocketsAgree, OneEnd, HasSocket, EndComes, EndAt
  <1> QED BY <1>1, <1>2, <1>3, <1>4, <1>5 DEF TrayIconsNext

\* The invariant says that what is shown is what is embedded.
LEMMA IconsAgree == IconsInv => TrayIconsTypeOK /\ ShownIsEmbedded
  <1> SUFFICES ASSUME IconsInv PROVE ShownIsEmbedded
    BY DEF IconsInv
  <1>1. /\ \A s, t \in socketTable : s.socket = t.socket \/ s.window = t.window => s = t
        /\ \A c \in trayChildren : c.hasActor /\ [window |-> c.window, socket |-> c.socket] \in socketTable
        /\ \A s \in socketTable : \E c \in trayChildren : c.socket = s.socket /\ c.window = s.window
        /\ shownSockets = {c.socket : c \in trayChildren}
    BY DEF IconsInv, SocketsAgree
  <1>2. shownSockets = {s.socket : s \in socketTable}
    <2>1. \A c \in trayChildren : \E s \in socketTable : s.socket = c.socket
      BY <1>1
    <2> QED BY <1>1, <2>1
  <1>3. ASSUME NEW w \in XIcons, NEW left,
               left = {i \in DOMAIN trayEvents : trayEvents[i].what = "unplugged" /\ trayEvents[i].window = w}
        PROVE  Cardinality({s \in socketTable : s.window = w}) = (IF xstate[w] = "embedded" \/ left # {} THEN 1 ELSE 0)
    <2>1. left # {} <=> EndComes(w)
      BY <1>3 DEF EndComes, EndAt
    <2>2. HasSocket(w) <=> xstate[w] = "embedded" \/ EndComes(w)
      BY DEF IconsInv
    <2>3. CASE HasSocket(w)
      <3>1. PICK s \in socketTable : s.window = w
        BY <2>3 DEF HasSocket
      <3>2. {t \in socketTable : t.window = w} = {s}
        BY <1>1, <3>1
      <3>3. Cardinality({s}) = 1
        BY FS_Singleton
      <3> QED BY <2>1, <2>2, <2>3, <3>2, <3>3
    <2>4. CASE ~HasSocket(w)
      <3>1. {t \in socketTable : t.window = w} = {}
        BY <2>4 DEF HasSocket
      <3>2. Cardinality({}) = 0
        BY FS_EmptySet
      <3> QED BY <2>1, <2>2, <2>4, <3>1, <3>2
    <2> QED BY <2>3, <2>4
  <1> QED BY <1>1, <1>2, <1>3 DEF ShownIsEmbedded

-----------------------------------------------------------------------------
(***************************************************************************)
(* The events of the calendar                                              *)
(***************************************************************************)

Call == [range : DOMAIN Ranges, force : BOOLEAN]
CalMessage ==
  [what : {"events"}, events : [Calendars -> Nat]] \cup [what : {"Changed", "error", "vanished", "appeared"}]
CalNotice == [of : Calendars, kind : {"added", "modified", "removed"}]

CalTypes ==
  /\ content \in [Calendars -> Nat] /\ cached \in [Calendars -> Nat] /\ events \in [Calendars -> Nat]
  /\ selected \subseteq Calendars /\ clients \subseteq Calendars /\ live \subseteq Calendars
  /\ edits \in Nat /\ {serverUp, restarting, cacheInvalid, changedTimer, untold} \subseteq BOOLEAN
  /\ range = {} \/ \E r \in DOMAIN Ranges : range = {r}
  /\ loading = {} \/ \E b \in BOOLEAN : loading = {[answer |-> b]}
  /\ notices \in Seq(CalNotice) /\ asking \in Seq(Call) /\ telling \in Seq(CalMessage)
  /\ curRequest = {} \/ \E r \in DOMAIN Ranges : curRequest = {r}
  /\ lastRequest \subseteq curRequest

\* What is under way to the shell ends with the events v, or nothing but the
\* signal is and the shell has them.
Comes(v) ==
  \/ \E i \in DOMAIN telling : /\ telling[i].what = "events" /\ telling[i].events = v
                               /\ \A j \in DOMAIN telling : j > i => telling[j].what = "Changed"
  \/ events = v /\ \A j \in DOMAIN telling : telling[j].what = "Changed"

\* The view on a calendar has nothing to say, and the server has the appointment
\* as it is; or the first thing that it says makes the server drop what it has.
ViewTells(r, c) ==
  \/ cached[c] = Visible(r, content)[c] /\ \A i \in DOMAIN notices : notices[i].of # c
  \/ \E i \in DOMAIN notices : /\ notices[i].of = c /\ \A j \in DOMAIN notices : j < i => notices[j].of # c
                               /\ notices[i].kind # "added" \/ cached[c] = 0

\* A server that nobody asked has nothing, and the last call asks for what the
\* shell wants.
AskedInOrder ==
  /\ range = {} => ServerStarts
  /\ curRequest = {} \/ ~serverUp => range = {} /\ asking = <<>>
  /\ serverUp /\ curRequest # {} =>
       IF asking = <<>> THEN range = curRequest ELSE curRequest = {asking[Len(asking)].range}

ToldLast == serverUp /\ asking = <<>> /\ loading = {} /\ ~untold => Comes(cached)

\* The cache is as the views say, or the shell will hear that it is not.
CacheTells ==
  /\ loading # {} => notices = <<>> /\ ~cacheInvalid
  /\ ~cacheInvalid => \A r \in range : \A c \in live \ unheard : ViewTells(r, c)
  /\ cacheInvalid => changedTimer \/ asking # <<>> \/ \E i \in DOMAIN telling : telling[i].what = "Changed"
  /\ \A c \in Calendars \ (clients \cup unheard) : cached[c] = 0

CalendarInv == CalTypes /\ AskedInOrder /\ ToldLast /\ CacheTells

\* A message that is appended is the last one.
LEMMA MessageAppended ==
  ASSUME telling \in Seq(CalMessage), NEW m \in CalMessage, telling' = Append(telling, m)
  PROVE  /\ telling' \in Seq(CalMessage)
         /\ m.what = "events" => Comes(m.events)'
         /\ \A v : m.what = "Changed" /\ events' = events /\ Comes(v) => Comes(v)'
         /\ (\E i \in DOMAIN telling : telling[i].what = "Changed") \/ m.what = "Changed"
            => \E i \in DOMAIN telling' : telling'[i].what = "Changed"
  <1>1. PICK n \in Nat : n = Len(telling)
    OBVIOUS
  <1>2. /\ telling' \in Seq(CalMessage)
        /\ DOMAIN telling = 1 .. n /\ DOMAIN telling' = 1 .. n + 1
        /\ telling'[n + 1] = m
        /\ \A i \in 1 .. n : telling'[i] = telling[i]
    BY <1>1
  <1>3. n + 1 \in 1 .. n + 1 /\ (\A i \in 1 .. n + 1 : i \in 1 .. n \/ i = n + 1) /\ (\A i \in 1 .. n : i \in 1 .. n + 1)
    OBVIOUS
  <1>4. ASSUME m.what = "events" PROVE Comes(m.events)'
    <2>1. ~\E j \in 1 .. n + 1 : j > n + 1
      OBVIOUS
    <2> QED BY <1>2, <1>3, <1>4, <2>1 DEF Comes
  <1>5. ASSUME NEW v, m.what = "Changed", events' = events, Comes(v) PROVE Comes(v)'
    <2>1. CASE events = v /\ \A j \in DOMAIN telling : telling[j].what = "Changed"
      BY <1>2, <1>3, <1>5, <2>1 DEF Comes
    <2>2. ASSUME NEW i \in DOMAIN telling, telling[i].what = "events", telling[i].events = v,
                 \A j \in DOMAIN telling : j > i => telling[j].what = "Changed"
          PROVE  Comes(v)'
      <3>1. i \in DOMAIN telling' /\ telling'[i].what = "events" /\ telling'[i].events = v
        BY <1>2, <1>3, <2>2
      <3>2. \A j \in DOMAIN telling' : j > i => telling'[j].what = "Changed"
        BY <1>2, <1>3, <1>5, <2>2
      <3> QED BY <3>1, <3>2 DEF Comes
    <2> QED BY <1>5, <2>1, <2>2 DEF Comes
  <1>6. (\E i \in DOMAIN telling : telling[i].what = "Changed") \/ m.what = "Changed"
        => \E i \in DOMAIN telling' : telling'[i].what = "Changed"
    BY <1>2, <1>3
  <1> QED BY <1>2, <1>4, <1>5, <1>6

\* The shell hears the messages in order.
LEMMA MessageHeard ==
  ASSUME telling \in Seq(CalMessage), telling # <<>>, telling' = Tail(telling)
  PROVE  /\ telling' \in Seq(CalMessage) /\ Head(telling) \in CalMessage
         /\ \A v : /\ Comes(v)
                   /\ Head(telling).what = "events" => events' = Head(telling).events
                   /\ Head(telling).what = "Changed" => events' = events
                   => Comes(v)'
         /\ (\E i \in DOMAIN telling : telling[i].what = "Changed")
            => Head(telling).what = "Changed" \/ \E i \in DOMAIN telling' : telling'[i].what = "Changed"
  <1>1. PICK n \in Nat : n = Len(telling) /\ n > 0
    OBVIOUS
  <1>2. /\ telling' \in Seq(CalMessage) /\ Head(telling) \in CalMessage
        /\ DOMAIN telling = 1 .. n /\ DOMAIN telling' = 1 .. n - 1
        /\ telling[1] = Head(telling)
        /\ \A i \in 1 .. n - 1 : telling'[i] = telling[i + 1]
    BY <1>1
  <1>3. /\ 1 \in 1 .. n
        /\ \A i \in 1 .. n : i # 1 => i - 1 \in 1 .. n - 1 /\ (i - 1) + 1 = i
        /\ \A i \in 1 .. n - 1 : i + 1 \in 1 .. n /\ i + 1 > 1
    BY <1>1
  <1>4. ASSUME NEW v, Comes(v),
               Head(telling).what = "events" => events' = Head(telling).events,
               Head(telling).what = "Changed" => events' = events
        PROVE  Comes(v)'
    <2>1. CASE events = v /\ \A j \in DOMAIN telling : telling[j].what = "Changed"
      <3>1. events' = v /\ \A j \in DOMAIN telling' : telling'[j].what = "Changed"
        BY <1>2, <1>3, <1>4, <2>1
      <3> QED BY <3>1 DEF Comes
    <2>2. ASSUME NEW i \in DOMAIN telling, telling[i].what = "events", telling[i].events = v,
                 \A j \in DOMAIN telling : j > i => telling[j].what = "Changed"
          PROVE  Comes(v)'
      <3>1. CASE i = 1
        <4>1. events' = v
          BY <1>2, <1>4, <2>2, <3>1
        <4>2. \A j \in DOMAIN telling' : telling'[j].what = "Changed"
          BY <1>2, <1>3, <2>2, <3>1
        <4> QED BY <4>1, <4>2 DEF Comes
      <3>2. CASE i # 1
        <4>1. PICK k \in 1 .. n - 1 : k + 1 = i
          BY <1>2, <1>3, <3>2
        <4>2. k \in DOMAIN telling' /\ telling'[k].what = "events" /\ telling'[k].events = v
          BY <1>2, <2>2, <4>1
        <4>3. \A j \in 1 .. n - 1 : j > k => j + 1 > i
          BY <4>1
        <4>4. \A j \in DOMAIN telling' : j > k => telling'[j].what = "Changed"
          BY <1>2, <1>3, <2>2, <4>3
        <4> QED BY <4>2, <4>4 DEF Comes
      <3> QED BY <3>1, <3>2
    <2> QED BY <1>4, <2>1, <2>2 DEF Comes
  <1>5. ASSUME NEW i \in DOMAIN telling, telling[i].what = "Changed"
        PROVE  Head(telling).what = "Changed" \/ \E k \in DOMAIN telling' : telling'[k].what = "Changed"
    <2>1. CASE i = 1
      BY <1>2, <1>5, <2>1
    <2>2. CASE i # 1
      <3>1. PICK k \in 1 .. n - 1 : k + 1 = i
        BY <1>2, <1>3, <2>2
      <3> QED BY <1>2, <1>5, <3>1
    <2> QED BY <2>1, <2>2
  <1> QED BY <1>2, <1>4, <1>5

\* At first nobody has asked for anything.
LEMMA CalendarStart == CalendarInit => CalendarInv
  <1> SUFFICES ASSUME CalendarInit PROVE CalendarInv
    OBVIOUS
  <1>1. NoEvents \in [Calendars -> Nat]
    BY DEF NoEvents
  <1>2. /\ content = NoEvents /\ selected \subseteq Calendars /\ edits = 0 /\ serverUp = TRUE /\ ServerStarts
        /\ asking = <<>> /\ telling = <<>> /\ curRequest = {} /\ lastRequest = {} /\ events = NoEvents
        /\ unheard = {} /\ untold = FALSE
    BY DEF CalendarInit
  <1>3. /\ clients = {} /\ restarting = FALSE /\ range = {} /\ cached = NoEvents /\ live = {}
        /\ cacheInvalid = FALSE /\ changedTimer = FALSE /\ loading = {} /\ notices = <<>>
    BY <1>2 DEF ServerStarts
  <1>4. <<>> \in Seq(CalNotice) /\ <<>> \in Seq(Call) /\ <<>> \in Seq(CalMessage)
    OBVIOUS
  <1>5. CalTypes
    BY <1>1, <1>2, <1>3, <1>4 DEF CalTypes
  <1>6. AskedInOrder
    BY <1>2, <1>3 DEF AskedInOrder
  <1>7. ToldLast
    BY <1>2, <1>3 DEF ToldLast, Comes
  <1>8. CacheTells
    BY <1>2, <1>3 DEF CacheTells, NoEvents
  <1> QED BY <1>5, <1>6, <1>7, <1>8 DEF CalendarInv

\* What is loaded is as the calendars are, and nothing is left to be said of it.
LEMMA Loaded ==
  ASSUME CalTypes, NEW from \in SUBSET Calendars, NEW r \in DOMAIN Ranges, NEW answer \in BOOLEAN,
         LoadEvents(from, r, answer), range' = {r}, clients' = from, content' = content
  PROVE  /\ cached' \in [Calendars -> Nat] /\ live' \subseteq Calendars
         /\ loading' = {[answer |-> answer]} /\ notices' \in Seq(CalNotice)
         /\ cacheInvalid' = FALSE /\ changedTimer' = changedTimer
         /\ CacheTells'
  <1>1. PICK opened \in SUBSET from, viewed \in SUBSET from :
          /\ viewed \subseteq opened
          /\ cached' = [c \in Calendars |-> IF c \in opened THEN Visible(r, content)[c] ELSE 0]
          /\ live' = viewed
    BY DEF LoadEvents
  <1>2. /\ notices' = <<>> /\ loading' = {[answer |-> answer]}
        /\ unheard' = {} /\ cacheInvalid' = FALSE /\ changedTimer' = changedTimer
    BY DEF LoadEvents
  <1>3. \A c \in Calendars : Visible(r, content)[c] \in Nat
    BY DEF CalTypes, Visible
  <1>4. cached' \in [Calendars -> Nat]
    BY <1>1, <1>3
  <1>5. live' \subseteq Calendars
    BY <1>1
  <1>6. <<>> \in Seq(CalNotice)
    OBVIOUS
  <1>7. \A c \in live' : cached'[c] = Visible(r, content)[c]
    BY <1>1
  <1>8. \A c \in Calendars \ from : cached'[c] = 0
    BY <1>1
  <1>9. \A c \in live' : ViewTells(r, c)'
    <2>1. DOMAIN notices' = {}
      BY <1>2
    <2>2. Visible(r, content)' = Visible(r, content)
      BY DEF Visible
    <2> QED BY <1>7, <2>1, <2>2 DEF ViewTells
  <1>10. CacheTells'
    BY <1>2, <1>8, <1>9 DEF CacheTells
  <1> QED BY <1>2, <1>4, <1>5, <1>6, <1>10

\* An appointment changes, and its view says so.
LEMMA AppointmentEditedStep ==
  ASSUME CalendarInv, NEW d \in Calendars, AppointmentEdited(d)
  PROVE  CalendarInv'
  <1>1. CalTypes /\ AskedInOrder /\ ToldLast /\ CacheTells
    BY DEF CalendarInv
  <1>2. PICK v \in {0, edits + 1} \ {content[d]} :
          /\ content' = [content EXCEPT ![d] = v]
          /\ notices' = IF d \in live /\ loading = {}
                        THEN Append(notices, [of |-> d, kind |-> IF content[d] = 0 THEN "added"
                                                                 ELSE IF v = 0 THEN "removed" ELSE "modified"])
                        ELSE notices
    BY DEF AppointmentEdited
  <1>3. /\ edits' = edits + 1
        /\ unheard' = IF loading # {} THEN unheard \cup {d} ELSE unheard
        /\ UNCHANGED <<selected, serverUp, clients, restarting, range, cached, live, cacheInvalid, changedTimer, loading,
                       asking, telling, curRequest, lastRequest, events, untold>>
    BY DEF AppointmentEdited, shellVars
  <1> DEFINE e == [of |-> d, kind |-> IF content[d] = 0 THEN "added" ELSE IF v = 0 THEN "removed" ELSE "modified"]
  <1>4. e \in CalNotice
    BY DEF CalNotice
  <1>5. edits \in Nat /\ v \in Nat /\ content \in [Calendars -> Nat] /\ notices \in Seq(CalNotice)
    BY <1>1, <1>2 DEF CalTypes
  <1>6. edits' \in Nat /\ content' \in [Calendars -> Nat]
    BY <1>2, <1>3, <1>5
  <1>7. notices' \in Seq(CalNotice)
    <2>1. CASE d \in live /\ loading = {}
      <3>1. notices' = Append(notices, e)
        BY <1>2, <2>1
      <3> HIDE DEF e
      <3> QED BY <1>4, <1>5, <3>1
    <2>2. CASE ~(d \in live /\ loading = {})
      BY <1>2, <1>5, <2>2
    <2> QED BY <2>1, <2>2
  <1>8. CalTypes'
    BY <1>1, <1>3, <1>6, <1>7 DEF CalTypes
  <1>9. AskedInOrder'
    <2>1. range = {} => ServerStarts'
      BY <1>1, <1>2, <1>3 DEF AskedInOrder, ServerStarts
    <2> QED BY <1>1, <1>3, <2>1 DEF AskedInOrder
  <1>10. ToldLast'
    BY <1>1, <1>3 DEF ToldLast, Comes
  <1>11. CacheTells'
    <2>1. loading' # {} => notices' = <<>> /\ ~cacheInvalid'
      BY <1>1, <1>2, <1>3 DEF CacheTells
    <2>2. cacheInvalid' => changedTimer' \/ asking' # <<>> \/ \E i \in DOMAIN telling' : telling'[i].what = "Changed"
      BY <1>1, <1>3 DEF CacheTells
    <2>3. \A c \in Calendars \ (clients' \cup unheard') : cached'[c] = 0
      BY <1>1, <1>3 DEF CacheTells
    <2>4. ASSUME ~cacheInvalid', NEW r \in range', NEW c \in live' \ unheard' PROVE ViewTells(r, c)'
      <3>1. ViewTells(r, c) /\ c \in Calendars
        BY <1>1, <1>3, <2>4 DEF CacheTells, CalTypes
      <3>2. CASE c = d
        <4>1. loading = {}
          BY <1>3, <2>4, <3>2
        <4>2. notices' = Append(notices, e)
          BY <1>2, <1>3, <2>4, <3>2, <4>1
        <4> HIDE DEF e
        <4>3. PICK n \in Nat : n = Len(notices)
          BY <1>5
        <4>4. /\ DOMAIN notices = 1 .. n /\ DOMAIN notices' = 1 .. n + 1 /\ notices'[n + 1] = e
              /\ \A i \in 1 .. n : notices'[i] = notices[i]
          BY <1>5, <4>2, <4>3
        <4>5. CASE cached[c] = Visible(r, content)[c] /\ \A i \in DOMAIN notices : notices[i].of # c
          <5>1. e.of = c /\ (e.kind # "added" \/ cached'[c] = 0)
            <6>1. content[d] = 0 => Visible(r, content)[d] = 0
              BY DEF Visible
            <6> USE DEF e
            <6> QED BY <1>3, <3>2, <4>5, <6>1
          <5>2. n + 1 \in DOMAIN notices' /\ \A j \in DOMAIN notices' : j < n + 1 => notices'[j].of # c
            BY <4>4, <4>5
          <5> QED BY <4>4, <5>1, <5>2 DEF ViewTells
        <4>6. ASSUME NEW i \in DOMAIN notices, notices[i].of = c, \A j \in DOMAIN notices : j < i => notices[j].of # c,
                     notices[i].kind # "added" \/ cached[c] = 0
              PROVE  ViewTells(r, c)'
          <5>1. i \in DOMAIN notices' /\ notices'[i] = notices[i]
            BY <4>4
          <5>2. \A j \in DOMAIN notices' : j < i => notices'[j].of # c
            BY <4>4, <4>6
          <5> QED BY <1>3, <4>6, <5>1, <5>2 DEF ViewTells
        <4> QED BY <3>1, <4>5, <4>6 DEF ViewTells
      <3>3. CASE c # d
        <4>1. Visible(r, content)'[c] = Visible(r, content)[c]
          BY <1>2, <1>5, <3>1, <3>3 DEF Visible
        <4>2. CASE notices' = notices
          BY <1>3, <3>1, <4>1, <4>2 DEF ViewTells
        <4>3. CASE notices' = Append(notices, e)
          <5> HIDE DEF e
          <5>0. e.of # c
            BY <3>3 DEF e
          <5>1. PICK n \in Nat : n = Len(notices)
            BY <1>5
          <5>2. /\ DOMAIN notices = 1 .. n /\ DOMAIN notices' = 1 .. n + 1 /\ notices'[n + 1] = e
                /\ \A i \in 1 .. n : notices'[i] = notices[i]
            BY <1>5, <4>3, <5>1
          <5>3. CASE cached[c] = Visible(r, content)[c] /\ \A i \in DOMAIN notices : notices[i].of # c
            <6>1. \A i \in DOMAIN notices' : notices'[i].of # c
              BY <5>0, <5>2, <5>3
            <6> QED BY <1>3, <4>1, <5>3, <6>1 DEF ViewTells
          <5>4. ASSUME NEW i \in DOMAIN notices, notices[i].of = c, \A j \in DOMAIN notices : j < i => notices[j].of # c,
                       notices[i].kind # "added" \/ cached[c] = 0
                PROVE  ViewTells(r, c)'
            <6>1. i \in DOMAIN notices' /\ notices'[i] = notices[i]
              BY <5>2
            <6>2. \A j \in DOMAIN notices' : j < i => notices'[j].of # c
              BY <5>2, <5>4
            <6> QED BY <1>3, <5>4, <6>1, <6>2 DEF ViewTells
          <5> QED BY <3>1, <5>3, <5>4 DEF ViewTells
        <4> QED BY <1>2, <4>2, <4>3
      <3> QED BY <3>2, <3>3
    <2> QED BY <2>1, <2>2, <2>3, <2>4 DEF CacheTells
  <1> QED BY <1>8, <1>9, <1>10, <1>11 DEF CalendarInv

\* The server handles what a view said: what it has is not what there is any more.
LEMMA ObjectsChangedStep ==
  ASSUME CalendarInv, ObjectsChanged
  PROVE  CalendarInv'
  <1>1. CalTypes /\ AskedInOrder /\ ToldLast /\ CacheTells
    BY DEF CalendarInv
  <1>2. /\ serverUp /\ loading = {} /\ notices # <<>> /\ notices' = Tail(notices)
        /\ UNCHANGED <<content, selected, edits, serverUp, clients, restarting, range, cached, live, loading, asking, telling,
                       curRequest, lastRequest, events, unheard, untold>>
    BY DEF ObjectsChanged, Idle, shellVars
  <1>3. IF Head(notices).kind = "added" /\ cached[Head(notices).of] # 0 THEN UNCHANGED <<cacheInvalid, changedTimer>>
        ELSE cacheInvalid' = TRUE /\ changedTimer' = TRUE
    BY DEF ObjectsChanged
  <1>4. PICK n \in Nat : n = Len(notices) /\ n > 0
    BY <1>1, <1>2 DEF CalTypes
  <1>5. /\ notices' \in Seq(CalNotice)
        /\ DOMAIN notices = 1 .. n /\ DOMAIN notices' = 1 .. n - 1 /\ notices[1] = Head(notices)
        /\ \A i \in 1 .. n - 1 : notices'[i] = notices[i + 1]
    BY <1>1, <1>2, <1>4 DEF CalTypes
  <1>6. /\ 1 \in 1 .. n
        /\ \A i \in 1 .. n : i # 1 => i - 1 \in 1 .. n - 1 /\ (i - 1) + 1 = i
        /\ \A i \in 1 .. n - 1 : i + 1 \in 1 .. n /\ i + 1 > 1
    BY <1>4
  <1>7. CalTypes'
    <2>1. cacheInvalid' \in BOOLEAN /\ changedTimer' \in BOOLEAN
      BY <1>1, <1>3 DEF CalTypes
    <2> QED BY <1>1, <1>2, <1>5, <2>1 DEF CalTypes
  <1>8. AskedInOrder'
    BY <1>1, <1>2 DEF AskedInOrder, ServerStarts
  <1>9. ToldLast'
    BY <1>1, <1>2 DEF ToldLast, Comes
  <1>10. CacheTells'
    <2>1. loading' = {} /\ \A c \in Calendars \ (clients' \cup unheard') : cached'[c] = 0
      BY <1>1, <1>2 DEF CacheTells
    <2>2. cacheInvalid' => changedTimer' \/ asking' # <<>> \/ \E i \in DOMAIN telling' : telling'[i].what = "Changed"
      BY <1>1, <1>2, <1>3 DEF CacheTells
    <2>3. ASSUME ~cacheInvalid', NEW r \in range', NEW c \in live' \ unheard' PROVE ViewTells(r, c)'
      <3>1. Head(notices).kind = "added" /\ cached[Head(notices).of] # 0 /\ ~cacheInvalid
        BY <1>3, <2>3
      <3>2. ViewTells(r, c)
        BY <1>1, <1>2, <2>3, <3>1 DEF CacheTells
      <3>3. CASE cached[c] = Visible(r, content)[c] /\ \A i \in DOMAIN notices : notices[i].of # c
        <4>1. \A i \in DOMAIN notices' : notices'[i].of # c
          BY <1>5, <1>6, <3>3
        <4>2. Visible(r, content)' = Visible(r, content)
          BY <1>2 DEF Visible
        <4> QED BY <1>2, <3>3, <4>1, <4>2 DEF ViewTells
      <3>4. ASSUME NEW i \in DOMAIN notices, notices[i].of = c, \A j \in DOMAIN notices : j < i => notices[j].of # c,
                   notices[i].kind # "added" \/ cached[c] = 0
            PROVE  ViewTells(r, c)'
        <4>1. i # 1
          BY <1>5, <3>1, <3>4
        <4>2. PICK k \in 1 .. n - 1 : k + 1 = i
          BY <1>5, <1>6, <4>1
        <4>3. \A j \in 1 .. n - 1 : j < k => j + 1 < i
          BY <4>2
        <4>4. k \in DOMAIN notices' /\ notices'[k] = notices[i]
          BY <1>5, <4>2
        <4>5. \A j \in DOMAIN notices' : j < k => notices'[j].of # c
          BY <1>5, <1>6, <3>4, <4>3, ZenonT(60)
        <4> QED BY <1>2, <3>4, <4>4, <4>5 DEF ViewTells
      <3> QED BY <3>2, <3>3, <3>4 DEF ViewTells
    <2> QED BY <2>1, <2>2, <2>3 DEF CacheTells
  <1> QED BY <1>7, <1>8, <1>9, <1>10 DEF CalendarInv

\* The clients of a backend that died are gone, and their calendar unheard of.
LEMMA BackendDiedStep ==
  ASSUME CalendarInv, NEW d \in Calendars, BackendDied(d)
  PROVE  CalendarInv'
  <1>1. CalTypes /\ AskedInOrder /\ ToldLast /\ CacheTells
    BY DEF CalendarInv
  <1>2. /\ edits' = edits + 1 /\ serverUp /\ loading = {} /\ d \in clients
        /\ clients' = clients \ {d} /\ live' = live \ {d} /\ restarting' = TRUE /\ unheard' = unheard \cup {d}
        /\ UNCHANGED <<content, selected, serverUp, range, cached, cacheInvalid, changedTimer, loading, notices, asking, telling,
                       curRequest, lastRequest, events, untold>>
    BY DEF BackendDied, Idle, shellVars
  <1>3. CalTypes'
    BY <1>1, <1>2 DEF CalTypes
  <1>4. AskedInOrder'
    <2>1. range # {}
      BY <1>1, <1>2 DEF AskedInOrder, ServerStarts
    <2> QED BY <1>1, <1>2, <2>1 DEF AskedInOrder
  <1>5. ToldLast'
    BY <1>1, <1>2 DEF ToldLast, Comes
  <1>6. CacheTells'
    <2>1. \A r, c : ViewTells(r, c)' <=> ViewTells(r, c)
      BY <1>2 DEF ViewTells, Visible
    <2> QED BY <1>1, <1>2, <2>1 DEF CacheTells
  <1> QED BY <1>3, <1>4, <1>5, <1>6 DEF CalendarInv

\* The sources change, or a client is made again for one whose backend died.
LEMMA SourcesStep ==
  ASSUME CalendarInv, SelectionChanged \/ BackendRestart
  PROVE  CalendarInv'
  <1>1. CalTypes /\ AskedInOrder /\ ToldLast /\ CacheTells
    BY DEF CalendarInv
  <1>2. /\ serverUp /\ loading = {} /\ selected' \subseteq Calendars /\ edits' \in Nat
        /\ UNCHANGED <<content, serverUp, range, asking, telling, curRequest, lastRequest, events, untold>>
    BY <1>1 DEF SelectionChanged, BackendRestart, Idle, shellVars, CalTypes
  <1>3. restarting' \in BOOLEAN
    BY <1>1 DEF SelectionChanged, BackendRestart, CalTypes
  <1>4. CASE UNCHANGED <<cached, live, notices, loading, unheard, cacheInvalid, changedTimer>> /\ (range # {} => clients' = clients)
             /\ (range = {} => clients' = clients /\ restarting' = restarting)
    <2>1. clients' = clients
      BY <1>4
    <2>2. CalTypes'
      BY <1>1, <1>2, <1>3, <1>4, <2>1 DEF CalTypes
    <2>3. AskedInOrder'
      BY <1>1, <1>2, <1>4, <2>1 DEF AskedInOrder, ServerStarts
    <2>4. ToldLast'
      BY <1>1, <1>2, <1>4 DEF ToldLast, Comes
    <2>5. CacheTells'
      <3>1. \A r, c : ViewTells(r, c)' <=> ViewTells(r, c)
        BY <1>2, <1>4 DEF ViewTells, Visible
      <3> QED BY <1>1, <1>2, <1>4, <2>1, <3>1 DEF CacheTells
    <2> QED BY <2>2, <2>3, <2>4, <2>5 DEF CalendarInv
  <1>5. CASE clients' = selected' /\ range # {} /\ LoadEvents(selected', CHOOSE r \in range : TRUE, FALSE)
    <2>1. PICK r \in DOMAIN Ranges : range = {r}
      BY <1>1, <1>5 DEF CalTypes
    <2>2. (CHOOSE x \in range : TRUE) = r
      BY <2>1
    <2>3. PICK from \in SUBSET Calendars : from = selected'
      BY <1>2
    <2>4. LoadEvents(from, r, FALSE) /\ range' = {r} /\ clients' = from /\ content' = content
      BY <1>2, <1>5, <2>1, <2>2, <2>3
    <2>5. /\ cached' \in [Calendars -> Nat] /\ live' \subseteq Calendars
          /\ loading' = {[answer |-> FALSE]} /\ notices' \in Seq(CalNotice)
          /\ cacheInvalid' = FALSE /\ changedTimer' = changedTimer /\ CacheTells'
      BY <1>1, <2>4, Loaded
    <2>6. CalTypes'
      BY <1>1, <1>2, <1>3, <1>5, <2>5 DEF CalTypes
    <2>7. AskedInOrder'
      BY <1>1, <1>2, <1>5 DEF AskedInOrder
    <2>8. ToldLast'
      BY <2>5 DEF ToldLast
    <2> QED BY <2>5, <2>6, <2>7, <2>8 DEF CalendarInv
  <1>6. CASE SelectionChanged
    BY <1>4, <1>5, <1>6 DEF SelectionChanged, LoadSources
  <1>7. CASE BackendRestart
    <2>1. range # {}
      BY <1>1, <1>7 DEF BackendRestart, AskedInOrder, ServerStarts
    <2> QED BY <1>4, <1>5, <1>7, <2>1 DEF BackendRestart, LoadSources
  <1> QED BY <1>6, <1>7

\* The views are there, and the events are what was loaded.
LEMMA ViewsStartedStep ==
  ASSUME CalendarInv, ViewsStarted
  PROVE  CalendarInv'
  <1>1. CalTypes /\ AskedInOrder /\ ToldLast /\ CacheTells
    BY DEF CalendarInv
  <1>2. PICK l \in loading :
          /\ telling' = IF l.answer THEN Append(telling, [what |-> "events", events |-> cached]) ELSE telling
          /\ untold' = ~l.answer
    BY DEF ViewsStarted
  <1>3. /\ serverUp /\ loading' = {}
        /\ UNCHANGED <<content, selected, edits, serverUp, clients, restarting, range, cached, live, cacheInvalid, changedTimer,
                       notices, asking, curRequest, lastRequest, events, unheard>>
    BY DEF ViewsStarted, shellVars
  <1>4. l.answer \in BOOLEAN
    BY <1>1, <1>2 DEF CalTypes
  <1>5. CASE l.answer
    <2>1. [what |-> "events", events |-> cached] \in CalMessage
      BY <1>1 DEF CalTypes, CalMessage
    <2>2. telling \in Seq(CalMessage) /\ telling' = Append(telling, [what |-> "events", events |-> cached])
      BY <1>1, <1>2, <1>5 DEF CalTypes
    <2>3. PICK m \in CalMessage : m = [what |-> "events", events |-> cached]
      BY <2>1
    <2>4. /\ telling' \in Seq(CalMessage) /\ Comes(m.events)'
          /\ (\E i \in DOMAIN telling : telling[i].what = "Changed")
             => \E i \in DOMAIN telling' : telling'[i].what = "Changed"
      <3>1. telling' = Append(telling, m) /\ m.what = "events"
        BY <2>2, <2>3
      <3> QED BY <2>2, <3>1, MessageAppended
    <2>5. CalTypes'
      <3>1. untold' \in BOOLEAN
        BY <1>2, <1>4
      <3> QED BY <1>1, <1>3, <2>4, <3>1 DEF CalTypes
    <2>6. AskedInOrder'
      <3>1. range # {}
        BY <1>1, <1>2 DEF AskedInOrder, ServerStarts
      <3> QED BY <1>1, <1>3, <3>1 DEF AskedInOrder
    <2>7. ToldLast'
      <3>1. m.events = cached'
        BY <1>3, <2>3
      <3>2. Comes(cached)'
        BY <2>4, <3>1 DEF Comes
      <3> QED BY <3>2 DEF ToldLast
    <2>8. CacheTells'
      <3>1. \A r, c : ViewTells(r, c)' <=> ViewTells(r, c)
        BY <1>3 DEF ViewTells, Visible
      <3> QED BY <1>1, <1>3, <2>4, <3>1 DEF CacheTells
    <2> QED BY <2>5, <2>6, <2>7, <2>8 DEF CalendarInv
  <1>6. CASE ~l.answer
    <2>1. telling' = telling /\ untold' = TRUE
      BY <1>2, <1>6
    <2>2. CalTypes'
      BY <1>1, <1>3, <2>1 DEF CalTypes
    <2>3. AskedInOrder'
      <3>1. range # {}
        BY <1>1, <1>2 DEF AskedInOrder, ServerStarts
      <3> QED BY <1>1, <1>3, <3>1 DEF AskedInOrder
    <2>4. ToldLast'
      BY <2>1 DEF ToldLast
    <2>5. CacheTells'
      <3>1. \A r, c : ViewTells(r, c)' <=> ViewTells(r, c)
        BY <1>3 DEF ViewTells, Visible
      <3> QED BY <1>1, <1>3, <2>1, <3>1 DEF CacheTells
    <2> QED BY <2>2, <2>3, <2>4, <2>5 DEF CalendarInv
  <1> QED BY <1>4, <1>5, <1>6

\* The signal is sent.
LEMMA ChangedTimeoutStep ==
  ASSUME CalendarInv, ChangedTimeout
  PROVE  CalendarInv'
  <1>1. CalTypes /\ AskedInOrder /\ ToldLast /\ CacheTells
    BY DEF CalendarInv
  <1>2. /\ serverUp /\ loading = {} /\ changedTimer /\ changedTimer' = FALSE
        /\ telling' = Append(telling, [what |-> "Changed"])
        /\ UNCHANGED <<content, selected, edits, serverUp, clients, restarting, range, cached, live, cacheInvalid, loading, notices,
                       asking, curRequest, lastRequest, events, unheard, untold>>
    BY DEF ChangedTimeout, Idle, shellVars
  <1>3. [what |-> "Changed"] \in CalMessage
    BY DEF CalMessage
  <1>4. telling \in Seq(CalMessage)
    BY <1>1 DEF CalTypes
  <1>5. /\ telling' \in Seq(CalMessage)
        /\ \A v : Comes(v) => Comes(v)'
        /\ \E i \in DOMAIN telling' : telling'[i].what = "Changed"
    BY <1>2, <1>3, <1>4, MessageAppended
  <1>6. CalTypes'
    BY <1>1, <1>2, <1>5 DEF CalTypes
  <1>7. AskedInOrder'
    <2>1. range # {}
      BY <1>1, <1>2 DEF AskedInOrder, ServerStarts
    <2> QED BY <1>1, <1>2, <2>1 DEF AskedInOrder
  <1>8. ToldLast'
    <2>1. Comes(cached)' <=> \E v : v = cached /\ Comes(v)'
      BY <1>2 DEF Comes
    <2> QED BY <1>1, <1>2, <1>5, <2>1 DEF ToldLast
  <1>9. CacheTells'
    <2>1. \A r, c : ViewTells(r, c)' <=> ViewTells(r, c)
      BY <1>2 DEF ViewTells, Visible
    <2> QED BY <1>1, <1>2, <1>5, <2>1 DEF CacheTells
  <1> QED BY <1>6, <1>7, <1>8, <1>9 DEF CalendarInv

\* A call is answered with what the server has, or makes it load.
LEMMA GetEventsStep ==
  ASSUME CalendarInv, GetEvents
  PROVE  CalendarInv'
  <1>1. CalTypes /\ AskedInOrder /\ ToldLast /\ CacheTells
    BY DEF CalendarInv
  <1>2. /\ serverUp /\ loading = {} /\ asking # <<>> /\ asking' = Tail(asking)
        /\ range' = {Head(asking).range} /\ clients' = IF range = {} THEN selected ELSE clients
        /\ UNCHANGED <<content, selected, edits, serverUp, restarting, curRequest, lastRequest, events>>
    BY DEF GetEvents, Idle, shellVars
  <1>3. PICK n \in Nat : n = Len(asking) /\ n > 0
    BY <1>1, <1>2 DEF CalTypes
  <1>4. /\ asking \in Seq(Call) /\ asking' \in Seq(Call) /\ Head(asking) \in Call /\ asking[1] = Head(asking)
        /\ Len(asking') = n - 1 /\ \A i \in 1 .. n - 1 : asking'[i] = asking[i + 1]
    BY <1>1, <1>2, <1>3 DEF CalTypes
  <1>5. PICK r \in DOMAIN Ranges : r = Head(asking).range
    BY <1>4 DEF Call
  <1>6. curRequest # {} /\ curRequest = {asking[n].range}
    BY <1>1, <1>2, <1>3 DEF AskedInOrder
  <1>7. IF asking' = <<>> THEN range' = curRequest' ELSE curRequest' = {asking'[Len(asking')].range}
    <2>1. CASE n = 1
      <3>1. asking' = <<>>
        BY <1>4, <2>1
      <3> QED BY <1>2, <1>4, <1>6, <2>1, <3>1
    <2>2. CASE n # 1
      <3>1. n - 1 \in 1 .. n - 1 /\ (n - 1) + 1 = n
        BY <1>3, <2>2
      <3>2. asking' # <<>> /\ asking'[n - 1] = asking[n]
        BY <1>4, <3>1
      <3> QED BY <1>2, <1>4, <1>6, <3>2
    <2> QED BY <2>1, <2>2
  <1>8. AskedInOrder'
    BY <1>2, <1>6, <1>7 DEF AskedInOrder
  <1>9. PICK from \in SUBSET Calendars : from = IF range = {} THEN selected ELSE clients
    BY <1>1 DEF CalTypes
  <1>10. CASE NeedsLoad(Head(asking))
    <2>1. LoadEvents(from, r, TRUE) /\ UNCHANGED <<telling, untold>>
      BY <1>2, <1>5, <1>9, <1>10 DEF GetEvents
    <2>2. /\ cached' \in [Calendars -> Nat] /\ live' \subseteq Calendars
          /\ loading' = {[answer |-> TRUE]} /\ notices' \in Seq(CalNotice)
          /\ cacheInvalid' = FALSE /\ changedTimer' = changedTimer /\ CacheTells'
      <3>1. range' = {r} /\ clients' = from /\ content' = content
        BY <1>2, <1>5, <1>9
      <3> QED BY <1>1, <2>1, <3>1, Loaded
    <2>3. CalTypes'
      BY <1>1, <1>2, <1>4, <1>5, <1>9, <2>1, <2>2 DEF CalTypes
    <2>4. ToldLast'
      BY <2>2 DEF ToldLast
    <2> QED BY <1>8, <2>2, <2>3, <2>4 DEF CalendarInv
  <1>11. CASE ~NeedsLoad(Head(asking))
    <2>1. /\ telling' = Append(telling, [what |-> "events", events |-> cached]) /\ untold' = FALSE
          /\ UNCHANGED <<cached, live, notices, loading, unheard, cacheInvalid, changedTimer>>
      BY <1>11 DEF GetEvents
    <2>2. range = {r} /\ ~cacheInvalid
      BY <1>5, <1>11 DEF NeedsLoad
    <2>3. PICK m \in CalMessage : m = [what |-> "events", events |-> cached]
      BY <1>1 DEF CalTypes, CalMessage
    <2>4. telling' \in Seq(CalMessage) /\ Comes(m.events)'
      <3>1. telling' = Append(telling, m) /\ m.what = "events" /\ telling \in Seq(CalMessage)
        BY <1>1, <2>1, <2>3 DEF CalTypes
      <3> QED BY <3>1, MessageAppended
    <2>5. range' = range /\ clients' = clients
      BY <1>2, <1>5, <2>2
    <2>6. CalTypes'
      BY <1>1, <1>2, <1>4, <2>1, <2>4, <2>5 DEF CalTypes
    <2>7. ToldLast'
      <3>1. m.events = cached'
        BY <2>1, <2>3
      <3>2. Comes(cached)'
        BY <2>4, <3>1 DEF Comes
      <3> QED BY <3>2 DEF ToldLast
    <2>8. CacheTells'
      <3>1. \A x, c : ViewTells(x, c)' <=> ViewTells(x, c)
        BY <1>2, <2>1 DEF ViewTells, Visible
      <3> QED BY <1>1, <1>2, <2>1, <2>2, <2>5, <3>1 DEF CacheTells
    <2> QED BY <1>8, <2>6, <2>7, <2>8 DEF CalendarInv
  <1> QED BY <1>10, <1>11

\* A server that died has nothing.
LEMMA ServerDiesStep ==
  ASSUME CalendarInv, ServerDies
  PROVE  CalendarInv'
  <1>1. CalTypes /\ AskedInOrder /\ ToldLast /\ CacheTells
    BY DEF CalendarInv
  <1>2. /\ edits' = edits + 1 /\ serverUp' = FALSE /\ asking' = <<>>
        /\ clients' = {} /\ restarting' = FALSE /\ range' = {} /\ cached' = NoEvents /\ live' = {}
        /\ cacheInvalid' = FALSE /\ changedTimer' = FALSE /\ loading' = {} /\ notices' = <<>>
        /\ unheard' = {} /\ untold' = FALSE
        /\ UNCHANGED <<content, selected, curRequest, lastRequest, events>>
    BY DEF ServerDies, shellVars
  <1>3. telling' \in Seq(CalMessage)
    <2>1. PICK k \in Nat : telling' = telling \o [i \in 1 .. k |-> [what |-> "error"]] \o <<[what |-> "vanished"]>>
      <3>1. Len(asking) + (IF \E l \in loading : l.answer THEN 1 ELSE 0) \in Nat
        BY <1>1 DEF CalTypes
      <3> QED BY <3>1 DEF ServerDies
    <2>2. [what |-> "error"] \in CalMessage /\ [what |-> "vanished"] \in CalMessage
      BY DEF CalMessage
    <2>3. PICK es : es = [i \in 1 .. k |-> [what |-> "error"]]
      OBVIOUS
    <2>4. es \in Seq(CalMessage)
      BY <2>2, <2>3, FunctionIsSeq
    <2>5. PICK m \in CalMessage : m = [what |-> "vanished"]
      BY <2>2
    <2>6. telling' = telling \o es \o <<m>> /\ telling \in Seq(CalMessage)
      BY <1>1, <2>1, <2>3, <2>5 DEF CalTypes
    <2>7. <<m>> \in Seq(CalMessage)
      OBVIOUS
    <2> QED BY <2>4, <2>6, <2>7
  <1>4. NoEvents \in [Calendars -> Nat]
    BY DEF NoEvents
  <1>5. <<>> \in Seq(CalNotice) /\ <<>> \in Seq(Call) /\ edits' \in Nat
    BY <1>1, <1>2 DEF CalTypes
  <1>6. CalTypes'
    BY <1>1, <1>2, <1>3, <1>4, <1>5 DEF CalTypes
  <1>7. AskedInOrder' /\ ToldLast'
    BY <1>2 DEF AskedInOrder, ServerStarts, ToldLast, NoEvents
  <1>8. CacheTells'
    BY <1>2 DEF CacheTells, NoEvents
  <1> QED BY <1>6, <1>7, <1>8 DEF CalendarInv

\* What the shell asks for is what it wants.
LEMMA RequestRangeStep ==
  ASSUME CalendarInv, RequestRange
  PROVE  CalendarInv'
  <1>1. CalTypes /\ AskedInOrder /\ ToldLast /\ CacheTells
    BY DEF CalendarInv
  <1>2. PICK r \in DOMAIN Ranges, force \in BOOLEAN :
          /\ curRequest' = {r} /\ lastRequest' = {r}
          /\ asking' = IF serverUp \/ force THEN Append(asking, [range |-> r, force |-> force]) ELSE asking
          /\ serverUp' = (serverUp \/ force)
          /\ telling' = IF serverUp THEN telling
                        ELSE IF force THEN Append(telling, [what |-> "appeared"]) ELSE Append(telling, [what |-> "error"])
    BY DEF RequestRange
  <1>3. UNCHANGED <<content, selected, edits, clients, restarting, range, cached, live, cacheInvalid, changedTimer, loading, notices,
                    events, unheard, untold>>
    BY DEF RequestRange, serverVars
  <1>4. [what |-> "appeared"] \in CalMessage /\ [what |-> "error"] \in CalMessage
    BY DEF CalMessage
  <1>5. telling \in Seq(CalMessage) /\ asking \in Seq(Call)
    BY <1>1 DEF CalTypes
  <1>6. telling' \in Seq(CalMessage)
    BY <1>2, <1>4, <1>5
  <1>7. PICK call \in Call : call = [range |-> r, force |-> force]
    BY DEF Call
  <1>8. ASSUME serverUp \/ force
        PROVE  asking' \in Seq(Call) /\ asking' # <<>> /\ asking'[Len(asking')].range = r
    <2>1. asking' = Append(asking, call)
      BY <1>2, <1>7, <1>8
    <2>2. asking' \in Seq(Call) /\ asking' # <<>> /\ asking'[Len(asking')] = call
      BY <1>5, <2>1
    <2> QED BY <1>7, <2>2
  <1>9. asking' \in Seq(Call) /\ serverUp' \in BOOLEAN
    BY <1>2, <1>5, <1>8
  <1>10. CalTypes'
    BY <1>1, <1>2, <1>3, <1>6, <1>9 DEF CalTypes
  <1>11. AskedInOrder'
    <2>1. range = {} => ServerStarts'
      BY <1>1, <1>3 DEF AskedInOrder, ServerStarts
    <2>2. ~serverUp' => range' = {} /\ asking' = <<>>
      BY <1>1, <1>2, <1>3 DEF AskedInOrder
    <2>3. serverUp' => asking' # <<>> /\ curRequest' = {asking'[Len(asking')].range}
      BY <1>2, <1>8
    <2> QED BY <1>2, <1>3, <2>1, <2>2, <2>3 DEF AskedInOrder
  <1>12. ToldLast'
    BY <1>2, <1>8 DEF ToldLast
  <1>13. CacheTells'
    <2>1. \A x, c : ViewTells(x, c)' <=> ViewTells(x, c)
      BY <1>3 DEF ViewTells, Visible
    <2>2. cacheInvalid' => asking' # <<>>
      BY <1>1, <1>3, <1>8 DEF AskedInOrder, ServerStarts
    <2> QED BY <1>1, <1>3, <2>1, <2>2 DEF CacheTells
  <1> QED BY <1>10, <1>11, <1>12, <1>13 DEF CalendarInv

\* The shell hears what there is, and asks again when it changed.
LEMMA ShellHearsStep ==
  ASSUME CalendarInv, ShellHears
  PROVE  CalendarInv'
  <1>1. CalTypes /\ AskedInOrder /\ ToldLast /\ CacheTells
    BY DEF CalendarInv
  <1>2. /\ telling # <<>> /\ telling' = Tail(telling)
        /\ UNCHANGED <<content, selected, edits, serverUp, clients, restarting, range, cached, live, cacheInvalid, changedTimer,
                       loading, notices, curRequest, unheard, untold>>
    BY DEF ShellHears, serverVars
  <1>3. telling \in Seq(CalMessage) /\ asking \in Seq(Call)
    BY <1>1 DEF CalTypes
  <1>4. /\ telling' \in Seq(CalMessage) /\ Head(telling) \in CalMessage
        /\ \A v : /\ Comes(v)
                  /\ Head(telling).what = "events" => events' = Head(telling).events
                  /\ Head(telling).what = "Changed" => events' = events
                  => Comes(v)'
        /\ (\E i \in DOMAIN telling : telling[i].what = "Changed")
           => Head(telling).what = "Changed" \/ \E i \in DOMAIN telling' : telling'[i].what = "Changed"
    BY <1>2, <1>3, MessageHeard
  <1>5. PICK m \in CalMessage : m = Head(telling)
    BY <1>4
  <1>6. /\ events' = CASE m.what = "events" -> m.events [] m.what = "Changed" -> events [] OTHER -> NoEvents
        /\ lastRequest' = IF m.what \in {"vanished", "appeared"} THEN {} ELSE lastRequest
    BY <1>5 DEF ShellHears
  <1>7. NoEvents \in [Calendars -> Nat]
    BY DEF NoEvents
  <1>8. /\ events' \in [Calendars -> Nat]
        /\ m.what = "events" => events' = m.events
        /\ m.what = "Changed" => events' = events
    <2>1. CASE m.what = "events"
      <3>1. m.events \in [Calendars -> Nat]
        BY <2>1 DEF CalMessage
      <3> QED BY <1>6, <2>1, <3>1
    <2>2. CASE m.what = "Changed"
      BY <1>1, <1>6, <2>2 DEF CalTypes
    <2>3. CASE m.what # "events" /\ m.what # "Changed"
      BY <1>6, <1>7, <2>3
    <2> QED BY <2>1, <2>2, <2>3
  <1>9. lastRequest' \subseteq curRequest
    BY <1>1, <1>6 DEF CalTypes
  <1> DEFINE Again(force) == Append(asking, [range |-> CHOOSE r \in curRequest : TRUE, force |-> force])
  <1>10. /\ asking' = asking \/ (serverUp /\ curRequest # {} /\ \E force \in BOOLEAN : asking' = Again(force))
         /\ m.what = "Changed" /\ serverUp /\ curRequest # {} => asking' = Again(FALSE)
    <2>1. CASE curRequest = {} \/ ~serverUp
      <3>1. asking' = asking
        BY <2>1 DEF ShellHears
      <3> QED BY <2>1, <3>1
    <2>2. CASE ~(curRequest = {} \/ ~serverUp)
      <3>1. asking' = CASE m.what = "Changed" -> Again(FALSE) [] m.what = "appeared" -> Again(TRUE) [] OTHER -> asking
        BY <1>5, <2>2 DEF ShellHears
      <3> HIDE DEF Again
      <3>2. m.what = "Changed" => asking' = Again(FALSE)
        BY <3>1
      <3>3. m.what = "appeared" => asking' = Again(TRUE)
        BY <3>1
      <3>4. m.what # "Changed" /\ m.what # "appeared" => asking' = asking
        BY <3>1
      <3> QED BY <2>2, <3>2, <3>3, <3>4
    <2> QED BY <2>1, <2>2
  <1>11. CASE asking' = asking
    <2>1. CalTypes'
      BY <1>1, <1>2, <1>4, <1>8, <1>9, <1>11 DEF CalTypes
    <2>2. AskedInOrder'
      BY <1>1, <1>2, <1>11 DEF AskedInOrder, ServerStarts
    <2>3. ToldLast'
      <3>1. \A v : Comes(v) => Comes(v)'
        BY <1>4, <1>5, <1>8
      <3>2. Comes(cached)' <=> \E v : v = cached /\ Comes(v)'
        BY <1>2 DEF Comes
      <3> QED BY <1>1, <1>2, <1>11, <3>1, <3>2 DEF ToldLast
    <2>4. CacheTells'
      <3>1. \A x, c : ViewTells(x, c)' <=> ViewTells(x, c)
        BY <1>2 DEF ViewTells, Visible
      <3>2. cacheInvalid => serverUp /\ curRequest # {}
        BY <1>1 DEF AskedInOrder, ServerStarts
      <3>3. cacheInvalid => changedTimer \/ asking' # <<>> \/ \E i \in DOMAIN telling' : telling'[i].what = "Changed"
        <4>1. Again(FALSE) # <<>>
          BY <1>3
        <4>2. m.what = "Changed" /\ serverUp /\ curRequest # {} => asking' # <<>>
          BY <1>10, <4>1
        <4>3. cacheInvalid => changedTimer \/ asking # <<>> \/ \E i \in DOMAIN telling : telling[i].what = "Changed"
          BY <1>1 DEF CacheTells
        <4> HIDE DEF Again
        <4> QED BY <1>4, <1>5, <1>11, <3>2, <4>2, <4>3
      <3> QED BY <1>1, <1>2, <3>1, <3>3 DEF CacheTells
    <2> QED BY <2>1, <2>2, <2>3, <2>4 DEF CalendarInv
  <1>12. ASSUME serverUp, curRequest # {}, NEW force \in BOOLEAN,
                asking' = Append(asking, [range |-> CHOOSE r \in curRequest : TRUE, force |-> force])
         PROVE  CalendarInv'
    <2>1. PICK r \in DOMAIN Ranges : curRequest = {r}
      BY <1>1, <1>12 DEF CalTypes
    <2>2. (CHOOSE x \in curRequest : TRUE) = r
      BY <2>1
    <2>3. PICK call \in Call : call = [range |-> r, force |-> force]
      BY <1>12 DEF Call
    <2>4. asking' = Append(asking, call)
      BY <1>12, <2>2, <2>3
    <2>5. asking' \in Seq(Call) /\ asking' # <<>> /\ asking'[Len(asking')] = call
      BY <1>3, <2>4
    <2>6. CalTypes'
      BY <1>1, <1>2, <1>4, <1>8, <1>9, <2>5 DEF CalTypes
    <2>7. AskedInOrder'
      <3>1. curRequest' = {asking'[Len(asking')].range}
        BY <1>2, <2>1, <2>3, <2>5
      <3>2. range = {} => ServerStarts'
        BY <1>1, <1>2 DEF AskedInOrder, ServerStarts
      <3> QED BY <1>2, <1>12, <2>5, <3>1, <3>2 DEF AskedInOrder
    <2>8. ToldLast'
      BY <2>5 DEF ToldLast
    <2>9. CacheTells'
      <3>1. \A x, c : ViewTells(x, c)' <=> ViewTells(x, c)
        BY <1>2 DEF ViewTells, Visible
      <3> QED BY <1>1, <1>2, <2>5, <3>1 DEF CacheTells
    <2> QED BY <2>6, <2>7, <2>8, <2>9 DEF CalendarInv
  <1> QED BY <1>10, <1>11, <1>12

\* Every step keeps the calendars as they should be.
LEMMA CalendarStep == CalendarInv /\ [CalendarNext]_calendarVars => CalendarInv'
  <1> SUFFICES ASSUME CalendarInv, [CalendarNext]_calendarVars PROVE CalendarInv'
    OBVIOUS
  <1>1. CASE \E c \in Calendars : AppointmentEdited(c) \/ BackendDied(c)
    BY <1>1, AppointmentEditedStep, BackendDiedStep
  <1>2. CASE SelectionChanged \/ BackendRestart
    BY <1>2, SourcesStep
  <1>3. CASE ViewsStarted \/ GetEvents
    BY <1>3, ViewsStartedStep, GetEventsStep
  <1>4. CASE ObjectsChanged \/ ChangedTimeout
    BY <1>4, ObjectsChangedStep, ChangedTimeoutStep
  <1>5. CASE ServerDies
    BY <1>5, ServerDiesStep
  <1>6. CASE RequestRange \/ ShellHears
    BY <1>6, RequestRangeStep, ShellHearsStep
  <1>7. CASE UNCHANGED calendarVars
    <2>1. UNCHANGED <<content, selected, edits, serverUp, clients, restarting, range, cached, live, cacheInvalid, changedTimer,
                      loading, notices, asking, telling, curRequest, lastRequest, events, unheard, untold>>
      BY <1>7 DEF calendarVars, serverVars, shellVars
    <2>2. CalTypes /\ AskedInOrder /\ ToldLast /\ CacheTells
      BY DEF CalendarInv
    <2>3. CalTypes' /\ AskedInOrder'
      BY <2>1, <2>2 DEF CalTypes, AskedInOrder, ServerStarts
    <2>4. ToldLast'
      BY <2>1, <2>2 DEF ToldLast, Comes
    <2>5. CacheTells'
      <3>1. \A x, c : ViewTells(x, c)' <=> ViewTells(x, c)
        BY <2>1 DEF ViewTells, Visible
      <3> QED BY <2>1, <2>2, <3>1 DEF CacheTells
    <2> QED BY <2>3, <2>4, <2>5 DEF CalendarInv
  <1> QED BY <1>1, <1>2, <1>3, <1>4, <1>5, <1>6, <1>7 DEF CalendarNext

\* Once all is said, the shell has the appointments as they are.
LEMMA CalendarIsCurrent == CalendarInv => CalendarTypeOK /\ EventsAreCurrent
  <1> SUFFICES ASSUME CalendarInv PROVE CalendarTypeOK /\ EventsAreCurrent
    OBVIOUS
  <1>1. CalTypes /\ AskedInOrder /\ ToldLast /\ CacheTells
    BY DEF CalendarInv
  <1>2. CalendarTypeOK
    <2>1. \A x : Cardinality({x}) = 1
      BY FS_Singleton
    <2>2. Cardinality({}) = 0
      BY FS_EmptySet
    <2>3. Cardinality(loading) = 0 \/ Cardinality(loading) = 1
      <3>1. loading = {} \/ \E x : loading = {x}
        BY <1>1 DEF CalTypes
      <3> QED BY <2>1, <2>2, <3>1, Zenon
    <2>4. Cardinality(range) = 0 \/ Cardinality(range) = 1
      <3>1. range = {} \/ \E x : range = {x}
        BY <1>1 DEF CalTypes
      <3> QED BY <2>1, <2>2, <3>1, Zenon
    <2> QED BY <1>1, <2>3, <2>4 DEF CalTypes, CalendarTypeOK
  <1>3. EventsAreCurrent
    <2> SUFFICES ASSUME serverUp, loading = {}, notices = <<>>, asking = <<>>, telling = <<>>, ~changedTimer, ~restarting, ~untold,
                        NEW r \in curRequest
                 PROVE  /\ range = {r}
                        /\ \A c \in live \ unheard : events[c] = Visible(r, content)[c]
                        /\ \A c \in Calendars \ (clients \cup unheard) : events[c] = 0
      BY DEF EventsAreCurrent
    <2>1. range = {r}
      BY <1>1 DEF AskedInOrder, CalTypes
    <2>2. events = cached
      BY <1>1 DEF ToldLast, Comes
    <2>3. ~cacheInvalid
      BY <1>1 DEF CacheTells
    <2>4. \A c \in live \ unheard : cached[c] = Visible(r, content)[c]
      BY <1>1, <2>1, <2>3 DEF CacheTells, ViewTells
    <2> QED BY <1>1, <2>1, <2>2, <2>4 DEF CacheTells
  <1> QED BY <1>2, <1>3

-----------------------------------------------------------------------------
\* Of the tray and the calendar, the one that runs keeps its invariant.
PeersInv == (part = "tray" => IconsInv) /\ (part = "calendar" => CalendarInv)

\* The part that runs stays the same, and only that part takes steps.
LEMMA PeerRuns ==
  ASSUME [NativeNext]_nativeVars
  PROVE  /\ part' = part
         /\ part = "tray" => [TrayIconsNext]_trayVars
         /\ part = "calendar" => [CalendarNext]_calendarVars
  <1>1. CASE UNCHANGED nativeVars
    BY <1>1 DEF nativeVars, appPartsVars, mediaVars, sessionVars, innerVars, perfVars, leisureVars
  <1>2. CASE TrayPart
    BY <1>2 DEF TrayPart
  <1>3. CASE CalendarPart
    BY <1>3 DEF CalendarPart
  <1>4. CASE NativeNext /\ ~(TrayPart \/ CalendarPart)
    <2>1. part' = part /\ part \notin {"tray", "calendar"}
      BY <1>4 DEF NativeNext, AppsPart, OrderPart, MenuPart, UsagePart, RecorderPart, CapturePart, TexturesPart,
         MixerPart, SoundPart, AgentPart, LogPart, LeisurePart, IdlePart, ExtensionsPart, MobilePart, AutorunPart,
         SearchPart
    <2> QED BY <2>1
  <1> QED BY <1>1, <1>2, <1>3, <1>4

\* The shell agrees with the clients that have icons in the tray and with the server of the
\* calendar (PeersAgree), for any number of icons and calendars.
THEOREM NativePeersAgree == NativeSpec => []PeersAgree
  <1>1. NativeInit => PeersInv
    BY IconsStart, CalendarStart DEF NativeInit, PeersInv
  <1>2. PeersInv /\ [NativeNext]_nativeVars => PeersInv'
    BY PeerRuns, IconsStep, CalendarStep DEF PeersInv
  <1>3. PeersInv => PeersAgree
    BY IconsAgree, CalendarIsCurrent DEF PeersInv, PeersAgree
  <1> QED BY <1>1, <1>2, <1>3, PTL DEF NativeSpec

-----------------------------------------------------------------------------
(***************************************************************************)
(* The work at leisure                                                     *)
(***************************************************************************)

\* The functions that wait have somebody who will see to them: the invariant is inductive.
LeisureInv == LeisureTypeOK /\ LeisureWillCome

\* At first nothing waits.
LEMMA LeisureStart == PerfInit => LeisureInv
  <1> SUFFICES ASSUME PerfInit PROVE LeisureInv
    OBVIOUS
  <1>1. workCount = 0 /\ leisureIdle = FALSE /\ closures = <<>> /\ ran = {}
    BY DEF PerfInit
  <1>2. MaxWork \in Nat
    BY PerfAssumption
  <1>3. closures \in Seq(Functions_) /\ ran \subseteq Functions_
    BY <1>1
  <1>4. workCount \in 0 .. MaxWork
    BY <1>1, <1>2
  <1> QED BY <1>1, <1>3, <1>4 DEF LeisureInv, LeisureTypeOK, LeisureWillCome

\* Every step of the work and of the functions at leisure keeps them awaited.
LEMMA LeisureStep == LeisureInv /\ [LeisureNext]_leisureVars => LeisureInv'
  <1> SUFFICES ASSUME LeisureInv, [LeisureNext]_leisureVars PROVE LeisureInv'
    OBVIOUS
  <1>0. MaxWork \in Nat
    BY PerfAssumption
  <1>1. CASE BeginWork
    BY <1>0, <1>1 DEF BeginWork, LeisureInv, LeisureTypeOK, LeisureWillCome
  <1>2. CASE EndWork
    <2>1. leisureIdle' \in BOOLEAN
      BY <1>2 DEF EndWork, LeisureInv, LeisureTypeOK
    <2>2. workCount' \in 0 .. MaxWork /\ (workCount' = 0 => leisureIdle') /\ UNCHANGED <<closures, ran>>
      <3>1. workCount > 0 /\ workCount' = workCount - 1 /\ workCount \in 0 .. MaxWork
        BY <1>2 DEF EndWork, LeisureInv, LeisureTypeOK
      <3>2. workCount' = 0 => leisureIdle'
        BY <1>2 DEF EndWork
      <3>3. UNCHANGED <<closures, ran>>
        BY <1>2 DEF EndWork
      <3> QED BY <1>0, <3>1, <3>2, <3>3
    <2> QED BY <2>1, <2>2 DEF LeisureInv, LeisureTypeOK, LeisureWillCome
  <1>3. CASE RunLeisureFunctions
    <2>1. closures # <<>> => Head(closures) \in Functions_
      BY DEF LeisureInv, LeisureTypeOK
    <2>2. workCount' = workCount /\ leisureIdle' = FALSE
      BY <1>3 DEF RunLeisureFunctions
    <2>3. CASE workCount > 0 \/ closures = <<>>
      <3>1. UNCHANGED <<closures, ran>>
        BY <1>3, <2>3 DEF RunLeisureFunctions
      <3> QED BY <2>2, <2>3, <3>1 DEF LeisureInv, LeisureTypeOK, LeisureWillCome
    <2>4. CASE ~(workCount > 0 \/ closures = <<>>)
      <3>1. closures' = <<>> /\ ran' = ran \cup {Head(closures)}
        BY <1>3, <2>4 DEF RunLeisureFunctions
      <3>2. ran' \subseteq Functions_
        BY <2>1, <2>4, <3>1 DEF LeisureInv, LeisureTypeOK
      <3>3. closures' \in Seq(Functions_) /\ ~(closures' # <<>>)
        BY <3>1
      <3> QED BY <2>2, <3>2, <3>3 DEF LeisureInv, LeisureTypeOK, LeisureWillCome
    <2> QED BY <2>3, <2>4
  <1>4. ASSUME NEW f \in Functions_, RunAtLeisure(f) PROVE LeisureInv'
    <2>1. leisureIdle' \in BOOLEAN
      BY <1>4 DEF RunAtLeisure, LeisureInv, LeisureTypeOK
    <2>2. workCount = 0 => leisureIdle'
      BY <1>4 DEF RunAtLeisure
    <2>3. closures' \in Seq(Functions_) /\ UNCHANGED <<workCount, ran>>
      BY <1>4 DEF RunAtLeisure, LeisureInv, LeisureTypeOK
    <2> QED BY <2>1, <2>2, <2>3 DEF LeisureInv, LeisureTypeOK, LeisureWillCome
  <1>5. CASE UNCHANGED leisureVars
    BY <1>5 DEF leisureVars, LeisureInv, LeisureTypeOK, LeisureWillCome
  <1> QED BY <1>1, <1>2, <1>3, <1>4, <1>5 DEF LeisureNext

-----------------------------------------------------------------------------
(***************************************************************************)
(* The watches of the idle time                                            *)
(***************************************************************************)

\* No event of watch w is in set number i of those under way.
NoneAt(w, i) == \A e \in alarmEvents[i] : e.id # w

\* What a watch was told, or will be told last, is whether the user is idle.
WillKnow(w) ==
  \/ (watches[w].told <=> IsIdle(w)) /\ \A i \in DOMAIN alarmEvents : NoneAt(w, i)
  \/ \E i \in DOMAIN alarmEvents :
       /\ \A e \in alarmEvents[i] : e.id = w => (e.positive <=> IsIdle(w))
       /\ ~NoneAt(w, i)
       /\ \A j \in DOMAIN alarmEvents : j > i => NoneAt(w, j)

WatchType == [interval : Intervals, told : BOOLEAN]

IdleInv ==
  /\ IdleMonitorTypeOK
  /\ alarmEvents \in Seq(SUBSET [id : 1 .. MaxSerial, positive : BOOLEAN])
  /\ DOMAIN watches \cap removedOwn = {}
  /\ \A w \in DOMAIN watches : WillKnow(w)

\* At first there are no watches.
LEMMA IdleStart == IdleMonitorInit => IdleInv
  <1> SUFFICES ASSUME IdleMonitorInit PROVE IdleInv
    OBVIOUS
  <1>1. DOMAIN watches = {} /\ watches \in [DOMAIN watches -> WatchType]
    BY DEF IdleMonitorInit
  <1>2. IdleMonitorTypeOK
    BY <1>1, IdleMonitorAssumption DEF IdleMonitorInit, IdleMonitorTypeOK, WatchType
  <1> QED BY <1>1, <1>2 DEF IdleInv, IdleMonitorInit

\* The counter of the X server passes the interval of a watch: one of its two alarms goes off,
\* and tells of the state the user is in from now on.
LEMMA CounterStep ==
  ASSUME IdleInv, NEW after \in 0 .. MaxIdle, Counter(after)
  PROVE  IdleInv'
  <1> DEFINE rising == {v \in DOMAIN watches : PositiveAlarm(v, idleTime, after)}
             falling == {v \in DOMAIN watches : NegativeAlarm(v, idleTime, after)}
             fired == {[id |-> w, positive |-> TRUE] : w \in rising}
                      \cup {[id |-> w, positive |-> FALSE] : w \in falling}
  <1>1. /\ idleTime' = after
        /\ alarmEvents' = IF fired = {} THEN alarmEvents ELSE Append(alarmEvents, fired)
        /\ UNCHANGED <<watchSerial, watches, removedOwn>>
    BY DEF Counter
  <1>2. /\ idleTime \in Int /\ after \in Int /\ DOMAIN watches \subseteq 1 .. MaxSerial
        /\ \A w \in DOMAIN watches : watches[w].interval \in Int
        /\ alarmEvents \in Seq(SUBSET [id : 1 .. MaxSerial, positive : BOOLEAN])
    BY IdleMonitorAssumption DEF IdleInv, IdleMonitorTypeOK
  <1>3. \A w \in DOMAIN watches :
          /\ w \in rising <=> ~IsIdle(w) /\ IsIdle(w)'
          /\ w \in falling <=> IsIdle(w) /\ ~IsIdle(w)'
    BY <1>1, <1>2 DEF PositiveAlarm, NegativeAlarm, IsIdle
  <1>4. fired \in SUBSET [id : 1 .. MaxSerial, positive : BOOLEAN]
    <2>1. rising \subseteq 1 .. MaxSerial /\ falling \subseteq 1 .. MaxSerial
      BY <1>2
    <2> HIDE DEF rising, falling
    <2>2. \A w \in 1 .. MaxSerial, b \in BOOLEAN :
            [id |-> w, positive |-> b] \in [id : 1 .. MaxSerial, positive : BOOLEAN]
      OBVIOUS
    <2> QED BY <2>1, <2>2
  <1>5. \A w \in DOMAIN watches : \A e \in fired : e.id = w =>
          (w \in rising /\ e.positive = TRUE) \/ (w \in falling /\ e.positive = FALSE)
    OBVIOUS
  <1>6. \A w \in DOMAIN watches : w \in rising \cup falling => \E e \in fired : e.id = w
    <2>1. ASSUME NEW w \in rising PROVE \E e \in fired : e.id = w
      <3>1. [id |-> w, positive |-> TRUE] \in fired
        OBVIOUS
      <3> QED BY <3>1
    <2>2. ASSUME NEW w \in falling PROVE \E e \in fired : e.id = w
      <3>1. [id |-> w, positive |-> FALSE] \in fired
        OBVIOUS
      <3> QED BY <3>1
    <2> QED BY <2>1, <2>2
  <1> HIDE DEF rising, falling, fired
  <1>7. alarmEvents' \in Seq(SUBSET [id : 1 .. MaxSerial, positive : BOOLEAN])
    BY <1>1, <1>2, <1>4
  <1>8. ASSUME NEW w \in DOMAIN watches PROVE WillKnow(w)'
    <2>0. WillKnow(w)
      BY DEF IdleInv
    <2>1. CASE fired = {}
      <3>1. IsIdle(w)' <=> IsIdle(w)
        BY <1>3, <1>6, <2>1
      <3> QED BY <1>1, <2>0, <2>1, <3>1 DEF WillKnow, NoneAt
    <2>2. CASE fired # {}
      <3>0. PICK n \in Nat : n = Len(alarmEvents)
        BY <1>2
      <3>1. /\ DOMAIN alarmEvents = 1 .. n /\ DOMAIN alarmEvents' = 1 .. n + 1
            /\ alarmEvents'[n + 1] = fired
            /\ \A i \in 1 .. n : alarmEvents'[i] = alarmEvents[i]
        BY <1>1, <1>2, <2>2, <3>0
      <3>2. CASE w \in rising \cup falling
        <4>1. \A e \in alarmEvents'[n + 1] : e.id = w => (e.positive <=> IsIdle(w)')
          BY <1>3, <1>5, <3>1, <3>2
        <4>2. ~NoneAt(w, n + 1)'
          BY <1>6, <3>1, <3>2 DEF NoneAt
        <4> QED BY <3>1, <4>1, <4>2 DEF WillKnow
      <3>3. CASE w \notin rising \cup falling
        <4>1. IsIdle(w)' <=> IsIdle(w)
          BY <1>3, <3>3
        <4>3. NoneAt(w, n + 1)'
          BY <1>5, <3>1, <3>3 DEF NoneAt
        <4>4. \A i \in 1 .. n : NoneAt(w, i)' <=> NoneAt(w, i)
          BY <3>1 DEF NoneAt
        <4>5. CASE (watches[w].told <=> IsIdle(w)) /\ \A i \in DOMAIN alarmEvents : NoneAt(w, i)
          <5>1. \A i \in DOMAIN alarmEvents' : NoneAt(w, i)'
            BY <3>1, <4>3, <4>4, <4>5
          <5> QED BY <1>1, <4>1, <4>5, <5>1 DEF WillKnow
        <4>6. ASSUME NEW i \in DOMAIN alarmEvents,
                     \A e \in alarmEvents[i] : e.id = w => (e.positive <=> IsIdle(w)),
                     ~NoneAt(w, i),
                     \A j \in DOMAIN alarmEvents : j > i => NoneAt(w, j)
              PROVE  WillKnow(w)'
          <5>1. i \in DOMAIN alarmEvents' /\ alarmEvents'[i] = alarmEvents[i] /\ ~NoneAt(w, i)'
            BY <3>1, <4>4, <4>6
          <5>2. \A j \in DOMAIN alarmEvents' : j > i => NoneAt(w, j)'
            BY <3>1, <4>3, <4>4, <4>6
          <5> QED BY <4>1, <4>6, <5>1, <5>2 DEF WillKnow
        <4> QED BY <2>0, <4>5, <4>6 DEF WillKnow
      <3> QED BY <3>2, <3>3
    <2> QED BY <2>1, <2>2
  <1> QED BY <1>1, <1>7, <1>8 DEF IdleInv, IdleMonitorTypeOK

\* A number that is given again is that of the new watch, whose alarms are new.
LEMMA AddWatchStep ==
  ASSUME IdleInv, NEW interval \in Intervals, AddWatch(interval)
  PROVE  IdleInv'
  <1>1. PICK id : id = watchSerial
    OBVIOUS
  <1>2. /\ watchSerial' = NextSerial
        /\ watches' = [w \in DOMAIN watches \cup {id} |->
                         IF w = id THEN [interval |-> interval, told |-> idleTime >= interval]
                                   ELSE watches[w]]
        /\ alarmEvents' = [i \in DOMAIN alarmEvents |-> {e \in alarmEvents[i] : e.id # id}]
        /\ removedOwn' = removedOwn \ {id}
        /\ idleTime' = idleTime
    BY <1>1 DEF AddWatch
  <1>3. /\ idleTime \in Int /\ interval \in Int /\ id \in 1 .. MaxSerial
        /\ watchSerial' \in 1 .. MaxSerial
        /\ alarmEvents \in Seq(SUBSET [id : 1 .. MaxSerial, positive : BOOLEAN])
    BY <1>1, <1>2, IdleMonitorAssumption DEF IdleInv, IdleMonitorTypeOK, NextSerial
  <1>4. alarmEvents' \in Seq(SUBSET [id : 1 .. MaxSerial, positive : BOOLEAN])
    <2>1. PICK n \in Nat : n = Len(alarmEvents) /\ DOMAIN alarmEvents = 1 .. n
      BY <1>3
    <2>2. alarmEvents' \in [1 .. n -> SUBSET [id : 1 .. MaxSerial, positive : BOOLEAN]]
      BY <1>2, <1>3, <2>1
    <2> QED BY <2>1, <2>2
  <1>5. /\ DOMAIN watches' = DOMAIN watches \cup {id}
        /\ watches'[id].interval = interval /\ watches'[id].told = (idleTime >= interval)
        /\ \A w \in DOMAIN watches \ {id} : watches'[w] = watches[w]
    BY <1>2
  <1>6. IdleMonitorTypeOK'
    <2>1. \A w \in DOMAIN watches' : watches'[w] \in WatchType
      BY <1>2 DEF IdleInv, IdleMonitorTypeOK, WatchType
    <2>2. watches' \in [DOMAIN watches' -> WatchType]
      BY <1>2, <2>1
    <2> QED BY <1>2, <1>3, <1>5, <2>2 DEF IdleInv, IdleMonitorTypeOK, WatchType
  <1>7. DOMAIN watches' \cap removedOwn' = {}
    BY <1>2, <1>5 DEF IdleInv
  <1>8. ASSUME NEW w \in DOMAIN watches' PROVE WillKnow(w)'
    <2>1. CASE w = id
      <3>1. \A i \in DOMAIN alarmEvents' : NoneAt(w, i)'
        BY <1>2, <2>1 DEF NoneAt
      <3> QED BY <1>2, <1>5, <2>1, <3>1 DEF WillKnow, IsIdle
    <2>2. CASE w # id
      <3>1. WillKnow(w) /\ watches'[w] = watches[w] /\ (IsIdle(w)' <=> IsIdle(w))
        BY <1>2, <1>5, <2>2 DEF IdleInv, IsIdle
      <3>2. \A i \in DOMAIN alarmEvents : NoneAt(w, i)' <=> NoneAt(w, i)
        BY <1>2, <2>2 DEF NoneAt
      <3>3. DOMAIN alarmEvents' = DOMAIN alarmEvents
        BY <1>2
      <3>4. \A i \in DOMAIN alarmEvents : alarmEvents'[i] \subseteq alarmEvents[i]
        BY <1>2
      <3> QED BY <3>1, <3>2, <3>3, <3>4 DEF WillKnow
    <2> QED BY <2>1, <2>2
  <1> QED BY <1>4, <1>6, <1>7, <1>8 DEF IdleInv

\* A watch that goes leaves the others as they are.
LEMMA WithoutKnows ==
  ASSUME IdleInv, NEW w \in DOMAIN watches, watches' = Without(w),
         removedOwn' = removedOwn \cup {w}, UNCHANGED <<idleTime, watchSerial>>
  PROVE  /\ IdleMonitorTypeOK' /\ DOMAIN watches' \cap removedOwn' = {}
         /\ DOMAIN watches' = DOMAIN watches \ {w}
         /\ \A v \in DOMAIN watches' : watches'[v] = watches[v] /\ (IsIdle(v)' <=> IsIdle(v))
  <1>1. /\ DOMAIN watches' = DOMAIN watches \ {w}
        /\ \A v \in DOMAIN watches' : watches'[v] = watches[v]
        /\ watches' \in [DOMAIN watches' -> WatchType]
    BY DEF Without, IdleInv, IdleMonitorTypeOK, WatchType
  <1>2. DOMAIN watches' \cap removedOwn' = {}
    BY <1>1 DEF IdleInv
  <1> QED BY <1>1, <1>2 DEF IdleInv, IdleMonitorTypeOK, WatchType, IsIdle

\* The step of a removal that a caller asks for.
LEMMA RemoveWatchStep ==
  ASSUME IdleInv, NEW w \in DOMAIN watches, RemoveWatch(w)
  PROVE  IdleInv'
  <1>1. /\ watches' = Without(w) /\ removedOwn' = removedOwn \cup {w}
        /\ UNCHANGED <<idleTime, watchSerial, alarmEvents>>
    BY DEF RemoveWatch
  <1>2. /\ IdleMonitorTypeOK' /\ DOMAIN watches' \cap removedOwn' = {}
        /\ DOMAIN watches' = DOMAIN watches \ {w}
        /\ \A v \in DOMAIN watches' : watches'[v] = watches[v] /\ (IsIdle(v)' <=> IsIdle(v))
    BY <1>1, WithoutKnows
  <1>3. ASSUME NEW v \in DOMAIN watches' PROVE WillKnow(v)'
    BY <1>1, <1>2 DEF IdleInv, WillKnow, NoneAt
  <1> QED BY <1>1, <1>2, <1>3 DEF IdleInv

\* The first set of events loses one, or goes when it is empty.
LEMMA EventTaken ==
  ASSUME IdleInv, alarmEvents # <<>>, NEW rest \in SUBSET Head(alarmEvents),
         alarmEvents' = IF rest = {} THEN Tail(alarmEvents) ELSE <<rest>> \o Tail(alarmEvents),
         NEW w \in DOMAIN watches,
         (IsIdle(w)' <=> IsIdle(w)),
         \/ /\ watches'[w] = watches[w]
            /\ \A e \in Head(alarmEvents) \ rest : e.id # w
         \/ \E e \in Head(alarmEvents) :
              /\ e.id = w /\ rest = Head(alarmEvents) \ {e}
              /\ watches'[w].told = e.positive
  PROVE  WillKnow(w)'
  <1>0. WillKnow(w)
    BY DEF IdleInv
  <1>1. PICK n \in Nat : n = Len(alarmEvents) /\ n > 0 /\ DOMAIN alarmEvents = 1 .. n
    BY DEF IdleInv
  <1>2. alarmEvents[1] = Head(alarmEvents)
    BY DEF IdleInv
  <1>3. alarmEvents[1] \in SUBSET [id : 1 .. MaxSerial, positive : BOOLEAN]
    BY <1>1 DEF IdleInv
  <1>4. PICK d \in {0, 1} :
          /\ DOMAIN alarmEvents' = 1 .. (n - d)
          /\ \A j \in 2 .. n : alarmEvents'[j - d] = alarmEvents[j]
          /\ d = 0 => alarmEvents'[1] = rest
          /\ d = 1 => rest = {}
    <2>1. CASE rest = {}
      <3>1. /\ DOMAIN alarmEvents' = 1 .. (n - 1)
            /\ \A j \in 2 .. n : alarmEvents'[j - 1] = alarmEvents[j]
        BY <1>1, <2>1 DEF IdleInv
      <3> QED BY <2>1, <3>1
    <2>2. CASE rest # {}
      <3> DEFINE S == SUBSET [id : 1 .. MaxSerial, positive : BOOLEAN]
      <3>1. /\ Tail(alarmEvents) \in Seq(S) /\ Len(Tail(alarmEvents)) = n - 1
            /\ \A j \in 1 .. n - 1 : Tail(alarmEvents)[j] = alarmEvents[j + 1]
        BY <1>1 DEF IdleInv
      <3>2. PICK tail : tail = Tail(alarmEvents)
        OBVIOUS
      <3>3. <<rest>> \in Seq(S) /\ Len(<<rest>>) = 1
        BY <1>2, <1>3
      <3>4. alarmEvents' = <<rest>> \o tail
        BY <2>2, <3>2
      <3> HIDE DEF S
      <3>5. /\ Len(alarmEvents') = n /\ DOMAIN alarmEvents' = 1 .. n
            /\ alarmEvents'[1] = rest
            /\ \A j \in 2 .. n : alarmEvents'[j] = tail[j - 1]
        BY <1>1, <3>1, <3>2, <3>3, <3>4
      <3>6. \A j \in 2 .. n : alarmEvents'[j - 0] = alarmEvents[j]
        BY <3>1, <3>2, <3>5
      <3> QED BY <3>5, <3>6
    <2> QED BY <2>1, <2>2
  <1>5. \A j \in 2 .. n : j - d \in DOMAIN alarmEvents' /\ (NoneAt(w, j) <=> \A e \in alarmEvents'[j - d] : e.id # w)
    BY <1>1, <1>4 DEF NoneAt
  <1>6. \A k \in DOMAIN alarmEvents' : (k = 1 /\ d = 0) \/ \E j \in 2 .. n : k = j - d
    <2> SUFFICES ASSUME NEW k \in DOMAIN alarmEvents', ~(k = 1 /\ d = 0)
                 PROVE  \E j \in 2 .. n : k = j - d
      OBVIOUS
    <2>1. k \in 1 .. (n - d)
      BY <1>4
    <2>2. k + d \in 2 .. n /\ k = (k + d) - d
      BY <2>1
    <2> QED BY <2>2
  \* What is told of the rest and of the sets behind holds of what is left.
  <1>9. ASSUME \A e \in rest : e.id # w, \A j \in 2 .. n : NoneAt(w, j),
               NEW k \in DOMAIN alarmEvents'
        PROVE  NoneAt(w, k)'
    <2>1. CASE k = 1 /\ d = 0
      BY <1>4, <1>9, <2>1 DEF NoneAt
    <2>2. CASE \E j \in 2 .. n : k = j - d
      <3>1. PICK j \in 2 .. n : k = j - d
        BY <2>2
      <3>2. \A e \in alarmEvents'[k] : e.id # w
        BY <1>5, <1>9, <3>1
      <3> QED BY <3>2 DEF NoneAt
    <2> QED BY <1>6, <2>1, <2>2
  <1>7. CASE (watches[w].told <=> IsIdle(w)) /\ \A i \in DOMAIN alarmEvents : NoneAt(w, i)
    <2>1. watches'[w] = watches[w]
      BY <1>1, <1>2, <1>7 DEF NoneAt
    <2>2. \A k \in DOMAIN alarmEvents' : NoneAt(w, k)'
      <3>1. (\A e \in rest : e.id # w) /\ \A j \in 2 .. n : NoneAt(w, j)
        BY <1>1, <1>2, <1>7 DEF NoneAt
      <3> QED BY <1>9, <3>1
    <2> QED BY <1>7, <2>1, <2>2 DEF WillKnow
  <1>8. ASSUME NEW i \in DOMAIN alarmEvents,
               \A e \in alarmEvents[i] : e.id = w => (e.positive <=> IsIdle(w)),
               ~NoneAt(w, i),
               \A j \in DOMAIN alarmEvents : j > i => NoneAt(w, j)
        PROVE  WillKnow(w)'
    <2>1. CASE i > 1
      <3>1. i \in 2 .. n
        BY <1>1, <1>8, <2>1
      <3>2. PICK k \in DOMAIN alarmEvents' : k = i - d
        BY <1>5, <3>1
      <3>3. alarmEvents'[k] = alarmEvents[i] /\ ~NoneAt(w, k)'
        BY <1>4, <1>8, <3>1, <3>2 DEF NoneAt
      <3>4. ASSUME NEW m \in DOMAIN alarmEvents', m > k PROVE NoneAt(w, m)'
        <4>0. ~(m = 1 /\ d = 0)
          BY <3>1, <3>2, <3>4
        <4>1. PICK j \in 2 .. n : m = j - d
          BY <1>6, <4>0
        <4>2. j > i /\ j \in DOMAIN alarmEvents
          BY <1>1, <3>1, <3>2, <3>4, <4>1
        <4> QED BY <1>4, <1>8, <4>1, <4>2 DEF NoneAt
      <3> QED BY <1>8, <3>3, <3>4 DEF WillKnow
    <2>2. CASE i = 1
      <3>1. \A j \in 2 .. n : NoneAt(w, j)
        BY <1>1, <1>8, <2>2
      <3>2. CASE /\ watches'[w] = watches[w]
                 /\ \A e \in Head(alarmEvents) \ rest : e.id # w
        <4>1. \E e \in rest : e.id = w
          BY <1>2, <1>8, <2>2, <3>2 DEF NoneAt
        <4>2. d = 0 /\ alarmEvents'[1] = rest /\ 1 \in DOMAIN alarmEvents'
          BY <1>1, <1>4, <4>1
        <4>3. ~NoneAt(w, 1)' /\ \A e \in alarmEvents'[1] : e.id = w => (e.positive <=> IsIdle(w)')
          BY <1>2, <1>8, <2>2, <4>1, <4>2 DEF NoneAt
        <4>4. ASSUME NEW m \in DOMAIN alarmEvents', m > 1 PROVE NoneAt(w, m)'
          <5>1. m \in 2 .. n /\ alarmEvents'[m - 0] = alarmEvents[m] /\ m - 0 = m
            BY <1>4, <4>2, <4>4
          <5> QED BY <3>1, <5>1 DEF NoneAt
        <4> QED BY <4>2, <4>3, <4>4 DEF WillKnow
      <3>3. ASSUME NEW e \in Head(alarmEvents), e.id = w, rest = Head(alarmEvents) \ {e},
                   watches'[w].told = e.positive
            PROVE  WillKnow(w)'
        <4>1. watches'[w].told <=> IsIdle(w)'
          BY <1>2, <1>8, <2>2, <3>3
        <4>2. \A f \in rest : f.id # w
          <5> SUFFICES ASSUME NEW f \in rest, f.id = w PROVE FALSE
            OBVIOUS
          <5>1. (f.positive <=> IsIdle(w)) /\ (e.positive <=> IsIdle(w))
            BY <1>2, <1>8, <2>2, <3>3
          <5>2. f \in [id : 1 .. MaxSerial, positive : BOOLEAN] /\ e \in [id : 1 .. MaxSerial, positive : BOOLEAN]
            BY <1>2, <1>3
          <5>3. f = e
            BY <3>3, <5>1, <5>2
          <5> QED BY <3>3, <5>3
        <4>3. \A m \in DOMAIN alarmEvents' : NoneAt(w, m)'
          BY <1>9, <3>1, <4>2
        <4> QED BY <4>1, <4>3 DEF WillKnow
      <3> QED BY <3>2, <3>3
    <2> QED BY <1>1, <1>8, <2>1, <2>2
  <1> QED BY <1>0, <1>7, <1>8 DEF WillKnow

\* What is left of the events is a sequence of sets of events.
LEMMA EventsLeft ==
  ASSUME IdleInv, alarmEvents # <<>>, NEW rest \in SUBSET Head(alarmEvents)
  PROVE  (IF rest = {} THEN Tail(alarmEvents) ELSE <<rest>> \o Tail(alarmEvents))
           \in Seq(SUBSET [id : 1 .. MaxSerial, positive : BOOLEAN])
  <1> DEFINE S == SUBSET [id : 1 .. MaxSerial, positive : BOOLEAN]
  <1>1. alarmEvents \in Seq(S)
    BY DEF IdleInv
  <1> HIDE DEF S
  <1>2. Head(alarmEvents) \in S /\ Tail(alarmEvents) \in Seq(S)
    BY <1>1
  <1>3. rest \in S
    BY <1>2 DEF S
  <1>4. <<rest>> \o Tail(alarmEvents) \in Seq(S)
    BY <1>2, <1>3
  <1> QED BY <1>2, <1>4 DEF S

\* An event tells its watch, if it is there, and may make it go.
LEMMA AlarmNotifyStep ==
  ASSUME IdleInv, NEW removes \in BOOLEAN, AlarmNotify(removes)
  PROVE  IdleInv'
  <1>1. PICK e \in (IF alarmEvents = <<>> THEN {} ELSE Head(alarmEvents)) :
          /\ alarmEvents' = IF Head(alarmEvents) \ {e} = {} THEN Tail(alarmEvents)
                            ELSE <<Head(alarmEvents) \ {e}>> \o Tail(alarmEvents)
          /\ IF e.id \notin DOMAIN watches THEN ~removes /\ UNCHANGED <<watches, removedOwn>>
             ELSE IF removes
             THEN watches' = Without(e.id) /\ removedOwn' = removedOwn \cup {e.id}
             ELSE watches' = [watches EXCEPT ![e.id].told = e.positive] /\ UNCHANGED removedOwn
          /\ UNCHANGED <<idleTime, watchSerial>>
    BY DEF AlarmNotify
  <1>2. alarmEvents # <<>> /\ e \in Head(alarmEvents)
    BY <1>1
  <1>3. PICK rest : rest = Head(alarmEvents) \ {e}
    OBVIOUS
  <1>4. rest \in SUBSET Head(alarmEvents)
    BY <1>3
  <1>5. alarmEvents' = IF rest = {} THEN Tail(alarmEvents) ELSE <<rest>> \o Tail(alarmEvents)
    BY <1>1, <1>3
  <1>6. alarmEvents' \in Seq(SUBSET [id : 1 .. MaxSerial, positive : BOOLEAN])
    BY <1>2, <1>4, <1>5, EventsLeft
  <1>7. e.positive \in BOOLEAN
    <2>1. Head(alarmEvents) \in SUBSET [id : 1 .. MaxSerial, positive : BOOLEAN]
      BY <1>2 DEF IdleInv
    <2> QED BY <1>2, <2>1
  <1>8. CASE e.id \notin DOMAIN watches
    <2>1. UNCHANGED <<watches, removedOwn, idleTime, watchSerial>>
      BY <1>1, <1>8
    <2>2. ASSUME NEW w \in DOMAIN watches PROVE WillKnow(w)'
      <3>1. \A f \in Head(alarmEvents) \ rest : f.id # w
        BY <1>3, <1>8
      <3>2. IsIdle(w)' <=> IsIdle(w)
        BY <2>1 DEF IsIdle
      <3> QED BY <1>2, <1>4, <1>5, <2>1, <3>1, <3>2, EventTaken
    <2> QED BY <1>6, <2>1, <2>2 DEF IdleInv, IdleMonitorTypeOK
  <1>9. CASE e.id \in DOMAIN watches /\ removes
    <2>1. watches' = Without(e.id) /\ removedOwn' = removedOwn \cup {e.id} /\ UNCHANGED <<idleTime, watchSerial>>
      BY <1>1, <1>9
    <2>2. /\ IdleMonitorTypeOK' /\ DOMAIN watches' \cap removedOwn' = {}
          /\ DOMAIN watches' = DOMAIN watches \ {e.id}
          /\ \A v \in DOMAIN watches' : watches'[v] = watches[v] /\ (IsIdle(v)' <=> IsIdle(v))
      BY <1>9, <2>1, WithoutKnows
    <2>3. ASSUME NEW w \in DOMAIN watches' PROVE WillKnow(w)'
      <3>1. w \in DOMAIN watches /\ \A f \in Head(alarmEvents) \ rest : f.id # w
        BY <1>3, <2>2
      <3> QED BY <1>2, <1>4, <1>5, <2>2, <3>1, EventTaken
    <2> QED BY <1>6, <2>2, <2>3 DEF IdleInv
  <1>10. CASE e.id \in DOMAIN watches /\ ~removes
    <2>1. watches' = [watches EXCEPT ![e.id].told = e.positive] /\ UNCHANGED <<removedOwn, idleTime, watchSerial>>
      BY <1>1, <1>10
    <2>2. watches \in [DOMAIN watches -> WatchType]
      BY DEF IdleInv, IdleMonitorTypeOK, WatchType
    <2>3. /\ DOMAIN watches' = DOMAIN watches /\ watches' \in [DOMAIN watches' -> WatchType]
          /\ watches'[e.id].told = e.positive
          /\ \A w \in DOMAIN watches \ {e.id} : watches'[w] = watches[w]
          /\ \A w \in DOMAIN watches : watches'[w].interval = watches[w].interval
      BY <1>7, <1>10, <2>1, <2>2 DEF WatchType
    <2>4. ASSUME NEW w \in DOMAIN watches' PROVE WillKnow(w)'
      <3>1. w \in DOMAIN watches /\ (IsIdle(w)' <=> IsIdle(w))
        BY <2>1, <2>3 DEF IsIdle
      <3>2. CASE w = e.id
        BY <1>2, <1>3, <1>4, <1>5, <2>3, <3>1, <3>2, EventTaken
      <3>3. CASE w # e.id
        <4>1. \A f \in Head(alarmEvents) \ rest : f.id # w
          BY <1>3, <3>3
        <4> QED BY <1>2, <1>4, <1>5, <2>3, <3>1, <3>3, <4>1, EventTaken
      <3> QED BY <3>2, <3>3
    <2> QED BY <1>6, <2>1, <2>3, <2>4 DEF IdleInv, IdleMonitorTypeOK, WatchType
  <1> QED BY <1>8, <1>9, <1>10

\* An empty set of events goes.
LEMMA NothingLeftStep ==
  ASSUME IdleInv, NothingLeft
  PROVE  IdleInv'
  <1>1. /\ alarmEvents # <<>> /\ Head(alarmEvents) = {} /\ alarmEvents' = Tail(alarmEvents)
        /\ UNCHANGED <<idleTime, watchSerial, watches, removedOwn>>
    BY DEF NothingLeft
  <1>2. PICK rest : rest = {}
    OBVIOUS
  <1>3. rest \in SUBSET Head(alarmEvents)
    BY <1>2
  <1>4. alarmEvents' = IF rest = {} THEN Tail(alarmEvents) ELSE <<rest>> \o Tail(alarmEvents)
    BY <1>1, <1>2
  <1>5. alarmEvents' \in Seq(SUBSET [id : 1 .. MaxSerial, positive : BOOLEAN])
    BY <1>1, <1>3, <1>4, EventsLeft
  <1>6. ASSUME NEW w \in DOMAIN watches PROVE WillKnow(w)'
    <2>1. (IsIdle(w)' <=> IsIdle(w)) /\ watches'[w] = watches[w] /\ \A f \in Head(alarmEvents) \ rest : f.id # w
      BY <1>1 DEF IsIdle
    <2> QED BY <1>1, <1>3, <1>4, <2>1, EventTaken
  <1> QED BY <1>1, <1>5, <1>6 DEF IdleInv, IdleMonitorTypeOK

\* Every step of the idle monitor keeps the invariant.
LEMMA IdleStep == IdleInv /\ [IdleMonitorNext]_idleMonitorVars => IdleInv'
  <1> SUFFICES ASSUME IdleInv, [IdleMonitorNext]_idleMonitorVars PROVE IdleInv'
    OBVIOUS
  <1>1. CASE UNCHANGED idleMonitorVars
    BY <1>1 DEF idleMonitorVars, IdleInv, IdleMonitorTypeOK, WillKnow, NoneAt, IsIdle
  <1> QED BY <1>1, CounterStep, AddWatchStep, RemoveWatchStep, AlarmNotifyStep, NothingLeftStep DEF IdleMonitorNext

\* When all the events have come, every watch has been told.
LEMMA IdleKnows == IdleInv => IdleMonitorTypeOK /\ WatchersKnow
  <1> SUFFICES ASSUME IdleInv PROVE IdleMonitorTypeOK /\ WatchersKnow
    OBVIOUS
  <1>1. ASSUME alarmEvents = <<>>, NEW w \in DOMAIN watches PROVE watches[w].told = IsIdle(w)
    <2>1. watches[w].told <=> IsIdle(w)
      BY <1>1 DEF IdleInv, WillKnow
    <2>2. watches[w].told \in BOOLEAN
      BY DEF IdleInv, IdleMonitorTypeOK
    <2> QED BY <2>1, <2>2 DEF IsIdle
  <1> QED BY <1>1 DEF IdleInv, WatchersKnow

-----------------------------------------------------------------------------
\* Of the work at leisure and the idle time, the one that runs keeps its invariant.
TimeInv == (part = "leisure" => LeisureInv) /\ (part = "idle" => IdleInv)

\* The part that runs stays the same, and only that part takes steps.
LEMMA TimePartRuns ==
  ASSUME [NativeNext]_nativeVars
  PROVE  /\ part' = part
         /\ part = "leisure" => [LeisureNext]_leisureVars
         /\ part = "idle" => [IdleMonitorNext]_idleMonitorVars
  <1>1. CASE UNCHANGED nativeVars
    BY <1>1 DEF nativeVars, appPartsVars, mediaVars, sessionVars, innerVars, perfVars, leisureVars
  <1>2. CASE LeisurePart
    BY <1>2 DEF LeisurePart
  <1>3. CASE IdlePart
    BY <1>3 DEF IdlePart
  <1>4. CASE NativeNext /\ ~(LeisurePart \/ IdlePart)
    <2>1. part' = part /\ part \notin {"leisure", "idle"}
      BY <1>4 DEF NativeNext, AppsPart, OrderPart, MenuPart, UsagePart, RecorderPart, CapturePart, TexturesPart,
         MixerPart, SoundPart, AgentPart, TrayPart, CalendarPart, LogPart, ExtensionsPart, MobilePart, AutorunPart,
         SearchPart
    <2> QED BY <2>1
  <1> QED BY <1>1, <1>2, <1>3, <1>4

\* Work at leisure is started, and the watches know of the idle time (TimeIsKept), for any
\* functions, intervals and bounds.
THEOREM NativeTimeIsKept == NativeSpec => []TimeIsKept
  <1>1. NativeInit => TimeInv
    BY LeisureStart, IdleStart DEF NativeInit, TimeInv
  <1>2. TimeInv /\ [NativeNext]_nativeVars => TimeInv'
    BY TimePartRuns, LeisureStep, IdleStep DEF TimeInv
  <1>3. TimeInv => TimeIsKept
    BY IdleKnows DEF TimeInv, TimeIsKept, LeisureInv
  <1> QED BY <1>1, <1>2, <1>3, PTL DEF NativeSpec
=============================================================================
