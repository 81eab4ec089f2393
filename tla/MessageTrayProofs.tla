------------------------- MODULE MessageTrayProofs --------------------------
(***************************************************************************)
(* Theorems about the message tray, for any notifications and sources.     *)
(* They are about the tray whose handlers call the fourth level of         *)
(* _updateState(): each level keeps the contract of TrayProofs if the one  *)
(* below keeps it, and the levels are never used up, so that this is the   *)
(* _updateState() that calls itself.                                       *)
(***************************************************************************)
EXTENDS MessageTrayMC, TrayProofs

-----------------------------------------------------------------------------
(* Each level of _updateState() keeps the contract if what it calls keeps    *)
(* it, and calls itself no deeper than its own level.                        *)

\* The last call only notes that it would have been one too many.
LEMMA DeeperKeeps == Innermost!NestedKeeps
  <1>1. ASSUME NEW t, Innermost!Sound(t), ~t.threw, ~t.due
        PROVE  /\ Innermost!Kept(t, Deeper(t)) /\ ~Deeper(t).due
               /\ Deeper(t).deep
    <2> DEFINE u == [t EXCEPT !.deep = TRUE]
    <2>1. Deeper(t) = u BY DEF Deeper
    <2>2. /\ Innermost!Sound(u) /\ Innermost!StatesKept(t, u) /\ Innermost!QueueKept(t, u)
          /\ ~u.due /\ u.deep
      BY <1>1 DEF Innermost!Sound, Innermost!IsTray, Innermost!QueueIsSound,
         Innermost!BoxIsSound, Innermost!StatesKept, Innermost!QueueKept, Innermost!Fields
    <2>3. Innermost!Shallow(t) => t.deep
      BY <1>1, <2>1, <2>2 DEF Innermost!Shallow, Innermost!EverShallow,
         Innermost!HiddenShallow, Innermost!Callable
    <2>4. Innermost!RestKept(t, u)
      BY <1>1, <2>3 DEF Innermost!RestKept, Innermost!Sound, Innermost!IsTray,
         Innermost!Fields
    <2> QED BY <2>1, <2>2, <2>4 DEF Innermost!Kept
  <1> QED BY <1>1 DEF Innermost!NestedKeeps

\* The first level: it calls nothing while the tray is bare.
LEMMA Update1Keeps ==
  ASSUME TrayConstants
  PROVE  Inner!NestedKeeps /\ Inner!BareShallow
  <1>1. Innermost!TrayConstants /\ Innermost!NestedKeeps
    BY DeeperKeeps DEF TrayConstants, Innermost!TrayConstants
  <1>2. \A t : Innermost!Sound(t) <=> Inner!Sound(t)
    BY DEF Innermost!Sound, Inner!Sound, Innermost!IsTray, Inner!IsTray,
       Innermost!QueueIsSound, Inner!QueueIsSound, Innermost!BoxIsSound, Inner!BoxIsSound,
       Innermost!Fields, Inner!Fields, Innermost!Distinct, Inner!Distinct, Innermost!States,
       Inner!States, Innermost!ToSet, Inner!ToSet
  <1>3. ASSUME NEW t, Inner!Sound(t), ~t.threw, ~t.due
        PROVE  /\ Inner!Kept(t, Update1(t)) /\ ~Update1(t).due
               /\ Urgent(t) => Update1(t).sState # "SHOWN"
               /\ Inner!Rested(Update1(t))
    <2> DEFINE u == Update1(t)
    <2>1. u = Innermost!UpdateState(t) BY DEF Update1
    <2> HIDE DEF u
    <2>2. /\ Innermost!Kept(t, u) /\ ~u.due /\ Innermost!Rested(u)
          /\ Innermost!Urgent(t) => u.sState # "SHOWN"
      BY <1>1, <1>2, <1>3, <2>1, Innermost!UpdateStateKept,
         TrayInputAssumption
    <2>3. Inner!Shallow(t) /\ u.deep => t.deep
      BY <1>3 DEF Inner!Shallow, Inner!EverShallow, Inner!HiddenShallow, Inner!Callable, u
    <2>4. Inner!Sound(u) BY <1>2, <2>2 DEF Innermost!Kept
    <2>5. Inner!StatesKept(t, u)
      BY <2>2 DEF Innermost!Kept, Innermost!StatesKept, Inner!StatesKept
    <2>6. Inner!QueueKept(t, u)
      BY <2>2 DEF Innermost!Kept, Innermost!QueueKept, Inner!QueueKept, Innermost!ToSet,
         Inner!ToSet
    <2>7. Inner!RestKept(t, u) BY <2>2, <2>3 DEF Innermost!Kept, Innermost!RestKept,
       Inner!RestKept
    <2> QED BY <2>2, <2>4, <2>5, <2>6, <2>7
          DEF Innermost!Urgent, Urgent, Innermost!Rested, Inner!Rested, Inner!Kept, u
  <1>4. ASSUME NEW t, Inner!Callable(t), t.bState # "SHOWN", ~t.locked
        PROVE  ~Update1(t).deep
    <2>1. Innermost!Callable(t) BY <1>2, <1>4 DEF Innermost!Callable, Inner!Callable
    <2>2. ~Innermost!UpdateState(t).deep BY <1>1, <1>4, <2>1, Innermost!UpdateStateShallow,
         TrayInputAssumption
    <2> QED BY <2>2 DEF Update1
  <1>5. ASSUME NEW t, Inner!Urgent(t) PROVE Urgent(t) BY <1>5 DEF Inner!Urgent, Urgent
  <1> QED BY <1>3, <1>4, <1>5 DEF Inner!NestedKeeps, Inner!BareShallow

\* The second: while no box pointer is SHOWN.
LEMMA Update2Keeps ==
  ASSUME TrayConstants
  PROVE  Outer!NestedKeeps /\ Outer!HiddenShallow
  <1>1. Inner!TrayConstants /\ Inner!NestedKeeps /\ Inner!BareShallow
    BY Update1Keeps DEF TrayConstants, Inner!TrayConstants
  <1>2. \A t : Inner!Sound(t) <=> Outer!Sound(t)
    BY DEF Inner!Sound, Outer!Sound, Inner!IsTray, Outer!IsTray, Inner!QueueIsSound,
       Outer!QueueIsSound, Inner!BoxIsSound, Outer!BoxIsSound, Inner!Fields, Outer!Fields,
       Inner!Distinct, Outer!Distinct, Inner!States, Outer!States, Inner!ToSet, Outer!ToSet
  <1>3. ASSUME NEW t, Outer!Sound(t), ~t.threw, ~t.due
        PROVE  /\ Outer!Kept(t, Update2(t)) /\ ~Update2(t).due
               /\ Urgent(t) => Update2(t).sState # "SHOWN"
               /\ Outer!Rested(Update2(t))
    <2> DEFINE u == Update2(t)
    <2>1. u = Inner!UpdateState(t) BY DEF Update2
    <2> HIDE DEF u
    <2>2. /\ Inner!Kept(t, u) /\ ~u.due /\ Inner!Rested(u)
          /\ Inner!Urgent(t) => u.sState # "SHOWN"
      BY <1>1, <1>2, <1>3, <2>1, Inner!UpdateStateKept,
         TrayInputAssumption
    <2>3. Outer!Shallow(t) /\ u.deep => t.deep
      BY <1>3 DEF Outer!Shallow, Outer!EverShallow, Outer!HiddenShallow, Outer!Callable, u
    <2>4. Outer!Sound(u) BY <1>2, <2>2 DEF Inner!Kept
    <2>5. Outer!StatesKept(t, u) BY <2>2 DEF Inner!Kept, Inner!StatesKept, Outer!StatesKept
    <2>6. Outer!QueueKept(t, u)
      BY <2>2 DEF Inner!Kept, Inner!QueueKept, Outer!QueueKept, Inner!ToSet, Outer!ToSet
    <2>7. Outer!RestKept(t, u) BY <2>2, <2>3 DEF Inner!Kept, Inner!RestKept, Outer!RestKept
    <2> QED BY <2>2, <2>4, <2>5, <2>6, <2>7
          DEF Inner!Urgent, Urgent, Inner!Rested, Outer!Rested, Outer!Kept, u
  <1>4. ASSUME NEW t, Outer!Callable(t), t.bState # "SHOWN"
        PROVE  ~Update2(t).deep
    <2>1. Inner!Callable(t) BY <1>2, <1>4 DEF Inner!Callable, Outer!Callable
    <2>2. ~Inner!UpdateState(t).deep BY <1>1, <1>4, <2>1, Inner!UpdateStateShallow,
         TrayInputAssumption
    <2> QED BY <2>2 DEF Update2
  <1>5. ASSUME NEW t, Outer!Urgent(t) PROVE Urgent(t) BY <1>5 DEF Outer!Urgent, Urgent
  <1> QED BY <1>3, <1>4, <1>5 DEF Outer!NestedKeeps, Outer!HiddenShallow

\* The third: or while the tray is not locked.
LEMMA Update3Keeps ==
  ASSUME TrayConstants
  PROVE  Outermost!NestedKeeps /\ Outermost!NearShallow
  <1>1. Outer!TrayConstants /\ Outer!NestedKeeps /\ Outer!HiddenShallow
    BY Update2Keeps DEF TrayConstants, Outer!TrayConstants
  <1>2. \A t : Outer!Sound(t) <=> Outermost!Sound(t)
    BY DEF Outer!Sound, Outermost!Sound, Outer!IsTray, Outermost!IsTray, Outer!QueueIsSound,
       Outermost!QueueIsSound, Outer!BoxIsSound, Outermost!BoxIsSound, Outer!Fields,
       Outermost!Fields, Outer!Distinct, Outermost!Distinct, Outer!States, Outermost!States,
       Outer!ToSet, Outermost!ToSet
  <1>3. ASSUME NEW t, Outermost!Sound(t), ~t.threw, ~t.due
        PROVE  /\ Outermost!Kept(t, Update3(t)) /\ ~Update3(t).due
               /\ Urgent(t) => Update3(t).sState # "SHOWN"
               /\ Outermost!Rested(Update3(t))
    <2> DEFINE u == Update3(t)
    <2>1. u = Outer!UpdateState(t) BY DEF Update3
    <2> HIDE DEF u
    <2>2. /\ Outer!Kept(t, u) /\ ~u.due /\ Outer!Rested(u)
          /\ Outer!Urgent(t) => u.sState # "SHOWN"
      BY <1>1, <1>2, <1>3, <2>1, Outer!UpdateStateKept,
         TrayInputAssumption
    <2>3. Outermost!Shallow(t) /\ u.deep => t.deep
      BY <1>3 DEF Outermost!Shallow, Outermost!EverShallow, Outermost!HiddenShallow,
         Outermost!Callable, u
    <2>4. Outermost!Sound(u) BY <1>2, <2>2 DEF Outer!Kept
    <2>5. Outermost!StatesKept(t, u)
      BY <2>2 DEF Outer!Kept, Outer!StatesKept, Outermost!StatesKept
    <2>6. Outermost!QueueKept(t, u)
      BY <2>2 DEF Outer!Kept, Outer!QueueKept, Outermost!QueueKept, Outer!ToSet,
         Outermost!ToSet
    <2>7. Outermost!RestKept(t, u)
      BY <2>2, <2>3 DEF Outer!Kept, Outer!RestKept, Outermost!RestKept
    <2> QED BY <2>2, <2>4, <2>5, <2>6, <2>7
          DEF Outer!Urgent, Urgent, Outer!Rested, Outermost!Rested, Outermost!Kept, u
  <1>4. ASSUME NEW t, Outermost!Callable(t), t.bState # "SHOWN" \/ ~t.locked
        PROVE  ~Update3(t).deep
    <2>1. Outer!Callable(t) BY <1>2, <1>4 DEF Outer!Callable, Outermost!Callable
    <2>3. Outer!BareShallow BY <1>1 DEF Outer!HiddenShallow, Outer!BareShallow
    <2>2. ~Outer!UpdateState(t).deep BY <1>1, <1>4, <2>1, <2>3, Outer!UpdateStateShallow,
         TrayInputAssumption
    <2> QED BY <2>2 DEF Update3
  <1>5. ASSUME NEW t, Outermost!Urgent(t) PROVE Urgent(t)
    BY <1>5 DEF Outermost!Urgent, Urgent
  <1> QED BY <1>3, <1>4, <1>5 DEF Outermost!NestedKeeps, Outermost!NearShallow

\* The fourth: whatever it finds.
LEMMA NestedIsSettled ==
  ASSUME TrayConstants, \A t : Nested(t) = Update4(t)
  PROVE  NestedSettles
  <1>1. Outermost!TrayConstants /\ Outermost!NestedKeeps /\ Outermost!NearShallow
    BY Update3Keeps DEF TrayConstants, Outermost!TrayConstants
  <1>2. \A t : Outermost!Sound(t) <=> Sound(t)
    BY DEF Outermost!Sound, Sound, Outermost!IsTray, IsTray, Outermost!QueueIsSound,
       QueueIsSound, Outermost!BoxIsSound, BoxIsSound, Outermost!Fields, Fields,
       Outermost!Distinct, Distinct, Outermost!States, States, Outermost!ToSet, ToSet
  <1>3. ASSUME NEW t, Sound(t), ~t.threw, ~t.due
        PROVE  /\ Kept(t, Nested(t)) /\ ~Nested(t).due
               /\ Urgent(t) => Nested(t).sState # "SHOWN"
               /\ Rested(Nested(t))
    <2> DEFINE u == Nested(t)
    <2>1. u = Outermost!UpdateState(t) BY DEF Update4
    <2> HIDE DEF u
    <2>2. /\ Outermost!Kept(t, u) /\ ~u.due /\ Outermost!Rested(u)
          /\ Outermost!Urgent(t) => u.sState # "SHOWN"
      BY <1>1, <1>2, <1>3, <2>1, Outermost!UpdateStateKept,
         TrayInputAssumption
    <2>3. Shallow(t) /\ u.deep => t.deep
      BY <1>3 DEF Shallow, EverShallow, HiddenShallow, Callable, u
    <2>4. Sound(u) BY <1>2, <2>2 DEF Outermost!Kept
    <2>5. StatesKept(t, u) BY <2>2 DEF Outermost!Kept, Outermost!StatesKept, StatesKept
    <2>6. QueueKept(t, u) BY <2>2 DEF Outermost!Kept, Outermost!QueueKept, QueueKept,
       Outermost!ToSet, ToSet
    <2>7. RestKept(t, u) BY <2>2, <2>3 DEF Outermost!Kept, Outermost!RestKept, RestKept
    <2> QED BY <2>2, <2>4, <2>5, <2>6, <2>7
          DEF Outermost!Urgent, Urgent, Outermost!Rested, Rested, Kept, u
  <1>4. ASSUME NEW t, Callable(t)
        PROVE  ~Nested(t).deep
    <2>1. Outermost!Callable(t) BY <1>2, <1>4 DEF Outermost!Callable, Callable
    <2>2. ~Outermost!UpdateState(t).deep BY <1>1, <1>4, <2>1, Outermost!UpdateStateShallow,
         TrayInputAssumption
    <2> QED BY <2>2 DEF Update4
  <1> QED BY <1>3, <1>4 DEF NestedSettles, NestedKeeps, EverShallow

-----------------------------------------------------------------------------
(* What the tray promises.                                                   *)

\* Whatever happens, the inductive invariant holds.
THEOREM TrayIsSound ==
  ASSUME \A t : Nested(t) = Update4(t)
  PROVE  Spec => []TrayInv
  <1>1. NestedSettles BY NestedIsSettled, TrayAssumption
  <1>2. TrayInit => TrayInv BY InitInv
  <1>3. TrayInv /\ [Next]_vars => TrayInv' BY <1>1, StepInv
  <1> QED BY <1>2, <1>3, PTL DEF Spec

\* For any notifications and sources: notification and summary take turns,
\* the queue repeats nothing, and what is shown is not queued; no exception
\* outlives its handler.
THEOREM NoticesTakeTurnsAlways ==
  ASSUME \A t : Nested(t) = Update4(t)
  PROVE  Spec => []NoticesTakeTurns
  <1>1. Spec => []TrayInv BY TrayIsSound
  <1>2. TrayInv => NoticesTakeTurns BY InvSays
  <1> QED BY <1>1, <1>2, PTL

\* The box pointer stays over the summary, its lock is the one of a focus,
\* and it gives its stack back.
THEOREM BoxHoldsTrayAlways ==
  ASSUME \A t : Nested(t) = Update4(t)
  PROVE  Spec => []BoxHoldsTray
  <1>1. Spec => []TrayInv BY TrayIsSound
  <1>2. TrayInv => BoxHoldsTray BY InvSays
  <1> QED BY <1>1, <1>2, PTL

\* _updateState() never calls itself a fifth time: the levels above are all
\* that the code can reach, whatever the tray holds.
THEOREM NeverDeep ==
  ASSUME \A t : Nested(t) = Update4(t)
  PROVE  Spec => []~tray.deep
  <1>1. Spec => []TrayInv BY TrayIsSound
  <1>2. TrayInv => ~tray.deep BY InvSays
  <1> QED BY <1>1, <1>2, PTL

\* What was closed or muted does not come back into the queue, unless it was
\* put aside while a box pointer was hiding.
THEOREM WithdrawnStaysOut ==
  ASSUME \A t : Nested(t) = Update4(t)
  PROVE  Spec => WithdrawnNotQueued
  <1>1. NestedSettles BY NestedIsSettled, TrayAssumption
  <1>2. Spec => []TrayInv BY TrayIsSound
  <1>3. TrayInv /\ [Next]_vars => [StaysOut(Closed) /\ StaysOut(Muted)]_vars
    BY <1>1, StepInv, StepSays
  <1> QED BY <1>2, <1>3, PTL DEF Spec, WithdrawnNotQueued

\* A busy user sees only what is critical, and what is critical sends the
\* summary away when it comes.
THEOREM BusyShowsUrgentOnly ==
  ASSUME \A t : Nested(t) = Update4(t)
  PROVE  Spec => BusyShowsUrgent
  <1>1. NestedSettles BY NestedIsSettled, TrayAssumption
  <1>2. Spec => []TrayInv BY TrayIsSound
  <1>3. TrayInv /\ [Next]_vars => [OnlyUrgentPopsUp /\ UrgentHidesSummary]_vars
    BY <1>1, StepInv, StepSays
  <1> QED BY <1>2, <1>3, PTL DEF Spec, BusyShowsUrgent
=============================================================================
